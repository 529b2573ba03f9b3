--------------------------- MODULE ReleaseProofs ---------------------------
(***************************************************************************)
(* What release.sh promises, for any releases and any number of scripts,   *)
(* each of which may fail or be killed at any command.                     *)
(*                                                                         *)
(* The three promises speak of a host on which no script runs.  They rest  *)
(* on how far a script has come: an apply that touched the host has saved  *)
(* it whole (Saved), and each command puts one more part in place          *)
(* (Applying, Restoring).  A backup outlives the deployment that made it,  *)
(* for the rollback that may follow.                                       *)
(***************************************************************************)
EXTENDS Release, TLAPS

BackupCommands == {"save_config", "save_versions", "save_current"}

InstallCommands ==
  {"install_compose", "copy_deploy", "set_versions", "up", "probe", "record"}

RestoreCommands ==
  {"restore_config", "restore_versions", "up", "probe", "restore_current"}

(* The script is at a command of its own.                                  *)
InItsPlace ==
  /\ script.mode = "none" <=> script.at = "idle"
  /\ script.mode = "apply" =>
       script.at \in BackupCommands \cup InstallCommands /\ script.new \in Version
  /\ script.mode \in {"cleanup", "rollback"} => script.at \in RestoreCommands

FilesSaved(h) ==
  /\ previous.archive = "whole"
  /\ previous.compose = h.compose /\ previous.deploy = h.deploy

Saved(h) ==
  /\ FilesSaved(h)
  /\ previous.env = h.env
  /\ previous.current = IF h.current = Null THEN h.env ELSE h.current

Applying ==
  /\ script.at \in BackupCommands => host = before
  /\ script.at \in {"save_versions", "save_current"} => FilesSaved(before)
  /\ script.at = "save_current" => previous.env = before.env
  /\ script.at \in InstallCommands => Saved(before)
  /\ script.at \in InstallCommands \ {"install_compose"} => host.compose = script.new
  /\ script.at \in {"set_versions", "up", "probe", "record"} => host.deploy = script.new
  /\ script.at \in {"up", "probe", "record"} => host.env = script.new
  /\ script.at \in {"probe", "record"} => host.running = Configured

Restoring(h) ==
  /\ Saved(h)
  /\ script.at \in RestoreCommands \ {"restore_config"} =>
       host.compose = h.compose /\ host.deploy = h.deploy
  /\ script.at \in {"up", "probe", "restore_current"} => host.env = h.env
  /\ script.at \in {"probe", "restore_current"} => host.running = Configured

Underway ==
  /\ script.mode = "apply" => Applying
  /\ script.mode = "cleanup" => Restoring(before)
  /\ script.mode = "rollback" /\ target # Null => Restoring(target)
  /\ script.mode = "none" /\ last = "deployed" => Saved(before)

Promises ==
  DeployedIsWhole /\ FailureChangesNothing /\ RollbackUndoesTheDeployment

(* An archive, cut short or not, has something of both.                    *)
ArchiveHasFiles ==
  previous.archive # "absent" => previous.compose \in Content /\ previous.deploy \in Content

IInv == TypeOK /\ ArchiveHasFiles /\ InItsPlace /\ Underway /\ Promises

LEMMA InitIInv == Init => IInv
<1>. SUFFICES ASSUME Init PROVE IInv
  OBVIOUS
<1>1. TypeOK
  BY ReleaseAssumption
    DEF Init, TypeOK, Host, Backup, Content, NoScript, Commands, Ending
<1>2. ArchiveHasFiles /\ InItsPlace /\ Underway
  BY DEF Init, NoScript, ArchiveHasFiles, InItsPlace, Underway
<1>3. Promises
  BY DEF Init, Promises, DeployedIsWhole, FailureChangesNothing, RollbackUndoesTheDeployment
<1>4. QED
  BY <1>1, <1>2, <1>3 DEF IInv

(* A command that is cut leaves files that a host, or a backup, may have,  *)
(* and touches a backup only while it is being written.                    *)
LEMMA DamageIsBounded ==
  ASSUME TypeOK, ArchiveHasFiles, Damage
  PROVE  host' \in Host /\ previous' \in Backup
<1>. USE DEF TypeOK, ArchiveHasFiles, Host, Backup, Content
<1>1. CASE UNCHANGED <<host, previous>>
  BY <1>1
<1>2. CASE At("up") /\ host.compose # Torn /\ host' = [host EXCEPT !.running = Configured]
           /\ UNCHANGED previous
  BY <1>2 DEF Configured
<1>3. CASE previous.archive # "absent" /\ UNCHANGED previous
           /\ \E c \in {host.compose, previous.compose, Torn}, d \in {previous.deploy, Torn} :
                host' = [host EXCEPT !.compose = c, !.deploy = d]
  BY <1>3
<1>4. CASE UNCHANGED previous /\ (\/ host' = [host EXCEPT !.compose = Torn]
                                 \/ host' = [host EXCEPT !.deploy = Torn]
                                 \/ host' = [host EXCEPT !.current = Torn])
  BY <1>4
<1>5. CASE UNCHANGED host
           /\ (\/ previous' = [previous EXCEPT !.archive = "cut", !.compose = Torn,
                                               !.deploy = Torn]
               \/ previous' = [previous EXCEPT !.env = Torn]
               \/ previous' = [previous EXCEPT !.current = Torn])
  BY <1>5
<1>6. QED
  BY <1>1, <1>2, <1>3, <1>4, <1>5 DEF Damage

LEMMA TypeKept ==
  ASSUME TypeOK, ArchiveHasFiles, InItsPlace, Next
  PROVE  TypeOK'
<1>. USE DEF TypeOK, Host, Backup, Content, Commands, Ending, At, Goto, End, Step, NoScript
<1>1. CASE \E v \in Version : StartApply(v)
  BY <1>1, ReleaseAssumption DEF StartApply
<1>2. CASE StartRollback
  BY <1>2, ReleaseAssumption DEF StartRollback
<1>3. CASE SaveConfig
  BY <1>3 DEF SaveConfig
<1>4. CASE SaveVersions
  BY <1>4 DEF SaveVersions
<1>5. CASE SaveCurrent
  BY <1>5 DEF SaveCurrent
<1>6. CASE InstallCompose
  BY <1>6 DEF InstallCompose, InItsPlace, BackupCommands, InstallCommands, RestoreCommands
<1>7. CASE CopyDeploy
  BY <1>7 DEF CopyDeploy, InItsPlace, BackupCommands, InstallCommands, RestoreCommands
<1>8. CASE SetVersions
  BY <1>8 DEF SetVersions, InItsPlace, BackupCommands, InstallCommands, RestoreCommands
<1>9. CASE Up
  BY <1>9 DEF Up, Configured
<1>10. CASE Probe
  BY <1>10 DEF Probe
<1>11. CASE Record
  BY <1>11 DEF Record, InItsPlace, BackupCommands, InstallCommands, RestoreCommands
<1>12. CASE RestoreConfig
  <2>1. previous.compose \in Content /\ previous.deploy \in Content
    BY <1>12 DEF RestoreConfig, ArchiveHasFiles
  <2>2. host' = [host EXCEPT !.compose = previous.compose, !.deploy = previous.deploy]
        /\ script' = [script EXCEPT !.at = "restore_versions"]
        /\ UNCHANGED <<previous, last, before, runs>>
    BY <1>12 DEF RestoreConfig
  <2>3. host' \in Host
    BY <2>1, <2>2
  <2>4. QED
    BY <2>2, <2>3
<1>13. CASE RestoreVersions
  BY <1>13 DEF RestoreVersions
<1>14. CASE RestoreCurrent
  BY <1>14 DEF RestoreCurrent
<1>15. CASE Abort
  BY <1>15, DamageIsBounded DEF Abort
<1>16. CASE GiveUp
  BY <1>16, DamageIsBounded DEF GiveUp, InItsPlace
<1>17. CASE Kill
  BY <1>17, DamageIsBounded DEF Kill
<1>18. QED
  BY <1>1, <1>2, <1>3, <1>4, <1>5, <1>6, <1>7, <1>8, <1>9,
     <1>10, <1>11, <1>12, <1>13, <1>14, <1>15, <1>16, <1>17
     DEF Next, Command

LEMMA ArchiveKept ==
  ASSUME TypeOK, ArchiveHasFiles, InItsPlace, Next
  PROVE  ArchiveHasFiles'
<1>. USE DEF TypeOK, ArchiveHasFiles, Host, Backup, Content, Step
<1>1. CASE \E v \in Version : StartApply(v)
  BY <1>1 DEF StartApply
<1>2. CASE StartRollback
  BY <1>2 DEF StartRollback
<1>3. CASE SaveConfig
  BY <1>3 DEF SaveConfig
<1>4. CASE SaveVersions
  BY <1>4 DEF SaveVersions
<1>5. CASE SaveCurrent
  BY <1>5 DEF SaveCurrent
<1>6. CASE InstallCompose
  BY <1>6 DEF InstallCompose
<1>7. CASE CopyDeploy
  BY <1>7 DEF CopyDeploy
<1>8. CASE SetVersions
  BY <1>8 DEF SetVersions
<1>9. CASE Up
  BY <1>9 DEF Up
<1>10. CASE Probe
  BY <1>10 DEF Probe
<1>11. CASE Record
  BY <1>11 DEF Record
<1>12. CASE RestoreConfig
  BY <1>12 DEF RestoreConfig
<1>13. CASE RestoreVersions
  BY <1>13 DEF RestoreVersions
<1>14. CASE RestoreCurrent
  BY <1>14 DEF RestoreCurrent
<1>15. CASE Abort
  BY <1>15 DEF Abort, Damage, Configured
<1>16. CASE GiveUp
  BY <1>16 DEF GiveUp, Damage, Configured
<1>17. CASE Kill
  BY <1>17 DEF Kill, Damage, Configured
<1>18. QED
  BY <1>1, <1>2, <1>3, <1>4, <1>5, <1>6, <1>7, <1>8, <1>9,
     <1>10, <1>11, <1>12, <1>13, <1>14, <1>15, <1>16, <1>17
     DEF Next, Command

LEMMA PlaceKept ==
  ASSUME TypeOK, InItsPlace, Next
  PROVE  InItsPlace'
<1>. USE DEF TypeOK, InItsPlace, BackupCommands, InstallCommands, RestoreCommands, Goto, At,
           End, NoScript, Step
<1>1. CASE \E v \in Version : StartApply(v)
  BY <1>1 DEF StartApply
<1>2. CASE StartRollback
  BY <1>2 DEF StartRollback
<1>3. CASE SaveConfig
  BY <1>3 DEF SaveConfig
<1>4. CASE SaveVersions
  BY <1>4 DEF SaveVersions
<1>5. CASE SaveCurrent
  BY <1>5 DEF SaveCurrent
<1>6. CASE InstallCompose
  BY <1>6 DEF InstallCompose
<1>7. CASE CopyDeploy
  BY <1>7 DEF CopyDeploy
<1>8. CASE SetVersions
  BY <1>8 DEF SetVersions
<1>9. CASE Up
  BY <1>9 DEF Up
<1>10. CASE Probe
  BY <1>10 DEF Probe
<1>11. CASE Record
  BY <1>11 DEF Record
<1>12. CASE RestoreConfig
  BY <1>12 DEF RestoreConfig
<1>13. CASE RestoreVersions
  BY <1>13 DEF RestoreVersions
<1>14. CASE RestoreCurrent
  BY <1>14 DEF RestoreCurrent
<1>15. CASE Abort
  BY <1>15 DEF Abort, Mutated
<1>16. CASE GiveUp
  BY <1>16 DEF GiveUp
<1>17. CASE Kill
  BY <1>17 DEF Kill
<1>18. QED
  BY <1>1, <1>2, <1>3, <1>4, <1>5, <1>6, <1>7, <1>8, <1>9,
     <1>10, <1>11, <1>12, <1>13, <1>14, <1>15, <1>16, <1>17
     DEF Next, Command

LEMMA UnderwayKept ==
  ASSUME TypeOK, InItsPlace, Underway, Promises, Next
  PROVE  Underway'
<1>. USE DEF TypeOK, Host, Backup, Content, At, Goto, End, Step, NoScript, InItsPlace, Underway,
           Applying, Restoring, Saved, FilesSaved, BackupCommands, InstallCommands,
           RestoreCommands, Configured
<1>1. CASE \E v \in Version : StartApply(v)
  BY <1>1 DEF StartApply
<1>2. CASE StartRollback
  BY <1>2 DEF StartRollback
<1>3. CASE SaveConfig
  BY <1>3 DEF SaveConfig
<1>4. CASE SaveVersions
  BY <1>4 DEF SaveVersions
<1>5. CASE SaveCurrent
  BY <1>5 DEF SaveCurrent
<1>6. CASE InstallCompose
  BY <1>6 DEF InstallCompose
<1>7. CASE CopyDeploy
  BY <1>7 DEF CopyDeploy
<1>8. CASE SetVersions
  BY <1>8 DEF SetVersions
<1>9. CASE Up
  BY <1>9 DEF Up
<1>10. CASE Probe
  BY <1>10 DEF Probe
<1>11. CASE Record
  BY <1>11 DEF Record
<1>12. CASE RestoreConfig
  BY <1>12 DEF RestoreConfig
<1>13. CASE RestoreVersions
  BY <1>13 DEF RestoreVersions
<1>14. CASE RestoreCurrent
  BY <1>14 DEF RestoreCurrent
<1>15. CASE Abort
  BY <1>15 DEF Abort, Mutated, Damage
<1>16. CASE GiveUp
  BY <1>16 DEF GiveUp, Damage, Mutated
<1>17. CASE Kill
  BY <1>17 DEF Kill, Damage
<1>18. QED
  BY <1>1, <1>2, <1>3, <1>4, <1>5, <1>6, <1>7, <1>8, <1>9,
     <1>10, <1>11, <1>12, <1>13, <1>14, <1>15, <1>16, <1>17
     DEF Next, Command

LEMMA PromisesKept ==
  ASSUME TypeOK, InItsPlace, Underway, Promises, Next
  PROVE  Promises'
<1>. USE DEF TypeOK, Host, Backup, Content, At, Goto, End, Step, NoScript, InItsPlace, Underway,
           Applying, Restoring, Saved, FilesSaved, BackupCommands, InstallCommands,
           RestoreCommands, Configured, Promises, DeployedIsWhole, FailureChangesNothing,
           RollbackUndoesTheDeployment, Files, WholeOf
<1>1. CASE \E v \in Version : StartApply(v)
  BY <1>1 DEF StartApply
<1>2. CASE StartRollback
  BY <1>2 DEF StartRollback
<1>3. CASE SaveConfig
  BY <1>3 DEF SaveConfig
<1>4. CASE SaveVersions
  BY <1>4 DEF SaveVersions
<1>5. CASE SaveCurrent
  BY <1>5 DEF SaveCurrent
<1>6. CASE InstallCompose
  BY <1>6 DEF InstallCompose
<1>7. CASE CopyDeploy
  BY <1>7 DEF CopyDeploy
<1>8. CASE SetVersions
  BY <1>8 DEF SetVersions
<1>9. CASE Up
  BY <1>9 DEF Up
<1>10. CASE Probe
  BY <1>10 DEF Probe
<1>11. CASE Record
  BY <1>11 DEF Record
<1>12. CASE RestoreConfig
  BY <1>12 DEF RestoreConfig
<1>13. CASE RestoreVersions
  BY <1>13 DEF RestoreVersions
<1>14. CASE RestoreCurrent
  BY <1>14 DEF RestoreCurrent
<1>15. CASE Abort
  BY <1>15 DEF Abort, Mutated
<1>16. CASE GiveUp
  BY <1>16 DEF GiveUp, Damage, Mutated
<1>17. CASE Kill
  BY <1>17 DEF Kill
<1>18. QED
  BY <1>1, <1>2, <1>3, <1>4, <1>5, <1>6, <1>7, <1>8, <1>9,
     <1>10, <1>11, <1>12, <1>13, <1>14, <1>15, <1>16, <1>17
     DEF Next, Command

LEMMA NextIInv == IInv /\ [Next]_vars => IInv'
<1>. SUFFICES ASSUME IInv, [Next]_vars PROVE IInv'
  OBVIOUS
<1>1. CASE Next
  BY <1>1, TypeKept, ArchiveKept, PlaceKept, UnderwayKept, PromisesKept DEF IInv
<1>2. CASE UNCHANGED vars
  BY <1>2 DEF vars, IInv, TypeOK, ArchiveHasFiles, InItsPlace, Underway, Applying, Restoring,
              Saved, FilesSaved, Configured, Promises, DeployedIsWhole,
              FailureChangesNothing, RollbackUndoesTheDeployment, Files, WholeOf, At
<1>3. QED
  BY <1>1, <1>2

LEMMA Invariant == Spec => []IInv
BY InitIInv, NextIInv, PTL DEF Spec

(* A host only ever runs, and is configured for, a version that was       *)
(* released, however many writes are cut.                                  *)
THEOREM ReleaseType == Spec => []TypeOK
<1>1. IInv => TypeOK
  BY DEF IInv
<1>2. QED
  BY <1>1, Invariant, PTL

(* A script that says it deployed has put every part in place.             *)
THEOREM WholeWhenDeployed == Spec => []DeployedIsWhole
<1>1. IInv => DeployedIsWhole
  BY DEF IInv, Promises
<1>2. QED
  BY <1>1, Invariant, PTL

(* A deployment that fails and says it restored, or had not begun, leaves  *)
(* the host as it found it.                                                *)
THEOREM FailureIsHarmless == Spec => []FailureChangesNothing
<1>1. IInv => FailureChangesNothing
  BY DEF IInv, Promises
<1>2. QED
  BY <1>1, Invariant, PTL

(* A rollback right after a deployment undoes it.                          *)
THEOREM RollbackUndoes == Spec => []RollbackUndoesTheDeployment
<1>1. IInv => RollbackUndoesTheDeployment
  BY DEF IInv, Promises
<1>2. QED
  BY <1>1, Invariant, PTL
=============================================================================
