------------------------------ MODULE Release ------------------------------
(***************************************************************************)
(* deploy/release.sh: apply and rollback of a version on the host.  The    *)
(* script runs command by command under set -e; a command that fails, or a *)
(* signal, ends it through the EXIT trap, which restores what was backed   *)
(* up if the host had been touched.  A second signal ends the restoration  *)
(* too, and SIGKILL or a reboot runs no trap at all.                       *)
(*                                                                         *)
(* Files are known by the version they come from; what a write that did    *)
(* not end leaves is Torn.  flock lets one script run at a time.  The ETL  *)
(* branches (app is mira-api here) and files that only the new version has *)
(* (cp and tar never delete) are left out.                                 *)
(***************************************************************************)
EXTENDS Integers

CONSTANTS
  Version,     \* releases, each an image with its compose.yaml and deploy/
  First,       \* the one the host starts with
  Torn,        \* content of a file whose write was cut
  Null,        \* no such file
  MaxRuns      \* bound: scripts started

ASSUME ReleaseAssumption ==
  /\ First \in Version
  /\ Torn \notin Version /\ Null \notin Version /\ Torn # Null
  /\ MaxRuns \in Nat

VARIABLES
  host,      \* compose.yaml, deploy/, the version fields of .env.digitalocean,
             \* the container that runs, and current.txt
  previous,  \* $state/previous: config.tar (absent, cut or whole, and the files
             \* in it), versions.json, current.txt
  script,    \* the script that runs: its mode, its next command, its version
  last,      \* how the last script ended
  before,    \* history: the host when that script began
  target,    \* history: the host before the deployment a rollback undoes
  runs       \* bounded by MaxRuns

vars == <<host, previous, script, last, before, target, runs>>

Content == Version \cup {Torn}

NoScript == [mode |-> "none", at |-> "idle", new |-> Null]

Init ==
  /\ \E recorded \in {First, Null} :
       host = [compose |-> First, deploy |-> First, env |-> First,
               running |-> [compose |-> First, image |-> First], current |-> recorded]
  /\ previous = [archive |-> "absent", compose |-> Null, deploy |-> Null,
                  env |-> Null, current |-> Null]
  /\ script = NoScript
  /\ last = "none"
  /\ before = host
  /\ target = Null
  /\ runs = 0

At(command) == script.at = command

Goto(command) == script' = [script EXCEPT !.at = command]

End(how) == script' = NoScript /\ last' = how

(* flock is had: docker login, pull and tag, which leave the host alone.   *)
StartApply(v) ==
  /\ At("idle") /\ runs < MaxRuns
  /\ script' = [mode |-> "apply", at |-> "save_config", new |-> v]
  /\ before' = host
  /\ target' = Null
  /\ runs' = runs + 1
  /\ UNCHANGED <<host, previous, last>>

StartRollback ==
  /\ At("idle") /\ runs < MaxRuns
  /\ script' = [mode |-> "rollback", at |-> "restore_config", new |-> Null]
  /\ target' = IF last = "deployed" THEN before ELSE Null
  /\ before' = host
  /\ runs' = runs + 1
  /\ UNCHANGED <<host, previous, last>>

Step == UNCHANGED <<last, before, target, runs>>

(* A slip: the archive of an earlier deployment is kept.                   *)
SaveConfigOnce ==
  /\ At("save_config")
  /\ previous' = IF previous.archive = "whole" THEN previous
                 ELSE [previous EXCEPT !.archive = "whole", !.compose = host.compose,
                                       !.deploy = host.deploy]
  /\ Goto("save_versions")
  /\ Step /\ UNCHANGED host

(* The backup, file by file, over the one of the last deployment.          *)
SaveConfig ==
  /\ At("save_config")
  /\ previous' = [previous EXCEPT !.archive = "whole", !.compose = host.compose,
                                  !.deploy = host.deploy]
  /\ Goto("save_versions")
  /\ Step /\ UNCHANGED host

SaveVersions ==
  /\ At("save_versions")
  /\ previous' = [previous EXCEPT !.env = host.env]
  /\ Goto("save_current")
  /\ Step /\ UNCHANGED host

(* Without a current.txt, the images of the compose file, if compose can   *)
(* read it.  mutated=1.                                                    *)
SaveCurrent ==
  /\ At("save_current")
  /\ host.current = Null => host.compose # Torn
  /\ previous' = [previous EXCEPT !.current =
                    IF host.current = Null THEN host.env ELSE host.current]
  /\ Goto("install_compose")
  /\ Step /\ UNCHANGED host

InstallCompose ==
  /\ At("install_compose")
  /\ host' = [host EXCEPT !.compose = script.new]
  /\ Goto("copy_deploy")
  /\ Step /\ UNCHANGED previous

CopyDeploy ==
  /\ At("copy_deploy")
  /\ host' = [host EXCEPT !.deploy = script.new]
  /\ Goto("set_versions")
  /\ Step /\ UNCHANGED previous

SetVersions ==
  /\ At("set_versions")
  /\ host' = [host EXCEPT !.env = script.new]
  /\ Goto("up")
  /\ Step /\ UNCHANGED previous

Configured == [compose |-> host.compose, image |-> host.env]

(* A slip: without "|| return", what up says is not heard; curl finds the  *)
(* old container in good health.                                           *)
UpUnheard ==
  /\ At("up")
  /\ \/ host' = [host EXCEPT !.running = Configured]
     \/ UNCHANGED host
  /\ Goto("probe")
  /\ Step /\ UNCHANGED previous

(* activate: docker compose up --wait, then the probes: the service's      *)
(* health, its database connections and a list of the catalogue.           *)
Up ==
  /\ At("up")
  /\ host.compose # Torn
  /\ host' = [host EXCEPT !.running = Configured]
  /\ Goto("probe")
  /\ Step /\ UNCHANGED previous

Probe ==
  /\ At("probe")
  /\ Goto(IF script.mode = "apply" THEN "record" ELSE "restore_current")
  /\ Step /\ UNCHANGED <<host, previous>>

(* printf > current.txt; mutated=0.                                        *)
Record ==
  /\ At("record")
  /\ host' = [host EXCEPT !.current = script.new]
  /\ End("deployed")
  /\ UNCHANGED <<previous, before, target, runs>>

(* restore: an archive cut short is not extracted to its end.              *)
RestoreConfig ==
  /\ At("restore_config")
  /\ previous.archive = "whole"
  /\ host' = [host EXCEPT !.compose = previous.compose, !.deploy = previous.deploy]
  /\ Goto("restore_versions")
  /\ Step /\ UNCHANGED previous

RestoreVersions ==
  /\ At("restore_versions")
  /\ previous.env \notin {Null, Torn}
  /\ host' = [host EXCEPT !.env = previous.env]
  /\ Goto("up")
  /\ Step /\ UNCHANGED previous

RestoreCurrent ==
  /\ At("restore_current")
  /\ host' = [host EXCEPT !.current = IF previous.current = Null THEN @ ELSE previous.current]
  /\ End(IF script.mode = "rollback" THEN "rolled_back" ELSE "restored")
  /\ UNCHANGED <<previous, before, target, runs>>

(* What a command that does not end may leave.  os.replace leaves .env     *)
(* whole, and an up that fails the old container or the new one.           *)
Damage ==
  \/ UNCHANGED <<host, previous>>
  \/ /\ At("save_config")
     /\ previous' = [previous EXCEPT !.archive = "cut", !.compose = Torn, !.deploy = Torn]
     /\ UNCHANGED host
  \/ At("save_versions") /\ previous' = [previous EXCEPT !.env = Torn] /\ UNCHANGED host
  \/ At("save_current") /\ previous' = [previous EXCEPT !.current = Torn] /\ UNCHANGED host
  \/ At("install_compose") /\ host' = [host EXCEPT !.compose = Torn] /\ UNCHANGED previous
  \/ At("copy_deploy") /\ host' = [host EXCEPT !.deploy = Torn] /\ UNCHANGED previous
  \/ At("up") /\ host.compose # Torn /\ host' = [host EXCEPT !.running = Configured]
     /\ UNCHANGED previous
  \/ At("record") /\ host' = [host EXCEPT !.current = Torn] /\ UNCHANGED previous
  \/ /\ At("restore_config") /\ previous.archive # "absent"
     /\ \E c \in {host.compose, previous.compose, Torn}, d \in {previous.deploy, Torn} :
          host' = [host EXCEPT !.compose = c, !.deploy = d]
     /\ UNCHANGED previous
  \/ At("restore_current") /\ host' = [host EXCEPT !.current = Torn] /\ UNCHANGED previous

(* mutated=1, from the moment the backup is complete.                      *)
Mutated ==
  /\ script.mode = "apply"
  /\ script.at \in {"install_compose", "copy_deploy", "set_versions", "up", "probe", "record"}

(* A command fails, or TERM, HUP or INT arrives: the EXIT trap restores a  *)
(* host that was touched.                                                  *)
Abort ==
  /\ Mutated
  /\ Damage
  /\ script' = [script EXCEPT !.mode = "cleanup", !.at = "restore_config"]
  /\ Step

(* Before that there is nothing to undo.  What restores is not restored:   *)
(* it fails with a message, or ends silently at a second signal.           *)
GiveUp ==
  /\ ~At("idle") /\ ~Mutated
  /\ Damage
  /\ End(CASE script.mode = "apply" -> "untouched"
           [] script.mode = "cleanup" -> "incomplete"
           [] script.mode = "rollback" -> "rollback_failed")
  /\ UNCHANGED <<before, target, runs>>

(* SIGKILL, or the host goes down.                                         *)
Kill ==
  /\ ~At("idle")
  /\ Damage
  /\ End("killed")
  /\ UNCHANGED <<before, target, runs>>

Command ==
  \/ SaveConfig \/ SaveVersions \/ SaveCurrent
  \/ InstallCompose \/ CopyDeploy \/ SetVersions
  \/ Up \/ Probe \/ Record
  \/ RestoreConfig \/ RestoreVersions \/ RestoreCurrent

Next ==
  \/ \E v \in Version : StartApply(v)
  \/ StartRollback
  \/ Command
  \/ Abort \/ GiveUp \/ Kill

Spec == Init /\ [][Next]_vars
-----------------------------------------------------------------------------
Ending == {"none", "deployed", "untouched", "restored", "incomplete",
           "rolled_back", "rollback_failed", "killed"}

Host ==
  [compose : Content, deploy : Content, env : Version,
   running : [compose : Version, image : Version],
   current : Content \cup {Null}]

Backup ==
  [archive : {"absent", "cut", "whole"},
   compose : Content \cup {Null}, deploy : Content \cup {Null},
   env : Content \cup {Null}, current : Content \cup {Null}]

Commands ==
  {"save_config", "save_versions", "save_current", "install_compose", "copy_deploy",
   "set_versions", "up", "probe", "record",
   "restore_config", "restore_versions", "restore_current"}

(* A version that runs was configured: up refuses a torn compose file.     *)
TypeOK ==
  /\ host \in Host /\ before \in Host
  /\ previous \in Backup
  /\ script \in [mode : {"none", "apply", "cleanup", "rollback"}, at : Commands \cup {"idle"},
                new : Version \cup {Null}]
  /\ last \in Ending
  /\ runs \in 0..MaxRuns

Files(h) == <<h.compose, h.deploy, h.env>>

(* All of a host is of one version, the record of it included.             *)
WholeOf(h, v) ==
  /\ Files(h) = <<v, v, v>>
  /\ h.running = [compose |-> v, image |-> v]

(* A script that says it deployed has deployed: every file, the container  *)
(* and the record are of the new version, whatever state earlier scripts   *)
(* left behind.                                                            *)
DeployedIsWhole ==
  (last = "deployed" /\ At("idle")) => \E v \in Version : WholeOf(host, v) /\ host.current = v

(* "Si falla despues de cambiar la configuracion, intenta restaurar        *)
(* automaticamente la version anterior" (docs/github-actions.md): a failed *)
(* deployment that says it restored, or that had not begun, leaves the     *)
(* files as they were, and a host that was whole runs and records the      *)
(* version it did, however many scripts failed or were killed before.      *)
FailureChangesNothing ==
  (last \in {"untouched", "restored"} /\ At("idle")) =>
    /\ Files(host) = Files(before)
    /\ host.current = before.current \/ before.current = Null
    /\ \A v \in Version : WholeOf(before, v) => WholeOf(host, v)

(* A rollback right after a deployment brings back the host that           *)
(* deployment found.                                                       *)
RollbackUndoesTheDeployment ==
  (last = "rolled_back" /\ At("idle") /\ target # Null) =>
    /\ Files(host) = Files(target)
    /\ \A v \in Version : WholeOf(target, v) => WholeOf(host, v)
=============================================================================
