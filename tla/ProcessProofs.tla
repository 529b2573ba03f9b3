---------------------------- MODULE ProcessProofs ---------------------------
(***************************************************************************)
(* What main.py promises of the process as a whole.                        *)
(*                                                                         *)
(* Of its limiter (RateLimiter): what its threads let through between      *)
(* them, for every limit, window and address set.  The invariant follows   *)
(* the admissions of an address as a chain that is only broken where a     *)
(* thread writes over a count it has not read.                             *)
(*                                                                         *)
(* Of its pools and its end (Service), for any requests and pools of any   *)
(* size: every request is where the pools have it, and after a SIGTERM     *)
(* what may still want a connection shrinks from phase to phase, to the    *)
(* audits it waits for and to the runs their streams dropped               *)
(* (OnlyAuditsAreLeft).                                                    *)
(***************************************************************************)
EXTENDS RateLimiter, Service, FiniteSetTheorems, TLAPS

Admission == [at : Nat, window : Nat, n : 1..Limit, stale : BOOLEAN]

(* The first admission of a window is the moment the window opened.        *)
OpensItsWindow(a) == \A i \in DOMAIN a : a[i].n = 1 => a[i].at = a[i].window

(* From i on to j each count was read before it was written over.          *)
NoneLost(a, i, j) == \A q \in (i + 1)..j : ~a[q].stale

(* Two admissions of one window, as far apart as their counts.             *)
SameWindow(a, i, j) == a[i].window = a[j].window /\ a[j].n = a[i].n + (j - i)

(* The window of the second opened after the first, a full window later.   *)
LaterWindow(a, i, j) ==
  /\ a[i].window + Window <= a[j].window
  /\ \E q \in (i + 1)..j : a[q].n = 1 /\ a[q].window = a[j].window

(* Where no count was lost, later admissions belong to the same window and *)
(* count on, or to a window that opened in between.                        *)
Chained(a) ==
  \A i, j \in DOMAIN a :
    (i <= j /\ NoneLost(a, i, j)) => SameWindow(a, i, j) \/ LaterWindow(a, i, j)

(* The stored entry is what the last admission wrote.                      *)
EntryIsLastAdmission(k) ==
  IF counts[k] = NoWindow
  THEN Len(admitted[k]) = 0
  ELSE /\ Len(admitted[k]) > 0
       /\ counts[k].count = admitted[k][Len(admitted[k])].n
       /\ counts[k].start = admitted[k][Len(admitted[k])].window

(* What a thread has read is what is stored, unless an admission of the    *)
(* same key was written since.                                             *)
ReadIsCurrent(t) ==
  check[t] # Idle =>
    /\ check[t].at <= now
    /\ check[t].step = "decide" =>
         /\ check[t].seen <= Len(admitted[check[t].key])
         /\ check[t].seen = Len(admitted[check[t].key]) =>
              check[t].entry = counts[check[t].key]

(* A promise made and not overtaken by an admission covers the end of the  *)
(* stored window.                                                          *)
PromiseCovers(k) ==
  promise[k] # NoWindow =>
    /\ promise[k].seen <= Len(admitted[k])
    /\ promise[k].seen = Len(admitted[k]) =>
         /\ counts[k] # NoWindow
         /\ counts[k].start + Window <= promise[k].retryAt

KeySound(k) ==
  /\ OpensItsWindow(admitted[k])
  /\ Chained(admitted[k])
  /\ EntryIsLastAdmission(k)
  /\ PromiseCovers(k)

Inv ==
  /\ TypeOK
  /\ \A k \in Key : KeySound(k)
  /\ \A t \in Thread : ReadIsCurrent(t)

LEMMA AppendFacts ==
  ASSUME NEW S, NEW s \in Seq(S), NEW e \in S
  PROVE  /\ Append(s, e) \in Seq(S)
         /\ Len(s) \in Nat
         /\ DOMAIN s = 1..Len(s)
         /\ Len(Append(s, e)) = Len(s) + 1
         /\ DOMAIN Append(s, e) = 1..(Len(s) + 1)
         /\ \A i \in 1..Len(s) : Append(s, e)[i] = s[i] /\ s[i] \in S
         /\ Append(s, e)[Len(s) + 1] = e
  OBVIOUS

(* The entry a thread works with is either a fresh one or the one it read. *)
LEMMA CurrentWindowCases ==
  ASSUME NEW entry \in Entry, NEW at \in Nat
  PROVE  /\ CurrentWindow(entry, at).count \in Nat
         /\ CurrentWindow(entry, at).start \in Nat
         /\ \/ /\ CurrentWindow(entry, at).count = 0
               /\ CurrentWindow(entry, at).start = at
               /\ entry = NoWindow \/ at - entry.start >= Window
            \/ /\ CurrentWindow(entry, at) = entry
               /\ entry \in [count : 1..Limit, start : Nat]
               /\ entry # NoWindow
               /\ at - entry.start < Window
  BY RateLimiterAssumption DEF CurrentWindow, Entry

(* An admission appended to a chain: it was written over a count that its  *)
(* thread had not read, or goes on from the last one, or opens a window.   *)
LEMMA AppendAdmission ==
  ASSUME Limit \in Nat \ {0},
         NEW a \in Seq(Admission), OpensItsWindow(a), Chained(a),
         NEW e \in Admission, e.n = 1 => e.at = e.window,
         \/ e.stale
         \/ Len(a) = 0
         \/ e.window = a[Len(a)].window /\ e.n = a[Len(a)].n + 1
         \/ e.n = 1 /\ a[Len(a)].window + Window <= e.window
  PROVE  OpensItsWindow(Append(a, e)) /\ Chained(Append(a, e))
<1> DEFINE n == Len(a)
           b == Append(a, e)
<1>0. Window \in Nat \ {0}
  BY RateLimiterAssumption
<1>1. /\ n \in Nat
      /\ DOMAIN a = 1..n
      /\ DOMAIN b = 1..(n + 1)
      /\ \A i \in 1..n : b[i] = a[i] /\ a[i] \in Admission
      /\ b[n + 1] = e
  BY AppendFacts
<1>2. /\ \A i \in 1..n : /\ a[i].at \in Nat /\ a[i].window \in Nat
                         /\ a[i].n \in 1..Limit
      /\ e.at \in Nat /\ e.window \in Nat /\ e.n \in 1..Limit
  BY <1>1 DEF Admission
<1>3. \/ e.stale
      \/ n = 0
      \/ e.window = a[n].window /\ e.n = a[n].n + 1
      \/ e.n = 1 /\ a[n].window + Window <= e.window
  OBVIOUS
<1> HIDE DEF n, b
<1>4. OpensItsWindow(b)
  BY <1>1 DEF OpensItsWindow
<1>5. ASSUME NEW i \in 1..(n + 1), NEW j \in 1..(n + 1), i <= j, NoneLost(b, i, j)
      PROVE  SameWindow(b, i, j) \/ LaterWindow(b, i, j)
  <2>1. CASE i \in 1..n /\ j \in 1..n
    <3>1. \A q \in (i + 1)..j : b[q] = a[q]
      BY <1>1, <2>1
    <3>2. NoneLost(a, i, j)
      BY <1>5, <3>1 DEF NoneLost
    <3>3. SameWindow(a, i, j) \/ LaterWindow(a, i, j)
      BY <1>1, <1>5, <2>1, <3>2 DEF Chained
    <3>4. b[i] = a[i] /\ b[j] = a[j]
      BY <1>1, <2>1
    <3>5. CASE SameWindow(a, i, j)
      BY <3>4, <3>5 DEF SameWindow
    <3>6. CASE LaterWindow(a, i, j)
      BY <3>1, <3>4, <3>6 DEF LaterWindow
    <3>. QED  BY <3>3, <3>5, <3>6
  <2>2. CASE i \in 1..n /\ j = n + 1
    <3>1. \A q \in (i + 1)..n : b[q] = a[q]
      BY <1>1, <2>2
    <3>2. NoneLost(a, i, n) /\ ~e.stale
      BY <1>1, <1>5, <2>2, <3>1 DEF NoneLost
    <3>3. SameWindow(a, i, n) \/ LaterWindow(a, i, n)
      <4>1. i \in DOMAIN a /\ n \in DOMAIN a /\ i <= n
        BY <1>1, <2>2
      <4>. QED  BY <3>2, <4>1 DEF Chained
    <3>4. b[i] = a[i] /\ b[j] = e /\ n > 0 /\ n \in 1..n
      BY <1>1, <2>2
    <3>5. CASE e.window = a[n].window /\ e.n = a[n].n + 1
      <4>1. CASE SameWindow(a, i, n)
        BY <1>1, <1>2, <2>2, <3>4, <3>5, <4>1 DEF SameWindow
      <4>2. CASE LaterWindow(a, i, n)
        <5>1. PICK q \in (i + 1)..n : a[q].n = 1 /\ a[q].window = a[n].window
          BY <4>2 DEF LaterWindow
        <5>2. q \in (i + 1)..j /\ b[q] = a[q]
          BY <1>1, <2>2, <3>1, <5>1
        <5>. QED  BY <2>2, <3>4, <3>5, <4>2, <5>1, <5>2 DEF LaterWindow
      <4>. QED  BY <3>3, <4>1, <4>2
    <3>6. CASE e.n = 1 /\ a[n].window + Window <= e.window
      <4>1. a[i].window <= a[n].window
        BY <1>0, <1>2, <2>2, <3>3, <3>4 DEF SameWindow, LaterWindow
      <4>2. a[i].window + Window <= e.window
        BY <1>0, <1>2, <2>2, <3>4, <3>6, <4>1
      <4>3. j \in (i + 1)..j
        BY <1>1, <2>2
      <4>. QED  BY <3>4, <3>6, <4>2, <4>3 DEF LaterWindow
    <3>. QED  BY <1>3, <3>2, <3>4, <3>5, <3>6
  <2>3. CASE i = n + 1
    <3>1. j = i /\ j - i = 0 /\ b[i].n \in Nat
      BY <1>1, <1>2, <1>5, <2>3
    <3>. QED  BY <3>1 DEF SameWindow
  <2>. QED  BY <1>1, <2>1, <2>2, <2>3
<1>6. Chained(b)
  BY <1>1, <1>5 DEF Chained
<1>. QED
  BY <1>4, <1>6 DEF b

(* Where 2*L admissions were chained, two of them opened windows: one of   *)
(* the first L, and one among the L after that.                            *)
LEMMA TwiceTheLimitSpansAWindow ==
  ASSUME Limit \in Nat \ {0},
         NEW a \in Seq(Admission), OpensItsWindow(a), Chained(a),
         NEW i \in DOMAIN a, NEW j \in DOMAIN a, j = i + 2 * Limit - 1,
         NoneLost(a, i, j)
  PROVE  \E x, y \in i..j : a[y].at - a[x].at >= Window
<1>1. /\ Window \in Nat \ {0}
      /\ Len(a) \in Nat /\ DOMAIN a = 1..Len(a)
      /\ \A m \in DOMAIN a : a[m] \in Admission
  BY RateLimiterAssumption
<1>2. \A m \in DOMAIN a : a[m].at \in Nat /\ a[m].window \in Nat /\ a[m].n \in 1..Limit
  BY <1>1 DEF Admission
<1>3. /\ i \in 1..Len(a) /\ j \in 1..Len(a)
      /\ \A x, y \in i..j : /\ x \in DOMAIN a /\ y \in DOMAIN a
                            /\ x <= y => SameWindow(a, x, y) \/ LaterWindow(a, x, y)
  <2>1. i \in 1..Len(a) /\ j \in 1..Len(a)
    BY <1>1
  <2>2. ASSUME NEW x \in i..j, NEW y \in i..j
        PROVE  /\ x \in DOMAIN a /\ y \in DOMAIN a
               /\ x <= y => SameWindow(a, x, y) \/ LaterWindow(a, x, y)
    <3>1. x \in DOMAIN a /\ y \in DOMAIN a
      BY <1>1, <2>1
    <3>2. NoneLost(a, x, y)
      BY <2>1 DEF NoneLost
    <3>. QED  BY <3>1, <3>2 DEF Chained
  <2>. QED  BY <2>1, <2>2
<1>4. PICK m \in i..j : m = i + Limit - 1
  <2>1. i + Limit - 1 \in i..j
    BY <1>1, <1>3
  <2>. QED  BY <2>1
<1>5. PICK q \in i..m : a[q].n = 1 /\ a[q].window = a[m].window
  <2>1. SameWindow(a, i, m) \/ LaterWindow(a, i, m)
    <3>1. i \in i..j /\ i <= m
      BY <1>1, <1>3, <1>4
    <3>. QED  BY <1>3, <1>4, <3>1
  <2>2. CASE SameWindow(a, i, m)
    <3>1. a[m].n = a[i].n + (m - i) /\ a[m].window = a[i].window
      BY <2>2 DEF SameWindow
    <3>2. a[i].n \in 1..Limit /\ a[m].n \in 1..Limit
      BY <1>2, <1>3
    <3>3. a[i].n = 1
      BY <1>1, <1>3, <1>4, <3>1, <3>2
    <3>4. i \in i..m
      BY <1>3, <1>4
    <3>. QED  BY <3>1, <3>3, <3>4
  <2>3. CASE LaterWindow(a, i, m)
    BY <1>3, <1>4, <2>3 DEF LaterWindow
  <2>. QED  BY <2>1, <2>2, <2>3
<1>6. PICK p \in i..j : p = q + Limit
  BY <1>3, <1>4, <1>5
<1>7. q \in i..j /\ q <= p /\ q \in Int /\ p \in Int
  BY <1>3, <1>4, <1>5, <1>6
<1>8. ~SameWindow(a, q, p)
  <2>1. a[p].n \in 1..Limit /\ p - q = Limit
    BY <1>2, <1>3, <1>5, <1>6, <1>7
  <2>. QED  BY <1>5, <2>1 DEF SameWindow
<1>9. LaterWindow(a, q, p)
  BY <1>3, <1>6, <1>7, <1>8
<1>10. PICK r \in (q + 1)..p : a[r].n = 1 /\ a[r].window = a[p].window
  BY <1>9 DEF LaterWindow
<1>11. r \in i..j
  BY <1>3, <1>6, <1>7, <1>10
<1>12. a[q].at = a[q].window /\ a[r].at = a[r].window
  BY <1>3, <1>5, <1>7, <1>10, <1>11 DEF OpensItsWindow
<1>13. a[q].window + Window <= a[r].window
  BY <1>9, <1>10 DEF LaterWindow
<1>14. a[q].window \in Nat /\ a[r].window \in Nat
  BY <1>2, <1>3, <1>7, <1>11
<1>15. a[r].at - a[q].at >= Window
  BY <1>1, <1>12, <1>13, <1>14
<1>. QED
  BY <1>7, <1>11, <1>15

(* Rounding up to whole seconds never falls short.                         *)
LEMMA RoundingUp ==
  ASSUME NEW r \in Nat
  PROVE  RetryAfterTicks(r) \in Nat /\ RetryAfterTicks(r) >= r
<1> DEFINE q == r \div TicksPerSecond
<1>1. TicksPerSecond \in Nat \ {0}
  BY RateLimiterAssumption
<1>2. q \in Nat /\ r = TicksPerSecond * q + (r % TicksPerSecond)
      /\ r % TicksPerSecond \in 0..(TicksPerSecond - 1)
  BY <1>1
<1>3. (q + 1) * TicksPerSecond = TicksPerSecond * q + TicksPerSecond
  BY <1>1, <1>2
<1>4. TicksPerSecond * q \in Nat
  BY <1>1, <1>2
<1>. QED
  BY <1>1, <1>2, <1>3, <1>4 DEF RetryAfterTicks

(* A thread about to decide, with an entry of the right type.              *)
LEMMA DecidingFacts ==
  ASSUME Inv, NEW t \in Thread, Deciding(t)
  PROVE  /\ check[t] \in Call /\ check[t] # Idle
         /\ check[t].key \in Key /\ check[t].entry \in Entry
         /\ check[t].at \in Nat /\ now \in Nat /\ check[t].at <= now
         /\ check[t].seen \in Nat /\ Len(admitted[check[t].key]) \in Nat
         /\ check[t].seen <= Len(admitted[check[t].key])
         /\ check[t].seen = Len(admitted[check[t].key]) =>
              check[t].entry = counts[check[t].key]
<1>1. check[t] \in Call /\ check[t] # Idle /\ check[t].step = "decide"
  BY DEF Deciding, Inv, TypeOK
<1>2. ReadIsCurrent(t) /\ admitted \in [Key -> Seq(Admission)] /\ now \in Nat
  BY DEF Inv, TypeOK, Admission
<1>3. check[t].key \in Key /\ check[t].entry \in Entry
      /\ check[t].at \in Nat /\ check[t].seen \in Nat
  BY <1>1 DEF Call
<1>. QED
  BY <1>1, <1>2, <1>3 DEF ReadIsCurrent

LEMMA AdmitKeeps ==
  ASSUME Inv, NEW t \in Thread, Admit(t)
  PROVE  Inv'
<1>0. PICK k \in Key : k = check[t].key
  BY DecidingFacts DEF Admit
<1> DEFINE a == admitted[k]
           w == CurrentOf(t)
           e == [at |-> check[t].at, window |-> w.start, n |-> w.count + 1,
                 stale |-> counts[k] # check[t].entry]
           c == [count |-> w.count + 1, start |-> w.start]
<1>1. /\ Limit \in Nat \ {0}
      /\ check[t].entry \in Entry /\ check[t].at \in Nat
      /\ w.count \in Nat /\ w.count < Limit /\ w.start \in Nat
  <2>1. Deciding(t) /\ w.count < Limit
    BY DEF Admit
  <2>2. check[t].entry \in Entry /\ check[t].at \in Nat
    BY <2>1, DecidingFacts
  <2>3. w.count \in Nat /\ w.start \in Nat
    BY <2>2, CurrentWindowCases DEF CurrentOf
  <2>. QED  BY <2>1, <2>2, <2>3, RateLimiterAssumption
<1>2. /\ counts' = [counts EXCEPT ![k] = c]
      /\ admitted' = [admitted EXCEPT ![k] = Append(a, e)]
      /\ check' = [check EXCEPT ![t] = Idle]
      /\ now' = now /\ promise' = promise /\ calls' = calls
  BY <1>0 DEF Admit
<1>3. e \in Admission /\ c \in [count : 1..Limit, start : Nat]
  BY <1>1 DEF Admission
<1>4. a \in Seq(Admission) /\ KeySound(k)
  BY <1>1 DEF Inv, TypeOK, Admission
<1>5. /\ e.n = 1 => e.at = e.window
      /\ \/ e.stale
         \/ Len(a) = 0
         \/ e.window = a[Len(a)].window /\ e.n = a[Len(a)].n + 1
         \/ e.n = 1 /\ a[Len(a)].window + Window <= e.window
  <2>1. \/ /\ w.count = 0 /\ w.start = check[t].at
           /\ check[t].entry = NoWindow \/ check[t].at - check[t].entry.start >= Window
        \/ /\ w = check[t].entry /\ w \in [count : 1..Limit, start : Nat]
           /\ check[t].entry # NoWindow
    BY <1>1, CurrentWindowCases DEF CurrentOf
  <2>2. e.n = w.count + 1 /\ e.window = w.start /\ e.at = check[t].at
        /\ (e.stale <=> counts[k] # check[t].entry)
    OBVIOUS
  <2>3. CASE counts[k] # check[t].entry
    BY <1>1, <2>1, <2>2, <2>3
  <2>4. CASE counts[k] = check[t].entry /\ counts[k] = NoWindow
    BY <1>1, <1>4, <2>1, <2>2, <2>4 DEF KeySound, EntryIsLastAdmission
  <2>5. CASE counts[k] = check[t].entry /\ counts[k] # NoWindow
    <3>1. counts[k].count = a[Len(a)].n /\ counts[k].start = a[Len(a)].window
      BY <1>4, <2>5 DEF KeySound, EntryIsLastAdmission
    <3>2. counts[k] \in [count : 1..Limit, start : Nat] /\ Window \in Nat
      BY <1>1, <2>5, RateLimiterAssumption DEF Entry
    <3>3. CASE w.count = 0 /\ w.start = check[t].at /\ check[t].at - counts[k].start >= Window
      <4>1. e.n = 1 /\ a[Len(a)].window + Window <= e.window /\ e.window = e.at
        <5> HIDE DEF e, a, w
        <5>. QED  BY <1>1, <2>2, <3>1, <3>2, <3>3
      <4>. QED  BY <4>1
    <3>4. CASE w = counts[k]
      <4>1. e.window = a[Len(a)].window /\ e.n = a[Len(a)].n + 1
        BY <2>2, <3>1, <3>4
      <4>2. e.n # 1
        BY <2>2, <3>2, <3>4
      <4>. QED  BY <4>1, <4>2
    <3>. QED  BY <2>1, <2>5, <3>3, <3>4
  <2>. QED  BY <2>3, <2>4, <2>5
<1>6. /\ OpensItsWindow(Append(a, e)) /\ Chained(Append(a, e))
      /\ Append(a, e) \in Seq(Admission)
      /\ Len(a) \in Nat /\ Len(Append(a, e)) = Len(a) + 1
      /\ Append(a, e)[Len(a) + 1] = e
  <2>1. OpensItsWindow(a) /\ Chained(a)
    BY <1>4 DEF KeySound
  <2> HIDE DEF a, e
  <2>2. OpensItsWindow(Append(a, e)) /\ Chained(Append(a, e))
    BY <1>1, <1>3, <1>4, <1>5, <2>1, AppendAdmission
  <2>. QED  BY <1>3, <1>4, <2>2, AppendFacts
<1>7. /\ counts'[k] = c /\ admitted'[k] = Append(a, e)
      /\ \A other \in Key : other # k => /\ admitted'[other] = admitted[other]
                                         /\ counts'[other] = counts[other]
  BY <1>1, <1>2 DEF Inv, TypeOK
<1>8. TypeOK'
  <2>1. counts' \in [Key -> Entry]
    <3>1. c \in Entry
      BY <1>3 DEF Entry
    <3>. QED  BY <1>1, <1>2, <3>1 DEF Inv, TypeOK
  <2>2. admitted' \in [Key -> Seq(Admission)]
    <3> HIDE DEF e, a
    <3>. QED  BY <1>1, <1>2, <1>6 DEF Inv, TypeOK, Admission
  <2>3. check' \in [Thread -> Call \cup {Idle}]
    BY <1>2 DEF Inv, TypeOK
  <2>. QED  BY <1>2, <2>1, <2>2, <2>3 DEF Inv, TypeOK, Admission
<1>9. KeySound(k)'
  <2>1. c # NoWindow /\ c.count = e.n /\ c.start = e.window
    BY <1>3, RateLimiterAssumption
  <2>2. promise[k] # NoWindow => promise[k].seen \in Nat /\ promise[k].seen <= Len(a)
    BY <1>1, <1>4 DEF Inv, TypeOK, Promise, KeySound, PromiseCovers
  <2> HIDE DEF a, e, c, w
  <2>3. EntryIsLastAdmission(k)'
    <3>1. counts'[k] # NoWindow /\ Len(admitted'[k]) > 0
      BY <1>6, <1>7, <2>1
    <3>2. admitted'[k][Len(admitted'[k])] = e
      BY <1>6, <1>7
    <3>3. counts'[k].count = e.n /\ counts'[k].start = e.window
      BY <1>7, <2>1
    <3>. QED  BY <3>1, <3>2, <3>3 DEF EntryIsLastAdmission
  <2>4. PromiseCovers(k)'
    <3>1. promise' = promise /\ Len(admitted'[k]) = Len(a) + 1
      BY <1>2, <1>6, <1>7
    <3>. QED  BY <1>6, <2>2, <3>1 DEF PromiseCovers
  <2>5. OpensItsWindow(admitted'[k]) /\ Chained(admitted'[k])
    BY <1>6, <1>7
  <2>. QED  BY <2>3, <2>4, <2>5 DEF KeySound
<1>10. ASSUME NEW other \in Key
       PROVE  KeySound(other)'
  <2>1. CASE other = k
    BY <1>9, <2>1
  <2>2. CASE other # k
    <3>1. admitted'[other] = admitted[other] /\ counts'[other] = counts[other]
          /\ promise' = promise /\ KeySound(other)
      BY <1>2, <1>7, <2>2 DEF Inv
    <3>. QED  BY <3>1 DEF KeySound, EntryIsLastAdmission, PromiseCovers
  <2>. QED  BY <2>1, <2>2
<1>11. ASSUME NEW u \in Thread
       PROVE  ReadIsCurrent(u)'
  <2>1. CASE u = t
    BY <1>2, <2>1 DEF ReadIsCurrent, Inv, TypeOK
  <2>2. CASE u # t /\ check[u] # Idle
    <3>1. check'[u] = check[u] /\ check[u] \in Call /\ now' = now /\ ReadIsCurrent(u)
      BY <1>2, <2>2 DEF Inv, TypeOK
    <3>2. check[u].key \in Key /\ check[u].seen \in Nat
      BY <3>1 DEF Call
    <3>3. CASE check[u].key = k
      <4> HIDE DEF a, e
      <4>1. Len(admitted'[k]) = Len(admitted[k]) + 1 /\ Len(admitted[k]) \in Nat
        BY <1>6, <1>7 DEF a
      <4>. QED  BY <3>1, <3>2, <3>3, <4>1 DEF ReadIsCurrent
    <3>4. CASE check[u].key # k
      BY <1>7, <3>1, <3>2, <3>4 DEF ReadIsCurrent
    <3>. QED  BY <3>3, <3>4
  <2>3. CASE u # t /\ check[u] = Idle
    BY <1>2, <2>3 DEF ReadIsCurrent, Inv, TypeOK
  <2>. QED  BY <2>1, <2>2, <2>3
<1>. QED
  BY <1>8, <1>10, <1>11 DEF Inv

(* A rejection promises no less than the rest of the window it met; if no  *)
(* admission was written since the entry was read, that is the stored one. *)
LEMMA RejectKeeps ==
  ASSUME Inv, NEW t \in Thread, Reject(t), Limit > 0
  PROVE  Inv'
<1> DEFINE k == check[t].key
           w == CurrentOf(t)
           remaining == Window - (check[t].at - w.start)
           p == [retryAt |-> now + RetryAfterTicks(remaining), seen |-> check[t].seen]
<1>1. /\ Limit \in Nat \ {0} /\ Window \in Nat \ {0}
      /\ k \in Key /\ check[t].entry \in Entry /\ check[t].at \in Nat
      /\ now \in Nat /\ check[t].at <= now
      /\ check[t].seen \in Nat /\ check[t].seen <= Len(admitted[k])
      /\ check[t].seen = Len(admitted[k]) => check[t].entry = counts[k]
      /\ w.count >= Limit
  BY DecidingFacts, RateLimiterAssumption DEF Reject
<1>2. /\ w = check[t].entry /\ w # NoWindow /\ w.start \in Nat
      /\ check[t].at - w.start < Window
  <2>1. \/ w.count = 0
        \/ /\ w = check[t].entry /\ w # NoWindow /\ w \in [count : 1..Limit, start : Nat]
           /\ check[t].at - w.start < Window
    BY <1>1, CurrentWindowCases DEF CurrentOf
  <2>. QED  BY <1>1, <2>1
<1>3. remaining \in Nat
  BY <1>1, <1>2
<1>4. RetryAfterTicks(remaining) \in Nat /\ RetryAfterTicks(remaining) >= remaining
  <2> HIDE DEF remaining
  <2>. QED  BY <1>3, RoundingUp
<1>5. p \in Promise /\ w.start + Window <= p.retryAt /\ p.seen = check[t].seen
  <2>1. now + RetryAfterTicks(remaining) \in Nat
        /\ w.start + Window <= now + RetryAfterTicks(remaining)
    <3> DEFINE x == RetryAfterTicks(remaining)
    <3>1. x \in Nat /\ x >= Window - (check[t].at - w.start)
      BY <1>4
    <3> HIDE DEF x
    <3>2. now + x \in Nat /\ w.start + Window <= now + x
      BY <1>1, <1>2, <3>1
    <3>. QED  BY <3>2 DEF x
  <2>. QED  BY <1>1, <2>1 DEF Promise
<1>6. /\ promise' = [promise EXCEPT ![k] = p]
      /\ check' = [check EXCEPT ![t] = Idle]
      /\ now' = now /\ counts' = counts /\ admitted' = admitted /\ calls' = calls
  BY DEF Reject
<1> HIDE DEF p, w, remaining
<1>7. TypeOK'
  BY <1>1, <1>5, <1>6 DEF Inv, TypeOK
<1>8. ASSUME NEW other \in Key
      PROVE  KeySound(other)'
  <2>1. KeySound(other)
    BY DEF Inv
  <2>2. PromiseCovers(other)'
    <3>1. CASE other = k
      <4>1. promise'[k] = p
        BY <1>1, <1>6 DEF Inv, TypeOK
      <4>. QED  BY <1>1, <1>2, <1>5, <1>6, <3>1, <4>1 DEF PromiseCovers
    <3>2. CASE other # k
      <4>1. promise'[other] = promise[other]
        BY <1>6, <3>2 DEF Inv, TypeOK
      <4>. QED  BY <1>6, <2>1, <4>1 DEF KeySound, PromiseCovers
    <3>. QED  BY <3>1, <3>2
  <2>. QED  BY <1>6, <2>1, <2>2 DEF KeySound, EntryIsLastAdmission
<1>9. ASSUME NEW u \in Thread
      PROVE  ReadIsCurrent(u)'
  <2>1. CASE u = t
    BY <1>6, <2>1 DEF ReadIsCurrent, Inv, TypeOK
  <2>2. CASE u # t
    <3>1. check'[u] = check[u] /\ ReadIsCurrent(u)
      BY <1>6, <2>2 DEF Inv, TypeOK
    <3>. QED  BY <1>6, <3>1 DEF ReadIsCurrent
  <2>. QED  BY <2>1, <2>2
<1>. QED
  BY <1>7, <1>8, <1>9 DEF Inv

(* Taking the time and reading the entry change nothing of the addresses.  *)
LEMMA CallKeeps ==
  ASSUME Inv, NEW t \in Thread, NEW r \in Call,
         check' = [check EXCEPT ![t] = r],
         calls' \in Nat, UNCHANGED <<now, counts, admitted, promise>>,
         r.at <= now,
         r.step = "decide" => /\ r.seen = Len(admitted[r.key])
                              /\ r.entry = counts[r.key]
  PROVE  Inv'
<1>1. TypeOK'
  BY DEF Inv, TypeOK
<1>2. \A k \in Key : KeySound(k)'
  BY DEF Inv, KeySound, EntryIsLastAdmission, PromiseCovers
<1>3. ASSUME NEW u \in Thread
      PROVE  ReadIsCurrent(u)'
  <2>1. CASE u = t
    <3>1. check'[u] = r /\ r.key \in Key
      BY <2>1 DEF Inv, TypeOK, Call
    <3>2. Len(admitted[r.key]) \in Nat
      BY <3>1 DEF Inv, TypeOK
    <3>. QED  BY <3>1, <3>2 DEF ReadIsCurrent
  <2>2. CASE u # t
    <3>1. check'[u] = check[u] /\ ReadIsCurrent(u)
      BY <2>2 DEF Inv, TypeOK
    <3>. QED  BY <3>1 DEF ReadIsCurrent
  <2>. QED  BY <2>1, <2>2
<1>. QED
  BY <1>1, <1>2, <1>3 DEF Inv

LEMMA TakeTimeKeeps ==
  ASSUME Inv, NEW t \in Thread, NEW host \in Ip \cup {NoIp},
         NEW forwarded \in Ip \cup {NoIp}, TakeTime(t, host, forwarded)
  PROVE  Inv'
<1> DEFINE r == [step |-> "read", key |-> RequestKey(host, forwarded), at |-> now,
                 entry |-> NoWindow, seen |-> 0]
<1>1. RequestKey(host, forwarded) \in Key
  BY DEF RequestKey, ResolveClientIp, Key
<1>2. now \in Nat /\ calls \in Nat
  BY DEF Inv, TypeOK
<1>3. r \in Call /\ r.at = now /\ r.step = "read"
  BY <1>1, <1>2 DEF Call, Entry
<1>4. check' = [check EXCEPT ![t] = r] /\ calls' = calls + 1
      /\ UNCHANGED <<now, counts, admitted, promise>>
  BY DEF TakeTime
<1>5. r.at <= now /\ r.step # "decide" /\ calls' \in Nat
  BY <1>2, <1>3, <1>4
<1> HIDE DEF r
<1>. QED
  BY <1>3, <1>4, <1>5, CallKeeps

LEMMA ReadEntryKeeps ==
  ASSUME Inv, NEW t \in Thread, ReadEntry(t)
  PROVE  Inv'
<1> DEFINE k == check[t].key
           r == [check[t] EXCEPT !.step = "decide", !.entry = counts[k],
                                 !.seen = Len(admitted[k])]
<1>1. check[t] \in Call /\ ReadIsCurrent(t) /\ check[t] # Idle
  BY DEF ReadEntry, Inv, TypeOK
<1>2. k \in Key /\ check[t].at <= now
  BY <1>1 DEF Call, ReadIsCurrent
<1>3. counts[k] \in Entry /\ Len(admitted[k]) \in Nat
  BY <1>2 DEF Inv, TypeOK
<1>4. /\ r \in Call /\ r.at = check[t].at /\ r.key = k
      /\ r.seen = Len(admitted[k]) /\ r.entry = counts[k]
  BY <1>1, <1>3 DEF Call
<1>5. check' = [check EXCEPT ![t] = r] /\ UNCHANGED <<now, counts, admitted, promise, calls>>
  BY DEF ReadEntry, Inv, TypeOK
<1>6. calls' \in Nat
  BY <1>5 DEF Inv, TypeOK
<1> HIDE DEF r
<1>. QED
  BY <1>2, <1>4, <1>5, <1>6, CallKeeps

LEMMA LimiterStarts == Init => Inv
<1> SUFFICES ASSUME Init PROVE Inv
  OBVIOUS
<1>1. TypeOK
  BY DEF Init, TypeOK, Entry
<1>2. \A k \in Key : admitted[k] = <<>> /\ counts[k] = NoWindow /\ promise[k] = NoWindow
  BY DEF Init
<1>3. ASSUME NEW k \in Key PROVE KeySound(k)
  <2>1. Len(admitted[k]) = 0 /\ DOMAIN admitted[k] = {}
    BY <1>2
  <2>2. OpensItsWindow(admitted[k]) /\ Chained(admitted[k])
    BY <2>1 DEF OpensItsWindow, Chained
  <2>. QED  BY <1>2, <2>1, <2>2 DEF KeySound, EntryIsLastAdmission, PromiseCovers
<1>. QED
  BY <1>1, <1>3 DEF Init, Inv, ReadIsCurrent

LEMMA LimiterSteps == ASSUME Limit > 0 PROVE Inv /\ [Next]_vars => Inv'
<1> SUFFICES ASSUME Inv, [Next]_vars PROVE Inv'
  OBVIOUS
<1>1. ASSUME Tick PROVE Inv'
  <2>1. now \in Nat /\ now' = now + 1
        /\ UNCHANGED <<counts, check, admitted, promise, calls>>
    BY <1>1 DEF Tick, Inv, TypeOK
  <2>2. TypeOK'
    <3>1. now' \in Nat
      BY <2>1
    <3>. QED  BY <2>1, <3>1 DEF Inv, TypeOK
  <2>3. \A k \in Key : KeySound(k)'
    BY <2>1 DEF Inv, KeySound, EntryIsLastAdmission, PromiseCovers
  <2>4. ASSUME NEW t \in Thread PROVE ReadIsCurrent(t)'
    <3>1. check[t] # Idle => check[t].at \in Nat
      BY DEF Inv, TypeOK, Call
    <3>. QED  BY <2>1, <3>1 DEF Inv, ReadIsCurrent
  <2>. QED  BY <2>2, <2>3, <2>4 DEF Inv
<1>2. ASSUME UNCHANGED vars PROVE Inv'
  BY <1>2 DEF vars, Inv, TypeOK, KeySound, EntryIsLastAdmission, PromiseCovers, ReadIsCurrent
<1>. QED
  BY <1>1, <1>2, TakeTimeKeeps, ReadEntryKeeps, AdmitKeeps, RejectKeeps
     DEF Next, EnforceRateLimit

LEMMA LimiterStaysSound == ASSUME Limit > 0 PROVE Spec => []Inv
  BY LimiterStarts, LimiterSteps, PTL DEF Spec

(* check() never stores more than limit requests for a window.             *)
THEOREM TypeCorrect == ASSUME Limit > 0 PROVE Spec => []TypeOK
<1>1. Inv => TypeOK
  BY DEF Inv
<1>. QED
  BY <1>1, LimiterStaysSound, PTL

(* "Hasta 2x el limite" at the border of two windows, for every limit,     *)
(* window, number of threads and arrival of requests, as long as no thread *)
(* writes over a count it has not read.                                    *)
THEOREM SlidingBound == ASSUME Limit > 0 PROVE Spec => []AtMostTwiceTheLimit
<1>1. Inv => AtMostTwiceTheLimit
  <2> SUFFICES ASSUME Inv, NEW k \in Key,
                      NEW i \in DOMAIN admitted[k], NEW j \in DOMAIN admitted[k],
                      j = i + 2 * Limit - 1,
                      \A q \in (i + 1)..j : ~admitted[k][q].stale
               PROVE  \E a, b \in i..j : admitted[k][b].at - admitted[k][a].at >= Window
    BY DEF AtMostTwiceTheLimit
  <2>1. Limit \in Nat \ {0}
    BY RateLimiterAssumption
  <2>2. admitted[k] \in Seq(Admission) /\ KeySound(k)
    BY DEF Inv, TypeOK, Admission
  <2>3. NoneLost(admitted[k], i, j)
    BY DEF NoneLost
  <2>. QED  BY <2>1, <2>2, <2>3, TwiceTheLimitSpansAWindow DEF KeySound
<1>. QED
  BY <1>1, LimiterStaysSound, PTL

(* The Retry-After header of main.py:_enforce_rate_limit is long enough,   *)
(* however many threads answer at once and whatever they are held up by.   *)
THEOREM RetryAfterIsEnough == ASSUME Limit > 0 PROVE Spec => []RetryAfterSuffices
<1>1. Inv => RetryAfterSuffices
  <2> SUFFICES ASSUME Inv, NEW k \in Key,
                      promise[k] # NoWindow,
                      now >= promise[k].retryAt,
                      Len(admitted[k]) = promise[k].seen
               PROVE  CurrentWindow(counts[k], now).count < Limit
    BY DEF RetryAfterSuffices
  <2>1. counts[k] # NoWindow /\ counts[k].start + Window <= promise[k].retryAt
    BY DEF Inv, KeySound, PromiseCovers
  <2>2. counts[k].start \in Nat /\ now \in Nat /\ promise[k].retryAt \in Nat
        /\ Window \in Nat
    BY <2>1, RateLimiterAssumption DEF Inv, TypeOK, Entry, Promise
  <2>3. now - counts[k].start >= Window
    BY <2>1, <2>2
  <2>4. CurrentWindow(counts[k], now).count = 0
    BY <2>3 DEF CurrentWindow
  <2>. QED  BY <2>4, RateLimiterAssumption
<1>. QED
  BY <1>1, LimiterStaysSound, PTL
-----------------------------------------------------------------------------
(* What is left of a route.                                                *)
UsesLeft ==
  {<<>>, <<"log", "read", "log", "audit">>, <<"read", "log", "audit">>, <<"log", "audit">>,
   <<"audit">>, <<"read">>, <<"web">>}

Request ==
  [uses : UsesLeft, at : {"absent", "working", "waiting", "holding", "done"},
   tries : 0..2, client : {"connected", "left", "dropped"}]

Quiet(r) == r.at \in {"absent", "done"}

ServiceTyped ==
  /\ phase \in {"starting", "serving", "draining", "drained", "auditing", "closing",
               "stopped", "killed"}
  /\ open \in [Pool -> BOOLEAN]
  /\ queue \in [Pool -> Seq(Job)]
  /\ held \in [Pool -> SUBSET Job]
  /\ \A p \in Pool : IsFiniteSet(held[p])
  /\ job \in [Job -> Request]
  /\ \A j \in Job : Quiet(job[j]) <=> job[j].uses = <<>>
  /\ awaited \subseteq Job

(* Nobody asks before the process serves; a request whose client left has  *)
(* nothing to do but its audit; once uvicorn has drained, none is there    *)
(* that is still connected; and what is awaited is every audit of those    *)
(* that left, each at work or done.                                        *)
OnlyAuditsAreLeft ==
  /\ phase = "starting" => \A j \in Job : job[j].at = "absent"
  /\ \A j \in Job : job[j].client = "left" => Auditing(job[j]) \/ job[j].at = "done"
  /\ phase \in {"drained", "auditing", "closing", "stopped"} =>
       \A j \in Job : job[j].client = "connected" => job[j].at = "absent"
  /\ phase = "auditing" =>
       \A j \in Job : job[j].client = "left" /\ Auditing(job[j]) => j \in awaited
  /\ \A j \in awaited : Auditing(job[j]) \/ job[j].at = "done"

(* How a request may go on, whoever its client is: an audit stays one to   *)
(* its end, and only an audit outlives a client that left.                 *)
GoesOn(r, s) ==
  /\ s.client = "connected" => r.client = "connected"
  /\ s.client = "left" => \/ s.at = "done"
                          \/ Auditing(s) /\ Auditing(r) /\ r.client # "dropped"
  /\ r.client = "dropped" => s.client = "dropped" \/ s.at = "done"
  /\ Auditing(r) => Auditing(s) \/ s.at = "done"

ServiceInv ==
  ServiceTyped /\ OnlyAuditsAreLeft /\ AuditsEndBeforeThePool /\ ConnectionsReturn

(* What ConnectionsReturn says of one pool, for any jobs.                  *)
PoolIsSound(p, q, h, jobs) ==
  /\ Cardinality(h) <= MaxSize[p]
  /\ Len(q) <= MaxWaiting[p] /\ IsInjective(q)
  /\ \A j \in h : jobs[j].at = "holding" /\ PoolOf(Head(jobs[j].uses)) = p
  /\ \A j \in ToSet(q) : jobs[j].at = "waiting" /\ PoolOf(Head(jobs[j].uses)) = p
-----------------------------------------------------------------------------
(* Queues in which nobody waits twice.                                     *)
LEMMA AppendWaiter ==
  ASSUME NEW q \in Seq(Job), IsInjective(q), NEW j \in Job, j \notin ToSet(q)
  PROVE  /\ Append(q, j) \in Seq(Job) /\ Len(Append(q, j)) = Len(q) + 1
         /\ IsInjective(Append(q, j)) /\ ToSet(Append(q, j)) \subseteq ToSet(q) \cup {j}
BY DEF IsInjective, ToSet

LEMMA TailOfQueue ==
  ASSUME NEW q \in Seq(Job), IsInjective(q), q # <<>>
  PROVE  /\ Tail(q) \in Seq(Job) /\ Len(Tail(q)) <= Len(q)
         /\ IsInjective(Tail(q)) /\ ToSet(Tail(q)) \subseteq ToSet(q) \ {Head(q)}
         /\ Head(q) \in ToSet(q) /\ Head(q) \in Job
BY DEF IsInjective, ToSet

LEMMA WithoutOne ==
  ASSUME NEW q \in Seq(Job), IsInjective(q), NEW j \in Job
  PROVE  /\ Without(q, j) \in Seq(Job) /\ Len(Without(q, j)) <= Len(q)
         /\ IsInjective(Without(q, j)) /\ ToSet(Without(q, j)) \subseteq ToSet(q) \ {j}
<1>1. CASE j \notin ToSet(q)
  BY <1>1 DEF Without
<1>2. CASE j \in ToSet(q)
  <2>. DEFINE i == CHOOSE k \in DOMAIN q : q[k] = j
              r == RemoveAt(q, i)
  <2>1. i \in 1..Len(q) /\ q[i] = j
    BY <1>2 DEF ToSet
  <2>2. Without(q, j) = r
    BY <1>2 DEF Without
  <2>. HIDE DEF i
  <2>3. /\ r \in Seq(Job) /\ Len(r) = Len(q) - 1
        /\ \A k \in 1..Len(r) : r[k] = IF k < i THEN q[k] ELSE q[k + 1]
    <3>. DEFINE a == SubSeq(q, 1, i - 1)
                b == SubSeq(q, i + 1, Len(q))
    <3>1. /\ a \in Seq(Job) /\ Len(a) = i - 1
          /\ \A k \in 1..i - 1 : a[k] = q[k]
      BY <2>1
    <3>2. /\ b \in Seq(Job) /\ Len(b) = Len(q) - i
          /\ \A k \in 1..Len(q) - i : b[k] = q[i + k]
      BY <2>1
    <3>3. r = a \o b
      BY DEF RemoveAt
    <3>. HIDE DEF a, b, r
    <3>4. r \in Seq(Job) /\ Len(r) = Len(q) - 1
      BY <2>1, <3>1, <3>2, <3>3
    <3>5. ASSUME NEW k \in 1..Len(r) PROVE r[k] = IF k < i THEN q[k] ELSE q[k + 1]
      <4>1. CASE k < i
        BY <2>1, <3>1, <3>2, <3>3, <4>1
      <4>2. CASE k >= i
        <5>1. r[k] = b[k - (i - 1)]
          BY <2>1, <3>1, <3>2, <3>3, <3>4, <4>2
        <5>2. k - (i - 1) \in 1..Len(q) - i /\ i + (k - (i - 1)) = k + 1
          BY <2>1, <3>4, <4>2
        <5>3. QED
          BY <2>1, <3>2, <4>2, <5>1, <5>2
      <4>3. QED
        BY <2>1, <4>1, <4>2
    <3>6. QED
      BY <3>4, <3>5
  <2>. HIDE DEF r
  <2>4. IsInjective(r)
    <3>. SUFFICES ASSUME NEW a \in 1..Len(r), NEW b \in 1..Len(r), r[a] = r[b]
                  PROVE  a = b
      BY <2>3 DEF IsInjective
    <3>. DEFINE c == IF a < i THEN a ELSE a + 1
                d == IF b < i THEN b ELSE b + 1
    <3>1. c \in 1..Len(q) /\ d \in 1..Len(q) /\ r[a] = q[c] /\ r[b] = q[d]
      BY <2>1, <2>3
    <3>2. c = d
      <4>. HIDE DEF c, d
      <4>1. DOMAIN q = 1..Len(q)
        OBVIOUS
      <4>2. QED
        BY <3>1, <4>1 DEF IsInjective
    <3>3. QED
      BY <2>1, <2>3, <3>2
  <2>5. ToSet(r) \subseteq ToSet(q)
    BY <2>1, <2>3 DEF ToSet
  <2>6. j \notin ToSet(r)
    BY <2>1, <2>3 DEF ToSet, IsInjective
  <2>7. QED
    BY <2>2, <2>3, <2>4, <2>5, <2>6
<1>3. QED
  BY <1>1, <1>2

(* A request that fails goes on to its audit, or ends.                     *)
LEMMA RequestsGoOn ==
  ASSUME NEW r \in Request, ~Quiet(r), r.uses # <<>>,
         r.client = "left" => Auditing(r)
  PROVE  \A s \in {Failed(r), Succeeded(r), Ended(r)} :
           s \in Request /\ (Quiet(s) <=> s.uses = <<>>) /\ GoesOn(r, s)
<1>1. /\ r = [uses |-> r.uses, at |-> r.at, tries |-> r.tries, client |-> r.client]
      /\ r.uses \in UsesLeft \ {<<>>} /\ r.tries \in 0..2
      /\ r.client \in {"connected", "left", "dropped"}
      /\ r.at # "done"
  BY DEF Request, Quiet
<1>2. /\ Ended(r) \in Request /\ Ended(r).uses = <<>> /\ Ended(r).at = "done"
      /\ Ended(r).client = IF r.client = "connected" THEN "connected" ELSE "left"
  BY <1>1 DEF Ended, Request, UsesLeft
<1>3. \/ Failed(r) = Ended(r)
      \/ /\ Failed(r) \in Request /\ Failed(r).client = r.client
         /\ Failed(r).uses = <<"audit">> /\ Failed(r).at = "working"
  <2>1. CASE Auditing(r)
    <3>1. r.uses = <<"audit">>
      BY <1>1, <2>1 DEF Auditing, UsesLeft
    <3>2. CASE r.tries < 2
      <4>1. Failed(r) = [r EXCEPT !.tries = r.tries + 1, !.at = "working"]
        BY <2>1, <3>2 DEF Failed
      <4>2. r.tries + 1 \in 0..2
        BY <1>1, <3>2
      <4>3. QED
        BY <1>1, <3>1, <4>1, <4>2 DEF Request, UsesLeft
    <3>3. CASE ~(r.tries < 2)
      BY <2>1, <3>3 DEF Failed
    <3>4. QED
      BY <3>2, <3>3
  <2>2. CASE ~Auditing(r)
    BY <1>1, <2>2 DEF Failed, Request, UsesLeft
  <2>3. QED
    BY <2>1, <2>2
<1>4. \/ Succeeded(r) = Ended(r)
      \/ /\ Succeeded(r) \in Request /\ Succeeded(r).client = r.client
         /\ Succeeded(r).uses = Tail(r.uses) /\ Succeeded(r).uses # <<>>
         /\ Succeeded(r).at = "working" /\ ~Auditing(r)
  <2>1. CASE Len(r.uses) = 1
    BY <2>1 DEF Succeeded
  <2>2. CASE Len(r.uses) # 1
    <3>1. /\ Tail(r.uses) \in UsesLeft /\ Tail(r.uses) # <<>>
          /\ Head(r.uses) # "audit"
      <4>1. CASE r.uses = <<"log", "read", "log", "audit">>
        BY <4>1 DEF UsesLeft
      <4>2. CASE r.uses = <<"read", "log", "audit">>
        BY <4>2 DEF UsesLeft
      <4>3. CASE r.uses = <<"log", "audit">>
        BY <4>3 DEF UsesLeft
      <4>4. QED
        BY <1>1, <2>2, <4>1, <4>2, <4>3 DEF UsesLeft
    <3>2. QED
      BY <1>1, <2>2, <3>1 DEF Succeeded, Request, Auditing
  <2>3. QED
    BY <2>1, <2>2
<1>5. GoesOn(r, Ended(r)) /\ (Quiet(Ended(r)) <=> Ended(r).uses = <<>>)
  BY <1>1, <1>2 DEF GoesOn, Quiet
<1>6. GoesOn(r, Failed(r)) /\ (Quiet(Failed(r)) <=> Failed(r).uses = <<>>)
  BY <1>1, <1>3, <1>5 DEF GoesOn, Quiet, Auditing
<1>7. GoesOn(r, Succeeded(r)) /\ (Quiet(Succeeded(r)) <=> Succeeded(r).uses = <<>>)
  BY <1>1, <1>4, <1>5 DEF GoesOn, Quiet, Auditing
<1>8. QED
  BY <1>2, <1>3, <1>4, <1>5, <1>6, <1>7
-----------------------------------------------------------------------------
(* What a pool keeps when some who waited or held a connection are gone.   *)
LEMMA FewerIsSound ==
  ASSUME NEW p \in Pool, NEW jobs, NEW jobs2, NEW q, NEW h, PoolIsSound(p, q, h, jobs),
         IsFiniteSet(h), q \in Seq(Job), NEW q2 \in Seq(Job), Len(q2) <= Len(q),
         IsInjective(q2), ToSet(q2) \subseteq ToSet(q), NEW h2, h2 \subseteq h,
         \A j \in h2 \cup ToSet(q2) : jobs2[j] = jobs[j]
  PROVE  PoolIsSound(p, q2, h2, jobs2) /\ IsFiniteSet(h2)
<1>1. /\ IsFiniteSet(h2) /\ Cardinality(h2) <= Cardinality(h)
      /\ Cardinality(h2) \in Nat /\ Cardinality(h) \in Nat
  BY FS_Subset, FS_CardinalityType
<1>2. MaxSize[p] \in Nat /\ MaxWaiting[p] \in Nat
  BY ServiceAssumption
<1>3. Cardinality(h2) <= MaxSize[p]
  BY <1>1, <1>2 DEF PoolIsSound
<1>4. Len(q2) <= MaxWaiting[p]
  BY <1>2 DEF PoolIsSound
<1>5. QED
  BY <1>1, <1>3, <1>4 DEF PoolIsSound

LEMMA PoolsAreSound ==
  ConnectionsReturn <=> \A p \in Pool : PoolIsSound(p, queue[p], held[p], job)
BY DEF ConnectionsReturn, PoolIsSound

(* Some requests go on, as their place in the shutdown allows.             *)
LEMMA SomeGoOn ==
  ASSUME ServiceTyped, OnlyAuditsAreLeft, AuditsEndBeforeThePool,
         UNCHANGED <<phase, awaited>>,
         job' \in [Job -> Request],
         \A j \in Job : \/ job'[j] = job[j]
                        \/ /\ ~Quiet(job[j]) /\ GoesOn(job[j], job'[j])
                           /\ Quiet(job'[j]) <=> job'[j].uses = <<>>
  PROVE  /\ \A k \in Job : Quiet(job'[k]) <=> job'[k].uses = <<>>
         /\ OnlyAuditsAreLeft' /\ AuditsEndBeforeThePool'
<1>1. \A k \in Job : Quiet(job'[k]) <=> job'[k].uses = <<>>
  BY DEF ServiceTyped
<1>2. phase = "starting" => \A j \in Job : job'[j].at = "absent"
  BY DEF OnlyAuditsAreLeft, Quiet
<1>3. \A j \in Job : job'[j].client = "left" => Auditing(job'[j]) \/ job'[j].at = "done"
  BY DEF OnlyAuditsAreLeft, GoesOn
<1>4. phase \in {"drained", "auditing", "closing", "stopped"} =>
        \A j \in Job : job'[j].client = "connected" => job'[j].at = "absent"
  BY DEF OnlyAuditsAreLeft, GoesOn, Quiet
<1>5. ASSUME phase = "auditing", NEW j \in Job, job'[j].client = "left", Auditing(job'[j])
      PROVE  j \in awaited
  <2>1. CASE job'[j] = job[j]
    BY <1>5, <2>1 DEF OnlyAuditsAreLeft
  <2>2. CASE ~Quiet(job[j]) /\ GoesOn(job[j], job'[j])
    <3>1. Auditing(job[j]) /\ job[j].client # "dropped"
      BY <1>5, <2>2 DEF GoesOn, Auditing
    <3>2. job[j].client # "connected"
      BY <1>5, <2>2 DEF OnlyAuditsAreLeft, Quiet
    <3>3. job[j].client = "left"
      BY <3>1, <3>2 DEF ServiceTyped, Request
    <3>. QED  BY <1>5, <3>1, <3>3 DEF OnlyAuditsAreLeft
  <2>. QED  BY <2>1, <2>2
<1>6. \A j \in awaited : Auditing(job'[j]) \/ job'[j].at = "done"
  BY DEF OnlyAuditsAreLeft, GoesOn, Quiet, ServiceTyped
<1>7. ASSUME phase = "closing", NEW j \in Job, Auditing(job'[j])
      PROVE  job'[j].client = "dropped" /\ j \notin awaited
  <2>1. CASE job'[j] = job[j]
    BY <1>7, <2>1 DEF AuditsEndBeforeThePool
  <2>2. CASE ~Quiet(job[j]) /\ GoesOn(job[j], job'[j])
    <3>1. job[j].client # "connected" /\ job[j].at # "done"
      BY <1>7, <2>2 DEF OnlyAuditsAreLeft, Quiet
    <3>2. job[j].client # "left"
      BY <1>7, <3>1 DEF OnlyAuditsAreLeft, AuditsEndBeforeThePool
    <3>3. job[j].client = "dropped"
      BY <3>1, <3>2 DEF ServiceTyped, Request
    <3>4. j \notin awaited
      BY <1>7, <3>1 DEF OnlyAuditsAreLeft, AuditsEndBeforeThePool
    <3>. QED  BY <1>7, <2>2, <3>3, <3>4 DEF GoesOn, Auditing
  <2>. QED  BY <2>1, <2>2
<1>8. OnlyAuditsAreLeft'
  BY <1>2, <1>3, <1>4, <1>5, <1>6 DEF OnlyAuditsAreLeft
<1>9. AuditsEndBeforeThePool'
  BY <1>7 DEF AuditsEndBeforeThePool
<1>10. QED
  BY <1>1, <1>8, <1>9

LEMMA OneGoesOn ==
  ASSUME ServiceTyped, OnlyAuditsAreLeft, AuditsEndBeforeThePool,
         UNCHANGED <<phase, awaited>>,
         NEW j \in Job, ~Quiet(job[j]), NEW r \in Request, Quiet(r) <=> r.uses = <<>>,
         GoesOn(job[j], r), job' = [job EXCEPT ![j] = r]
  PROVE  /\ job' \in [Job -> Request] /\ \A k \in Job : Quiet(job'[k]) <=> job'[k].uses = <<>>
         /\ OnlyAuditsAreLeft' /\ AuditsEndBeforeThePool'
<1>1. /\ job' \in [Job -> Request] /\ job'[j] = r
      /\ \A k \in Job \ {j} : job'[k] = job[k]
  BY DEF ServiceTyped
<1>2. QED
  BY <1>1, SomeGoOn

(* Who is being served is not idle.                                        *)
LEMMA BusyIsTyped ==
  ASSUME ServiceTyped, OnlyAuditsAreLeft, NEW j \in Job,
         job[j].at \in {"working", "waiting", "holding"}
  PROVE  /\ job[j] \in Request /\ ~Quiet(job[j]) /\ job[j].uses # <<>>
         /\ job[j].client = "left" => Auditing(job[j])
BY DEF ServiceTyped, OnlyAuditsAreLeft, Quiet

(* A request that takes its next step in the same place goes on.           *)
LEMMA MovesOn ==
  ASSUME NEW r, ~Quiet(r), r.client = "left" => Auditing(r),
         NEW s, s.uses = r.uses, s.client = r.client, s.at # "done"
  PROVE  GoesOn(r, s)
BY DEF GoesOn, Auditing, Quiet

LEMMA ServiceStarts == ServiceInit => ServiceInv
<1>. SUFFICES ASSUME ServiceInit PROVE ServiceInv
  OBVIOUS
<1>1. /\ phase = "starting" /\ open \in [Pool -> BOOLEAN]
      /\ queue \in [Pool -> Seq(Job)] /\ held \in [Pool -> SUBSET Job]
      /\ \A p \in Pool : queue[p] = <<>> /\ held[p] = {}
      /\ \A j \in Job : job[j] = Absent
      /\ job = [j \in Job |-> Absent] /\ awaited = {}
  BY DEF ServiceInit
<1>2. Absent \in Request /\ Absent.uses = <<>> /\ Absent.at = "absent"
      /\ Absent.client = "connected"
  BY DEF Absent, Request, UsesLeft
<1>3. ServiceTyped
  <2>1. job \in [Job -> Request] /\ \A j \in Job : Quiet(job[j]) <=> job[j].uses = <<>>
    BY <1>1, <1>2 DEF Quiet
  <2>2. \A p \in Pool : IsFiniteSet(held[p])
    BY <1>1, FS_EmptySet
  <2>3. QED
    BY <1>1, <2>1, <2>2 DEF ServiceTyped
<1>4. OnlyAuditsAreLeft /\ AuditsEndBeforeThePool
  BY <1>1, <1>2 DEF OnlyAuditsAreLeft, AuditsEndBeforeThePool
<1>5. ASSUME NEW p \in Pool PROVE PoolIsSound(p, <<>>, {}, job)
  <2>1. Cardinality({}) = 0 /\ MaxSize[p] \in Nat /\ MaxWaiting[p] \in Nat
    BY FS_EmptySet, ServiceAssumption
  <2>2. Len(<<>>) = 0 /\ IsInjective(<<>>) /\ ToSet(<<>>) = {}
    BY DEF IsInjective, ToSet
  <2>3. QED
    BY <2>1, <2>2 DEF PoolIsSound
<1>6. QED
  BY <1>1, <1>3, <1>4, <1>5, PoolsAreSound DEF ServiceInv

LEMMA PhaseStepKeeps ==
  ASSUME ServiceInv,
         Startup \/ Terminate \/ Drained \/ FindAuditTasks \/ WaitForAuditTasks
  PROVE  ServiceInv'
<1>1. UNCHANGED <<queue, held, job>>
  BY DEF Startup, Terminate, Drained, FindAuditTasks, WaitForAuditTasks
<1>2. open' \in [Pool -> BOOLEAN]
  BY DEF Startup, Terminate, Drained, FindAuditTasks, WaitForAuditTasks, ServiceInv,
         ServiceTyped
<1>3. \/ phase = "starting" /\ phase' \in {"serving", "drained"} /\ awaited' = awaited
      \/ phase = "serving" /\ phase' = "draining" /\ awaited' = awaited
      \/ /\ phase = "draining" /\ phase' = "drained" /\ awaited' = awaited
         /\ \A j \in Job : job[j].client = "connected" => job[j].at = "absent"
      \/ /\ phase = "drained" /\ phase' = "auditing"
         /\ awaited' = {j \in Job : Auditing(job[j])}
      \/ /\ phase = "auditing" /\ phase' = "closing" /\ awaited' = awaited
         /\ \A j \in awaited : ~Auditing(job[j])
  BY DEF Startup, Terminate, Drained, FindAuditTasks, WaitForAuditTasks
<1>4. ServiceTyped'
  BY <1>1, <1>2, <1>3 DEF ServiceInv, ServiceTyped
<1>5. OnlyAuditsAreLeft'
  BY <1>1, <1>3 DEF ServiceInv, OnlyAuditsAreLeft, Auditing
<1>6. AuditsEndBeforeThePool'
  <2>1. ASSUME phase = "auditing", \A j \in awaited : ~Auditing(job[j]),
               NEW j \in Job, Auditing(job[j])
        PROVE  job[j].client = "dropped" /\ j \notin awaited
    <3>1. j \notin awaited /\ job[j].client # "left"
      BY <2>1 DEF ServiceInv, OnlyAuditsAreLeft
    <3>2. job[j].client # "connected"
      BY <2>1 DEF ServiceInv, ServiceTyped, OnlyAuditsAreLeft, Auditing, Quiet
    <3>. QED  BY <3>1, <3>2 DEF ServiceInv, ServiceTyped, Request
  <2>. QED  BY <1>1, <1>3, <2>1 DEF AuditsEndBeforeThePool
<1>7. ConnectionsReturn'
  BY <1>1 DEF ServiceInv, ConnectionsReturn
<1>8. QED
  BY <1>4, <1>5, <1>6, <1>7 DEF ServiceInv

LEMMA ArriveKeeps ==
  ASSUME ServiceInv, NEW j \in Job, Arrive(j)
  PROVE  ServiceInv'
<1>1. PICK uses \in Route :
        job' = [job EXCEPT ![j] = [job[j] EXCEPT !.uses = uses, !.at = "working"]]
  BY DEF Arrive
<1>. DEFINE r == [job[j] EXCEPT !.uses = uses, !.at = "working"]
<1>2. /\ phase = "serving" /\ job[j].at = "absent"
      /\ UNCHANGED <<phase, open, queue, held, awaited>>
  BY DEF Arrive
<1>3. job \in [Job -> Request] /\ job[j].uses = <<>>
      /\ job[j].client # "left" /\ j \notin awaited
  BY <1>2 DEF ServiceInv, ServiceTyped, OnlyAuditsAreLeft, Auditing, Quiet, Request
<1>4. /\ r \in Request /\ r.uses = uses /\ r.at = "working" /\ r.client # "left"
      /\ uses # <<>>
  <2>1. /\ job[j] = [uses |-> job[j].uses, at |-> job[j].at, tries |-> job[j].tries,
                     client |-> job[j].client]
        /\ job[j].tries \in 0..2 /\ job[j].client \in {"connected", "left", "dropped"}
    BY <1>3 DEF Request
  <2>2. uses \in UsesLeft /\ uses # <<>>
    BY <1>1 DEF UsesLeft, Route
  <2>3. QED
    BY <1>3, <2>1, <2>2 DEF Request
<1>. HIDE DEF r
<1>5. job' \in [Job -> Request] /\ \A k \in Job : job'[k] = IF k = j THEN r ELSE job[k]
  BY <1>1, <1>3, <1>4 DEF r
<1>6. \A k \in Job : Quiet(job'[k]) <=> job'[k].uses = <<>>
  BY <1>4, <1>5 DEF ServiceInv, ServiceTyped, Quiet
<1>7. ServiceTyped'
  BY <1>2, <1>5, <1>6 DEF ServiceInv, ServiceTyped
<1>8. OnlyAuditsAreLeft' /\ AuditsEndBeforeThePool'
  BY <1>2, <1>3, <1>4, <1>5 DEF ServiceInv, ServiceTyped, OnlyAuditsAreLeft,
                                AuditsEndBeforeThePool
<1>9. ConnectionsReturn'
  <2>1. \A p \in Pool : held[p] \subseteq Job /\ ToSet(queue[p]) \subseteq Job
    BY DEF ServiceInv, ServiceTyped, ToSet
  <2>2. ASSUME NEW p \in Pool, NEW k \in held[p] \cup ToSet(queue[p])
        PROVE  job'[k] = job[k]
    <3>1. job[k].at \in {"holding", "waiting"}
      BY <2>2 DEF ServiceInv, ConnectionsReturn
    <3>2. QED
      BY <1>2, <1>5, <2>1, <2>2, <3>1
  <2>3. QED
    BY <1>2, <2>2 DEF ServiceInv, ConnectionsReturn
<1>10. QED
  BY <1>7, <1>8, <1>9 DEF ServiceInv

(* Who is not waiting is in no queue, and who holds nothing is nowhere     *)
(* among those who do.                                                     *)
LEMMA OneIsWhereItIs ==
  ASSUME ServiceTyped, ConnectionsReturn, NEW p \in Pool
  PROVE  /\ queue[p] \in Seq(Job) /\ IsInjective(queue[p]) /\ IsFiniteSet(held[p])
         /\ held[p] \subseteq Job /\ ToSet(queue[p]) \subseteq Job
         /\ PoolIsSound(p, queue[p], held[p], job)
         /\ \A j \in ToSet(queue[p]) : job[j].at = "waiting"
         /\ \A j \in held[p] : job[j].at = "holding"
BY DEF ServiceTyped, ConnectionsReturn, PoolIsSound, ToSet

LEMMA GrantKeeps ==
  ASSUME ServiceInv, NEW p \in Pool, Grant(p)
  PROVE  ServiceInv'
<1>. DEFINE j == Head(queue[p])
            r == [job[j] EXCEPT !.at = "holding"]
<1>1. /\ queue[p] # <<>> /\ Cardinality(held[p]) < MaxSize[p]
      /\ held' = [held EXCEPT ![p] = held[p] \cup {j}]
      /\ queue' = [queue EXCEPT ![p] = Tail(queue[p])]
      /\ job' = [job EXCEPT ![j] = r]
      /\ UNCHANGED <<phase, open, awaited>>
  BY DEF Grant
<1>2. ServiceTyped /\ OnlyAuditsAreLeft /\ AuditsEndBeforeThePool /\ ConnectionsReturn
  BY DEF ServiceInv
<1>3. /\ Tail(queue[p]) \in Seq(Job) /\ Len(Tail(queue[p])) <= Len(queue[p])
      /\ IsInjective(Tail(queue[p])) /\ ToSet(Tail(queue[p])) \subseteq ToSet(queue[p]) \ {j}
      /\ j \in ToSet(queue[p]) /\ j \in Job
  BY <1>1, <1>2, OneIsWhereItIs, TailOfQueue
<1>4. job[j].at = "waiting" /\ PoolOf(Head(job[j].uses)) = p
  BY <1>2, <1>3 DEF ConnectionsReturn
<1>. HIDE DEF j
<1>5. /\ job[j] \in Request /\ ~Quiet(job[j]) /\ job[j].uses # <<>>
      /\ job[j].client = "left" => Auditing(job[j])
  BY <1>2, <1>3, <1>4, BusyIsTyped
<1>6. r \in Request /\ r.uses = job[j].uses /\ r.at = "holding" /\ r.client = job[j].client
  BY <1>5 DEF Request
<1>. HIDE DEF r
<1>7. ~Quiet(r) /\ GoesOn(job[j], r)
  BY <1>5, <1>6, MovesOn DEF Quiet
<1>8. /\ job' \in [Job -> Request] /\ \A k \in Job : Quiet(job'[k]) <=> job'[k].uses = <<>>
      /\ OnlyAuditsAreLeft' /\ AuditsEndBeforeThePool'
  BY <1>1, <1>2, <1>3, <1>5, <1>6, <1>7, OneGoesOn
<1>9. job'[j] = r /\ \A k \in Job \ {j} : job'[k] = job[k]
  BY <1>1, <1>2, <1>3 DEF ServiceTyped
<1>10. /\ queue' \in [Pool -> Seq(Job)] /\ held' \in [Pool -> SUBSET Job]
       /\ \A q \in Pool : queue'[q] = IF q = p THEN Tail(queue[p]) ELSE queue[q]
       /\ \A q \in Pool : held'[q] = IF q = p THEN held[p] \cup {j} ELSE held[q]
  BY <1>1, <1>2, <1>3 DEF ServiceTyped
<1>11. \A q \in Pool \ {p} : j \notin ToSet(queue[q]) /\ j \notin held[q]
  BY <1>2, <1>4 DEF ConnectionsReturn
<1>12. j \notin held[p]
  BY <1>2, <1>4, OneIsWhereItIs
<1>13. /\ IsFiniteSet(held[p] \cup {j}) /\ Cardinality(held[p] \cup {j}) = Cardinality(held[p]) + 1
       /\ Cardinality(held[p]) \in Nat
  BY <1>2, <1>12, OneIsWhereItIs, FS_AddElement, FS_CardinalityType
<1>14. ServiceTyped'
  <2>1. \A q \in Pool : IsFiniteSet(held'[q])
    BY <1>2, <1>10, <1>13 DEF ServiceTyped
  <2>2. QED
    BY <1>1, <1>2, <1>8, <1>10, <2>1 DEF ServiceTyped
<1>15. ASSUME NEW q \in Pool PROVE PoolIsSound(q, queue'[q], held'[q], job')
  <2>1. CASE q # p
    <3>1. \A k \in held[q] \cup ToSet(queue[q]) : job'[k] = job[k]
      BY <1>2, <1>9, <1>11, <2>1, OneIsWhereItIs
    <3>2. PoolIsSound(q, queue[q], held[q], job')
      BY <1>2, <3>1, OneIsWhereItIs DEF PoolIsSound
    <3>3. QED
      BY <1>10, <2>1, <3>2
  <2>2. CASE q = p
    <3>1. \A k \in held[p] \cup ToSet(Tail(queue[p])) : job'[k] = job[k]
      BY <1>2, <1>3, <1>9, <1>12, OneIsWhereItIs
    <3>2. PoolIsSound(p, Tail(queue[p]), held[p], job')
      BY <1>2, <1>3, <3>1, OneIsWhereItIs, FewerIsSound
    <3>3. Cardinality(held[p]) + 1 <= MaxSize[p]
      <4>1. MaxSize[p] \in Nat
        BY ServiceAssumption
      <4>2. QED
        BY <1>1, <1>13, <4>1
    <3>4. job'[j].at = "holding" /\ PoolOf(Head(job'[j].uses)) = p
      BY <1>4, <1>6, <1>9
    <3>5. QED
      BY <1>10, <1>13, <2>2, <3>2, <3>3, <3>4 DEF PoolIsSound
  <2>3. QED
    BY <2>1, <2>2
<1>16. ConnectionsReturn'
  BY <1>15 DEF ConnectionsReturn, PoolIsSound
<1>17. QED
  BY <1>8, <1>14, <1>16 DEF ServiceInv

(* A request that leaves a queue or gives a connection back goes on.       *)
LEMMA LeavingKeeps ==
  ASSUME ServiceInv, NEW j \in Job, NEW r \in Request,
         job[j].at \in {"working", "waiting", "holding"},
         Quiet(r) <=> r.uses = <<>>,
         GoesOn(job[j], r), job' = [job EXCEPT ![j] = r], UNCHANGED <<phase, open, awaited>>,
         \/ queue' = [p \in Pool |-> Without(queue[p], j)]
         \/ UNCHANGED queue /\ job[j].at # "waiting",
         \/ Release(j)
         \/ UNCHANGED held /\ job[j].at # "holding"
  PROVE  ServiceInv'
<1>1. ServiceTyped /\ OnlyAuditsAreLeft /\ AuditsEndBeforeThePool /\ ConnectionsReturn
  BY DEF ServiceInv
<1>2. ~Quiet(job[j])
  BY DEF Quiet
<1>3. /\ job' \in [Job -> Request] /\ \A k \in Job : Quiet(job'[k]) <=> job'[k].uses = <<>>
      /\ OnlyAuditsAreLeft' /\ AuditsEndBeforeThePool'
  BY <1>1, <1>2, OneGoesOn
<1>4. \A k \in Job \ {j} : job'[k] = job[k]
  BY <1>1 DEF ServiceTyped
<1>5. ASSUME NEW p \in Pool
      PROVE  /\ queue'[p] \in Seq(Job) /\ Len(queue'[p]) <= Len(queue[p])
             /\ IsInjective(queue'[p]) /\ ToSet(queue'[p]) \subseteq ToSet(queue[p]) \ {j}
  <2>1. CASE queue' = [q \in Pool |-> Without(queue[q], j)]
    BY <1>1, <2>1, OneIsWhereItIs, WithoutOne
  <2>2. CASE UNCHANGED queue /\ job[j].at # "waiting"
    BY <1>1, <2>2, OneIsWhereItIs
  <2>3. QED
    BY <2>1, <2>2
<1>6. ASSUME NEW p \in Pool
      PROVE  held'[p] \subseteq held[p] \ {j}
  BY <1>1, OneIsWhereItIs DEF Release
<1>7. ASSUME NEW p \in Pool
      PROVE  PoolIsSound(p, queue'[p], held'[p], job') /\ IsFiniteSet(held'[p])
  <2>. DEFINE q == queue'[p]
              h == held'[p]
  <2>1. \A k \in h \cup ToSet(q) : job'[k] = job[k]
    BY <1>1, <1>4, <1>5, <1>6, OneIsWhereItIs
  <2>2. /\ queue[p] \in Seq(Job) /\ IsFiniteSet(held[p])
        /\ PoolIsSound(p, queue[p], held[p], job)
    BY <1>1, OneIsWhereItIs
  <2>3. /\ q \in Seq(Job) /\ Len(q) <= Len(queue[p]) /\ IsInjective(q)
        /\ ToSet(q) \subseteq ToSet(queue[p]) /\ h \subseteq held[p]
    BY <1>5, <1>6
  <2>. HIDE DEF q, h
  <2>4. PoolIsSound(p, q, h, job') /\ IsFiniteSet(h)
    BY <2>1, <2>2, <2>3, FewerIsSound
  <2>5. QED
    BY <2>4 DEF q, h
<1>8. /\ queue' \in [Pool -> Seq(Job)] /\ held' \in [Pool -> SUBSET Job]
  <2>1. queue' = [p \in Pool |-> queue'[p]] /\ held' = [p \in Pool |-> held'[p]]
    BY <1>1 DEF ServiceTyped, Release
  <2>2. QED
    BY <1>1, <1>5, <1>6, <2>1, OneIsWhereItIs
<1>9. ServiceTyped'
  BY <1>1, <1>3, <1>7, <1>8 DEF ServiceTyped
<1>10. ConnectionsReturn'
  BY <1>7 DEF ConnectionsReturn, PoolIsSound
<1>11. QED
  BY <1>3, <1>9, <1>10 DEF ServiceInv

LEMMA AskKeeps ==
  ASSUME ServiceInv, NEW j \in Job, Ask(j)
  PROVE  ServiceInv'
<1>. DEFINE p == PoolOf(Head(job[j].uses))
<1>1. job[j].at = "working" /\ UNCHANGED <<phase, open, held, awaited>>
  BY DEF Ask
<1>2. ServiceTyped /\ OnlyAuditsAreLeft /\ AuditsEndBeforeThePool /\ ConnectionsReturn
  BY DEF ServiceInv
<1>3. /\ job[j] \in Request /\ ~Quiet(job[j]) /\ job[j].uses # <<>>
      /\ job[j].client = "left" => Auditing(job[j])
  BY <1>1, <1>2, BusyIsTyped
<1>4. p \in Pool
  BY <1>3 DEF Request, UsesLeft, PoolOf, Pool
<1>5. \A q \in Pool : j \notin held[q] /\ j \notin ToSet(queue[q])
  BY <1>1, <1>2, OneIsWhereItIs
<1>6. CASE open[p] /\ Len(queue[p]) < MaxWaiting[p]
  <2>. DEFINE r == [job[j] EXCEPT !.at = "waiting"]
  <2>1. queue' = [queue EXCEPT ![p] = Append(queue[p], j)] /\ job' = [job EXCEPT ![j] = r]
    BY <1>6 DEF Ask
  <2>2. /\ r \in Request /\ r.uses = job[j].uses /\ r.at = "waiting"
        /\ r.client = job[j].client
    BY <1>3 DEF Request
  <2>. HIDE DEF p, r
  <2>3. ~Quiet(r) /\ GoesOn(job[j], r)
    BY <1>3, <2>2, MovesOn DEF Quiet
  <2>4. /\ job' \in [Job -> Request] /\ \A k \in Job : Quiet(job'[k]) <=> job'[k].uses = <<>>
        /\ OnlyAuditsAreLeft' /\ AuditsEndBeforeThePool'
    BY <1>1, <1>2, <1>3, <2>1, <2>2, <2>3, OneGoesOn
  <2>5. job'[j] = r /\ \A k \in Job \ {j} : job'[k] = job[k]
    BY <1>2, <2>1 DEF ServiceTyped
  <2>6. /\ Append(queue[p], j) \in Seq(Job) /\ Len(Append(queue[p], j)) = Len(queue[p]) + 1
        /\ IsInjective(Append(queue[p], j))
        /\ ToSet(Append(queue[p], j)) \subseteq ToSet(queue[p]) \cup {j}
    BY <1>2, <1>4, <1>5, OneIsWhereItIs, AppendWaiter
  <2>7. \A q \in Pool : queue'[q] = IF q = p THEN Append(queue[p], j) ELSE queue[q]
    BY <1>2, <2>1 DEF ServiceTyped
  <2>8. queue' \in [Pool -> Seq(Job)]
    BY <1>2, <2>1, <2>6 DEF ServiceTyped
  <2>9. ASSUME NEW q \in Pool PROVE PoolIsSound(q, queue'[q], held'[q], job')
    <3>1. \A k \in held[q] \cup ToSet(queue[q]) : job'[k] = job[k]
      BY <1>2, <1>5, <2>5, OneIsWhereItIs
    <3>2. PoolIsSound(q, queue[q], held[q], job')
      BY <1>2, <3>1, OneIsWhereItIs DEF PoolIsSound
    <3>3. CASE q # p
      BY <1>1, <2>7, <3>2, <3>3
    <3>4. CASE q = p
      <4>1. Len(queue[p]) + 1 <= MaxWaiting[p]
        <5>1. MaxWaiting[p] \in Nat /\ Len(queue[p]) \in Nat
          BY <1>2, <1>4, ServiceAssumption, OneIsWhereItIs
        <5>2. QED
          BY <1>6, <5>1
      <4>2. job'[j].at = "waiting" /\ PoolOf(Head(job'[j].uses)) = p
        BY <2>2, <2>5 DEF p
      <4>3. QED
        BY <1>1, <2>6, <2>7, <3>2, <3>4, <4>1, <4>2 DEF PoolIsSound
    <3>5. QED
      BY <3>3, <3>4
  <2>10. ServiceTyped'
    BY <1>1, <1>2, <2>4, <2>8 DEF ServiceTyped
  <2>11. ConnectionsReturn'
    BY <2>9 DEF ConnectionsReturn, PoolIsSound
  <2>12. QED
    BY <2>4, <2>10, <2>11 DEF ServiceInv
<1>7. CASE ~(open[p] /\ Len(queue[p]) < MaxWaiting[p])
  <2>. DEFINE r == Failed(job[j])
  <2>1. UNCHANGED queue /\ job' = [job EXCEPT ![j] = r]
    BY <1>7 DEF Ask
  <2>2. /\ r \in Request /\ GoesOn(job[j], r)
        /\ Quiet(r) <=> r.uses = <<>>
    BY <1>3, RequestsGoOn
  <2>. HIDE DEF r
  <2>3. QED
    BY <1>1, <1>3, <2>1, <2>2, LeavingKeeps
<1>8. QED
  BY <1>6, <1>7

LEMMA TimeOutKeeps ==
  ASSUME ServiceInv, NEW j \in Job, TimeOut(j)
  PROVE  ServiceInv'
<1>. DEFINE r == Failed(job[j])
<1>1. /\ job[j].at = "waiting" /\ job' = [job EXCEPT ![j] = r]
      /\ queue' = [p \in Pool |-> Without(queue[p], j)]
      /\ UNCHANGED <<phase, open, held, awaited>>
  BY DEF TimeOut
<1>2. /\ job[j] \in Request /\ ~Quiet(job[j]) /\ job[j].uses # <<>>
      /\ job[j].client = "left" => Auditing(job[j])
  BY <1>1, BusyIsTyped DEF ServiceInv
<1>3. /\ r \in Request /\ GoesOn(job[j], r)
      /\ Quiet(r) <=> r.uses = <<>>
  BY <1>2, RequestsGoOn
<1>. HIDE DEF r
<1>4. QED
  BY <1>1, <1>2, <1>3, LeavingKeeps

LEMMA UseKeeps ==
  ASSUME ServiceInv, NEW j \in Job, Use(j)
  PROVE  ServiceInv'
<1>1. /\ job[j].at = "holding" /\ Release(j)
      /\ UNCHANGED <<phase, open, queue, awaited>>
  BY DEF Use
<1>2. /\ job[j] \in Request /\ ~Quiet(job[j]) /\ job[j].uses # <<>>
      /\ job[j].client = "left" => Auditing(job[j])
  BY <1>1, BusyIsTyped DEF ServiceInv
<1>3. PICK r \in {Succeeded(job[j]), Failed(job[j]), Ended(job[j])} :
        job' = [job EXCEPT ![j] = r]
  BY DEF Use
<1>4. /\ r \in Request /\ GoesOn(job[j], r)
      /\ Quiet(r) <=> r.uses = <<>>
  BY <1>2, <1>3, RequestsGoOn
<1>5. QED
  BY <1>1, <1>2, <1>3, <1>4, LeavingKeeps

(* A client that leaves while its run goes on, or its audit alone.         *)
LEMMA ClientGoes ==
  ASSUME ServiceInv, NEW j \in Job, job[j].at \in {"working", "waiting", "holding"},
         NEW c \in {"left", "dropped"}, job[j].client = "connected",
         c = "left" => Auditing(job[j]),
         job' = [job EXCEPT ![j].client = c],
         UNCHANGED <<phase, open, queue, held, awaited>>
  PROVE  ServiceInv'
<1>. DEFINE r == [job[j] EXCEPT !.client = c]
<1>1. ServiceTyped /\ OnlyAuditsAreLeft /\ AuditsEndBeforeThePool /\ ConnectionsReturn
  BY DEF ServiceInv
<1>2. job[j] \in Request /\ ~Quiet(job[j]) /\ job[j].uses # <<>>
  BY <1>1, BusyIsTyped
<1>3. r \in Request /\ r.uses = job[j].uses /\ r.at = job[j].at /\ r.client = c
  BY <1>2 DEF Request
<1>4. job' = [job EXCEPT ![j] = r]
  BY <1>1 DEF ServiceTyped
<1>. HIDE DEF r
<1>5. ~Quiet(r) /\ GoesOn(job[j], r)
  BY <1>2, <1>3 DEF GoesOn, Auditing, Quiet
<1>6. /\ job' \in [Job -> Request] /\ \A k \in Job : Quiet(job'[k]) <=> job'[k].uses = <<>>
      /\ OnlyAuditsAreLeft' /\ AuditsEndBeforeThePool'
  BY <1>1, <1>2, <1>3, <1>4, <1>5, OneGoesOn
<1>7. \A k \in Job : job'[k].at = job[k].at /\ job'[k].uses = job[k].uses
  BY <1>1, <1>3, <1>4 DEF ServiceTyped
<1>8. ServiceTyped'
  BY <1>1, <1>6 DEF ServiceTyped
<1>9. ASSUME NEW p \in Pool PROVE PoolIsSound(p, queue'[p], held'[p], job')
  <2>1. /\ PoolIsSound(p, queue[p], held[p], job)
        /\ held[p] \subseteq Job /\ ToSet(queue[p]) \subseteq Job
    BY <1>1, OneIsWhereItIs
  <2>2. QED
    BY <1>7, <2>1 DEF PoolIsSound
<1>10. ConnectionsReturn'
  BY <1>9 DEF ConnectionsReturn, PoolIsSound
<1>11. QED
  BY <1>6, <1>8, <1>10 DEF ServiceInv

(* Who still has an audit before it is being served.                       *)
LEMMA StreamIsBusy ==
  ASSUME ServiceInv, NEW j \in Job, "audit" \in ToSet(job[j].uses)
  PROVE  job[j] \in Request /\ job[j].at \in {"working", "waiting", "holding"}
<1>1. job[j].uses # <<>>
  BY DEF ToSet
<1>2. QED
  BY <1>1 DEF ServiceInv, ServiceTyped, Request, Quiet

LEMMA DropKeeps ==
  ASSUME ServiceInv, NEW j \in Job, Drop(j)
  PROVE  ServiceInv'
BY StreamIsBusy, ClientGoes DEF Drop

LEMMA LeaveKeeps ==
  ASSUME ServiceInv, NEW j \in Job, Leave(j)
  PROVE  ServiceInv'
<1>1. /\ job[j] \in Request /\ job[j].at \in {"working", "waiting", "holding"}
      /\ job[j].client = "connected" /\ UNCHANGED <<phase, open, awaited>>
  BY StreamIsBusy DEF Leave
<1>2. CASE Auditing(job[j])
  BY <1>1, <1>2, ClientGoes DEF Leave
<1>3. CASE ~Auditing(job[j])
  <2>1. /\ job' = [job EXCEPT ![j] = Over] /\ Release(j)
        /\ queue' = [p \in Pool |-> Without(queue[p], j)]
    BY <1>3 DEF Leave
  <2>2. Over \in Request /\ Over.uses = <<>> /\ Over.at = "done" /\ Over.client = "left"
    BY DEF Over, Request, UsesLeft
  <2>3. GoesOn(job[j], Over) /\ (Quiet(Over) <=> Over.uses = <<>>)
    BY <1>1, <2>2 DEF GoesOn, Quiet
  <2>4. QED
    BY <1>1, <2>1, <2>2, <2>3, LeavingKeeps
<1>4. QED
  BY <1>2, <1>3

LEMMA DeliverKeeps ==
  ASSUME ServiceInv, NEW j \in Job, Deliver(j)
  PROVE  ServiceInv'
<1>. DEFINE r == [job[j] EXCEPT !.client = "left"]
<1>1. ServiceTyped /\ OnlyAuditsAreLeft /\ AuditsEndBeforeThePool /\ ConnectionsReturn
  BY DEF ServiceInv
<1>2. /\ job[j].at = "done" /\ job' = [job EXCEPT ![j] = r]
      /\ UNCHANGED <<phase, open, queue, held, awaited>>
  BY <1>1 DEF Deliver, Unread, ServiceTyped
<1>3. job[j] \in Request /\ job[j].uses = <<>>
  BY <1>1, <1>2 DEF ServiceTyped, Quiet
<1>4. r \in Request /\ r.uses = <<>> /\ r.at = "done"
  BY <1>2, <1>3 DEF Request
<1>. HIDE DEF r
<1>5. job' \in [Job -> Request] /\ \A k \in Job : job'[k] = IF k = j THEN r ELSE job[k]
  BY <1>1, <1>2, <1>4 DEF ServiceTyped
<1>6. ServiceTyped'
  <2>1. \A k \in Job : Quiet(job'[k]) <=> job'[k].uses = <<>>
    BY <1>1, <1>4, <1>5 DEF ServiceTyped, Quiet
  <2>2. QED
    BY <1>1, <1>2, <1>5, <2>1 DEF ServiceTyped
<1>7. OnlyAuditsAreLeft' /\ AuditsEndBeforeThePool'
  <2>1. ~Auditing(r) /\ job[j].client = "connected" /\ r.client = "left"
    BY <1>2, <1>3, <1>4 DEF Auditing, Deliver, Unread, r
  <2>2. phase' = phase /\ awaited' = awaited /\ awaited \subseteq Job
    BY <1>1, <1>2 DEF ServiceTyped
  <2>3. OnlyAuditsAreLeft'
    BY <1>1, <1>2, <1>4, <1>5, <2>1, <2>2 DEF OnlyAuditsAreLeft
  <2>4. AuditsEndBeforeThePool'
    BY <1>1, <1>5, <2>1, <2>2 DEF AuditsEndBeforeThePool
  <2>. QED  BY <2>3, <2>4
<1>8. ASSUME NEW p \in Pool PROVE PoolIsSound(p, queue'[p], held'[p], job')
  <2>1. /\ PoolIsSound(p, queue[p], held[p], job)
        /\ held[p] \subseteq Job /\ ToSet(queue[p]) \subseteq Job
        /\ \A k \in held[p] \cup ToSet(queue[p]) : k # j
    BY <1>1, <1>2, OneIsWhereItIs
  <2>2. QED
    BY <1>2, <1>5, <2>1 DEF PoolIsSound
<1>9. ConnectionsReturn'
  BY <1>8 DEF ConnectionsReturn, PoolIsSound
<1>10. QED
  BY <1>6, <1>7, <1>9 DEF ServiceInv

(* Who waited for the pool, all dropped runs, goes on without it.          *)
LEMMA ClosePoolKeeps ==
  ASSUME ServiceInv, NEW p \in Pool, ClosePool(p)
  PROVE  ServiceInv'
<1>1. ServiceTyped /\ OnlyAuditsAreLeft /\ AuditsEndBeforeThePool /\ ConnectionsReturn
  BY DEF ServiceInv
<1>2. /\ UNCHANGED <<phase, held, awaited>>
      /\ open' = [open EXCEPT ![p] = FALSE]
      /\ queue' = [queue EXCEPT ![p] = <<>>]
      /\ job' = [j \in Job |-> IF j \in ToSet(queue[p]) THEN Failed(job[j]) ELSE job[j]]
  BY DEF ClosePool
<1>3. ASSUME NEW j \in Job, j \in ToSet(queue[p])
      PROVE  /\ ~Quiet(job[j]) /\ Failed(job[j]) \in Request
             /\ GoesOn(job[j], Failed(job[j]))
             /\ Quiet(Failed(job[j])) <=> Failed(job[j]).uses = <<>>
  <2>1. job[j].at = "waiting"
    BY <1>1, <1>3, OneIsWhereItIs
  <2>2. QED
    BY <1>1, <2>1, BusyIsTyped, RequestsGoOn
<1>4. job' \in [Job -> Request]
  BY <1>1, <1>2, <1>3 DEF ServiceTyped
<1>5. /\ \A k \in Job : Quiet(job'[k]) <=> job'[k].uses = <<>>
      /\ OnlyAuditsAreLeft' /\ AuditsEndBeforeThePool'
  <2>1. \A j \in Job : \/ job'[j] = job[j]
                       \/ /\ ~Quiet(job[j]) /\ GoesOn(job[j], job'[j])
                          /\ Quiet(job'[j]) <=> job'[j].uses = <<>>
    BY <1>2, <1>3
  <2>2. QED
    BY <1>1, <1>2, <1>4, <2>1, SomeGoOn
<1>6. /\ open' \in [Pool -> BOOLEAN] /\ queue' \in [Pool -> Seq(Job)]
      /\ \A q \in Pool : queue'[q] = IF q = p THEN <<>> ELSE queue[q]
  BY <1>1, <1>2 DEF ServiceTyped
<1>7. ServiceTyped'
  BY <1>1, <1>2, <1>4, <1>5, <1>6 DEF ServiceTyped
<1>8. ASSUME NEW q \in Pool PROVE PoolIsSound(q, queue'[q], held'[q], job')
  <2>1. /\ PoolIsSound(q, queue[q], held[q], job)
        /\ held[q] \subseteq Job /\ ToSet(queue[q]) \subseteq Job
    BY <1>1, OneIsWhereItIs
  <2>2. \A k \in held[q] : k \notin ToSet(queue[p])
    BY <1>1, OneIsWhereItIs
  <2>3. \A k \in held[q] : job'[k] = job[k]
    BY <1>2, <2>1, <2>2
  <2>4. CASE q # p
    <3>1. \A k \in ToSet(queue[q]) : k \notin ToSet(queue[p])
      BY <1>1, <2>4 DEF ConnectionsReturn
    <3>2. \A k \in ToSet(queue[q]) : job'[k] = job[k]
      BY <1>2, <2>1, <3>1
    <3>3. QED
      BY <1>2, <1>6, <2>1, <2>3, <2>4, <3>2 DEF PoolIsSound
  <2>5. CASE q = p
    <3>1. Len(<<>>) = 0 /\ IsInjective(<<>>) /\ ToSet(<<>>) = {} /\ MaxWaiting[p] \in Nat
      BY ServiceAssumption DEF IsInjective, ToSet
    <3>2. QED
      BY <1>2, <1>6, <2>1, <2>3, <2>5, <3>1 DEF PoolIsSound
  <2>6. QED
    BY <2>4, <2>5
<1>9. ConnectionsReturn'
  BY <1>8 DEF ConnectionsReturn, PoolIsSound
<1>10. QED
  BY <1>5, <1>7, <1>9 DEF ServiceInv

LEMMA EndKeeps ==
  ASSUME ServiceInv, Exit \/ Kill
  PROVE  ServiceInv'
<1>1. /\ phase' \in {"stopped", "killed"} /\ open' \in [Pool -> BOOLEAN]
      /\ queue' \in [Pool -> Seq(Job)] /\ held' \in [Pool -> SUBSET Job]
      /\ \A p \in Pool : queue'[p] = <<>> /\ held'[p] = {}
      /\ job' = [j \in Job |-> Over] /\ awaited' = awaited
  <2>1. phase' \in {"stopped", "killed"} /\ EndAll
    BY DEF Exit, Kill
  <2>2. <<>> \in Seq(Job)
    OBVIOUS
  <2>3. queue' = [p \in Pool |-> <<>>] /\ held' = [p \in Pool |-> {}]
    BY <2>1 DEF EndAll
  <2>4. open' \in [Pool -> BOOLEAN] /\ job' = [j \in Job |-> Over] /\ awaited' = awaited
    BY <2>1 DEF EndAll
  <2>5. queue' \in [Pool -> Seq(Job)] /\ held' \in [Pool -> SUBSET Job]
    BY <2>2, <2>3
  <2>6. \A p \in Pool : queue'[p] = <<>> /\ held'[p] = {}
    BY <2>3
  <2>7. QED
    BY <2>1, <2>4, <2>5, <2>6
<1>2. /\ Over \in Request /\ Over.client = "left"
      /\ Over.uses = <<>> /\ Over.at = "done"
  BY DEF Over, Request, UsesLeft
<1>3. ServiceTyped'
  <2>1. job' \in [Job -> Request] /\ \A j \in Job : Quiet(job'[j]) <=> job'[j].uses = <<>>
    BY <1>1, <1>2 DEF Quiet
  <2>2. \A p \in Pool : IsFiniteSet(held'[p])
    BY <1>1, FS_EmptySet
  <2>3. QED
    BY <1>1, <2>1, <2>2 DEF ServiceInv, ServiceTyped
<1>4. OnlyAuditsAreLeft' /\ AuditsEndBeforeThePool'
  BY <1>1, <1>2 DEF ServiceInv, ServiceTyped, OnlyAuditsAreLeft, AuditsEndBeforeThePool
<1>5. ASSUME NEW p \in Pool PROVE PoolIsSound(p, queue'[p], held'[p], job')
  <2>1. Cardinality({}) = 0 /\ MaxSize[p] \in Nat /\ MaxWaiting[p] \in Nat
    BY FS_EmptySet, ServiceAssumption
  <2>2. Len(<<>>) = 0 /\ IsInjective(<<>>) /\ ToSet(<<>>) = {}
    BY DEF IsInjective, ToSet
  <2>3. PoolIsSound(p, <<>>, {}, job')
    BY <2>1, <2>2 DEF PoolIsSound
  <2>4. QED
    BY <1>1, <2>3
<1>6. ConnectionsReturn'
  BY <1>5 DEF ConnectionsReturn, PoolIsSound
<1>7. QED
  BY <1>3, <1>4, <1>6 DEF ServiceInv

(* Who may still want a connection is decided by where the process is, and *)
(* every request is where the pools have it.                               *)
THEOREM ServiceStaysSound == ServiceSpec => []ServiceInv
<1>1. ServiceInv /\ [ServiceNext]_serviceVars => ServiceInv'
  <2>. SUFFICES ASSUME ServiceInv, [ServiceNext]_serviceVars PROVE ServiceInv'
    OBVIOUS
  <2>1. CASE UNCHANGED serviceVars
    BY <2>1 DEF serviceVars, ServiceInv, ServiceTyped, OnlyAuditsAreLeft,
                AuditsEndBeforeThePool, ConnectionsReturn
  <2>2. QED
    BY <2>1, PhaseStepKeeps, EndKeeps, GrantKeeps, ClosePoolKeeps, ArriveKeeps, AskKeeps,
       TimeOutKeeps, UseKeeps, LeaveKeeps, DropKeeps, DeliverKeeps
    DEF ServiceNext
<1>2. QED
  BY <1>1, ServiceStarts, PTL DEF ServiceSpec

(* No audit that began finds its pool closed by the shutdown, with any     *)
(* number of requests, but that of a run dropped by its stream which began *)
(* after wait_for_audit_tasks had looked.                                  *)
THEOREM AuditsAreWaitedFor == ServiceSpec => []AuditsEndBeforeThePool
<1>1. ServiceInv => AuditsEndBeforeThePool
  BY DEF ServiceInv
<1>2. QED
  BY <1>1, ServiceStaysSound, PTL

(* Pools of any size hand out no more than they have, and get back what    *)
(* requests that ended, failed, timed out or were cancelled had of them.   *)
THEOREM ConnectionsComeBack == ServiceSpec => []ConnectionsReturn
<1>1. ServiceInv => ConnectionsReturn
  BY DEF ServiceInv
<1>2. QED
  BY <1>1, ServiceStaysSound, PTL
=============================================================================
