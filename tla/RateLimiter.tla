---------------------------- MODULE RateLimiter ----------------------------
(***************************************************************************)
(* The per-IP limiter in front of the two routes that call the model       *)
(* (api/rate_limit.py, main.py:_enforce_rate_limit).  One dictionary in    *)
(* one process, and no lock: _enforce_rate_limit is a plain def, which     *)
(* FastAPI runs in its threadpool, so that several threads may be inside   *)
(* check() at once.  A thread takes the clock, reads its entry and writes  *)
(* it back (or answers 429) in three steps; between them any other thread  *)
(* may do the same.                                                        *)
(*                                                                         *)
(* Time is time.monotonic() counted in ticks, TicksPerSecond of them in a  *)
(* second: a window may open and a request may arrive between two seconds, *)
(* while Retry-After only speaks of whole seconds.                         *)
(***************************************************************************)
EXTENDS Integers, Sequences

CONSTANTS
  Thread,          \* threads of the pool that run the dependency
  Ip,              \* addresses a request can come from or name
  NoIp,            \* no address: client is None, header missing or blank
  Unknown,         \* the shared bucket "desconocida"
  NoWindow,        \* the key has no entry in _counts
  Idle,            \* the thread is not inside check()
  Limit,           \* limit (rate_limit_per_minute); 0 or less disables it
  Window,          \* window_s, in ticks
  TicksPerSecond,
  Horizon,         \* bound on the clock
  MaxCalls         \* bound on the calls of check()

Key == Ip \cup {Unknown}

(* An entry of _counts: a stored count never passes the limit, for the     *)
(* call that would pass it is the one answered 429.                        *)
Entry == [count : 1..Limit, start : Nat] \cup {NoWindow}

(* A call of check(), and the promise of a 429.                            *)
Call == [step : {"read", "decide"}, key : Key, at : Nat, entry : Entry, seen : Nat]
Promise == [retryAt : Nat, seen : Nat]

ASSUME RateLimiterAssumption ==
  /\ NoIp \notin Ip
  /\ Unknown \notin Ip
  /\ NoWindow \notin [count : Int, start : Int] \cup Promise
  /\ Idle \notin Call
  /\ Limit \in Int
  /\ Window \in Nat \ {0}
  /\ TicksPerSecond \in Nat \ {0}
  /\ Horizon \in Nat
  /\ MaxCalls \in Nat

VARIABLES
  now,        \* the monotonic clock
  counts,     \* _counts: key -> (cuenta, inicio_ventana)
  check,      \* each thread's call of check(): its key, instante and entry
  admitted,   \* history: the admissions of each key, in the order written
  promise,    \* history: the last 429 of each key and what it promised
  calls       \* how many calls of check() there were, for the bound

vars == <<now, counts, check, admitted, promise, calls>>

(* resolve_client_ip: the first hop of X-Forwarded-For, else the peer; and *)
(* the limiter's  ip or "desconocida".                                     *)
ResolveClientIp(host, forwarded) == IF forwarded # NoIp THEN forwarded ELSE host

RequestKey(host, forwarded) ==
  LET ip == ResolveClientIp(host, forwarded)
  IN  IF ip = NoIp THEN Unknown ELSE ip

(* A slip: the window is reopened one tick before it has run its length.   *)
CurrentWindowEarly(entry, at) ==
  IF entry = NoWindow \/ at - entry.start >= Window - 1
  THEN [count |-> 0, start |-> at]
  ELSE entry

(* What check() works with, of the entry it read and the time it took      *)
(* before: a missing key counts from then, and a window that has run its   *)
(* length starts again then.                                               *)
CurrentWindow(entry, at) ==
  IF entry = NoWindow \/ at - entry.start >= Window
  THEN [count |-> 0, start |-> at]
  ELSE entry

(* A slip: the seconds rounded down.                                       *)
RetryAfterTicksDown(remaining) == (remaining \div TicksPerSecond) * TicksPerSecond

(* int(retry_after_s) + 1 seconds, in ticks.                               *)
RetryAfterTicks(remaining) == (remaining \div TicksPerSecond + 1) * TicksPerSecond

Init ==
  /\ now = 0
  /\ counts = [k \in Key |-> NoWindow]
  /\ check = [t \in Thread |-> Idle]
  /\ admitted = [k \in Key |-> <<>>]
  /\ promise = [k \in Key |-> NoWindow]
  /\ calls = 0

(* A limit of zero or less lets every request through and counts nothing.  *)
Unlimited == Limit <= 0

(* instante: the time is taken before the entry is read.                   *)
TakeTime(t, host, forwarded) ==
  /\ ~Unlimited
  /\ calls < MaxCalls
  /\ check[t] = Idle
  /\ check' = [check EXCEPT ![t] =
                 [step |-> "read", key |-> RequestKey(host, forwarded), at |-> now,
                  entry |-> NoWindow, seen |-> 0]]
  /\ calls' = calls + 1
  /\ UNCHANGED <<now, counts, admitted, promise>>

ReadEntry(t) ==
  /\ check[t] # Idle
  /\ check[t].step = "read"
  /\ LET k == check[t].key
     IN  check' = [check EXCEPT ![t].step = "decide", ![t].entry = counts[k],
                                ![t].seen = Len(admitted[k])]
  /\ UNCHANGED <<now, counts, admitted, promise, calls>>

Deciding(t) == check[t] # Idle /\ check[t].step = "decide"

CurrentOf(t) == CurrentWindow(check[t].entry, check[t].at)

(* The count is written over whatever is there by now; an admission is     *)
(* stale if that is no longer what was read: another count is lost.        *)
Admit(t) ==
  LET k == check[t].key
      n == CurrentOf(t).count + 1
      s == CurrentOf(t).start
  IN  /\ Deciding(t)
      /\ CurrentOf(t).count < Limit
      /\ counts' = [counts EXCEPT ![k] = [count |-> n, start |-> s]]
      /\ admitted' = [admitted EXCEPT ![k] =
                        Append(@, [at |-> check[t].at, window |-> s, n |-> n,
                                   stale |-> counts[k] # check[t].entry])]
      /\ check' = [check EXCEPT ![t] = Idle]
      /\ UNCHANGED <<now, promise, calls>>

(* A rejection stores nothing in _counts: not even the reopened window.    *)
(* It rests on the entry that was read, seen admissions into the history.  *)
Reject(t) ==
  LET k == check[t].key
      remaining == Window - (check[t].at - CurrentOf(t).start)
  IN  /\ Deciding(t)
      /\ CurrentOf(t).count >= Limit
      /\ promise' = [promise EXCEPT ![k] =
                       [retryAt |-> now + RetryAfterTicks(remaining),
                        seen    |-> check[t].seen]]
      /\ check' = [check EXCEPT ![t] = Idle]
      /\ UNCHANGED <<now, counts, admitted, calls>>

EnforceRateLimit(t) ==
  \/ \E host, forwarded \in Ip \cup {NoIp} : TakeTime(t, host, forwarded)
  \/ ReadEntry(t)
  \/ Admit(t)
  \/ Reject(t)

Tick ==
  /\ now < Horizon
  /\ now' = now + 1
  /\ UNCHANGED <<counts, check, admitted, promise, calls>>

Next == Tick \/ \E t \in Thread : EnforceRateLimit(t)

Spec == Init /\ [][Next]_vars
-----------------------------------------------------------------------------
(* Every field in its range.                                               *)
TypeOK ==
  /\ now \in Nat
  /\ counts \in [Key -> Entry]
  /\ check \in [Thread -> Call \cup {Idle}]
  /\ admitted \in [Key -> Seq([at : Nat, window : Nat, n : 1..Limit, stale : BOOLEAN])]
  /\ promise \in [Key -> Promise \cup {NoWindow}]
  /\ calls \in Nat

(* The class comment bounds what a fixed window lets through at the border *)
(* of two windows by twice the limit.  Of any 2*L admissions in a row of   *)
(* one address the clocks span at least a whole window, as long as none    *)
(* after the first was written over a count it had not read.  (Where       *)
(* threads overwrite each other's counts the bound does not hold.)         *)
AtMostTwiceTheLimit ==
  \A k \in Key : \A i, j \in DOMAIN admitted[k] :
    (/\ j = i + 2 * Limit - 1
     /\ \A q \in (i + 1)..j : ~admitted[k][q].stale) =>
      \E a, b \in i..j : admitted[k][b].at - admitted[k][a].at >= Window

(* Whoever waits the Retry-After of a 429 is let in, unless the same       *)
(* address was served since the entry it rests on was read: neither        *)
(* rounding to seconds nor a clock taken before a long wait for the thread *)
(* sends a client back too early.                                          *)
RetryAfterSuffices ==
  \A k \in Key :
    (/\ promise[k] # NoWindow
     /\ now >= promise[k].retryAt
     /\ Len(admitted[k]) = promise[k].seen) => CurrentWindow(counts[k], now).count < Limit
=============================================================================
