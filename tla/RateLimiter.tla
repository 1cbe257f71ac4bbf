---------------------------- MODULE RateLimiter ----------------------------
(***************************************************************************)
(* The request rate limiter, app/ratelimit.py, as the endpoints use it:    *)
(* _rate_limit is a synchronous dependency, so requests check the limiter  *)
(* from several threads of a pool.  A thread reads the clock before it     *)
(* takes the lock, and other threads may overtake it in between, so the    *)
(* deque of a key need not be sorted.                                      *)
(*                                                                         *)
(* log[k] is the history of the times granted to key k, in the order they  *)
(* were granted.  A hit is appended to the deque when it is granted and    *)
(* leaves it only at the front (or with the whole deque, when the key is   *)
(* pruned), so the deque is the log without its first gone[k] entries.     *)
(***************************************************************************)
EXTENDS Integers, Sequences, FiniteSets

CONSTANTS
    Key,                \* clients, as _client_key names them
    Thread,             \* threads of the pool
    MaxRequests,        \* max_requests; the limiter is enabled
    WindowSeconds,      \* window_seconds
    PruneThreshold,     \* _PRUNE_THRESHOLD
    MaxLag,             \* longest time between reading the clock and the lock
    MaxNow              \* bound: the clock stops here

ASSUME LimiterAssumption ==
    /\ Key # {}
    /\ MaxRequests \in Nat \ {0}
    /\ WindowSeconds \in Nat \ {0}
    /\ PruneThreshold \in Nat
    /\ MaxLag \in Nat /\ MaxNow \in Nat

VARIABLES
    now,        \* time.monotonic()
    call,       \* call[t]: key and timestamp of the check thread t is in
    known,      \* the keys of _hits
    log,        \* log[k]: history of the times granted to k
    gone        \* gone[k]: how many of them have left the deque

limiterVars == <<now, call, known, log, gone>>

NoTime == -1    \* the thread is in no check

LimiterTypeOK ==
    /\ now \in Nat
    /\ call \in [Thread -> [key : Key, time : Nat \cup {NoTime}]]
    /\ known \subseteq Key
    /\ log \in [Key -> Seq(Nat)]
    /\ gone \in [Key -> Nat] /\ \A k \in Key : gone[k] <= Len(log[k])

LimiterInit ==
    /\ now = 0
    /\ call = [t \in Thread |-> [key |-> CHOOSE k \in Key : TRUE, time |-> NoTime]]
    /\ known = {}
    /\ log = [k \in Key |-> <<>>]
    /\ gone = [k \in Key |-> 0]

\* A request: check reads the clock.
Call(t) == \E k \in Key :
    /\ call[t].time = NoTime
    /\ call' = [call EXCEPT ![t] = [key |-> k, time |-> now]]
    /\ UNCHANGED <<now, known, log, gone>>

\* _prune: drops the keys whose newest hit, the last of the deque, has aged out.
IsStaleByOldest(k, cutoff) == gone[k] = Len(log[k]) \/ log[k][gone[k] + 1] <= cutoff

IsStale(k, cutoff) == gone[k] = Len(log[k]) \/ log[k][Len(log[k])] <= cutoff

StaleKeys(cutoff) ==
    IF Cardinality(known) > PruneThreshold THEN {k \in known : IsStale(k, cutoff)} ELSE {}

Pruned(cutoff) ==
    [k \in Key |-> IF k \in StaleKeys(cutoff) THEN Len(log[k]) ELSE gone[k]]

\* The loop that pops hits from the front while they have aged out: of the
\* hits after the first m, it leaves those after the first n.
Pops(s, m, n, cutoff) ==
    /\ n \in m..Len(s)
    /\ \A i \in (m + 1)..n : s[i] <= cutoff
    /\ n < Len(s) => s[n + 1] > cutoff

\* A hit is granted while fewer than max_requests are left.
GrantsOneLess(left) == left < MaxRequests - 1

Grants(left) == left < MaxRequests

\* The rest of check, under the lock.
Check(t) ==
    LET k      == call[t].key
        time   == call[t].time
        cutoff == time - WindowSeconds
        pruned == Pruned(cutoff)
    IN  /\ time # NoTime
        /\ \E n \in 0..Len(log[k]) :
              /\ Pops(log[k], pruned[k], n, cutoff)
              /\ gone' = [pruned EXCEPT ![k] = n]
              /\ log' = IF Grants(Len(log[k]) - n)
                        THEN [log EXCEPT ![k] = Append(@, time)]
                        ELSE log
        /\ known' = (known \ StaleKeys(cutoff)) \cup {k}
        /\ call' = [call EXCEPT ![t].time = NoTime]
        /\ UNCHANGED now

\* No thread is overtaken by more than MaxLag.
Tick ==
    /\ now < MaxNow
    /\ \A t \in Thread : call[t].time # NoTime => now - call[t].time < MaxLag
    /\ now' = now + 1
    /\ UNCHANGED <<call, known, log, gone>>

LimiterNext == (\E t \in Thread : Call(t) \/ Check(t)) \/ Tick

LimiterSpec == LimiterInit /\ [][LimiterNext]_limiterVars

-----------------------------------------------------------------------------
(* Properties.                                                             *)

\* Of any MaxRequests + 1 requests of a client that are granted one after the
\* other, the last comes a whole window after the first, but for twice the time
\* a thread can spend between the clock and the lock: neither out-of-order hits
\* nor the pruning of keys let a client exceed the limit by more.
RateBounded == \A k \in Key : \A i \in 1..(Len(log[k]) - MaxRequests) :
    log[k][i + MaxRequests] >= log[k][i] + WindowSeconds - 2 * MaxLag

\* A client below the limit is not refused: when check refuses it, its last
\* MaxRequests grants all lie in the window, or miss it by less than MaxLag.
RefusalsJustified == [][\A t \in Thread :
    (call[t].time # NoTime /\ call'[t].time = NoTime /\ log' = log) =>
        LET s == log[call[t].key]
        IN  /\ Len(s) >= MaxRequests
            /\ \A i \in (Len(s) - MaxRequests + 1)..Len(s) :
                  s[i] > call[t].time - WindowSeconds - MaxLag]_limiterVars
=============================================================================
