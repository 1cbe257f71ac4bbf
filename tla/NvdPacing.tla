----------------------------- MODULE NvdPacing -----------------------------
(***************************************************************************)
(* The pacing of requests to the NVD host, app/fetcher.py: the fetches of  *)
(* the keyword sources of one refresh, on one event loop, reserve start    *)
(* slots, sleep until their slot and only then send.                       *)
(*                                                                         *)
(* A step is what a task does between two awaits.  _nvd_slot_lock is never *)
(* contended: nothing is awaited while it is held.  A task whose sleep is  *)
(* over runs when the loop comes round to it, up to MaxLag later.  Times   *)
(* are offsets from loop.time(), so that the clock needs no bound.  No     *)
(* name is one of SourceFetch's, the other module on the fetcher.          *)
(***************************************************************************)
EXTENDS Integers, FiniteSets

CONSTANTS
    Source,         \* the sources of kind "nvd"
    Stagger,        \* NVD_STAGGER_SECONDS
    MaxLag,         \* longest time a ready task waits for the event loop
    MaxLost         \* bound: attempts whose record in source_state is lost

ASSUME PacingAssumption ==
    /\ IsFiniteSet(Source)
    /\ Stagger \in Nat /\ MaxLag \in Nat /\ MaxLost \in Nat

\* FETCH_ATTEMPTS.
MaxTries == 2

VARIABLES
    nextStart,  \* _nvd_next_start, 0 when it has passed
    stage,      \* stage[s]: where the fetch of s stands
    slot,       \* slot[s]: start of the slot it reserved, while it sleeps
    page,       \* page[s]: 1, or 2 when the window overflows one page
    tries,      \* tries[s]: number of the attempt, 1..MaxTries
    requests,   \* history: slot and time of the requests sent of late
    lost        \* attempts whose record was lost so far

pacingVars == <<nextStart, stage, slot, page, tries, requests, lost>>

PacingTypeOK ==
    /\ nextStart \in Nat
    /\ stage \in [Source -> {"ready", "sleep", "asked", "backoff", "done"}]
    /\ slot \in [Source -> Int]
    /\ page \in [Source -> 1..2]
    /\ tries \in [Source -> 1..MaxTries]
    /\ requests \subseteq [slot : Int, at : Int]
    /\ lost \in Nat

PacingInit ==
    /\ nextStart = 0
    /\ stage = [s \in Source |-> "ready"]
    /\ slot = [s \in Source |-> 0]
    /\ page = [s \in Source |-> 1]
    /\ tries = [s \in Source |-> 1]
    /\ requests = {}
    /\ lost = 0

Move(s, p) == stage' = [stage EXCEPT ![s] = p]

\* _nvd_stagger_slot up to its sleep.
ReserveFromNow(s) ==
    /\ stage[s] = "ready"
    /\ slot' = [slot EXCEPT ![s] = nextStart]
    /\ nextStart' = Stagger
    /\ Move(s, "sleep")
    /\ UNCHANGED <<page, tries, requests, lost>>

ReserveTwice(s) ==
    /\ stage[s] = "ready"
    /\ slot' = [slot EXCEPT ![s] = nextStart + Stagger]
    /\ nextStart' = nextStart + 2 * Stagger
    /\ Move(s, "sleep")
    /\ UNCHANGED <<page, tries, requests, lost>>

Reserve(s) ==
    /\ stage[s] = "ready"
    /\ slot' = [slot EXCEPT ![s] = nextStart]
    /\ nextStart' = nextStart + Stagger
    /\ Move(s, "sleep")
    /\ UNCHANGED <<page, tries, requests, lost>>

\* The sleep is over and the request goes out.
SendIfNobodyReserved(s) ==
    /\ stage[s] = "sleep" /\ slot[s] <= 0
    /\ IF nextStart = 0
       THEN requests' = requests \cup {[slot |-> slot[s], at |-> 0]} /\ Move(s, "asked")
       ELSE Move(s, "ready") /\ UNCHANGED requests
    /\ slot' = [slot EXCEPT ![s] = 0]
    /\ UNCHANGED <<nextStart, page, tries, lost>>

Send(s) ==
    /\ stage[s] = "sleep" /\ slot[s] <= 0
    /\ requests' = requests \cup {[slot |-> slot[s], at |-> 0]}
    /\ slot' = [slot EXCEPT ![s] = 0]
    /\ Move(s, "asked")
    /\ UNCHANGED <<nextStart, page, tries, lost>>

\* More matches than one page holds: the last page is fetched too.
Overflow(s) ==
    /\ stage[s] = "asked" /\ page[s] = 1
    /\ page' = [page EXCEPT ![s] = 2]
    /\ Move(s, "ready")
    /\ UNCHANGED <<nextStart, slot, tries, requests, lost>>

\* The answer is complete, or an error that is not retried.  A failed
\* connection ends the fetch as well: its record makes the retry skip.
Finish(s) ==
    /\ stage[s] = "asked"
    /\ Move(s, "done")
    /\ UNCHANGED <<nextStart, slot, page, tries, requests, lost>>

\* A failed connection whose record is lost: the retry fetches again.
ConnectFails(s) ==
    /\ stage[s] = "asked" /\ tries[s] < MaxTries
    /\ lost < MaxLost /\ lost' = lost + 1
    /\ Move(s, "backoff")
    /\ UNCHANGED <<nextStart, slot, page, tries, requests>>

TryAgain(s) ==
    /\ stage[s] = "backoff"
    /\ tries' = [tries EXCEPT ![s] = @ + 1]
    /\ page' = [page EXCEPT ![s] = 1]
    /\ Move(s, "ready")
    /\ UNCHANGED <<nextStart, slot, requests, lost>>

\* The next refresh, once every fetch of this one is done (single-flight).
NextRefresh ==
    /\ \A s \in Source : stage[s] = "done"
    /\ stage' = [s \in Source |-> "ready"]
    /\ page' = [s \in Source |-> 1]
    /\ tries' = [s \in Source |-> 1]
    /\ UNCHANGED <<nextStart, slot, requests, lost>>

\* Requests older than Memory matter to no later one.
Memory == Stagger + 2 * MaxLag

TimePasses ==
    /\ \A s \in Source : stage[s] = "sleep" => slot[s] > -MaxLag
    /\ nextStart' = IF nextStart > 0 THEN nextStart - 1 ELSE 0
    /\ slot' = [s \in Source |-> IF stage[s] = "sleep" THEN slot[s] - 1 ELSE slot[s]]
    /\ requests' = {[slot |-> p.slot - 1, at |-> p.at - 1] : p \in {q \in requests : q.at > -Memory}}
    /\ UNCHANGED <<stage, page, tries, lost>>

TaskStep(s) ==
    Reserve(s) \/ Send(s) \/ Overflow(s) \/ Finish(s) \/ TryAgain(s)

PacingNext ==
    \/ \E s \in Source : TaskStep(s) \/ ConnectFails(s)
    \/ NextRefresh
    \/ TimePasses

PacingSpec == PacingInit /\ [][PacingNext]_pacingVars

\* The loop runs every ready task, requests are answered or time out, refreshes
\* recur and time passes.
PacingFairness ==
    /\ \A s \in Source : WF_pacingVars(TaskStep(s))
    /\ WF_pacingVars(NextRefresh) /\ WF_pacingVars(TimePasses)

FairPacing == PacingSpec /\ PacingFairness

-----------------------------------------------------------------------------
(* Properties.                                                             *)

\* Two requests start at least Stagger apart, up to the lag of the event loop,
\* whatever second pages, retries and the next refresh reserve in between.
StartsSpaced == \A p, q \in requests :
    p # q => \/ p.at - q.at >= Stagger - MaxLag
             \/ q.at - p.at >= Stagger - MaxLag

\* Pacing delays nobody for long: there are never more slots ahead of a fetch
\* than sources, since each holds at most one slot in the future.
WaitBounded == \A s \in Source :
    stage[s] = "sleep" => slot[s] <= Stagger * Cardinality(Source)

\* Every fetch that waits for a slot gets to send its request.
SlotIsUsed == \A s \in Source : stage[s] = "ready" ~> stage[s] = "asked"
=============================================================================
