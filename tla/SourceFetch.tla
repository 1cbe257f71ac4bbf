---------------------------- MODULE SourceFetch ----------------------------
(***************************************************************************)
(* Fetching one source, app/fetcher.py: the cadence check, conditional     *)
(* requests with the validators and the payload kept in the table          *)
(* source_state, the retry after a failed connection, and the record of    *)
(* every attempt, for replicas that share the table.                       *)
(*                                                                         *)
(* What the source serves is a version number, and its validator (ETag or  *)
(* Last-Modified) names the version; 0 stands for None.  The clock unit is *)
(* longer than a fetch (HTTP_TIMEOUT is 8 s, the smallest interval 30 min),*)
(* so time passes only between fetches.  A request and its answer are two  *)
(* steps: the source may publish, and other replicas may write, between    *)
(* them, and also between the two reads of source_state before a request.  *)
(* _load_state and _save_state are synchronous and belong to the step of   *)
(* the code around them.                                                   *)
(***************************************************************************)
EXTENDS Integers

CONSTANTS
    Replica,        \* the API processes
    Kind,           \* source.kind: "rss", "ghsa", or "other" (nvd, redhat-api, kev)
    SendsValidator, \* the source sends an ETag or a Last-Modified
    EmptyVersion,   \* versions of which no item passes the filters
    ReadsFail,      \* TRUE: reading source_state may fail
    MinInterval,    \* source.min_interval_seconds
    MaxVersion,     \* bound: versions the source publishes
    MaxErrors,      \* bound: failed connections, error and malformed answers
    MaxFaults       \* bound: failed reads and writes of source_state, crashes

ASSUME SourceAssumption ==
    /\ Kind \in {"rss", "ghsa", "other"}
    /\ SendsValidator \in BOOLEAN /\ ReadsFail \in BOOLEAN
    /\ EmptyVersion \subseteq Nat
    /\ MinInterval \in Nat /\ MaxVersion \in Nat
    /\ MaxErrors \in Nat /\ MaxFaults \in Nat

FetchAttempts == 2

None == 0

VARIABLES
    version,    \* what the source serves now
    state,      \* the row of source_state: etag, payload, units since last_fetched_at
    quiet,      \* quiet[r], history: units since r last asked the source and
                \* got an answer it records, or none
    pc,         \* pc[r]: where the fetch of replica r stands
    attempt,    \* attempt[r]: number of the attempt, 1..FetchAttempts
    outer,      \* outer[r]: the validator in the state _fetch_source_once read
    read,       \* read[r]: the state the fetcher of an rss or ghsa source read
    asked,      \* asked[r]: the validator sent with the request
    answer,     \* answer[r]: status and version of the last answer
    result,     \* result[r]: what _fetch_source returned or raised
    errors,     \* errors of the source so far
    faults      \* faults of this side so far

vars == <<version, state, quiet, pc, attempt, outer, read, asked, answer, result, errors, faults>>

Conditional == Kind \in {"rss", "ghsa"}

\* No row reads like a row without validators that was fetched long ago.
NoState == [etag |-> None, payload |-> None, age |-> MinInterval]

NoAnswer == [status |-> 0, version |-> None]

Nothing == [kind |-> "none", version |-> None]

State == [etag : Nat, payload : Nat, age : Nat]

TypeOK ==
    /\ version \in Nat \ {None}
    /\ state \in State
    /\ quiet \in [Replica -> Nat]
    /\ pc \in [Replica -> {"idle", "begin", "due", "asked", "answered", "backoff"}]
    /\ attempt \in [Replica -> 1..FetchAttempts]
    /\ outer \in [Replica -> Nat]
    /\ read \in [Replica -> State]
    /\ asked \in [Replica -> Nat]
    /\ answer \in [Replica -> [status : {0, 200, 304}, version : Nat]]
    /\ result \in [Replica -> [kind : {"none", "skipped", "error", "items"}, version : Nat]]
    /\ errors \in Nat /\ faults \in Nat

Init ==
    /\ version = 1
    /\ state = NoState
    /\ quiet = [r \in Replica |-> MinInterval]
    /\ pc = [r \in Replica |-> "idle"]
    /\ attempt = [r \in Replica |-> 1]
    /\ outer = [r \in Replica |-> None]
    /\ read = [r \in Replica |-> NoState]
    /\ asked = [r \in Replica |-> None]
    /\ answer = [r \in Replica |-> NoAnswer]
    /\ result = [r \in Replica |-> Nothing]
    /\ errors = 0 /\ faults = 0

Error == errors < MaxErrors /\ errors' = errors + 1

Fault == faults < MaxFaults /\ faults' = faults + 1

Goto(r, p) == pc' = [pc EXCEPT ![r] = p]

\* The fetch of r ends and hands its result to fetch_all.
Return(r, kind, v) ==
    /\ result' = [result EXCEPT ![r] = [kind |-> kind, version |-> v]]
    /\ Goto(r, "idle")

-----------------------------------------------------------------------------
(* The state of a source.                                                  *)

\* set_source_state: NULL arguments keep the stored column (COALESCE).
RecordedKeepingPayload(etag, payload) ==
    [etag    |-> IF etag = None THEN state.etag ELSE etag,
     payload |-> IF state.payload = None THEN payload ELSE state.payload,
     age     |-> 0]

Recorded(etag, payload) ==
    [etag    |-> IF etag = None THEN state.etag ELSE etag,
     payload |-> IF payload = None THEN state.payload ELSE payload,
     age     |-> 0]

\* _save_state: a failure is logged and changes nothing.
SaveState(etag, payload) ==
    \/ state' = Recorded(etag, payload) /\ UNCHANGED faults
    \/ UNCHANGED state /\ Fault

\* _load_state: a read that fails gives no state.
LoadState(s) ==
    \/ s = state /\ UNCHANGED faults
    \/ s = NoState /\ ReadsFail /\ Fault

\* _is_due.
IsDue(s) == MinInterval = 0 \/ s.age >= MinInterval

\* _stored_items: a payload that is missing or empty cannot be served.
Usable(payload) == payload # None /\ payload \notin EmptyVersion

-----------------------------------------------------------------------------
(* The fetch.                                                              *)

\* fetch_all starts _fetch_source.
FetchSource(r) ==
    /\ pc[r] = "idle"
    /\ Goto(r, "begin")
    /\ attempt' = [attempt EXCEPT ![r] = 1]
    /\ result' = [result EXCEPT ![r] = Nothing]
    /\ UNCHANGED <<version, state, quiet, outer, read, asked, answer, errors, faults>>

\* _fetch_source_once reads the state and checks the cadence.
CheckDue(r, first) ==
    /\ pc[r] = "begin"
    /\ LoadState(first)
    /\ IF IsDue(first)
       THEN /\ Goto(r, "due")
            /\ outer' = [outer EXCEPT ![r] = first.etag]
            /\ UNCHANGED result
       ELSE /\ Return(r, "skipped", None)
            /\ UNCHANGED outer
    /\ UNCHANGED <<version, state, quiet, attempt, read, asked, answer, errors>>

FetchSourceOnce(r) == \E first \in {state, NoState} : CheckDue(r, first)

\* _fetch_rss and _fetch_ghsa read the state again, for the validators and the
\* payload; without a state the request is unconditional.  The other kinds send
\* no validators and have no use for what is read here.
SendRequest(r, second) ==
    /\ pc[r] = "due"
    /\ LoadState(second)
    /\ Conditional \/ second = state
    /\ read' = [read EXCEPT ![r] = second]
    /\ asked' = [asked EXCEPT ![r] = IF Conditional THEN second.etag ELSE None]
    /\ quiet' = [quiet EXCEPT ![r] = 0]
    /\ Goto(r, "asked")
    /\ UNCHANGED <<version, state, attempt, outer, answer, result, errors>>

Request(r) == \E second \in {state, NoState} : SendRequest(r, second)

\* The source answers 304 when the validator names what it serves, else 200.
Answer(r) ==
    /\ pc[r] = "asked"
    /\ answer' = [answer EXCEPT ![r] =
            [status |-> IF asked[r] = version THEN 304 ELSE 200, version |-> version]]
    /\ Goto(r, "answered")
    /\ UNCHANGED <<version, state, quiet, attempt, outer, read, asked, result, errors, faults>>

\* 304 and the stored payload can be served.
NotModified(r) ==
    /\ pc[r] = "answered" /\ answer[r].status = 304
    /\ Usable(read[r].payload)
    /\ SaveState(answer[r].version, None)
    /\ Return(r, "items", read[r].payload)
    /\ UNCHANGED <<version, quiet, attempt, outer, read, asked, answer, errors>>

\* 304 and it cannot: the body is fetched without validators.
RefetchBody(r) ==
    /\ pc[r] = "answered" /\ answer[r].status = 304
    /\ ~Usable(read[r].payload)
    /\ asked' = [asked EXCEPT ![r] = None]
    /\ Goto(r, "asked")
    /\ UNCHANGED <<version, state, quiet, attempt, outer, read, answer, result, errors, faults>>

\* 200: rss and ghsa save validators and payload, the others only that they ran.
OkWithoutPayload(r) ==
    /\ pc[r] = "answered" /\ answer[r].status = 200
    /\ SaveState(IF SendsValidator THEN answer[r].version ELSE None, None)
    /\ Return(r, "items", answer[r].version)
    /\ UNCHANGED <<version, quiet, attempt, outer, read, asked, answer, errors>>

Ok(r) ==
    /\ pc[r] = "answered" /\ answer[r].status = 200
    /\ IF Conditional
       THEN SaveState(IF SendsValidator THEN answer[r].version ELSE None, answer[r].version)
       ELSE SaveState(outer[r], None)
    /\ Return(r, "items", answer[r].version)
    /\ UNCHANGED <<version, quiet, attempt, outer, read, asked, answer, errors>>

\* An answer of 200 whose JSON is not a list: _fetch_ghsa returns no items and
\* saves nothing.
MalformedGhsa(r) ==
    /\ pc[r] = "asked" /\ Kind = "ghsa"
    /\ Error
    /\ Return(r, "items", None)
    /\ quiet' = [quiet EXCEPT ![r] = MinInterval]
    /\ UNCHANGED <<version, state, attempt, outer, read, asked, answer, faults>>

\* A 4xx or 5xx answer, or a body that cannot be parsed: recorded and raised,
\* not retried.
HttpErrorUnrecorded(r) ==
    /\ pc[r] = "asked"
    /\ Error
    /\ Return(r, "error", None)
    /\ UNCHANGED <<version, state, quiet, attempt, outer, read, asked, answer, faults>>

HttpError(r) ==
    /\ pc[r] = "asked"
    /\ Error
    /\ SaveState(outer[r], None)
    /\ Return(r, "error", None)
    /\ UNCHANGED <<version, quiet, attempt, outer, read, asked, answer>>

\* httpx.TransportError: recorded as well, then retried after a pause unless
\* this was the last attempt.
TransportError(r) ==
    /\ pc[r] = "asked"
    /\ Error
    /\ SaveState(outer[r], None)
    /\ IF attempt[r] < FetchAttempts
       THEN Goto(r, "backoff") /\ UNCHANGED result
       ELSE Return(r, "error", None)
    /\ UNCHANGED <<version, quiet, attempt, outer, read, asked, answer>>

Retry(r) ==
    /\ pc[r] = "backoff"
    /\ attempt' = [attempt EXCEPT ![r] = @ + 1]
    /\ Goto(r, "begin")
    /\ UNCHANGED <<version, state, quiet, outer, read, asked, answer, result, errors, faults>>

Crash(r) ==
    /\ pc[r] # "idle"
    /\ Fault
    /\ Goto(r, "idle")
    /\ UNCHANGED <<version, state, quiet, attempt, outer, read, asked, answer, result, errors>>

-----------------------------------------------------------------------------

\* The source publishes.
PublishVersion ==
    /\ version < MaxVersion
    /\ version' = version + 1
    /\ UNCHANGED <<state, quiet, pc, attempt, outer, read, asked, answer, result, errors, faults>>

\* Only differences up to MinInterval are told apart.
Later(n) == IF n < MinInterval THEN n + 1 ELSE n

Tick ==
    /\ \A r \in Replica : pc[r] = "idle" \/ (pc[r] = "begin" /\ attempt[r] = 1)
    /\ state' = [state EXCEPT !.age = Later(@)]
    /\ quiet' = [r \in Replica |-> Later(quiet[r])]
    /\ UNCHANGED <<version, pc, attempt, outer, read, asked, answer, result, errors, faults>>

FetchStep(r) ==
    \/ FetchSource(r) \/ FetchSourceOnce(r) \/ Request(r) \/ Answer(r)
    \/ NotModified(r) \/ RefetchBody(r) \/ Ok(r) \/ Retry(r)

Next ==
    \/ \E r \in Replica :
          \/ FetchStep(r) \/ MalformedGhsa(r) \/ HttpError(r) \/ TransportError(r) \/ Crash(r)
    \/ PublishVersion
    \/ Tick

Spec == Init /\ [][Next]_vars

\* Refreshes recur, a request is answered or fails by its timeout, and time
\* passes (no fetch is under way again and again, hence SF).
Fairness == SF_vars(Tick) /\ \A r \in Replica : WF_vars(FetchStep(r))

FairSpec == Spec /\ Fairness

-----------------------------------------------------------------------------
(* Properties.                                                             *)

\* A fetch that reuses its stored payload on a 304 returns what the source
\* serves at that time, not an older version that the validator has overtaken.
ReuseIsCurrent == \A r \in Replica :
    (result[r].kind = "items" /\ result[r].version # None)
        => result[r].version = answer[r].version

\* The stored validator never runs ahead of the stored payload: otherwise every
\* later request would be answered 304 and served from the old payload.
ValidatorNotAhead == state.etag <= state.payload

\* A fetch does not ask a source within its minimum interval after the replica's
\* last request that was answered (with items, 304 or an error) or failed, whatever
\* other replicas record meanwhile, as long as source_state can be used and nobody
\* crashes.  The retry after a failed connection belongs to the same fetch and is
\* exempt.  (A ghsa answer that is not a list leaves no record.)
CadenceKept == [][\A r \in Replica :
    (pc[r] = "due" /\ pc'[r] = "asked" /\ attempt[r] = 1)
        => quiet[r] >= MinInterval \/ faults' > 0]_vars

\* What the source serves last ends up in the stored payload, whatever errors,
\* lost writes and crashes came before.
UpdateIsPickedUp == Conditional => <>[](state.payload = version)

\* A source that could not be reached is not silently passed over: README.md says
\* that source_errors has "one line per source that could not be reached in the
\* last refresh" and that "a fetch is retried once when the connection fails".
UnreachableIsReported == \A r \in Replica :
    (attempt[r] > 1 /\ pc[r] = "idle") => result[r].kind # "skipped"
=============================================================================
