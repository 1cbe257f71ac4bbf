--------------------------- MODULE FetcherProofs ---------------------------
(***************************************************************************)
(* Proofs about the two modules on app/fetcher.py.                         *)
(*                                                                         *)
(* SourceFetch, for every number of replicas: type correctness, and that   *)
(* reusing a stored payload never serves an outdated version.  Versions    *)
(* only grow, so everything reduces to an order:                           *)
(* validator <= payload <= version, for the stored row and for what a      *)
(* request in flight has read.  A 304 says validator = version, which      *)
(* squeezes the payload in between.  The order survives the writes of      *)
(* another replica because both started from the same row: the first write *)
(* of a time unit makes the source not due for the rest of it.  That needs *)
(* the reads of source_state to work and at most two replicas, or a single *)
(* replica.  With three, the row may be read between the writes of two     *)
(* others that answer in the wrong order.                                  *)
(*                                                                         *)
(* NvdPacing, for any number of sources, any stagger and any lag of the    *)
(* event loop.  _nvd_next_start lies a whole stagger after every slot that *)
(* was ever reserved, so slots are a stagger apart, whether their requests *)
(* were sent or are still asleep.  A request starts within MaxLag of its   *)
(* slot, so two of them start a stagger apart up to MaxLag.                *)
(***************************************************************************)
EXTENDS SourceFetch, NvdPacing, FiniteSetTheorems, TLAPS


InFlight(r) == pc[r] \in {"asked", "answered"}

\* A fetch waits for its second attempt only after its first.
BackoffAttempt == \A r \in Replica : pc[r] = "backoff" => attempt[r] < FetchAttempts

TInv == TypeOK /\ BackoffAttempt

\* Recording an attempt leaves a row of the right type.
LEMMA SavedTyped ==
    ASSUME NEW e \in Nat, NEW p \in Nat, state \in State, faults \in Nat, SaveState(e, p)
    PROVE  state' \in State /\ faults' \in Nat
  BY SourceAssumption DEF SaveState, Recorded, State, Fault

\* The types hold initially.
LEMMA TInvInit == Init => TInv
  BY SourceAssumption
  DEF Init, TInv, TypeOK, BackoffAttempt, State, NoState, NoAnswer, Nothing, None, FetchAttempts

\* Every step keeps the types.
LEMMA TInvStep == TInv /\ [Next]_vars => TInv'
<1> SUFFICES ASSUME TInv, [Next]_vars PROVE TInv'
  OBVIOUS
<1> USE SourceAssumption DEF TInv, TypeOK, BackoffAttempt, None, FetchAttempts
<1>1. ASSUME NEW r \in Replica, FetchSource(r) PROVE TInv'
  BY <1>1 DEF FetchSource, Goto, Nothing
<1>2. ASSUME NEW r \in Replica, FetchSourceOnce(r) PROVE TInv'
  <2>1. PICK first \in {state, NoState} : CheckDue(r, first)
    BY <1>2 DEF FetchSourceOnce
  <2>2. first.etag \in Nat
    BY DEF State, NoState
  <2>3. faults' \in Nat
    BY <2>1 DEF CheckDue, LoadState, Fault
  <2>4. CASE IsDue(first)
    <3>1. /\ UNCHANGED <<version, state, quiet, attempt, read, asked, answer, errors, result>>
          /\ pc' = [pc EXCEPT ![r] = "due"] /\ outer' = [outer EXCEPT ![r] = first.etag]
      BY <2>1, <2>4 DEF CheckDue, Goto
    <3> QED  BY <2>2, <2>3, <3>1
  <2>5. CASE ~IsDue(first)
    <3>1. /\ UNCHANGED <<version, state, quiet, attempt, read, asked, answer, errors, outer>>
          /\ pc' = [pc EXCEPT ![r] = "idle"]
          /\ result' = [result EXCEPT ![r] = [kind |-> "skipped", version |-> None]]
      BY <2>1, <2>5 DEF CheckDue, Goto, Return
    <3> QED  BY <2>3, <3>1
  <2> QED  BY <2>4, <2>5
<1>15. ASSUME NEW r \in Replica, Request(r) PROVE TInv'
  <2>1. PICK second \in {state, NoState} : SendRequest(r, second)
    BY <1>15 DEF Request
  <2>2. second \in State
    BY DEF State, NoState
  <2>3. second.etag \in Nat
    BY <2>2 DEF State
  <2>4. faults' \in Nat
    BY <2>1 DEF SendRequest, LoadState, Fault
  <2>5. read' \in [Replica -> State] /\ asked' \in [Replica -> Nat] /\ quiet' \in [Replica -> Nat]
    BY <2>1, <2>2, <2>3 DEF SendRequest
  <2> QED  BY <2>1, <2>4, <2>5 DEF SendRequest, Goto
<1>3. ASSUME NEW r \in Replica, Answer(r) PROVE TInv'
  BY <1>3 DEF Answer, Goto
<1>4. ASSUME NEW r \in Replica, NotModified(r) PROVE TInv'
  <2>1. state' \in State /\ faults' \in Nat
    BY <1>4, SavedTyped DEF NotModified
  <2> QED  BY <1>4, <2>1 DEF NotModified, Return, Goto, State
<1>5. ASSUME NEW r \in Replica, RefetchBody(r) PROVE TInv'
  BY <1>5 DEF RefetchBody, Goto
<1>6. ASSUME NEW r \in Replica, Ok(r) PROVE TInv'
  <2>1. state' \in State /\ faults' \in Nat
    BY <1>6, SavedTyped DEF Ok
  <2> QED  BY <1>6, <2>1 DEF Ok, Return, Goto
<1>7. ASSUME NEW r \in Replica, MalformedGhsa(r) PROVE TInv'
  BY <1>7, SourceAssumption DEF MalformedGhsa, Return, Goto, Error
<1>8. ASSUME NEW r \in Replica, HttpError(r) PROVE TInv'
  <2>1. state' \in State /\ faults' \in Nat
    BY <1>8, SavedTyped DEF HttpError
  <2> QED  BY <1>8, <2>1 DEF HttpError, Return, Goto, Error
<1>9. ASSUME NEW r \in Replica, TransportError(r) PROVE TInv'
  <2>1. state' \in State /\ faults' \in Nat
    BY <1>9, SavedTyped DEF TransportError
  <2>2. CASE attempt[r] < FetchAttempts
    <3>1. /\ UNCHANGED <<version, quiet, attempt, outer, read, asked, answer, result>>
          /\ errors' = errors + 1
          /\ pc' = [pc EXCEPT ![r] = "backoff"]
      BY <1>9, <2>2 DEF TransportError, Goto, Error
    <3>2. pc' \in [Replica -> {"idle", "begin", "due", "asked", "answered", "backoff"}] /\ BackoffAttempt'
      BY <2>2, <3>1
    <3> QED  BY <2>1, <3>1, <3>2
  <2>3. CASE ~(attempt[r] < FetchAttempts)
    <3>1. /\ UNCHANGED <<version, quiet, attempt, outer, read, asked, answer>>
          /\ errors' = errors + 1
          /\ pc' = [pc EXCEPT ![r] = "idle"]
          /\ result' = [result EXCEPT ![r] = [kind |-> "error", version |-> None]]
      BY <1>9, <2>3 DEF TransportError, Return, Goto, Error
    <3> QED  BY <2>1, <3>1
  <2> QED  BY <2>2, <2>3
<1>10. ASSUME NEW r \in Replica, Retry(r) PROVE TInv'
  BY <1>10 DEF Retry, Goto
<1>11. ASSUME NEW r \in Replica, Crash(r) PROVE TInv'
  BY <1>11 DEF Crash, Goto, Fault
<1>12. CASE PublishVersion
  BY <1>12 DEF PublishVersion
<1>13. CASE Tick
  BY <1>13 DEF Tick, Later, State
<1>14. CASE UNCHANGED vars
  BY <1>14 DEF vars
<1> QED
  BY <1>1, <1>2, <1>3, <1>4, <1>5, <1>6, <1>7, <1>8, <1>9, <1>10, <1>11, <1>12, <1>13, <1>14,
     <1>15
  DEF Next, FetchStep

\* Type correctness: in particular a fetch makes at most FETCH_ATTEMPTS attempts.
THEOREM TypeCorrect == Spec => []TypeOK
<1>1. TInv => TypeOK
  BY DEF TInv
<1> QED
  BY <1>1, TInvInit, TInvStep, PTL DEF Spec

-----------------------------------------------------------------------------
(* The order of validators, payloads and versions.                         *)

\* What the argument about two replicas needs: reads of source_state work and the
\* source has a minimum interval; or there is one replica.
Protected ==
    \/ /\ ~ReadsFail /\ MinInterval > 0
       /\ \A p, q, r \in Replica : p = q \/ q = r \/ p = r
    \/ \A p, q \in Replica : p = q

\* r has found the source due and not ended its request.
Begun(r) == pc[r] \in {"due", "asked", "answered"}

RowOrder == state.etag <= state.payload /\ state.payload <= version

\* What a fetch has read is not ahead of the row.
FlightOrder == \A r \in Replica :
    /\ Begun(r) => outer[r] <= state.payload
    /\ InFlight(r) => /\ read[r].etag <= read[r].payload
                      /\ read[r].payload <= state.payload
                      /\ asked[r] \in {None, read[r].etag}

\* An answer is not newer than the source, and a 304 confirms the validator read.
AnswerKnown == \A r \in Replica : pc[r] = "answered" =>
    /\ answer[r].version <= version
    /\ answer[r].version > 0
    /\ answer[r].status = 304 => answer[r].version = read[r].etag

\* An answer is not older than anything a fetch under way has read.
AnswerOrder == \A p, q \in Replica : pc[p] = "answered" =>
    /\ Begun(q) => outer[q] <= answer[p].version
    /\ InFlight(q) => read[q].payload <= answer[p].version

\* Until the first write of a time unit every request has read the current row,
\* and what the other replica has read is still the row while r is between its
\* two reads.
Snapshot == (~ReadsFail /\ MinInterval > 0) => \A q \in Replica : InFlight(q) =>
    /\ state.age > 0 => read[q].payload = state.payload
    /\ \A r \in Replica : pc[r] = "due" => read[q].payload = state.payload

\* A source without validators leaves none anywhere.
NoValidator == ~SendsValidator =>
    /\ state.etag = None
    /\ \A r \in Replica : read[r].etag = None /\ outer[r] = None

Order == RowOrder /\ FlightOrder /\ AnswerKnown /\ AnswerOrder /\ Snapshot /\ NoValidator

\* A fetch has no result before it ends.
Pending == \A r \in Replica : pc[r] # "idle" => result[r].kind = "none"

IInv == TypeOK /\ Order /\ Pending /\ ReuseIsCurrent

\* The steps that end a request of r and may write the row keep the order if the
\* written row is in order and not behind what the requests in flight have read.
LEMMA WriteKeepsOrder ==
    ASSUME Protected, TypeOK, TypeOK', Order, NEW r \in Replica, NEW p,
           p \notin {"due", "asked", "answered"}, pc' = [pc EXCEPT ![r] = p],
           UNCHANGED <<version, outer, read, asked, answer>>,
           \/ UNCHANGED state
           \/ /\ state'.age = 0
              /\ state'.etag <= state'.payload /\ state'.payload <= version
              /\ ~SendsValidator => state'.etag = None
              /\ \A q \in Replica : Begun(q) => outer[q] <= state'.payload
              /\ \A q \in Replica : InFlight(q) => read[q].payload <= state'.payload
    PROVE  Order'
<1>1. \A q \in Replica : pc'[q] \in {"due", "asked", "answered"} => q # r /\ pc[q] = pc'[q]
  BY DEF TypeOK
<1>2. \A q \in Replica : (InFlight(q)' => InFlight(q)) /\ (Begun(q)' => Begun(q))
  BY <1>1 DEF InFlight, Begun
<1>3. \A q \in Replica : read[q] \in State /\ outer[q] \in Nat
  BY DEF TypeOK
<1>4. RowOrder'
  BY DEF Order, RowOrder
<1>5. FlightOrder'
  BY <1>2 DEF Order, FlightOrder
<1>6. AnswerKnown'
  BY <1>1 DEF Order, AnswerKnown
<1>7. AnswerOrder'
  BY <1>1, <1>2 DEF Order, AnswerOrder
<1>8. Snapshot'
  <2> SUFFICES ASSUME ~ReadsFail, MinInterval > 0, NEW q \in Replica, InFlight(q)'
               PROVE  /\ state'.age > 0 => read[q].payload = state'.payload
                      /\ \A u \in Replica : pc'[u] = "due" => read[q].payload = state'.payload
    BY DEF Snapshot
  <2>1. InFlight(q) /\ q # r
    BY <1>1, <1>2 DEF InFlight
  <2>2. CASE UNCHANGED state
    BY <1>1, <2>1, <2>2 DEF Order, Snapshot
  \* Nobody else is left to be between its reads.
  <2>3. CASE state'.age = 0
    <3>1. \A u \in Replica : pc'[u] # "due"
      <4> SUFFICES ASSUME NEW u \in Replica, pc'[u] = "due" PROVE FALSE
        OBVIOUS
      <4>1. u # r /\ u # q
        BY <1>1, <2>1 DEF InFlight
      <4> QED  BY <2>1, <4>1 DEF Protected
    <3> QED  BY <2>3, <3>1
  <2> QED  BY <2>2, <2>3
<1>9. NoValidator'
  BY DEF Order, NoValidator
<1> QED
  BY <1>4, <1>5, <1>6, <1>7, <1>8, <1>9 DEF Order

\* Recording an attempt without a payload: the validator is one r has read.
LEMMA RecordKeepsOrder ==
    ASSUME Protected, TypeOK, TypeOK', Order, NEW r \in Replica, InFlight(r), NEW p,
           p \notin {"due", "asked", "answered"}, pc' = [pc EXCEPT ![r] = p],
           UNCHANGED <<version, outer, read, asked, answer>>,
           NEW e \in Nat, e <= state.payload, ~SendsValidator => e = None,
           SaveState(e, None)
    PROVE  Order'
<1>1. CASE UNCHANGED state
  BY <1>1, WriteKeepsOrder
<1>2. CASE state' = Recorded(e, None)
  <2>1. state'.age = 0 /\ state'.payload = state.payload /\ state'.etag \in {e, state.etag}
    BY <1>2 DEF Recorded
  <2>2. state'.etag <= state'.payload /\ state'.payload <= version
    BY <2>1 DEF Order, RowOrder
  <2>3. ~SendsValidator => state'.etag = None
    BY <2>1 DEF Order, NoValidator
  <2>4. \A q \in Replica : /\ Begun(q) => outer[q] <= state'.payload
                           /\ InFlight(q) => read[q].payload <= state'.payload
    BY <2>1 DEF Order, FlightOrder
  <2> QED  BY <2>1, <2>2, <2>3, <2>4, WriteKeepsOrder
<1> QED
  BY <1>1, <1>2 DEF SaveState

\* The order holds initially.
LEMMA OrderInit == Init => Order
  BY SourceAssumption
  DEF Init, Order, RowOrder, FlightOrder, AnswerKnown, AnswerOrder, Snapshot, NoValidator,
      InFlight, Begun, NoState, None

\* Every step keeps the order.
LEMMA OrderStep ==
    ASSUME Protected, TypeOK, TypeOK', Order, [Next]_vars
    PROVE  Order'
<1> USE SourceAssumption DEF None
<1>1. ASSUME NEW r \in Replica, FetchSource(r) PROVE Order'
  BY <1>1, WriteKeepsOrder DEF FetchSource, Goto
<1>2. ASSUME NEW r \in Replica, FetchSourceOnce(r) PROVE Order'
  <2>1. PICK first \in {state, NoState} : CheckDue(r, first)
    BY <1>2 DEF FetchSourceOnce
  <2>2. CASE ~IsDue(first)
    BY <2>1, <2>2, WriteKeepsOrder DEF CheckDue, Return, Goto
  <2>3. CASE IsDue(first)
    <3>1. /\ pc[r] = "begin" /\ pc' = [pc EXCEPT ![r] = "due"]
          /\ outer' = [outer EXCEPT ![r] = first.etag]
          /\ UNCHANGED <<version, state, read, asked, answer>>
      BY <2>1, <2>3 DEF CheckDue, Goto
    <3>2. /\ first.etag \in Nat /\ first.etag <= state.payload
          /\ ~SendsValidator => first.etag = None
      BY DEF Order, RowOrder, NoValidator, NoState, TypeOK, State
    <3>3. /\ \A q \in Replica : q # r => pc'[q] = pc[q] /\ outer'[q] = outer[q]
          /\ pc'[r] = "due" /\ outer'[r] = first.etag
      BY <3>1 DEF TypeOK
    <3>4. \A q \in Replica : /\ InFlight(q)' <=> InFlight(q)
                             /\ InFlight(q) => q # r
                             /\ q # r => (Begun(q)' <=> Begun(q))
                             /\ pc'[q] = "answered" => pc[q] = "answered" /\ InFlight(q)
      BY <3>1, <3>3 DEF InFlight, Begun
    <3>5. RowOrder' /\ AnswerKnown' /\ NoValidator'
      BY <3>1, <3>2, <3>3, <3>4 DEF Order, RowOrder, AnswerKnown, NoValidator
    <3>6. FlightOrder'
      BY <3>1, <3>2, <3>3, <3>4 DEF Order, FlightOrder
    \* The row is as old as the requests in flight.
    <3>7. ASSUME NEW q \in Replica, InFlight(q)
          PROVE  ~ReadsFail /\ MinInterval > 0 /\ read[q].payload = state.payload
      <4>1. ~ReadsFail /\ MinInterval > 0
        BY <3>4, <3>7 DEF Protected
      <4>2. first = state
        BY <2>1, <4>1 DEF CheckDue, LoadState
      <4>3. state.age > 0
        BY <2>3, <4>1, <4>2 DEF IsDue, TypeOK, State
      <4> QED  BY <3>7, <4>1, <4>3 DEF Order, Snapshot
    <3>8. AnswerOrder'
      <4> SUFFICES ASSUME NEW p \in Replica, NEW q \in Replica, pc'[p] = "answered"
                   PROVE  /\ Begun(q)' => outer'[q] <= answer[p].version
                          /\ InFlight(q)' => read[q].payload <= answer[p].version
        BY <3>1 DEF AnswerOrder
      <4>1. pc[p] = "answered" /\ InFlight(p)
        BY <3>4
      <4>2. state.payload <= answer[p].version
        BY <3>7, <4>1 DEF Order, AnswerOrder
      <4>3. answer[p].version \in Nat /\ state.payload \in Nat
        BY DEF TypeOK, State
      <4>4. CASE q = r
        BY <3>2, <3>3, <3>4, <4>2, <4>3, <4>4
      <4>5. CASE q # r
        BY <3>3, <3>4, <4>1, <4>5 DEF Order, AnswerOrder
      <4> QED  BY <4>4, <4>5
    <3>9. Snapshot'
      BY <3>1, <3>4, <3>7 DEF Snapshot
    <3> QED  BY <3>5, <3>6, <3>8, <3>9 DEF Order
  <2> QED  BY <2>2, <2>3
<1>16. ASSUME NEW r \in Replica, Request(r) PROVE Order'
  <2>1. PICK second \in {state, NoState} : SendRequest(r, second)
    BY <1>16 DEF Request
  <2>2. /\ pc[r] = "due" /\ pc' = [pc EXCEPT ![r] = "asked"]
        /\ read' = [read EXCEPT ![r] = second]
        /\ asked' = [asked EXCEPT ![r] = IF Conditional THEN second.etag ELSE None]
        /\ UNCHANGED <<version, state, outer, answer>>
    BY <2>1 DEF SendRequest, Goto
  <2>3. /\ second.etag \in Nat /\ second.payload \in Nat
        /\ second.etag <= second.payload /\ second.payload <= state.payload
        /\ ~SendsValidator => second.etag = None
    BY DEF Order, RowOrder, NoValidator, NoState, TypeOK, State
  <2>4. /\ \A q \in Replica : q # r => pc'[q] = pc[q] /\ read'[q] = read[q] /\ asked'[q] = asked[q]
        /\ pc'[r] = "asked" /\ read'[r] = second /\ asked'[r] \in {None, second.etag}
    BY <2>2 DEF TypeOK
  <2>5. \A q \in Replica : /\ Begun(q)' <=> Begun(q)
                           /\ q # r => (InFlight(q)' <=> InFlight(q))
                           /\ pc'[q] = "answered" => q # r /\ pc[q] = "answered" /\ InFlight(q)
                           /\ pc'[q] = "due" => q # r /\ pc[q] = "due"
    BY <2>2, <2>4 DEF InFlight, Begun
  <2>6. RowOrder' /\ AnswerKnown' /\ NoValidator'
    BY <2>2, <2>3, <2>4, <2>5 DEF Order, RowOrder, AnswerKnown, NoValidator
  <2>7. FlightOrder'
    BY <2>2, <2>3, <2>4, <2>5 DEF Order, FlightOrder
  <2>8. AnswerOrder'
    <3> SUFFICES ASSUME NEW p \in Replica, NEW q \in Replica, pc'[p] = "answered"
                 PROVE  /\ Begun(q)' => outer[q] <= answer[p].version
                        /\ InFlight(q)' => read'[q].payload <= answer[p].version
      BY <2>2 DEF AnswerOrder
    <3>1. p # r /\ pc[p] = "answered" /\ InFlight(p)
      BY <2>5
    <3>2. ~ReadsFail /\ MinInterval > 0
      BY <3>1 DEF Protected
    <3>3. state.payload <= answer[p].version
      BY <2>2, <3>1, <3>2 DEF Order, Snapshot, AnswerOrder
    <3>4. answer[p].version \in Nat /\ state.payload \in Nat
      BY DEF TypeOK, State
    <3>5. CASE q = r
      BY <2>3, <2>4, <2>5, <3>1, <3>3, <3>4, <3>5 DEF Order, AnswerOrder
    <3>6. CASE q # r
      BY <2>4, <2>5, <3>1, <3>6 DEF Order, AnswerOrder
    <3> QED  BY <3>5, <3>6
  <2>9. Snapshot'
    <3> SUFFICES ASSUME ~ReadsFail, MinInterval > 0, NEW q \in Replica, InFlight(q)'
                 PROVE  /\ state'.age > 0 => read'[q].payload = state'.payload
                        /\ \A u \in Replica : pc'[u] = "due" => read'[q].payload = state'.payload
      BY DEF Snapshot
    <3>1. CASE q = r
      <4>1. second = state
        BY <2>1 DEF SendRequest, LoadState
      <4> QED  BY <2>2, <2>4, <3>1, <4>1
    <3>2. CASE q # r
      BY <2>2, <2>4, <2>5, <3>2 DEF Order, Snapshot
    <3> QED  BY <3>1, <3>2
  <2> QED  BY <2>6, <2>7, <2>8, <2>9 DEF Order
<1>3. ASSUME NEW r \in Replica, Answer(r) PROVE Order'
  <2>1. /\ pc[r] = "asked" /\ pc' = [pc EXCEPT ![r] = "answered"]
        /\ UNCHANGED <<version, state, outer, read, asked>>
        /\ \A q \in Replica : q # r => answer'[q] = answer[q]
        /\ answer'[r].version = version
        /\ answer'[r].status = 304 => asked[r] = version
    BY <1>3 DEF Answer, Goto, TypeOK
  <2>2. \A q \in Replica : /\ InFlight(q)' <=> InFlight(q)
                           /\ Begun(q)' <=> Begun(q)
                           /\ pc'[q] = "due" <=> pc[q] = "due"
                           /\ q # r => pc'[q] = pc[q]
    BY <2>1 DEF InFlight, Begun, TypeOK
  <2>3. RowOrder' /\ FlightOrder' /\ Snapshot' /\ NoValidator'
    BY <2>1, <2>2 DEF Order, RowOrder, FlightOrder, Snapshot, NoValidator
  <2>4. \A q \in Replica : /\ InFlight(q) => read[q].payload <= version
                           /\ Begun(q) => outer[q] <= version
    BY DEF Order, RowOrder, FlightOrder, TypeOK, State
  <2>5. InFlight(r) /\ version > 0
    BY <2>1 DEF InFlight, TypeOK
  <2>6. AnswerKnown'
    BY <2>1, <2>2, <2>5 DEF Order, AnswerKnown, FlightOrder, TypeOK
  <2>7. AnswerOrder'
    BY <2>1, <2>2, <2>4 DEF Order, AnswerOrder
  <2> QED  BY <2>3, <2>6, <2>7 DEF Order
<1>4. ASSUME NEW r \in Replica, NotModified(r) PROVE Order'
  <2>1. InFlight(r) /\ answer[r].version = read[r].etag /\ answer[r].version > 0
    BY <1>4 DEF NotModified, InFlight, Order, AnswerKnown
  <2>2. answer[r].version \in Nat /\ answer[r].version <= state.payload
    BY <2>1 DEF Order, FlightOrder, TypeOK, State
  <2>3. SendsValidator
    BY <2>1 DEF Order, NoValidator
  <2> QED  BY <1>4, <2>1, <2>2, <2>3, RecordKeepsOrder DEF NotModified, Return, Goto
<1>5. ASSUME NEW r \in Replica, RefetchBody(r) PROVE Order'
  <2>1. /\ pc[r] = "answered" /\ pc' = [pc EXCEPT ![r] = "asked"]
        /\ UNCHANGED <<version, state, outer, read, answer>>
        /\ asked'[r] = None /\ \A q \in Replica : q # r => asked'[q] = asked[q]
    BY <1>5 DEF RefetchBody, Goto, TypeOK
  <2>2. \A q \in Replica : /\ InFlight(q)' <=> InFlight(q)
                           /\ Begun(q)' <=> Begun(q)
                           /\ pc'[q] = "due" <=> pc[q] = "due"
                           /\ pc'[q] = "answered" => pc[q] = "answered"
    BY <2>1 DEF InFlight, Begun, TypeOK
  <2>3. RowOrder' /\ AnswerKnown' /\ AnswerOrder' /\ Snapshot' /\ NoValidator'
    BY <2>1, <2>2 DEF Order, RowOrder, AnswerKnown, AnswerOrder, Snapshot, NoValidator
  <2>4. FlightOrder'
    BY <2>1, <2>2 DEF Order, FlightOrder
  <2> QED  BY <2>3, <2>4 DEF Order
<1>6. ASSUME NEW r \in Replica, Ok(r) PROVE Order'
  <2>1. pc[r] = "answered" /\ InFlight(r)
    BY <1>6 DEF Ok, InFlight
  <2>2. /\ answer[r].version \in Nat /\ answer[r].version # None /\ answer[r].version <= version
        /\ outer[r] \in Nat /\ outer[r] <= state.payload
        /\ ~SendsValidator => outer[r] = None
    BY <2>1 DEF Order, AnswerKnown, FlightOrder, NoValidator, Begun, TypeOK
  <2>3. CASE ~Conditional
    BY <1>6, <2>1, <2>2, <2>3, RecordKeepsOrder DEF Ok, Return, Goto
  <2>4. CASE Conditional /\ UNCHANGED state
    <3>1. pc' = [pc EXCEPT ![r] = "idle"] /\ UNCHANGED <<version, outer, read, asked, answer>>
      BY <1>6 DEF Ok, Return, Goto
    <3> QED  BY <2>4, <3>1, WriteKeepsOrder
  <2>5. CASE Conditional /\ ~UNCHANGED state
    <3>1. state' = Recorded(IF SendsValidator THEN answer[r].version ELSE None, answer[r].version)
      BY <1>6, <2>5 DEF Ok, SaveState
    <3>2. /\ state'.age = 0 /\ state'.payload = answer[r].version
          /\ SendsValidator => state'.etag = answer[r].version
          /\ ~SendsValidator => state'.etag = None
      BY <2>2, <3>1 DEF Recorded, Order, NoValidator
    <3>3. state'.etag <= state'.payload /\ state'.payload <= version
      BY <2>2, <3>2
    <3>4. \A q \in Replica : /\ Begun(q) => outer[q] <= state'.payload
                             /\ InFlight(q) => read[q].payload <= state'.payload
      BY <2>1, <3>2 DEF Order, AnswerOrder
    <3> QED  BY <1>6, <3>2, <3>3, <3>4, WriteKeepsOrder DEF Ok, Return, Goto
  <2> QED  BY <2>3, <2>4, <2>5
<1>7. ASSUME NEW r \in Replica, MalformedGhsa(r) PROVE Order'
  BY <1>7, WriteKeepsOrder DEF MalformedGhsa, Return, Goto
<1>8. ASSUME NEW r \in Replica, pc[r] = "asked"
      PROVE  /\ InFlight(r) /\ outer[r] \in Nat /\ outer[r] <= state.payload
             /\ ~SendsValidator => outer[r] = None
  BY <1>8 DEF Order, FlightOrder, NoValidator, InFlight, Begun, TypeOK
<1>9. ASSUME NEW r \in Replica, HttpError(r) PROVE Order'
  BY <1>8, <1>9, RecordKeepsOrder DEF HttpError, Return, Goto
<1>10. ASSUME NEW r \in Replica, TransportError(r) PROVE Order'
  <2>1. /\ pc[r] = "asked" /\ SaveState(outer[r], None)
        /\ UNCHANGED <<version, outer, read, asked, answer>>
    BY <1>10 DEF TransportError
  <2>2. CASE attempt[r] < FetchAttempts
    <3>1. pc' = [pc EXCEPT ![r] = "backoff"]
      BY <1>10, <2>2 DEF TransportError, Goto
    <3> QED  BY <1>8, <2>1, <3>1, RecordKeepsOrder
  <2>3. CASE ~(attempt[r] < FetchAttempts)
    <3>1. pc' = [pc EXCEPT ![r] = "idle"]
      BY <1>10, <2>3 DEF TransportError, Return, Goto
    <3> QED  BY <1>8, <2>1, <3>1, RecordKeepsOrder
  <2> QED  BY <2>2, <2>3
<1>11. ASSUME NEW r \in Replica, Retry(r) PROVE Order'
  BY <1>11, WriteKeepsOrder DEF Retry, Goto
<1>12. ASSUME NEW r \in Replica, Crash(r) PROVE Order'
  BY <1>12, WriteKeepsOrder DEF Crash, Goto
<1>13. CASE PublishVersion
  <2>1. /\ version' = version + 1
        /\ UNCHANGED <<state, pc, outer, read, asked, answer>>
    BY <1>13 DEF PublishVersion
  <2>2. RowOrder' /\ AnswerKnown'
    BY <2>1 DEF Order, RowOrder, AnswerKnown, TypeOK, State
  <2> QED  BY <2>1, <2>2 DEF Order, FlightOrder, AnswerOrder, Snapshot, NoValidator, InFlight,
                          Begun
<1>14. CASE Tick
  <2>1. \A r \in Replica : ~InFlight(r) /\ ~Begun(r) /\ pc[r] # "answered"
    BY <1>14 DEF Tick, InFlight, Begun
  <2>2. /\ UNCHANGED <<version, pc, outer, read, asked, answer>>
        /\ state'.etag = state.etag /\ state'.payload = state.payload
    BY <1>14 DEF Tick, TypeOK, State
  <2> QED  BY <2>1, <2>2 DEF Order, RowOrder, FlightOrder, AnswerKnown, AnswerOrder, Snapshot,
                             NoValidator, InFlight, Begun
<1>15. CASE UNCHANGED vars
  BY <1>15 DEF vars, Order, RowOrder, FlightOrder, AnswerKnown, AnswerOrder, Snapshot,
               NoValidator, InFlight, Begun
<1> QED
  BY <1>1, <1>2, <1>3, <1>4, <1>5, <1>6, <1>7, <1>9, <1>10, <1>11, <1>12, <1>13, <1>14, <1>15,
     <1>16
  DEF Next, FetchStep

-----------------------------------------------------------------------------
(* The results.                                                            *)

\* r ends with a result that agrees with its last answer, or with no items.
LEMMA EndKeepsResults ==
    ASSUME TypeOK, Pending, ReuseIsCurrent, NEW r \in Replica, NEW kind, NEW v,
           Return(r, kind, v), UNCHANGED answer,
           kind = "items" => v \in {None, answer[r].version}
    PROVE  Pending' /\ ReuseIsCurrent'
  BY DEF Return, Goto, Pending, ReuseIsCurrent, TypeOK

\* Every step keeps the results in line with the answers.
LEMMA ResultsStep ==
    ASSUME TypeOK, Order, Pending, ReuseIsCurrent, [Next]_vars
    PROVE  Pending' /\ ReuseIsCurrent'
<1>1. ASSUME NEW r \in Replica, FetchSource(r) PROVE Pending' /\ ReuseIsCurrent'
  BY <1>1 DEF FetchSource, Goto, Pending, ReuseIsCurrent, Nothing, TypeOK
<1>2. ASSUME NEW r \in Replica, FetchSourceOnce(r) PROVE Pending' /\ ReuseIsCurrent'
  <2>1. PICK first \in {state, NoState} : CheckDue(r, first)
    BY <1>2 DEF FetchSourceOnce
  <2>2. CASE IsDue(first)
    <3>1. pc[r] = "begin" /\ pc' = [pc EXCEPT ![r] = "due"] /\ UNCHANGED <<result, answer>>
      BY <2>1, <2>2 DEF CheckDue, Goto
    <3> QED  BY <3>1 DEF Pending, ReuseIsCurrent, TypeOK
  <2>3. CASE ~IsDue(first)
    <3>1. Return(r, "skipped", None) /\ UNCHANGED answer
      BY <2>1, <2>3 DEF CheckDue
    <3> QED  BY <3>1, EndKeepsResults
  <2> QED  BY <2>2, <2>3
<1>12. ASSUME NEW r \in Replica, Request(r) PROVE Pending' /\ ReuseIsCurrent'
  BY <1>12 DEF Request, SendRequest, Goto, Pending, ReuseIsCurrent, TypeOK
<1>3. ASSUME NEW r \in Replica, Answer(r) PROVE Pending' /\ ReuseIsCurrent'
  <2>1. result[r].kind = "none"
    BY <1>3 DEF Answer, Pending
  <2> QED  BY <1>3, <2>1 DEF Answer, Goto, Pending, ReuseIsCurrent, TypeOK
<1>4. ASSUME NEW r \in Replica, NotModified(r) PROVE Pending' /\ ReuseIsCurrent'
  <2>1. InFlight(r) /\ answer[r].version = read[r].etag
    BY <1>4 DEF NotModified, InFlight, Order, AnswerKnown
  <2>2. read[r].etag <= read[r].payload /\ read[r].payload <= answer[r].version
    BY <1>4, <2>1 DEF NotModified, Order, FlightOrder, AnswerOrder
  <2>3. read[r].etag \in Nat /\ read[r].payload \in Nat
    BY DEF TypeOK, State
  <2>4. read[r].payload = answer[r].version
    BY <2>1, <2>2, <2>3
  <2> QED  BY <1>4, <2>4, EndKeepsResults DEF NotModified
<1>5. ASSUME NEW r \in Replica, RefetchBody(r) PROVE Pending' /\ ReuseIsCurrent'
  BY <1>5 DEF RefetchBody, Goto, Pending, ReuseIsCurrent, TypeOK
<1>6. ASSUME NEW r \in Replica, Ok(r) PROVE Pending' /\ ReuseIsCurrent'
  BY <1>6, EndKeepsResults DEF Ok
<1>7. ASSUME NEW r \in Replica, MalformedGhsa(r) PROVE Pending' /\ ReuseIsCurrent'
  BY <1>7, EndKeepsResults DEF MalformedGhsa
<1>8. ASSUME NEW r \in Replica, HttpError(r) PROVE Pending' /\ ReuseIsCurrent'
  BY <1>8, EndKeepsResults DEF HttpError
<1>9. ASSUME NEW r \in Replica, TransportError(r) PROVE Pending' /\ ReuseIsCurrent'
  <2>1. CASE attempt[r] < FetchAttempts
    <3>1. pc[r] = "asked" /\ pc' = [pc EXCEPT ![r] = "backoff"] /\ UNCHANGED <<result, answer>>
      BY <1>9, <2>1 DEF TransportError, Goto
    <3> QED  BY <3>1 DEF Pending, ReuseIsCurrent, TypeOK
  <2>2. CASE ~(attempt[r] < FetchAttempts)
    <3>1. Return(r, "error", None) /\ UNCHANGED answer
      BY <1>9, <2>2 DEF TransportError
    <3> QED  BY <3>1, EndKeepsResults
  <2> QED  BY <2>1, <2>2
<1>10. ASSUME NEW r \in Replica, Retry(r) \/ Crash(r) PROVE Pending' /\ ReuseIsCurrent'
  BY <1>10 DEF Retry, Crash, Goto, Pending, ReuseIsCurrent, TypeOK
<1>11. CASE PublishVersion \/ Tick \/ UNCHANGED vars
  BY <1>11 DEF PublishVersion, Tick, vars, Pending, ReuseIsCurrent
<1> QED
  BY <1>1, <1>2, <1>3, <1>4, <1>5, <1>6, <1>7, <1>8, <1>9, <1>10, <1>11, <1>12
  DEF Next, FetchStep

\* The inductive invariant.
LEMMA IInvInvariant == Protected => (Spec => []IInv)
<1> SUFFICES ASSUME Protected PROVE Spec => []IInv
  OBVIOUS
<1>1. Init => IInv
  <2>1. Init => Pending /\ ReuseIsCurrent
    BY DEF Init, Pending, ReuseIsCurrent, Nothing
  <2> QED  BY <2>1, TInvInit, OrderInit DEF IInv, TInv
<1>2. TypeOK' /\ IInv /\ [Next]_vars => IInv'
  BY OrderStep, ResultsStep DEF IInv
<1> QED
  BY <1>1, <1>2, TypeCorrect, PTL DEF Spec

\* Whatever two replicas, errors, lost writes and crashes do in between, a fetch that
\* is answered 304 returns exactly the version the source serves at that moment.
THEOREM ReuseIsCurrentHolds == Protected => (Spec => []ReuseIsCurrent)
<1> SUFFICES ASSUME Protected PROVE Spec => []ReuseIsCurrent
  OBVIOUS
<1>1. IInv => ReuseIsCurrent
  BY DEF IInv
<1> QED
  BY <1>1, IInvInvariant, PTL

\* The stored validator never names a newer version than the stored payload, so
\* that no 304 can freeze an outdated payload in place.
THEOREM ValidatorNotAheadHolds == Protected => (Spec => []ValidatorNotAhead)
<1> SUFFICES ASSUME Protected PROVE Spec => []ValidatorNotAhead
  OBVIOUS
<1>1. IInv => ValidatorNotAhead
  BY DEF IInv, Order, RowOrder, ValidatorNotAhead
<1> QED
  BY <1>1, IInvInvariant, PTL

-----------------------------------------------------------------------------
(* The cadence.                                                            *)

\* Without a fault, the record is at least as recent as the last request of any
\* replica that is not in the middle of one.
RecordKept == faults = 0 => \A r \in Replica :
    pc[r] \notin {"asked", "answered"} => quiet[r] >= state.age \/ quiet[r] >= MinInterval

\* The end of a request: its record makes the row younger than any request.
LEMMA RecordEnds ==
    ASSUME TypeOK, NEW etag, NEW payload, SaveState(etag, payload), UNCHANGED quiet
    PROVE  RecordKept'
<1>1. CASE UNCHANGED state /\ Fault
  <2>1. faults' # 0
    BY <1>1 DEF Fault, TypeOK
  <2> QED  BY <2>1 DEF RecordKept
<1>2. CASE state' = Recorded(etag, payload) /\ UNCHANGED faults
  <2>1. state'.age = 0
    BY <1>2 DEF Recorded
  <2>2. \A r \in Replica : quiet'[r] \in Nat
    BY DEF TypeOK
  <2> QED  BY <2>1, <2>2 DEF RecordKept
<1> QED
  BY <1>1, <1>2 DEF SaveState

\* A step that neither ends a request nor writes the row.
LEMMA RecordUntouched ==
    ASSUME RecordKept, UNCHANGED <<state, quiet, faults>>,
           \A r \in Replica : pc'[r] \notin {"asked", "answered"} => pc[r] \notin {"asked", "answered"}
    PROVE  RecordKept'
  BY DEF RecordKept

\* The record is kept by every step.
LEMMA RecordStep == TypeOK /\ RecordKept /\ [Next]_vars => RecordKept'
<1> SUFFICES ASSUME TypeOK, RecordKept, [Next]_vars PROVE RecordKept'
  OBVIOUS
<1>0. /\ pc \in [Replica -> {"idle", "begin", "due", "asked", "answered", "backoff"}]
      /\ quiet \in [Replica -> Nat] /\ faults \in Nat /\ state.age \in Nat
      /\ MinInterval \in Nat
  BY SourceAssumption DEF TypeOK, State
<1>1. ASSUME NEW r \in Replica, FetchSource(r) \/ Answer(r) \/ RefetchBody(r) \/ Retry(r) PROVE RecordKept'
  BY <1>0, <1>1, RecordUntouched DEF FetchSource, Answer, RefetchBody, Retry, Goto
<1>2. ASSUME NEW r \in Replica, FetchSourceOnce(r) PROVE RecordKept'
  <2>1. PICK first \in {state, NoState} : CheckDue(r, first)
    BY <1>2 DEF FetchSourceOnce
  <2>2. CASE faults' # 0
    BY <2>2 DEF RecordKept
  <2>3. CASE faults' = 0
    <3>1. UNCHANGED <<state, quiet, faults>> /\ pc[r] = "begin"
      BY <1>0, <2>1, <2>3 DEF CheckDue, LoadState, Fault
    <3>2. \A q \in Replica : q # r => pc'[q] = pc[q]
      BY <1>0, <2>1 DEF CheckDue, Return, Goto
    <3> QED  BY <3>1, <3>2, RecordUntouched
  <2> QED  BY <2>2, <2>3
<1>8. ASSUME NEW r \in Replica, Request(r) PROVE RecordKept'
  <2>1. PICK second \in {state, NoState} : SendRequest(r, second)
    BY <1>8 DEF Request
  <2>2. CASE faults' # 0
    BY <2>2 DEF RecordKept
  <2>3. CASE faults' = 0
    <3>1. UNCHANGED <<state, faults>> /\ pc' = [pc EXCEPT ![r] = "asked"]
          /\ quiet' = [quiet EXCEPT ![r] = 0]
      BY <1>0, <2>1, <2>3 DEF SendRequest, LoadState, Fault, Goto
    <3> QED  BY <1>0, <3>1 DEF RecordKept
  <2> QED  BY <2>2, <2>3
<1>3. ASSUME NEW r \in Replica, NotModified(r) \/ Ok(r) \/ HttpError(r) \/ TransportError(r) PROVE RecordKept'
  <2>1. UNCHANGED quiet /\ \E etag, payload : SaveState(etag, payload)
    BY <1>3 DEF NotModified, Ok, HttpError, TransportError
  <2> QED  BY <2>1, RecordEnds
<1>4. ASSUME NEW r \in Replica, MalformedGhsa(r) PROVE RecordKept'
  BY <1>0, <1>4 DEF MalformedGhsa, Return, Goto, RecordKept
<1>5. ASSUME NEW r \in Replica, Crash(r) PROVE RecordKept'
  BY <1>0, <1>5 DEF Crash, Fault, RecordKept
<1>6. CASE PublishVersion \/ UNCHANGED vars
  BY <1>6, RecordUntouched DEF PublishVersion, vars
<1>7. CASE Tick
  <2>1. UNCHANGED <<pc, faults>> /\ state'.age = Later(state.age)
        /\ \A r \in Replica : quiet'[r] = Later(quiet[r])
    BY <1>7 DEF Tick, TypeOK, State
  <2>2. \A m, n \in Nat : (m >= n \/ m >= MinInterval) => (Later(m) >= Later(n) \/ Later(m) >= MinInterval)
    BY <1>0 DEF Later
  <2> QED  BY <1>0, <2>1, <2>2 DEF RecordKept
<1> QED
  BY <1>1, <1>2, <1>3, <1>4, <1>5, <1>6, <1>7, <1>8 DEF Next, FetchStep

\* A fetch that has found the source due still has its interval behind it: no time
\* passes and nobody else asks in its name.
DueKept == faults = 0 => \A r \in Replica : pc[r] = "due" => quiet[r] >= MinInterval

\* Every step keeps DueKept: the check compares the age of the record, which is not
\* younger than the last request.
LEMMA DueStep == TypeOK /\ RecordKept /\ DueKept /\ [Next]_vars => DueKept'
<1> SUFFICES ASSUME TypeOK, RecordKept, DueKept, [Next]_vars, faults' = 0,
                    NEW r \in Replica, pc'[r] = "due"
             PROVE  quiet'[r] >= MinInterval
  BY DEF DueKept
<1>0. /\ pc \in [Replica -> {"idle", "begin", "due", "asked", "answered", "backoff"}]
      /\ quiet \in [Replica -> Nat] /\ faults \in Nat /\ state.age \in Nat
      /\ MinInterval \in Nat
  BY SourceAssumption DEF TypeOK, State
<1>1. ASSUME pc[r] = "due", faults = 0, quiet'[r] = quiet[r] PROVE quiet'[r] >= MinInterval
  BY <1>1 DEF DueKept
<1>2. ASSUME NEW q \in Replica, FetchSourceOnce(q) PROVE quiet'[r] >= MinInterval
  <2>1. PICK first \in {state, NoState} : CheckDue(q, first)
    BY <1>2 DEF FetchSourceOnce
  <2>2. first = state /\ faults = 0 /\ UNCHANGED quiet
    BY <1>0, <2>1 DEF CheckDue, LoadState, Fault
  <2>3. CASE q = r
    <3>1. pc[r] = "begin" /\ IsDue(state)
      BY <1>0, <2>1, <2>2, <2>3 DEF CheckDue, Return, Goto
    <3> QED  BY <1>0, <2>2, <3>1 DEF IsDue, RecordKept
  <2>4. CASE q # r
    <3>1. pc[r] = "due"
      BY <1>0, <2>1, <2>4 DEF CheckDue, Return, Goto
    <3> QED  BY <1>1, <2>2, <3>1
  <2> QED  BY <2>3, <2>4
<1>3. ASSUME NEW q \in Replica, Request(q) PROVE quiet'[r] >= MinInterval
  <2>1. faults = 0 /\ q # r /\ pc[r] = "due" /\ quiet'[r] = quiet[r]
    BY <1>0, <1>3 DEF Request, SendRequest, LoadState, Fault, Goto
  <2> QED  BY <1>1, <2>1
<1>4. ASSUME NEW q \in Replica,
             \/ FetchSource(q) \/ Answer(q) \/ NotModified(q) \/ RefetchBody(q) \/ Ok(q) \/ Retry(q)
             \/ HttpError(q) \/ TransportError(q) \/ Crash(q)
      PROVE  quiet'[r] >= MinInterval
  <2>1. UNCHANGED quiet /\ q # r /\ pc[r] = "due"
    BY <1>0, <1>4 DEF FetchSource, Answer, NotModified, RefetchBody, Ok, Retry, HttpError,
                      TransportError, Crash, Return, Goto
  <2>2. faults = 0
    BY <1>0, <1>4 DEF FetchSource, Answer, NotModified, RefetchBody, Ok, Retry, HttpError,
                      TransportError, Crash, SaveState, Fault
  <2> QED  BY <1>1, <2>1, <2>2
<1>5. ASSUME NEW q \in Replica, MalformedGhsa(q) PROVE quiet'[r] >= MinInterval
  <2>1. faults = 0 /\ q # r /\ pc[r] = "due" /\ quiet'[r] = quiet[r]
    BY <1>0, <1>5 DEF MalformedGhsa, Return, Goto
  <2> QED  BY <1>1, <2>1
<1>6. ~Tick
  BY DEF Tick
<1>7. CASE PublishVersion \/ UNCHANGED vars
  BY <1>1, <1>7 DEF PublishVersion, vars
<1> QED
  BY <1>2, <1>3, <1>4, <1>5, <1>6, <1>7 DEF Next, FetchStep

\* Any number of replicas: the record of an attempt, whoever wrote the row last,
\* keeps a fetch from asking a source again before its interval is over.
THEOREM CadenceKeptHolds == Spec => CadenceKept
<1>1. Init => RecordKept /\ DueKept
  BY SourceAssumption DEF Init, RecordKept, DueKept, NoState
<1>2. TypeOK /\ TypeOK' /\ DueKept /\ [Next]_vars =>
        [\A r \in Replica : (pc[r] = "due" /\ pc'[r] = "asked" /\ attempt[r] = 1) =>
            quiet[r] >= MinInterval \/ faults' > 0]_vars
  <2> SUFFICES ASSUME TypeOK, TypeOK', DueKept, Next, NEW r \in Replica, pc[r] = "due",
                      ~(faults' > 0)
               PROVE  quiet[r] >= MinInterval
    OBVIOUS
  <2>1. faults \in Nat /\ faults' \in Nat
    BY DEF TypeOK
  <2>2. faults' >= faults
    BY <2>1 DEF Next, FetchStep, FetchSource, FetchSourceOnce, CheckDue, Request, SendRequest,
       LoadState, Answer, NotModified, RefetchBody, Ok, Retry, MalformedGhsa, HttpError,
       TransportError, Crash, PublishVersion, Tick, SaveState, Fault
  <2> QED  BY <2>1, <2>2 DEF DueKept
<1> QED
  BY <1>1, <1>2, RecordStep, DueStep, TypeCorrect, PTL DEF Spec, CadenceKept

-----------------------------------------------------------------------------
(* NvdPacing: requests start a stagger apart.                              *)


Apart(a, b) == a - b >= Stagger \/ b - a >= Stagger

\* A task asleep is not overdue, and its slot lies before _nvd_next_start.
SleepersDue == \A s \in Source : stage[s] = "sleep" =>
    slot[s] >= -MaxLag /\ slot[s] + Stagger <= nextStart

SleepersApart == \A s, t \in Source :
    (s # t /\ stage[s] = "sleep" /\ stage[t] = "sleep") => Apart(slot[s], slot[t])

\* A request was sent at its slot or up to MaxLag later.
SentOnTime == \A p \in requests :
    /\ p.slot <= p.at /\ p.at <= p.slot + MaxLag
    /\ p.slot + Stagger <= nextStart

SleepersApartFromSent == \A s \in Source : stage[s] = "sleep" =>
    \A p \in requests : Apart(slot[s], p.slot)

BackoffTries == \A s \in Source : stage[s] = "backoff" => tries[s] < MaxTries

PInv == /\ PacingTypeOK /\ BackoffTries /\ SleepersDue /\ SleepersApart
        /\ SentOnTime /\ SleepersApartFromSent /\ StartsSpaced

LEMMA InitHolds == PacingInit => PInv
  BY PacingAssumption DEF PacingInit, PInv, PacingTypeOK, BackoffTries, SleepersDue, SleepersApart,
     SentOnTime, SleepersApartFromSent, StartsSpaced, MaxTries

\* Steps after which no task sleeps that did not, and that touch no slot.
LEMMA AwakeKeeps ==
    ASSUME PInv, PacingTypeOK', BackoffTries', UNCHANGED <<nextStart, slot, requests>>,
           \A s \in Source : stage'[s] = "sleep" => stage[s] = "sleep"
    PROVE  PInv'
  BY DEF PInv, SleepersDue, SleepersApart, SentOnTime, SleepersApartFromSent, StartsSpaced, Apart

LEMMA ReserveKeeps == ASSUME PInv, NEW s \in Source, Reserve(s) PROVE PInv'
<1> USE PacingAssumption
<1>1. /\ stage \in [Source -> {"ready", "sleep", "asked", "backoff", "done"}]
      /\ slot \in [Source -> Int] /\ nextStart \in Nat /\ requests \subseteq [slot : Int, at : Int]
  BY DEF PInv, PacingTypeOK
<1>2. /\ slot' = [slot EXCEPT ![s] = nextStart] /\ nextStart' = nextStart + Stagger
      /\ stage' = [stage EXCEPT ![s] = "sleep"] /\ UNCHANGED <<page, tries, requests, lost>>
  BY DEF Reserve, Move
<1>3. PacingTypeOK' /\ BackoffTries'
  BY <1>1, <1>2 DEF PInv, PacingTypeOK, BackoffTries
<1>4. /\ slot'[s] = nextStart /\ \A t \in Source : t # s => slot'[t] = slot[t] /\ stage'[t] = stage[t]
      /\ \A t \in Source : slot[t] \in Int
  BY <1>1, <1>2
<1>5. SleepersDue'
  BY <1>1, <1>2, <1>4 DEF PInv, SleepersDue
<1>6. SleepersApart'
  BY <1>1, <1>4 DEF PInv, SleepersDue, SleepersApart, Apart
<1>7. \A p \in requests : p.slot \in Int /\ p.at \in Int
  BY <1>1
<1>8. SentOnTime' /\ SleepersApartFromSent' /\ StartsSpaced'
  BY <1>1, <1>2, <1>4, <1>7 DEF PInv, SentOnTime, SleepersApartFromSent, StartsSpaced, Apart
<1> QED
  BY <1>3, <1>5, <1>6, <1>8 DEF PInv

LEMMA SendKeeps == ASSUME PInv, NEW s \in Source, Send(s) PROVE PInv'
<1> USE PacingAssumption
<1> DEFINE new == [slot |-> slot[s], at |-> 0]
<1>1. /\ stage \in [Source -> {"ready", "sleep", "asked", "backoff", "done"}]
      /\ slot \in [Source -> Int] /\ nextStart \in Nat /\ requests \subseteq [slot : Int, at : Int]
  BY DEF PInv, PacingTypeOK
<1>2. /\ stage[s] = "sleep" /\ slot[s] <= 0 /\ requests' = requests \cup {new}
      /\ slot' = [slot EXCEPT ![s] = 0] /\ stage' = [stage EXCEPT ![s] = "asked"]
      /\ UNCHANGED <<nextStart, page, tries, lost>>
  BY DEF Send, Move
<1>3. new \in [slot : Int, at : Int] /\ new.slot = slot[s] /\ new.at = 0 /\ slot[s] \in Int
  BY <1>1
<1>4. slot[s] >= -MaxLag /\ slot[s] + Stagger <= nextStart
  BY <1>2 DEF PInv, SleepersDue
<1> HIDE DEF new
<1>5. PacingTypeOK' /\ BackoffTries'
  BY <1>1, <1>2, <1>3 DEF PInv, PacingTypeOK, BackoffTries
<1>6. \A t \in Source : stage'[t] = "sleep" => t # s /\ stage[t] = "sleep" /\ slot'[t] = slot[t] /\ slot[t] \in Int
  BY <1>1, <1>2
<1>7. SleepersDue' /\ SleepersApart'
  BY <1>2, <1>6 DEF PInv, SleepersDue, SleepersApart
<1>8. SentOnTime'
  BY <1>1, <1>2, <1>3, <1>4 DEF PInv, SentOnTime
<1>9. SleepersApartFromSent'
  BY <1>2, <1>3, <1>6 DEF PInv, SleepersApartFromSent, SleepersApart
<1>10. ASSUME NEW p \in requests
       PROVE  new.at - p.at >= Stagger - MaxLag \/ p.at - new.at >= Stagger - MaxLag
  <2>1. p.slot \in Int /\ p.at \in Int /\ p.slot <= p.at /\ p.at <= p.slot + MaxLag
    BY <1>1, <1>10 DEF PInv, SentOnTime
  <2>2. Apart(slot[s], p.slot)
    BY <1>2, <1>10 DEF PInv, SleepersApartFromSent
  <2> QED  BY <1>2, <1>3, <1>4, <2>1, <2>2 DEF Apart
<1>11. StartsSpaced'
  BY <1>2, <1>10 DEF PInv, StartsSpaced
<1> QED
  BY <1>5, <1>7, <1>8, <1>9, <1>11 DEF PInv

LEMMA TickKeeps == ASSUME PInv, TimePasses PROVE PInv'
<1> USE PacingAssumption
<1> DEFINE Older(p) == [slot |-> p.slot - 1, at |-> p.at - 1]
<1>1. /\ stage \in [Source -> {"ready", "sleep", "asked", "backoff", "done"}]
      /\ slot \in [Source -> Int] /\ nextStart \in Nat /\ requests \subseteq [slot : Int, at : Int]
  BY DEF PInv, PacingTypeOK
<1>2. /\ \A s \in Source : stage[s] = "sleep" => slot[s] > -MaxLag
      /\ nextStart' = IF nextStart > 0 THEN nextStart - 1 ELSE 0
      /\ slot' = [s \in Source |-> IF stage[s] = "sleep" THEN slot[s] - 1 ELSE slot[s]]
      /\ UNCHANGED <<stage, page, tries, lost>>
  BY DEF TimePasses
<1>3. \A p \in requests' : \E q \in requests : p = Older(q)
  BY DEF TimePasses
<1>4. \A q \in requests : /\ q.slot \in Int /\ q.at \in Int
                          /\ Older(q).slot = q.slot - 1 /\ Older(q).at = q.at - 1
  BY <1>1
<1>5. \A q \in requests : Older(q) \in [slot : Int, at : Int]
  BY <1>4
<1> HIDE DEF Older
<1>6. PacingTypeOK' /\ BackoffTries'
  <2>1. requests' \subseteq [slot : Int, at : Int]
    BY <1>3, <1>5
  <2>2. nextStart' \in Nat /\ slot' \in [Source -> Int]
    BY <1>1, <1>2
  <2> QED  BY <1>2, <2>1, <2>2 DEF PInv, PacingTypeOK, BackoffTries
<1>7. \A s \in Source : stage'[s] = "sleep" =>
        stage[s] = "sleep" /\ slot'[s] = slot[s] - 1 /\ slot[s] \in Int
  BY <1>1, <1>2
<1>8. nextStart' >= nextStart - 1
  BY <1>1, <1>2
<1>9. SleepersDue'
  BY <1>1, <1>2, <1>6, <1>7, <1>8 DEF PInv, SleepersDue, PacingTypeOK
<1>10. SleepersApart'
  BY <1>7 DEF PInv, SleepersApart, Apart
<1>11. SentOnTime'
  <2> SUFFICES ASSUME NEW p \in requests'
               PROVE  p.slot <= p.at /\ p.at <= p.slot + MaxLag /\ p.slot + Stagger <= nextStart'
    BY DEF SentOnTime
  <2>1. PICK q \in requests : p = Older(q)
    BY <1>3
  <2>2. q.slot <= q.at /\ q.at <= q.slot + MaxLag /\ q.slot + Stagger <= nextStart
    BY DEF PInv, SentOnTime
  <2>3. nextStart' \in Nat
    BY <1>6 DEF PacingTypeOK
  <2> QED  BY <1>1, <1>4, <1>8, <2>1, <2>2, <2>3
<1>12. SleepersApartFromSent'
  <2> SUFFICES ASSUME NEW s \in Source, stage'[s] = "sleep", NEW p \in requests'
               PROVE  Apart(slot'[s], p.slot)
    BY DEF SleepersApartFromSent
  <2>1. PICK q \in requests : p = Older(q)
    BY <1>3
  <2>2. Apart(slot[s], q.slot)
    BY <1>7 DEF PInv, SleepersApartFromSent
  <2> QED  BY <1>4, <1>7, <2>1, <2>2 DEF Apart
<1>13. StartsSpaced'
  <2> SUFFICES ASSUME NEW p \in requests', NEW q \in requests', p # q
               PROVE  p.at - q.at >= Stagger - MaxLag \/ q.at - p.at >= Stagger - MaxLag
    BY DEF StartsSpaced
  <2>1. PICK a \in requests : p = Older(a)
    BY <1>3
  <2>2. PICK b \in requests : q = Older(b)
    BY <1>3
  <2>3. a.at - b.at >= Stagger - MaxLag \/ b.at - a.at >= Stagger - MaxLag
    BY <2>1, <2>2 DEF PInv, StartsSpaced
  <2> QED  BY <1>4, <2>1, <2>2, <2>3
<1> QED
  BY <1>6, <1>9, <1>10, <1>11, <1>12, <1>13 DEF PInv

LEMMA NextKeeps == PInv /\ [PacingNext]_pacingVars => PInv'
<1> SUFFICES ASSUME PInv, [PacingNext]_pacingVars PROVE PInv'
  OBVIOUS
<1> USE PacingAssumption DEF MaxTries
<1>1. ASSUME NEW s \in Source, Overflow(s) \/ Finish(s) \/ ConnectFails(s) \/ TryAgain(s) PROVE PInv'
  <2>1. PacingTypeOK' /\ BackoffTries'
    BY <1>1 DEF PInv, PacingTypeOK, BackoffTries, Overflow, Finish, ConnectFails, TryAgain, Move
  <2>2. /\ UNCHANGED <<nextStart, slot, requests>>
        /\ \A t \in Source : stage'[t] = "sleep" => stage[t] = "sleep"
    BY <1>1 DEF PInv, PacingTypeOK, Overflow, Finish, ConnectFails, TryAgain, Move
  <2> QED  BY <2>1, <2>2, AwakeKeeps
<1>2. CASE NextRefresh
  <2>1. PacingTypeOK' /\ BackoffTries'
    BY <1>2 DEF PInv, PacingTypeOK, BackoffTries, NextRefresh
  <2> QED  BY <1>2, <2>1, AwakeKeeps DEF NextRefresh
<1>3. CASE UNCHANGED pacingVars
  <2>1. PacingTypeOK' /\ BackoffTries'
    BY <1>3 DEF PInv, PacingTypeOK, BackoffTries, pacingVars
  <2> QED  BY <1>3, <2>1, AwakeKeeps DEF pacingVars
<1> QED
  BY <1>1, <1>2, <1>3, ReserveKeeps, SendKeeps, TickKeeps DEF PacingNext, TaskStep

\* Types, and with them at most FETCH_ATTEMPTS attempts of a source.
THEOREM PacingTypeCorrect == PacingSpec => []PacingTypeOK
<1>1. PInv => PacingTypeOK
  BY DEF PInv
<1> QED
  BY <1>1, InitHolds, NextKeeps, PTL DEF PacingSpec

\* _nvd_stagger_slot keeps requests to the NVD host a stagger apart, up to the
\* lag of the event loop, for any number of concurrent fetches.
THEOREM StartsSpacedHolds == PacingSpec => []StartsSpaced
<1>1. PInv => StartsSpaced
  BY DEF PInv
<1> QED
  BY <1>1, InitHolds, NextKeeps, PTL DEF PacingSpec

-----------------------------------------------------------------------------
(* How far ahead slots are reserved.                                       *)
(*                                                                         *)
(* Slots in the future leave no gap: _nvd_next_start is one stagger after  *)
(* the last of them, and there is a stagger between two of them, so that   *)
(* counting the tasks that hold one bounds how far away it is.             *)

\* The tasks that hold a slot in the future, and those whose slot is not
\* before that of s.
Ahead == {u \in Source : stage[u] = "sleep" /\ slot[u] > 0}

AheadFrom(s) == {u \in Source : stage[u] = "sleep" /\ slot[u] >= slot[s]}

NoGapAfter == \A s \in Ahead : nextStart <= slot[s] + Stagger * Cardinality(AheadFrom(s))

NoGap == nextStart <= Stagger + Stagger * Cardinality(Ahead)

Gapless == NoGapAfter /\ NoGap

CInv == PInv /\ Gapless

\* Both sets are finite, as there are finitely many sources.
LEMMA AheadFinite ==
    /\ IsFiniteSet(Ahead) /\ Cardinality(Ahead) \in Nat
    /\ Cardinality(Ahead) <= Cardinality(Source) /\ Cardinality(Source) \in Nat
    /\ \A s \in Source : IsFiniteSet(AheadFrom(s)) /\ Cardinality(AheadFrom(s)) \in Nat
<1>1. Ahead \subseteq Source /\ \A s \in Source : AheadFrom(s) \subseteq Source
  BY DEF Ahead, AheadFrom
<1> QED
  BY <1>1, PacingAssumption, FS_Subset, FS_CardinalityType

LEMMA TimesStagger ==
    \A n \in Nat : /\ Stagger * n \in Nat
                   /\ Stagger * (n + 1) = Stagger * n + Stagger
                   /\ n > 0 => Stagger * n >= Stagger
                   /\ Stagger = 0 => Stagger * n = 0
  BY PacingAssumption

\* Steps that leave slots and sleepers alone.
LEMMA AwakeCounts ==
    ASSUME CInv, UNCHANGED <<nextStart, slot>>,
           \A s \in Source : stage'[s] = "sleep" <=> stage[s] = "sleep"
    PROVE  Gapless'
<1>1. Ahead' = Ahead /\ \A s \in Source : AheadFrom(s)' = AheadFrom(s)
  BY DEF Ahead, AheadFrom
<1>2. Ahead \subseteq Source
  BY DEF Ahead
<1> QED
  BY <1>1, <1>2 DEF CInv, Gapless, NoGapAfter, NoGap

LEMMA ReserveCounts == ASSUME CInv, NEW s \in Source, Reserve(s) PROVE Gapless'
<1> USE PacingAssumption
<1>1. /\ stage \in [Source -> {"ready", "sleep", "asked", "backoff", "done"}]
      /\ slot \in [Source -> Int] /\ nextStart \in Nat
  BY DEF CInv, PInv, PacingTypeOK
<1>2. /\ stage[s] = "ready" /\ slot' = [slot EXCEPT ![s] = nextStart]
      /\ nextStart' = nextStart + Stagger /\ stage' = [stage EXCEPT ![s] = "sleep"]
  BY DEF Reserve, Move
<1>3. /\ slot'[s] = nextStart /\ stage'[s] = "sleep"
      /\ \A t \in Source : t # s => slot'[t] = slot[t] /\ stage'[t] = stage[t]
      /\ \A t \in Source : slot[t] \in Int
  BY <1>1, <1>2
<1>4. ASSUME NEW t \in Ahead, t # s
      PROVE  AheadFrom(t)' = AheadFrom(t) \cup {s} /\ s \notin AheadFrom(t)
  <2>1. t \in Source /\ stage[t] = "sleep" /\ slot[t] + Stagger <= nextStart
    BY <1>4 DEF Ahead, CInv, PInv, SleepersDue
  <2>2. nextStart >= slot[t] /\ slot'[t] = slot[t]
    BY <1>1, <1>3, <1>4, <2>1
  <2> QED  BY <1>2, <1>3, <2>1, <2>2 DEF AheadFrom
<1>5. ASSUME NEW t \in Ahead', t # s
      PROVE  nextStart' <= slot'[t] + Stagger * Cardinality(AheadFrom(t)')
  <2>1. t \in Ahead /\ t \in Source
    BY <1>3, <1>5 DEF Ahead
  <2>2. nextStart <= slot[t] + Stagger * Cardinality(AheadFrom(t))
    BY <2>1 DEF CInv, Gapless, NoGapAfter
  <2>3. Cardinality(AheadFrom(t)') = Cardinality(AheadFrom(t)) + 1
    BY <1>4, <1>5, <2>1, AheadFinite, FS_AddElement
  <2>4. Cardinality(AheadFrom(t)) \in Nat
    BY <2>1, AheadFinite
  <2>5. Stagger * Cardinality(AheadFrom(t)') = Stagger * Cardinality(AheadFrom(t)) + Stagger
    BY <2>3, <2>4, TimesStagger
  <2>6. Stagger * Cardinality(AheadFrom(t)) \in Nat
    BY <2>4, TimesStagger
  <2> QED  BY <1>1, <1>2, <1>3, <1>5, <2>1, <2>2, <2>5, <2>6
<1>6. nextStart' <= slot'[s] + Stagger * Cardinality(AheadFrom(s)')
  <2>1. s \in AheadFrom(s)' /\ AheadFrom(s)' \subseteq Source
    BY <1>1, <1>3 DEF AheadFrom
  <2>2. IsFiniteSet(AheadFrom(s)') /\ Cardinality(AheadFrom(s)') \in Nat
    BY <2>1, FS_Subset, FS_CardinalityType
  <2>3. Cardinality(AheadFrom(s)') > 0
    BY <2>1, <2>2, FS_EmptySet
  <2>4. Stagger * Cardinality(AheadFrom(s)') >= Stagger
    BY <2>2, <2>3, TimesStagger
  <2>5. Stagger * Cardinality(AheadFrom(s)') \in Nat
    BY <2>2, TimesStagger
  <2> QED  BY <1>1, <1>2, <1>3, <2>4, <2>5
<1>7. NoGapAfter'
  BY <1>5, <1>6 DEF NoGapAfter
<1>8. NoGap'
  <2>1. CASE nextStart = 0
    <3>1. Ahead' \subseteq Source
      BY DEF Ahead
    <3>2. Cardinality(Ahead') \in Nat
      BY <3>1, FS_Subset, FS_CardinalityType
    <3>3. Stagger * Cardinality(Ahead') \in Nat
      BY <3>2, TimesStagger
    <3> QED  BY <1>2, <2>1, <3>3 DEF NoGap
  <2>2. CASE nextStart > 0
    <3>1. Ahead' = Ahead \cup {s} /\ s \notin Ahead
      BY <1>1, <1>2, <1>3, <2>2 DEF Ahead
    <3>2. Cardinality(Ahead') = Cardinality(Ahead) + 1
      BY <3>1, AheadFinite, FS_AddElement
    <3>3. Stagger * Cardinality(Ahead') = Stagger * Cardinality(Ahead) + Stagger
      BY <3>2, AheadFinite, TimesStagger
    <3>4. Stagger * Cardinality(Ahead) \in Nat
      BY AheadFinite, TimesStagger
    <3> QED  BY <1>1, <1>2, <3>3, <3>4 DEF CInv, Gapless, NoGap
  <2> QED  BY <1>1, <2>1, <2>2
<1> QED
  BY <1>7, <1>8 DEF Gapless

\* Whoever sends held no slot in the future.
LEMMA SendCounts == ASSUME CInv, NEW s \in Source, Send(s) PROVE Gapless'
<1>1. /\ stage \in [Source -> {"ready", "sleep", "asked", "backoff", "done"}]
      /\ slot \in [Source -> Int]
  BY DEF CInv, PInv, PacingTypeOK
<1>2. /\ stage[s] = "sleep" /\ slot[s] <= 0 /\ nextStart' = nextStart
      /\ slot' = [slot EXCEPT ![s] = 0] /\ stage' = [stage EXCEPT ![s] = "asked"]
  BY DEF Send, Move
<1>3. /\ stage'[s] = "asked" /\ \A t \in Source : t # s => slot'[t] = slot[t] /\ stage'[t] = stage[t]
      /\ \A t \in Source : slot[t] \in Int
  BY <1>1, <1>2
<1>4. Ahead' = Ahead
  BY <1>2, <1>3 DEF Ahead
<1>5. \A t \in Ahead : t \in Source /\ slot'[t] = slot[t] /\ AheadFrom(t)' = AheadFrom(t)
  BY <1>2, <1>3 DEF Ahead, AheadFrom
<1> QED
  BY <1>2, <1>4, <1>5 DEF CInv, Gapless, NoGapAfter, NoGap

\* Time takes a slot out of the future only with the stagger before it.
LEMMA TickCounts == ASSUME CInv, TimePasses PROVE Gapless'
<1> USE PacingAssumption
<1>1. /\ stage \in [Source -> {"ready", "sleep", "asked", "backoff", "done"}]
      /\ slot \in [Source -> Int] /\ nextStart \in Nat
  BY DEF CInv, PInv, PacingTypeOK
<1>2. /\ nextStart' = IF nextStart > 0 THEN nextStart - 1 ELSE 0
      /\ slot' = [s \in Source |-> IF stage[s] = "sleep" THEN slot[s] - 1 ELSE slot[s]]
      /\ stage' = stage
  BY DEF TimePasses
<1>3. \A t \in Source : /\ slot[t] \in Int
                        /\ stage[t] = "sleep" => slot'[t] = slot[t] - 1
  BY <1>1, <1>2
<1>4. \A t \in Ahead : t \in Source /\ stage[t] = "sleep" /\ slot[t] > 0 /\ nextStart > 0
  BY <1>1, <1>3 DEF Ahead, CInv, PInv, SleepersDue
<1>5. \A t \in Source : stage[t] = "sleep" => AheadFrom(t)' = AheadFrom(t)
  BY <1>2, <1>3 DEF AheadFrom
<1>6. Ahead' = {t \in Ahead : slot[t] # 1}
  BY <1>2, <1>3 DEF Ahead
<1>7. NoGapAfter'
  <2> SUFFICES ASSUME NEW t \in Ahead'
               PROVE  nextStart' <= slot'[t] + Stagger * Cardinality(AheadFrom(t)')
    BY DEF NoGapAfter
  <2>1. t \in Ahead /\ t \in Source /\ stage[t] = "sleep" /\ nextStart > 0
    BY <1>4, <1>6
  <2>2. nextStart <= slot[t] + Stagger * Cardinality(AheadFrom(t))
    BY <2>1 DEF CInv, Gapless, NoGapAfter
  <2>3. Stagger * Cardinality(AheadFrom(t)) \in Nat
    BY <2>1, AheadFinite, TimesStagger
  <2> QED  BY <1>1, <1>2, <1>3, <1>5, <2>1, <2>2, <2>3
<1>8. NoGap'
  <2>0. Stagger * Cardinality(Ahead) \in Nat /\ Cardinality(Ahead) \in Nat
    BY AheadFinite, TimesStagger
  <2>1. CASE Ahead' = Ahead
    BY <1>1, <1>2, <2>0, <2>1 DEF CInv, Gapless, NoGap
  <2>2. CASE Ahead' # Ahead
    <3>1. PICK t \in Ahead : slot[t] = 1
      BY <1>6, <2>2
    <3>2. t \in Source /\ stage[t] = "sleep" /\ nextStart > 0
      BY <1>4, <3>1
    <3>3. AheadFrom(t) = Ahead
      BY <1>3, <3>1 DEF Ahead, AheadFrom
    <3>4. nextStart <= 1 + Stagger * Cardinality(Ahead)
      BY <3>1, <3>3 DEF CInv, Gapless, NoGapAfter
    <3>5. nextStart' <= Stagger * Cardinality(Ahead)
      BY <1>1, <1>2, <2>0, <3>2, <3>4
    <3>6. CASE Stagger = 0
      <4>1. Ahead' \subseteq Source
        BY DEF Ahead
      <4>2. Cardinality(Ahead') \in Nat
        BY <4>1, FS_Subset, FS_CardinalityType
      <4>3. Stagger * Cardinality(Ahead') = 0 /\ Stagger * Cardinality(Ahead) = 0
        BY <2>0, <3>6, <4>2, TimesStagger
      <4> QED  BY <1>1, <1>2, <3>5, <3>6, <4>3 DEF NoGap
    <3>7. CASE Stagger # 0
      <4>1. \A u \in Ahead : u # t => slot[u] # 1
        BY <1>4, <3>1, <3>7 DEF CInv, PInv, SleepersApart, Apart
      <4>2. Ahead' = Ahead \ {t}
        BY <1>6, <3>1, <4>1
      <4>3. Cardinality(Ahead) = Cardinality(Ahead') + 1 /\ Cardinality(Ahead') \in Nat
        <5>1. IsFiniteSet(Ahead \ {t}) /\ Cardinality(Ahead \ {t}) = Cardinality(Ahead) - 1
          BY AheadFinite, FS_RemoveElement
        <5>2. Cardinality(Ahead \ {t}) \in Nat
          BY <5>1, FS_CardinalityType
        <5> QED  BY <2>0, <4>2, <5>1, <5>2
      <4>4. Stagger * Cardinality(Ahead) = Stagger * Cardinality(Ahead') + Stagger
        BY <4>3, TimesStagger
      <4>5. Stagger * Cardinality(Ahead') \in Nat
        BY <4>3, TimesStagger
      <4> QED  BY <1>1, <1>2, <3>5, <4>4, <4>5 DEF NoGap
    <3> QED  BY <3>6, <3>7
  <2> QED  BY <2>1, <2>2
<1> QED
  BY <1>7, <1>8 DEF Gapless

LEMMA CountsKept == CInv /\ [PacingNext]_pacingVars => CInv'
<1> SUFFICES ASSUME CInv, [PacingNext]_pacingVars PROVE CInv'
  OBVIOUS
<1>1. PInv'
  BY NextKeeps DEF CInv
<1> SUFFICES Gapless'
  BY <1>1 DEF CInv
<1>2. ASSUME NEW s \in Source, Overflow(s) \/ Finish(s) \/ ConnectFails(s) \/ TryAgain(s)
      PROVE  Gapless'
  BY <1>2, AwakeCounts DEF CInv, PInv, PacingTypeOK, Overflow, Finish, ConnectFails, TryAgain, Move
<1>3. CASE NextRefresh
  <2>1. /\ UNCHANGED <<nextStart, slot>>
        /\ \A t \in Source : stage'[t] = "sleep" <=> stage[t] = "sleep"
    BY <1>3 DEF NextRefresh
  <2> QED  BY <2>1, AwakeCounts
<1>4. CASE UNCHANGED pacingVars
  <2>1. /\ UNCHANGED <<nextStart, slot>>
        /\ \A t \in Source : stage'[t] = "sleep" <=> stage[t] = "sleep"
    BY <1>4 DEF pacingVars
  <2> QED  BY <2>1, AwakeCounts
<1> QED
  BY <1>2, <1>3, <1>4, ReserveCounts, SendCounts, TickCounts DEF PacingNext, TaskStep

\* Pacing delays no fetch by more than a stagger per NVD source, whatever
\* second pages, retries and refreshes reserved before.
THEOREM WaitBoundedHolds == PacingSpec => []WaitBounded
<1> USE PacingAssumption
<1>1. PacingInit => CInv
  <2> SUFFICES ASSUME PacingInit PROVE CInv
    OBVIOUS
  <2>1. Ahead = {} /\ nextStart = 0
    BY DEF PacingInit, Ahead
  <2>2. Stagger * Cardinality(Ahead) \in Nat
    BY AheadFinite, TimesStagger
  <2> QED  BY <2>1, <2>2, InitHolds DEF CInv, Gapless, NoGapAfter, NoGap
<1>2. CInv => WaitBounded
  <2> SUFFICES ASSUME CInv, NEW s \in Source, stage[s] = "sleep"
               PROVE  slot[s] <= Stagger * Cardinality(Source)
    BY DEF WaitBounded
  <2>1. slot[s] \in Int /\ nextStart \in Nat /\ slot[s] + Stagger <= nextStart
    BY DEF CInv, PInv, PacingTypeOK, SleepersDue
  <2>2. /\ Cardinality(Ahead) \in Nat /\ Cardinality(Source) \in Nat
        /\ Cardinality(Ahead) <= Cardinality(Source)
    BY AheadFinite
  <2>3. Stagger * Cardinality(Ahead) <= Stagger * Cardinality(Source)
    BY <2>2
  <2>4. Stagger * Cardinality(Ahead) \in Nat /\ Stagger * Cardinality(Source) \in Nat
    BY <2>2, TimesStagger
  <2> QED  BY <2>1, <2>3, <2>4 DEF CInv, Gapless, NoGap
<1> QED
  BY <1>1, <1>2, CountsKept, PTL DEF PacingSpec
=============================================================================
