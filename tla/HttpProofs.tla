----------------------------- MODULE HttpProofs -----------------------------
(***************************************************************************)
(* Proofs about what app/main.py admits: LiveUpdates and RateLimiter.      *)
(*                                                                         *)
(* Live updates, for any number of browsers, requests, loads and faults:   *)
(* the cap on streams, and that dropped events lose no update.  A stream   *)
(* in progress is registered, and registrations are capped, so streams     *)
(* are.  A browser's request belongs to it alone, so only its own loads    *)
(* take events off its connection, and each of them is sent after          *)
(* everything published so far.                                            *)
(*                                                                         *)
(* The rate limiter, for every number of threads and clients and every     *)
(* threshold and window: the bound on granted requests.  A thread is late  *)
(* by at most MaxLag, so a deque is sorted up to MaxLag, and whatever has  *)
(* left it, popped or pruned, is at least a window older than the clock,   *)
(* up to MaxLag.  When a request is granted, fewer than MaxRequests hits   *)
(* are left, so the hit MaxRequests places back has left the deque.        *)
(***************************************************************************)
EXTENDS LiveUpdates, RateLimiter, FiniteSetTheorems, TLAPS

-----------------------------------------------------------------------------
(* Live updates.                                                           *)

\* Streams in progress are registered, and registrations stay within the cap.
Registered == \A k \in Conn : stream[k] \in {"starting", "streaming"} => k \in subscribers

Capped == MaxSubscribers > 0 => Cardinality(subscribers) <= MaxSubscribers

\* The request of an EventSource is under way and serves no other one.
Linked == \A b \in Browser : link[b] # NoConn =>
    alive[link[b]] = TRUE /\ stream[link[b]] # "free"

Unshared == \A b, c \in Browser : (link[b] # NoConn /\ link[b] = link[c]) => b = c

\* Nothing is published before it is written.
DueKnown == \A k \in Conn : due[k] <= version

LInv == TypeOK /\ Registered /\ Capped /\ Linked /\ Unshared /\ DueKnown /\ UpdatesAskedFor

\* A load under way or none: what sending one does to the page.
LEMMA LoadFeedType ==
    ASSUME TypeOK, NEW b \in Browser, NEW f \in Filter, LoadFeed(b, f)
    PROVE  /\ loads' \in [Browser -> [Slot -> Load \cup {NoLoad}]]
           /\ asked' \in [Browser -> Nat] /\ shown' \in [Browser -> Load]
  BY DEF LoadFeed, TypeOK, Load, Unread

\* Types: the server's steps.
LEMMA ServerType ==
    ASSUME TypeOK, Persist \/ PersistElsewhere \/ Publish \/ Crash
    PROVE  TypeOK'
<1> USE LiveAssumption DEF serverVars, streamVars, sourceVars, pageVars
<1>1. CASE Persist
  BY <1>1 DEF Persist, TypeOK
<1>2. CASE PersistElsewhere
  BY <1>2 DEF PersistElsewhere, TypeOK
<1>3. CASE Publish
  <2>1. queue' \in [Conn -> 0..QueueSize]
    BY <1>3 DEF Publish, TypeOK, Delivered
  <2> QED  BY <1>3, <2>1 DEF Publish, TypeOK
<1>4. CASE Crash
  BY <1>4 DEF Crash, TypeOK, Fault
<1> QED
  BY <1>1, <1>2, <1>3, <1>4

\* Types: the steps of a stream.
LEMMA StreamType ==
    ASSUME TypeOK, NEW k \in Conn, StreamStep(k)
    PROVE  TypeOK'
<1> USE LiveAssumption DEF serverVars, streamVars, sourceVars, pageVars
<1>1. CASE Subscribe(k)
  BY <1>1 DEF Subscribe, TypeOK
<1>2. CASE Refuse(k)
  BY <1>2 DEF Refuse, TypeOK, Fault
<1>3. CASE StartStream(k)
  BY <1>3 DEF StartStream, TypeOK
<1>4. CASE Abandon(k)
  BY <1>4 DEF Abandon, TypeOK
<1>5. CASE Yield(k)
  BY <1>5 DEF Yield, TypeOK
<1>6. CASE EndStream(k)
  BY <1>6 DEF EndStream, TypeOK
<1> QED
  BY <1>1, <1>2, <1>3, <1>4, <1>5, <1>6 DEF StreamStep

\* Types: the steps of a page.
LEMMA PageType ==
    ASSUME TypeOK, NEW b \in Browser, PageStep(b)
    PROVE  TypeOK'
<1> USE LiveAssumption DEF serverVars, streamVars, sourceVars, pageVars
<1>1. CASE Connect(b)
  BY <1>1 DEF Connect, TypeOK
<1>2. CASE Break(b)
  BY <1>2 DEF Break, TypeOK, Fault
<1>3. CASE OnMessage(b)
  <2>1. LoadFeed(b, filter[b]) /\ filter[b] \in Filter
    BY <1>3 DEF OnMessage, TypeOK
  <2>2. wire' \in [Conn -> 0..WireSize]
    BY <1>3 DEF OnMessage, TypeOK
  <2> QED  BY <1>3, <2>1, <2>2, LoadFeedType DEF OnMessage, TypeOK
<1>4. CASE Poll(b)
  <2>1. LoadFeed(b, filter[b]) /\ filter[b] \in Filter
    BY <1>4 DEF Poll, TypeOK
  <2> QED  BY <1>4, <2>1, LoadFeedType DEF Poll, TypeOK
<1>5. CASE Select(b)
  <2>1. PICK f \in Filter : filter' = [filter EXCEPT ![b] = f] /\ LoadFeed(b, f)
    BY <1>5 DEF Select
  <2> QED  BY <1>5, <2>1, LoadFeedType DEF Select, TypeOK
<1>6. ASSUME NEW s \in Slot, ReadFeed(b, s) PROVE TypeOK'
  <2>1. loads[b][s] \in Load
    BY <1>6 DEF ReadFeed, TypeOK
  <2>2. [filter |-> loads[b][s].filter, version |-> version] \in Load
    BY <2>1 DEF Load, TypeOK
  <2>3. loads' \in [Browser -> [Slot -> Load \cup {NoLoad}]]
    BY <1>6, <2>2 DEF ReadFeed, TypeOK
  <2> QED  BY <1>6, <2>3 DEF ReadFeed, TypeOK
<1>7. ASSUME NEW s \in Slot, Render(b, s) PROVE TypeOK'
  <2>1. loads[b][s] \in Load
    BY <1>7 DEF Render, TypeOK
  <2>2. loads' \in [Browser -> [Slot -> Load \cup {NoLoad}]] /\ shown' \in [Browser -> Load]
    BY <1>7, <2>1 DEF Render, TypeOK
  <2> QED  BY <1>7, <2>2 DEF Render, TypeOK
<1>8. ASSUME NEW s \in Slot, LoadFails(b, s) PROVE TypeOK'
  <2>1. loads' \in [Browser -> [Slot -> Load \cup {NoLoad}]]
    BY <1>8 DEF LoadFails, TypeOK
  <2> QED  BY <1>8, <2>1 DEF LoadFails, TypeOK, Fault
<1> QED
  BY <1>1, <1>2, <1>3, <1>4, <1>5, <1>6, <1>7, <1>8 DEF PageStep

\* A registration is added below the cap and otherwise only removed.
LEMMA CapKept ==
    ASSUME LInv, [Next]_vars PROVE Registered' /\ Capped'
<1> USE LiveAssumption DEF serverVars, streamVars, sourceVars, pageVars
<1>1. TypeOK /\ Registered /\ Capped /\ IsFiniteSet(subscribers) /\ Cardinality(subscribers) \in Nat
  <2>1. TypeOK /\ Registered /\ Capped /\ subscribers \subseteq Conn
    BY DEF LInv, TypeOK
  <2> QED  BY <2>1, FS_Subset, FS_CardinalityType
<1>2. CASE Crash
  <2>1. subscribers' = {} /\ stream' = [k \in Conn |-> "free"]
    BY <1>2 DEF Crash
  <2> QED  BY <2>1, FS_EmptySet DEF Registered, Capped
<1>3. ASSUME NEW k \in Conn, Subscribe(k) PROVE Registered' /\ Capped'
  <2>1. Cardinality(subscribers') \in {Cardinality(subscribers), Cardinality(subscribers) + 1}
    BY <1>1, <1>3, FS_AddElement DEF Subscribe
  <2>2. Capped'
    BY <1>1, <1>3, <2>1 DEF Subscribe, AtCap, Capped
  <2> QED  BY <1>1, <1>3, <2>2 DEF Subscribe, Registered, TypeOK
<1>4. ASSUME NEW k \in Conn, EndStream(k) PROVE Registered' /\ Capped'
  <2>1. Cardinality(subscribers') \in {Cardinality(subscribers), Cardinality(subscribers) - 1}
    BY <1>1, <1>4, FS_RemoveElement DEF EndStream
  <2>2. Capped'
    BY <1>1, <2>1 DEF Capped
  <2> QED  BY <1>1, <1>4, <2>2 DEF EndStream, Registered, TypeOK
<1>5. ASSUME subscribers' = subscribers,
             \A k \in Conn : stream'[k] \in {"starting", "streaming"} =>
                                 stream[k] \in {"starting", "streaming"}
      PROVE  Registered' /\ Capped'
  BY <1>1, <1>5 DEF Registered, Capped
<1>6. CASE Persist \/ PersistElsewhere \/ Publish \/ UNCHANGED vars
  BY <1>5, <1>6 DEF Persist, PersistElsewhere, Publish, vars
<1>7. ASSUME NEW k \in Conn, Refuse(k) \/ StartStream(k) \/ Abandon(k) \/ Yield(k)
      PROVE  Registered' /\ Capped'
  BY <1>1, <1>5, <1>7 DEF Refuse, StartStream, Abandon, Yield, TypeOK
<1>8. ASSUME NEW b \in Browser, PageStep(b) PROVE Registered' /\ Capped'
  <2>1. CASE Connect(b)
    BY <1>1, <1>5, <2>1 DEF Connect, TypeOK
  <2>2. CASE ~Connect(b)
    <3>1. subscribers' = subscribers /\ stream' = stream
      BY <1>8, <2>2 DEF PageStep, Break, OnMessage, Poll, Select, ReadFeed, Render, LoadFails
    <3> QED  BY <1>5, <3>1
  <2> QED  BY <2>1, <2>2
<1> QED
  BY <1>2, <1>3, <1>4, <1>6, <1>7, <1>8 DEF Next, StreamStep

\* A request is taken by one EventSource while it is free, and released by it
\* before anybody can reuse it.
LEMMA LinkKept ==
    ASSUME LInv, [Next]_vars PROVE Linked' /\ Unshared'
<1> USE DEF serverVars, streamVars, sourceVars, pageVars
<1>1. TypeOK /\ Linked /\ Unshared
  BY DEF LInv
<1>2. CASE Crash
  BY <1>2 DEF Crash, Linked, Unshared
<1>3. ASSUME link' = link,
             \A b \in Browser : link[b] # NoConn =>
                 alive'[link[b]] = alive[link[b]] /\ stream'[link[b]] # "free"
      PROVE  Linked' /\ Unshared'
  BY <1>1, <1>3 DEF Linked, Unshared
<1>4. CASE Persist \/ PersistElsewhere \/ Publish \/ UNCHANGED vars
  BY <1>1, <1>3, <1>4 DEF Persist, PersistElsewhere, Publish, vars, Linked
<1>5. ASSUME NEW k \in Conn, Subscribe(k) \/ StartStream(k) \/ Yield(k)
      PROVE  Linked' /\ Unshared'
  <2>1. /\ link' = link /\ alive' = alive
        /\ \A j \in Conn : stream[j] # "free" => stream'[j] # "free"
    BY <1>1, <1>5 DEF Subscribe, StartStream, Yield, TypeOK
  <2> QED  BY <1>1, <1>3, <2>1 DEF Linked, TypeOK
<1>6. ASSUME NEW k \in Conn, Abandon(k) \/ EndStream(k) PROVE Linked' /\ Unshared'
  <2>1. /\ link' = link /\ alive' = alive /\ ~alive[k]
        /\ \A j \in Conn \ {k} : stream'[j] = stream[j]
    BY <1>1, <1>6 DEF Abandon, EndStream, TypeOK
  <2> QED  BY <1>1, <1>3, <2>1 DEF Linked, TypeOK
<1>7. ASSUME NEW k \in Conn, Refuse(k) PROVE Linked' /\ Unshared'
  <2>1. /\ link' = [b \in Browser |-> IF link[b] = k THEN NoConn ELSE link[b]]
        /\ alive' = alive
        /\ \A j \in Conn \ {k} : stream'[j] = stream[j]
    BY <1>1, <1>7 DEF Refuse, TypeOK
  <2> QED  BY <1>1, <2>1 DEF Linked, Unshared, TypeOK
<1>8. ASSUME NEW b \in Browser, Connect(b) PROVE Linked' /\ Unshared'
  <2>1. PICK k \in Conn :
          /\ stream[k] = "free"
          /\ stream' = [stream EXCEPT ![k] = "requested"]
          /\ alive' = [alive EXCEPT ![k] = TRUE]
          /\ link' = [link EXCEPT ![b] = k]
    BY <1>8 DEF Connect
  <2>2. \A c \in Browser : link[c] # k \/ link[c] = NoConn
    BY <1>1, <2>1 DEF Linked
  <2>3. /\ link'[b] = k /\ \A c \in Browser \ {b} : link'[c] = link[c]
        /\ alive'[k] = TRUE /\ \A j \in Conn \ {k} : alive'[j] = alive[j]
        /\ stream'[k] # "free" /\ \A j \in Conn \ {k} : stream'[j] = stream[j]
    BY <1>1, <2>1 DEF TypeOK
  <2>4. Linked'
    BY <1>1, <2>2, <2>3 DEF Linked, TypeOK
  <2> QED  BY <1>1, <2>2, <2>3, <2>4 DEF Unshared, TypeOK
<1>9. ASSUME NEW b \in Browser, Break(b) PROVE Linked' /\ Unshared'
  <2>1. /\ link[b] # NoConn /\ link'[b] = NoConn
        /\ \A c \in Browser \ {b} : link'[c] = link[c]
        /\ \A j \in Conn \ {link[b]} : alive'[j] = alive[j]
        /\ stream' = stream
    BY <1>1, <1>9 DEF Break, TypeOK
  <2>2. \A c \in Browser \ {b} : link[c] # link[b]
    BY <1>1, <2>1 DEF Unshared
  <2>3. ASSUME NEW c \in Browser, link'[c] # NoConn
        PROVE  alive'[link'[c]] = TRUE /\ stream'[link'[c]] # "free"
    <3>1. c # b /\ link'[c] = link[c] /\ link[c] \in Conn \ {link[b]}
      BY <1>1, <2>1, <2>2, <2>3 DEF TypeOK
    <3> QED  BY <1>1, <2>1, <2>3, <3>1 DEF Linked
  <2>4. Linked'
    BY <2>3 DEF Linked
  <2>5. Unshared'
    BY <1>1, <2>1 DEF Unshared
  <2> QED  BY <2>4, <2>5
<1>10. ASSUME NEW b \in Browser, PageStep(b), ~Connect(b), ~Break(b) PROVE Linked' /\ Unshared'
  <2>1. link' = link /\ alive' = alive /\ stream' = stream
    BY <1>10 DEF PageStep, OnMessage, Poll, Select, ReadFeed, Render, LoadFails
  <2> QED  BY <1>1, <1>3, <2>1 DEF Linked
<1> QED
  BY <1>2, <1>4, <1>5, <1>6, <1>7, <1>8, <1>9, <1>10 DEF Next, StreamStep

\* Sending a load asks for the version of the moment.
LEMMA LoadAsks ==
    ASSUME LInv, NEW b \in Browser, NEW f \in Filter, LoadFeed(b, f)
    PROVE  /\ asked'[b] = version
           /\ \A c \in Browser \ {b} : asked'[c] = asked[c]
           /\ \A k \in Conn : asked'[b] >= due[k]
<1>1. asked' = [asked EXCEPT ![b] = version] /\ asked \in [Browser -> Nat]
  BY DEF LoadFeed, LInv, TypeOK
<1> QED
  BY <1>1 DEF LInv, DueKnown, TypeOK

\* Every step keeps what is due known, and an event queued, on the wire, or
\* answered by a load.
LEMMA AskKept ==
    ASSUME LInv, [Next]_vars PROVE DueKnown' /\ UpdatesAskedFor'
<1> USE LiveAssumption DEF serverVars, streamVars, sourceVars, pageVars
<1>1. TypeOK /\ Linked /\ Unshared /\ DueKnown /\ UpdatesAskedFor
  BY DEF LInv
<1>2. ASSUME version' = version, link' = link, queue' = queue, wire' = wire, due' = due,
             \A c \in Browser : asked'[c] = asked[c] \/ asked'[c] = version
      PROVE  DueKnown' /\ UpdatesAskedFor'
  BY <1>1, <1>2 DEF DueKnown, UpdatesAskedFor, TypeOK
<1>3. CASE Persist \/ PersistElsewhere
  <2>1. version' \in {version, version + 1} /\ version \in Nat
        /\ UNCHANGED <<link, queue, wire, due, asked>>
    BY <1>1, <1>3 DEF Persist, PersistElsewhere, TypeOK
  <2> QED  BY <1>1, <2>1 DEF DueKnown, UpdatesAskedFor, TypeOK
<1>4. CASE Publish
  <2>1. \A k \in Conn : \/ queue'[k] > 0 /\ due'[k] = version
                        \/ queue'[k] = queue[k] /\ due'[k] = due[k]
    BY <1>1, <1>4 DEF Publish, Delivered, TypeOK
  <2>2. UNCHANGED <<version, link, wire, asked>>
    BY <1>4 DEF Publish
  <2> QED  BY <1>1, <2>1, <2>2 DEF DueKnown, UpdatesAskedFor, TypeOK
<1>5. CASE Crash
  BY <1>1, <1>5 DEF Crash, DueKnown, UpdatesAskedFor
<1>6. ASSUME NEW k \in Conn, Subscribe(k) PROVE DueKnown' /\ UpdatesAskedFor'
  <2>1. /\ due'[k] = 0
        /\ \A j \in Conn \ {k} : due'[j] = due[j] /\ queue'[j] = queue[j]
    BY <1>1, <1>6 DEF Subscribe, TypeOK
  <2>2. UNCHANGED <<version, link, wire, asked>>
    BY <1>6 DEF Subscribe
  <2>3. ASSUME NEW c \in Browser, link[c] # NoConn
        PROVE  queue'[link[c]] > 0 \/ wire[link[c]] > 0 \/ asked[c] >= due'[link[c]]
    <3>1. CASE link[c] = k
      BY <1>1, <2>1, <3>1 DEF TypeOK
    <3>2. CASE link[c] # k
      BY <1>1, <2>1, <2>3, <3>2 DEF UpdatesAskedFor, TypeOK
    <3> QED  BY <3>1, <3>2
  <2>4. DueKnown'
    BY <1>1, <2>1, <2>2 DEF DueKnown, TypeOK
  <2> QED  BY <2>2, <2>3, <2>4 DEF UpdatesAskedFor
<1>7. ASSUME NEW k \in Conn, Refuse(k) PROVE DueKnown' /\ UpdatesAskedFor'
  <2>1. \A b \in Browser : link'[b] = link[b] \/ link'[b] = NoConn
    BY <1>7 DEF Refuse
  <2>2. UNCHANGED <<version, queue, wire, due, asked>>
    BY <1>7 DEF Refuse
  <2> QED  BY <1>1, <2>1, <2>2 DEF DueKnown, UpdatesAskedFor
<1>8. ASSUME NEW k \in Conn, StartStream(k) \/ Abandon(k) \/ EndStream(k)
      PROVE  DueKnown' /\ UpdatesAskedFor'
  BY <1>2, <1>8 DEF StartStream, Abandon, EndStream
<1>9. ASSUME NEW k \in Conn, Yield(k) PROVE DueKnown' /\ UpdatesAskedFor'
  <2>1. /\ wire'[k] > 0
        /\ \A j \in Conn \ {k} : wire'[j] = wire[j] /\ queue'[j] = queue[j]
    BY <1>1, <1>9 DEF Yield, TypeOK
  <2>2. UNCHANGED <<version, link, due, asked>>
    BY <1>9 DEF Yield
  <2> QED  BY <1>1, <2>1, <2>2 DEF DueKnown, UpdatesAskedFor, TypeOK
<1>10. ASSUME NEW b \in Browser, Connect(b) PROVE DueKnown' /\ UpdatesAskedFor'
  <2>1. PICK k \in Conn :
          /\ wire' = [wire EXCEPT ![k] = 0] /\ queue' = [queue EXCEPT ![k] = 0]
          /\ due' = [due EXCEPT ![k] = 0] /\ link' = [link EXCEPT ![b] = k]
    BY <1>10 DEF Connect
  <2>2. /\ due'[k] = 0 /\ link'[b] = k /\ \A c \in Browser \ {b} : link'[c] = link[c]
        /\ \A j \in Conn \ {k} :
              due'[j] = due[j] /\ queue'[j] = queue[j] /\ wire'[j] = wire[j]
    BY <1>1, <2>1 DEF TypeOK
  <2>3. UNCHANGED <<version, asked>>
    BY <1>10 DEF Connect
  <2>4. ASSUME NEW c \in Browser, link'[c] # NoConn
        PROVE  queue'[link'[c]] > 0 \/ wire'[link'[c]] > 0 \/ asked'[c] >= due'[link'[c]]
    <3>1. CASE link'[c] = k
      BY <1>1, <2>2, <2>3, <3>1 DEF TypeOK
    <3>2. CASE link'[c] # k
      <4>1. link'[c] = link[c] /\ link[c] \in Conn \ {k}
        BY <1>1, <2>2, <2>4, <3>2 DEF TypeOK
      <4> QED  BY <1>1, <2>2, <2>3, <2>4, <4>1 DEF UpdatesAskedFor
    <3> QED  BY <3>1, <3>2
  <2>5. DueKnown'
    BY <1>1, <2>2, <2>3 DEF DueKnown, TypeOK
  <2> QED  BY <2>4, <2>5 DEF UpdatesAskedFor
<1>11. ASSUME NEW b \in Browser, Break(b) PROVE DueKnown' /\ UpdatesAskedFor'
  <2>1. \A c \in Browser : link'[c] = link[c] \/ link'[c] = NoConn
    BY <1>1, <1>11 DEF Break, TypeOK
  <2>2. UNCHANGED <<version, queue, wire, due, asked>>
    BY <1>11 DEF Break
  <2> QED  BY <1>1, <2>1, <2>2 DEF DueKnown, UpdatesAskedFor
<1>12. ASSUME NEW b \in Browser, OnMessage(b) PROVE DueKnown' /\ UpdatesAskedFor'
  <2>1. /\ link[b] \in Conn /\ filter[b] \in Filter /\ LoadFeed(b, filter[b])
        /\ \A j \in Conn \ {link[b]} : wire'[j] = wire[j]
        /\ UNCHANGED <<version, link, queue, due>>
    BY <1>1, <1>12 DEF OnMessage, TypeOK
  <2>2. /\ asked'[b] >= due[link[b]]
        /\ \A c \in Browser \ {b} : asked'[c] = asked[c]
    BY <2>1, LoadAsks
  <2>3. ASSUME NEW c \in Browser, link[c] # NoConn
        PROVE  queue[link[c]] > 0 \/ wire'[link[c]] > 0 \/ asked'[c] >= due[link[c]]
    <3>1. CASE c = b
      BY <2>2, <3>1
    <3>2. CASE c # b
      <4>1. link[c] \in Conn \ {link[b]} /\ asked'[c] = asked[c]
        BY <1>1, <2>2, <2>3, <3>2 DEF Unshared, TypeOK
      <4> QED  BY <1>1, <2>1, <2>3, <4>1 DEF UpdatesAskedFor
    <3> QED  BY <3>1, <3>2
  <2> QED  BY <1>1, <2>1, <2>3 DEF DueKnown, UpdatesAskedFor
<1>13. ASSUME NEW b \in Browser, Poll(b) \/ Select(b) PROVE DueKnown' /\ UpdatesAskedFor'
  <2>1. PICK f \in Filter : LoadFeed(b, f)
    BY <1>1, <1>13 DEF Poll, Select, TypeOK
  <2>2. \A c \in Browser : asked'[c] = asked[c] \/ asked'[c] = version
    BY <2>1, LoadAsks
  <2> QED  BY <1>2, <1>13, <2>2 DEF Poll, Select
<1>14. ASSUME NEW b \in Browser, NEW s \in Slot, ReadFeed(b, s) \/ Render(b, s) \/ LoadFails(b, s)
       PROVE  DueKnown' /\ UpdatesAskedFor'
  BY <1>2, <1>14 DEF ReadFeed, Render, LoadFails
<1>15. CASE UNCHANGED vars
  BY <1>2, <1>15 DEF vars
<1>16. ASSUME NEW k \in Conn, StreamStep(k) PROVE DueKnown' /\ UpdatesAskedFor'
  BY <1>6, <1>7, <1>8, <1>9, <1>16 DEF StreamStep
<1>17. ASSUME NEW b \in Browser, PageStep(b) PROVE DueKnown' /\ UpdatesAskedFor'
  BY <1>10, <1>11, <1>12, <1>13, <1>14, <1>17 DEF PageStep
<1> QED
  BY <1>3, <1>4, <1>5, <1>15, <1>16, <1>17 DEF Next

\* The invariant holds when the pages open and is kept by every step.
LEMMA Invariance == Spec => []LInv
<1>1. Init => LInv
  <2> SUFFICES ASSUME Init PROVE LInv
    OBVIOUS
  <2>1. TypeOK
    <3>1. loads \in [Browser -> [Slot -> Load \cup {NoLoad}]] /\ shown \in [Browser -> Load]
      BY LiveAssumption DEF Init, Load, Unread
    <3> QED  BY <3>1, LiveAssumption DEF Init, TypeOK
  <2>2. Registered /\ Linked /\ Unshared /\ UpdatesAskedFor
    BY DEF Init, Registered, Linked, Unshared, UpdatesAskedFor
  <2>3. Capped /\ DueKnown
    BY LiveAssumption, FS_EmptySet DEF Init, Capped, DueKnown
  <2> QED  BY <2>1, <2>2, <2>3 DEF LInv
<1>2. LInv /\ [Next]_vars => LInv'
  <2> SUFFICES ASSUME LInv, [Next]_vars PROVE LInv'
    OBVIOUS
  <2>1. TypeOK'
    <3>1. TypeOK
      BY DEF LInv
    <3>2. CASE UNCHANGED vars
      BY <3>1, <3>2 DEF vars, serverVars, streamVars, sourceVars, pageVars, TypeOK
    <3> QED  BY <3>1, <3>2, ServerType, StreamType, PageType DEF Next
  <2> QED  BY <2>1, CapKept, LinkKept, AskKept DEF LInv
<1> QED
  BY <1>1, <1>2, PTL DEF Spec

\* The state of broker, streams and pages stays within its types: no queue
\* holds more than its size, whatever is published.
THEOREM TypeCorrect == Spec => []TypeOK
<1>1. LInv => TypeOK
  BY DEF LInv
<1> QED
  BY <1>1, Invariance, PTL

\* Broker.publish may drop an event for a full queue and api_events may break
\* off a stream: a browser with nothing left to receive has asked for the feed
\* after everything that was published to its stream.
THEOREM UpdatesAskedForHolds == Spec => []UpdatesAskedFor
<1>1. LInv => UpdatesAskedFor
  BY DEF LInv
<1> QED
  BY <1>1, Invariance, PTL

\* Broker.subscribe never lets more streams be in progress than the cap.
THEOREM StreamsCappedHolds == Spec => []StreamsCapped
<1>1. LInv => StreamsCapped
  <2> SUFFICES ASSUME LInv, MaxSubscribers > 0
               PROVE  Cardinality({k \in Conn : stream[k] \in {"starting", "streaming"}})
                          <= MaxSubscribers
    BY DEF StreamsCapped
  <2> DEFINE S == {k \in Conn : stream[k] \in {"starting", "streaming"}}
  <2>1. S \subseteq subscribers /\ subscribers \subseteq Conn
    BY DEF LInv, Registered, TypeOK
  <2>2. IsFiniteSet(subscribers)
    BY <2>1, LiveAssumption, FS_Subset
  <2>3. Cardinality(S) <= Cardinality(subscribers) /\ IsFiniteSet(S)
    BY <2>1, <2>2, FS_Subset
  <2>4. Cardinality(S) \in Nat /\ Cardinality(subscribers) \in Nat
    BY <2>2, <2>3, FS_CardinalityType
  <2>5. Cardinality(subscribers) <= MaxSubscribers /\ MaxSubscribers \in Nat
    BY LiveAssumption DEF LInv, Capped
  <2> HIDE DEF S
  <2>6. Cardinality(S) <= MaxSubscribers
    BY <2>3, <2>4, <2>5
  <2> QED  BY <2>6 DEF S
<1> QED
  BY <1>1, Invariance, PTL

-----------------------------------------------------------------------------
(* The rate limiter.                                                       *)

Calling(t) == call[t].time # NoTime

\* A thread in check has read the clock at most MaxLag ago.
CallsRecent == \A t \in Thread : Calling(t) =>
    call[t].time <= now /\ now <= call[t].time + MaxLag

\* The log of a key holds no future time and is sorted up to MaxLag.
LogSorted(s) == \A i \in 1..Len(s) :
    /\ s[i] <= now
    /\ \A j \in i..Len(s) : s[i] <= s[j] + MaxLag

\* Hits that left the deque are a window old, up to MaxLag.
GoneOld(s, n) == \A i \in 1..n : s[i] + WindowSeconds <= now + MaxLag

Bounded(s) == \A i \in 1..(Len(s) - MaxRequests) :
    s[i + MaxRequests] >= s[i] + WindowSeconds - 2 * MaxLag

KeyInv(s, n) == LogSorted(s) /\ GoneOld(s, n) /\ Bounded(s)

RInv == LimiterTypeOK /\ CallsRecent /\ \A k \in Key : KeyInv(log[k], gone[k])

\* Popping hits that are a window older than a recent timestamp.
LEMMA PopKeeps ==
    ASSUME LimiterTypeOK, NEW s \in Seq(Nat), NEW m \in Nat, NEW n \in Nat, NEW time \in Nat,
           time <= now, GoneOld(s, m), Pops(s, m, n, time - WindowSeconds)
    PROVE  GoneOld(s, n) /\ n <= Len(s)
  BY LimiterAssumption DEF GoneOld, Pops, LimiterTypeOK

\* Pruning a key whose last hit is a window older than a recent timestamp.
LEMMA PruneKeeps ==
    ASSUME LimiterTypeOK, NEW k \in Key, KeyInv(log[k], gone[k]), NEW time \in Nat, time <= now
    PROVE  LET n == Pruned(time - WindowSeconds)[k]
           IN  n \in Nat /\ n <= Len(log[k]) /\ GoneOld(log[k], n)
<1> DEFINE n == Pruned(time - WindowSeconds)[k]
<1>1. n \in {gone[k], Len(log[k])}
  BY DEF Pruned
<1>2. log[k] \in Seq(Nat) /\ Len(log[k]) \in Nat /\ gone[k] \in Nat /\ gone[k] <= Len(log[k])
  BY DEF LimiterTypeOK
<1>3. CASE n = gone[k]
  BY <1>2, <1>3 DEF KeyInv
<1>4. CASE n # gone[k]
  <2>1. n = Len(log[k]) /\ IsStale(k, time - WindowSeconds) /\ gone[k] # Len(log[k])
    BY <1>1, <1>4 DEF Pruned, StaleKeys
  <2>2. log[k][Len(log[k])] + WindowSeconds <= now
    BY <1>2, <2>1, LimiterAssumption DEF IsStale, LimiterTypeOK
  <2>3. ASSUME NEW i \in 1..Len(log[k])
        PROVE  log[k][i] + WindowSeconds <= now + MaxLag
    <3>1. log[k][i] <= log[k][Len(log[k])] + MaxLag
      BY <1>2 DEF KeyInv, LogSorted
    <3>2. /\ log[k][i] \in Nat /\ log[k][Len(log[k])] \in Nat
          /\ WindowSeconds \in Nat /\ MaxLag \in Nat /\ now \in Nat
      BY <1>2, LimiterAssumption DEF LimiterTypeOK
    <3> DEFINE hit == log[k][i]
               last == log[k][Len(log[k])]
    <3> HIDE DEF hit, last
    <3>3. hit <= last + MaxLag /\ last + WindowSeconds <= now /\ hit \in Nat /\ last \in Nat
      BY <2>2, <3>1, <3>2 DEF hit, last
    <3>4. hit + WindowSeconds <= now + MaxLag
      BY <3>2, <3>3
    <3> QED  BY <3>4 DEF hit
  <2> QED  BY <1>2, <2>1, <2>3 DEF GoneOld
<1> QED
  BY <1>3, <1>4

\* Granting a request when fewer than MaxRequests hits are left.
LEMMA GrantKeeps ==
    ASSUME LimiterTypeOK, NEW s \in Seq(Nat), NEW n \in Nat, n <= Len(s), NEW time \in Nat,
           time <= now, now <= time + MaxLag, KeyInv(s, n), Grants(Len(s) - n)
    PROVE  KeyInv(Append(s, time), n)
<1> DEFINE u == Append(s, time)
<1>1. /\ Len(u) = Len(s) + 1 /\ Len(s) \in Nat /\ u[Len(s) + 1] = time
      /\ \A i \in 1..Len(s) : u[i] = s[i] /\ s[i] \in Nat
  OBVIOUS
<1>2. now \in Nat
  BY DEF LimiterTypeOK
<1> HIDE DEF u
<1>3. LogSorted(u)
  <2>0. MaxLag \in Nat /\ LogSorted(s)
    BY LimiterAssumption DEF KeyInv
  <2>1. ASSUME NEW i \in 1..Len(u) PROVE u[i] <= now
    <3>1. CASE i = Len(s) + 1
      BY <1>1, <3>1
    <3>2. CASE i # Len(s) + 1
      <4>1. i \in 1..Len(s)
        BY <1>1, <3>2
      <4>2. s[i] <= now
        BY <2>0, <4>1 DEF LogSorted
      <4> QED  BY <1>1, <4>1, <4>2
    <3> QED  BY <3>1, <3>2
  <2>2. ASSUME NEW i \in 1..Len(u), NEW j \in i..Len(u) PROVE u[i] <= u[j] + MaxLag
    <3>1. CASE j = Len(s) + 1
      <4>1. u[j] = time /\ u[i] <= now /\ u[i] \in Nat
        BY <1>1, <2>1, <3>1
      <4> QED  BY <1>2, <2>0, <4>1
    <3>2. CASE j # Len(s) + 1
      <4>1. i \in 1..Len(s) /\ j \in i..Len(s) /\ j \in 1..Len(s)
        BY <1>1, <3>2
      <4>2. s[i] <= s[j] + MaxLag
        BY <2>0, <4>1 DEF LogSorted
      <4> QED  BY <1>1, <4>1, <4>2
    <3> QED  BY <3>1, <3>2
  <2> QED  BY <2>1, <2>2 DEF LogSorted
<1>4. GoneOld(u, n)
  <2>1. ASSUME NEW i \in 1..n PROVE u[i] + WindowSeconds <= now + MaxLag
    <3>1. i \in 1..Len(s)
      BY <1>1, <2>1
    <3>2. s[i] + WindowSeconds <= now + MaxLag
      BY <2>1 DEF KeyInv, GoneOld
    <3> QED  BY <1>1, <3>1, <3>2
  <2> QED  BY <2>1 DEF GoneOld
<1>5. Bounded(u)
  <2> SUFFICES ASSUME NEW i \in 1..(Len(u) - MaxRequests)
               PROVE  u[i + MaxRequests] >= u[i] + WindowSeconds - 2 * MaxLag
    BY DEF Bounded
  <2>1. CASE i + MaxRequests <= Len(s)
    <3>1. i \in 1..(Len(s) - MaxRequests) /\ i \in 1..Len(s) /\ i + MaxRequests \in 1..Len(s)
      BY <1>1, <2>1, LimiterAssumption
    <3>2. s[i + MaxRequests] >= s[i] + WindowSeconds - 2 * MaxLag
      BY <3>1 DEF KeyInv, Bounded
    <3> QED  BY <1>1, <3>1, <3>2
  <2>2. CASE i + MaxRequests = Len(s) + 1
    <3>1. i \in 1..n
      BY <1>1, <2>2, LimiterAssumption DEF Grants
    <3>2. u[i] + WindowSeconds <= now + MaxLag
      BY <1>4, <3>1 DEF GoneOld
    <3>3. u[i + MaxRequests] = time /\ i \in 1..Len(s) /\ u[i] \in Nat
      BY <1>1, <2>2, <3>1
    <3>4. WindowSeconds \in Nat /\ MaxLag \in Nat
      BY LimiterAssumption
    <3> QED  BY <1>2, <3>2, <3>3, <3>4
  <2>3. i \in Nat /\ MaxRequests \in Nat /\ i + MaxRequests <= Len(s) + 1
    BY <1>1, LimiterAssumption
  <2> QED  BY <1>1, <2>1, <2>2, <2>3
<1> QED
  BY <1>3, <1>4, <1>5 DEF KeyInv, u

\* Initially no request has been granted and no thread is in check.
LEMMA InitHolds == LimiterInit => RInv
<1> SUFFICES ASSUME LimiterInit PROVE RInv
  OBVIOUS
<1>1. LimiterTypeOK
  <2>1. (CHOOSE k \in Key : TRUE) \in Key
    BY LimiterAssumption
  <2> QED  BY <2>1, LimiterAssumption DEF LimiterInit, LimiterTypeOK, NoTime
<1>2. CallsRecent
  BY DEF LimiterInit, CallsRecent, Calling, NoTime
<1>3. ASSUME NEW k \in Key PROVE KeyInv(log[k], gone[k])
  <2>1. log[k] = <<>> /\ gone[k] = 0 /\ Len(log[k]) = 0
    BY <1>3 DEF LimiterInit
  <2> QED  BY <2>1, LimiterAssumption DEF KeyInv, LogSorted, GoneOld, Bounded
<1> QED
  BY <1>1, <1>2, <1>3 DEF RInv

\* A request that reads the clock touches no deque.
LEMMA CallKeeps ==
    ASSUME RInv, NEW t \in Thread, Call(t) PROVE RInv'
<1>1. PICK k \in Key : call' = [call EXCEPT ![t] = [key |-> k, time |-> now]]
  BY DEF Call
<1>2. UNCHANGED <<now, known, log, gone>>
  BY DEF Call
<1>3. LimiterTypeOK'
  BY <1>1, <1>2 DEF RInv, LimiterTypeOK
<1>4. CallsRecent'
  <2>1. ASSUME NEW u \in Thread, Calling(u)'
        PROVE  (call[u].time <= now /\ now <= call[u].time + MaxLag)'
    <3>1. CASE u = t
      BY <1>1, <1>2, <3>1, LimiterAssumption DEF RInv, LimiterTypeOK
    <3>2. CASE u # t
      BY <1>1, <1>2, <2>1, <3>2 DEF RInv, LimiterTypeOK, CallsRecent, Calling
    <3> QED  BY <3>1, <3>2
  <2> QED  BY <2>1 DEF CallsRecent
<1>5. ASSUME NEW c \in Key PROVE KeyInv(log[c], gone[c])'
  BY <1>2 DEF RInv, KeyInv, LogSorted, GoneOld, Bounded
<1> QED
  BY <1>3, <1>4, <1>5 DEF RInv

\* The clock moves only while no thread would be late by more than MaxLag.
LEMMA TickKeeps ==
    ASSUME RInv, Tick PROVE RInv'
<1>1. now \in Nat /\ now' = now + 1 /\ UNCHANGED <<call, known, log, gone>>
  BY DEF Tick, RInv, LimiterTypeOK
<1>2. LimiterTypeOK'
  BY <1>1 DEF RInv, LimiterTypeOK
<1>3. CallsRecent'
  <2>1. ASSUME NEW u \in Thread, Calling(u)
        PROVE  call[u].time <= now + 1 /\ now + 1 <= call[u].time + MaxLag
    <3>1. call[u].time \in Nat /\ call[u].time <= now
      BY <2>1 DEF RInv, LimiterTypeOK, CallsRecent, Calling
    <3>2. now - call[u].time < MaxLag
      BY <2>1 DEF Tick, Calling
    <3> QED  BY <1>1, <3>1, <3>2, LimiterAssumption
  <2> QED  BY <1>1, <2>1 DEF CallsRecent, Calling
<1>4. ASSUME NEW k \in Key PROVE KeyInv(log[k], gone[k])'
  <2>1. log[k] \in Seq(Nat) /\ gone[k] \in Nat /\ gone[k] <= Len(log[k]) /\ KeyInv(log[k], gone[k])
    BY DEF RInv, LimiterTypeOK
  <2>2. \A i \in 1..Len(log[k]) : log[k][i] \in Nat
    BY <2>1
  <2>3. log'[k] = log[k] /\ gone'[k] = gone[k]
    BY <1>1
  <2>4. LogSorted(log[k])'
    <3>1. ASSUME NEW i \in 1..Len(log[k]) PROVE log[k][i] <= now'
      <4>1. log[k][i] <= now /\ log[k][i] \in Nat
        BY <2>1, <2>2, <3>1 DEF KeyInv, LogSorted
      <4> QED  BY <1>1, <4>1
    <3> QED  BY <2>1, <2>3, <3>1 DEF KeyInv, LogSorted
  <2>5. GoneOld(log[k], gone[k])'
    <3>1. ASSUME NEW i \in 1..gone[k]
          PROVE  log[k][i] + WindowSeconds <= now' + MaxLag
      <4>1. log[k][i] + WindowSeconds <= now + MaxLag
        BY <2>1, <3>1 DEF KeyInv, GoneOld
      <4>2. log[k][i] \in Nat
        BY <2>1, <2>2, <3>1
      <4> QED  BY <1>1, <4>1, <4>2, LimiterAssumption
    <3> QED  BY <2>3, <3>1 DEF GoneOld
  <2>6. Bounded(log[k])'
    BY <2>1, <2>3 DEF KeyInv, Bounded
  <2> QED  BY <2>4, <2>5, <2>6 DEF KeyInv
<1> QED
  BY <1>2, <1>3, <1>4 DEF RInv

\* The rest of check: prune, pop, and grant or refuse.
LEMMA CheckKeeps ==
    ASSUME RInv, NEW t \in Thread, Check(t) PROVE RInv'
<1> DEFINE k      == call[t].key
           time   == call[t].time
           pruned == Pruned(time - WindowSeconds)
<1>1. k \in Key /\ time \in Nat /\ time <= now /\ now <= time + MaxLag
  BY DEF Check, RInv, LimiterTypeOK, CallsRecent, Calling
<1>2. PICK n \in 0..Len(log[k]) :
        /\ Pops(log[k], pruned[k], n, time - WindowSeconds)
        /\ gone' = [pruned EXCEPT ![k] = n]
        /\ log' = IF Grants(Len(log[k]) - n) THEN [log EXCEPT ![k] = Append(@, time)] ELSE log
  BY DEF Check
<1>3. /\ known' = (known \ StaleKeys(time - WindowSeconds)) \cup {k}
      /\ call' = [call EXCEPT ![t].time = NoTime]
      /\ now' = now
  BY DEF Check
<1>4. LimiterTypeOK /\ CallsRecent /\ \A c \in Key : KeyInv(log[c], gone[c])
  BY DEF RInv
<1>5. \A c \in Key : log[c] \in Seq(Nat) /\ Len(log[c]) \in Nat
  BY <1>4 DEF LimiterTypeOK
<1>6. ASSUME NEW c \in Key
      PROVE  pruned[c] \in Nat /\ pruned[c] <= Len(log[c]) /\ GoneOld(log[c], pruned[c])
  BY <1>1, <1>4, PruneKeeps
<1>7. pruned \in [Key -> Nat] /\ DOMAIN pruned = Key
  <2>1. pruned = [c \in Key |-> pruned[c]]
    BY DEF Pruned
  <2> HIDE DEF pruned
  <2> QED  BY <1>6, <2>1
<1> HIDE DEF pruned, k, time
<1>8. n \in Nat /\ n <= Len(log[k])
  BY <1>1, <1>2, <1>5
<1>9. GoneOld(log[k], n)
  BY <1>1, <1>2, <1>4, <1>5, <1>6, <1>8, PopKeeps
<1>10. /\ gone' \in [Key -> Nat] /\ gone'[k] = n
       /\ \A c \in Key \ {k} : gone'[c] = pruned[c]
  BY <1>1, <1>2, <1>7, <1>8
<1>11. /\ log' \in [Key -> Seq(Nat)]
       /\ \A c \in Key \ {k} : log'[c] = log[c]
       /\ \/ log'[k] = log[k]
          \/ Grants(Len(log[k]) - n) /\ log'[k] = Append(log[k], time)
  BY <1>1, <1>2, <1>4, <1>5 DEF LimiterTypeOK
<1>12. KeyInv(log'[k], n)
  <2>1. KeyInv(log[k], n)
    BY <1>1, <1>4, <1>9 DEF KeyInv
  <2> QED  BY <1>1, <1>4, <1>5, <1>8, <1>11, <2>1, GrantKeeps
<1>13. ASSUME NEW c \in Key PROVE gone'[c] <= Len(log'[c]) /\ KeyInv(log'[c], gone'[c])
  <2>1. CASE c = k
    <3>1. Len(log'[k]) \in {Len(log[k]), Len(log[k]) + 1}
      BY <1>1, <1>5, <1>11
    <3> QED  BY <1>1, <1>5, <1>8, <1>10, <1>12, <2>1, <3>1
  <2>2. CASE c # k
    BY <1>4, <1>6, <1>10, <1>11, <2>2 DEF KeyInv
  <2> QED  BY <2>1, <2>2
<1>14. LimiterTypeOK'
  <2>1. call' \in [Thread -> [key : Key, time : Nat \cup {NoTime}]]
    BY <1>3, <1>4 DEF LimiterTypeOK
  <2>2. known' \subseteq Key /\ now' \in Nat
    BY <1>1, <1>3, <1>4 DEF LimiterTypeOK
  <2> QED  BY <1>10, <1>11, <1>13, <2>1, <2>2 DEF LimiterTypeOK
<1>15. CallsRecent'
  BY <1>3, <1>4 DEF LimiterTypeOK, CallsRecent, Calling
<1>16. ASSUME NEW c \in Key PROVE KeyInv(log[c], gone[c])'
  BY <1>3, <1>13 DEF KeyInv, LogSorted, GoneOld, Bounded
<1> QED
  BY <1>14, <1>15, <1>16 DEF RInv

\* Every step of the limiter keeps the inductive invariant.
LEMMA NextKeeps == RInv /\ [LimiterNext]_limiterVars => RInv'
<1> SUFFICES ASSUME RInv, [LimiterNext]_limiterVars PROVE RInv'
  OBVIOUS
<1>1. ASSUME NEW t \in Thread, Call(t) PROVE RInv'
  BY <1>1, CallKeeps
<1>2. ASSUME NEW t \in Thread, Check(t) PROVE RInv'
  BY <1>2, CheckKeeps
<1>3. CASE Tick
  BY <1>3, TickKeeps
<1>4. CASE UNCHANGED limiterVars
  BY <1>4 DEF limiterVars, RInv, LimiterTypeOK, CallsRecent, Calling, KeyInv, LogSorted, GoneOld, Bounded
<1> QED
  BY <1>1, <1>2, <1>3, <1>4 DEF LimiterNext

\* The state of the limiter stays within its types: in particular a deque never
\* gives back more hits than were granted.
THEOREM LimiterTypeCorrect == LimiterSpec => []LimiterTypeOK
<1>1. RInv => LimiterTypeOK
  BY DEF RInv
<1> QED
  BY <1>1, InitHolds, NextKeeps, PTL DEF LimiterSpec

\* RateLimiter.check never grants a client more than MaxRequests requests within
\* a window, up to twice the time a thread waits for the lock.
THEOREM RateBoundedHolds == LimiterSpec => []RateBounded
<1>1. RInv => RateBounded
  BY DEF RInv, KeyInv, Bounded, RateBounded
<1> QED
  BY <1>1, InitHolds, NextKeeps, PTL DEF LimiterSpec

\* What a refusal means, for the thread whose check it is.
RefusalOf(t) == (call[t].time # NoTime /\ call'[t].time = NoTime /\ log' = log) =>
    LET s == log[call[t].key]
    IN  /\ Len(s) >= MaxRequests
        /\ \A i \in (Len(s) - MaxRequests + 1)..Len(s) :
              s[i] > call[t].time - WindowSeconds - MaxLag

\* The first hit that check could not pop is in the window, and the hits behind
\* it are at most MaxLag older.
LEMMA CheckRefuses ==
    ASSUME RInv, NEW t \in Thread, Check(t) PROVE RefusalOf(t)
<1> DEFINE k    == call[t].key
           time == call[t].time
           s    == log[k]
           cut  == time - WindowSeconds
<1> SUFFICES ASSUME log' = log
             PROVE  /\ Len(s) >= MaxRequests
                    /\ \A i \in (Len(s) - MaxRequests + 1)..Len(s) : s[i] > cut - MaxLag
  BY DEF RefusalOf
<1>1. k \in Key /\ time \in Nat /\ cut \in Int
  BY LimiterAssumption DEF Check, RInv, LimiterTypeOK
<1>2. PICK n \in 0..Len(log[k]) :
        /\ Pops(log[k], Pruned(cut)[k], n, cut)
        /\ log' = IF Grants(Len(log[k]) - n) THEN [log EXCEPT ![k] = Append(@, time)] ELSE log
  BY DEF Check
<1>3. s \in Seq(Nat) /\ Len(s) \in Nat /\ log \in [Key -> Seq(Nat)] /\ LogSorted(s)
  BY <1>1 DEF RInv, LimiterTypeOK, KeyInv
<1>4. \A i \in 1..Len(s) : s[i] \in Nat
  BY <1>3
<1> HIDE DEF s, cut, time, k
<1>5. ~Grants(Len(s) - n)
  <2> SUFFICES ASSUME Grants(Len(s) - n) PROVE FALSE
    OBVIOUS
  <2>1. log'[k] = Append(s, time)
    BY <1>1, <1>2, <1>3 DEF s
  <2>2. Len(log'[k]) = Len(s) + 1
    BY <1>1, <1>3, <2>1
  <2> QED  BY <1>3, <2>2 DEF s
<1>6. n \in Nat /\ n + MaxRequests <= Len(s) /\ MaxRequests \in Nat \ {0} /\ MaxLag \in Nat
  BY <1>2, <1>3, <1>5, LimiterAssumption DEF Grants, s
<1>7. s[n + 1] > cut
  BY <1>2, <1>3, <1>6 DEF Pops, s
<1>8. ASSUME NEW i \in (Len(s) - MaxRequests + 1)..Len(s) PROVE s[i] > cut - MaxLag
  <2>1. n + 1 \in 1..Len(s) /\ i \in (n + 1)..Len(s) /\ i \in 1..Len(s)
    BY <1>3, <1>6
  <2>2. s[n + 1] <= s[i] + MaxLag
    BY <1>3, <2>1 DEF LogSorted
  <2>3. s[n + 1] \in Nat /\ s[i] \in Nat
    BY <1>4, <2>1
  <2> QED  BY <1>1, <1>6, <1>7, <2>2, <2>3
<1> QED
  BY <1>3, <1>6, <1>8

\* The steps of other threads, requests and the clock end no check of thread t.
LEMMA OthersEndNothing ==
    ASSUME RInv, [LimiterNext]_limiterVars, NEW t \in Thread, ~Check(t) PROVE RefusalOf(t)
<1> SUFFICES call'[t].time = call[t].time \/ call[t].time = NoTime
  BY DEF RefusalOf
<1>0. call \in [Thread -> [key : Key, time : Nat \cup {NoTime}]]
  BY DEF RInv, LimiterTypeOK
<1>1. ASSUME NEW u \in Thread, Call(u) PROVE call'[t].time = call[t].time \/ call[t].time = NoTime
  BY <1>0, <1>1 DEF Call
<1>2. ASSUME NEW u \in Thread, Check(u), u # t PROVE call'[t].time = call[t].time
  BY <1>0, <1>2 DEF Check
<1>3. CASE Tick
  BY <1>3 DEF Tick
<1>4. CASE UNCHANGED limiterVars
  BY <1>4 DEF limiterVars
<1> QED
  BY <1>1, <1>2, <1>3, <1>4 DEF LimiterNext

\* A client that check refuses has MaxRequests grants in the window, up to the
\* time a thread waits for the lock: the limiter never refuses early.
THEOREM RefusalsJustifiedHolds == LimiterSpec => RefusalsJustified
<1>1. RInv /\ [LimiterNext]_limiterVars => [\A t \in Thread : RefusalOf(t)]_limiterVars
  <2> SUFFICES ASSUME RInv, [LimiterNext]_limiterVars, NEW t \in Thread PROVE RefusalOf(t)
    OBVIOUS
  <2> QED  BY CheckRefuses, OthersEndNothing
<1> QED
  BY <1>1, InitHolds, NextKeeps, PTL DEF LimiterSpec, RefusalsJustified, RefusalOf
=============================================================================
