---------------------------- MODULE LiveUpdates ----------------------------
(***************************************************************************)
(* How an update of the feed reaches a browser: the broker of              *)
(* app/events.py, the stream of /api/events in app/main.py and the loading *)
(* of frontend/app.js.                                                     *)
(*                                                                         *)
(* A refresh writes a new version of the feed and then publishes an event, *)
(* which carries no items: a browser that receives it loads the feed       *)
(* again.  A browser also loads when the page opens, every five minutes,   *)
(* and when another filter is chosen; loads overlap, and their answers     *)
(* arrive in any order.  Heartbeats and the LIVE/OFFLINE label are left    *)
(* out, they decide nothing.  due and asked are history variables.         *)
(***************************************************************************)
EXTENDS Integers, FiniteSets

CONSTANTS
    Browser,
    Conn,               \* requests for /api/events, each with the queue it gets
    Slot,               \* bound: loads a browser has under way at once
    Filter,             \* what q, tag and mode select
    FirstFilter,        \* the selection of a page just opened
    MaxSubscribers,     \* max_subscribers, 0 for no cap
    QueueSize,          \* maxsize of a subscriber's queue
    WireSize,           \* events a connection holds before the sender waits
    MaxVersion,         \* bound on the versions of the feed
    MaxFaults           \* bound on broken connections, refusals and failed loads

ASSUME LiveAssumption ==
    /\ FirstFilter \in Filter
    /\ IsFiniteSet(Conn)
    /\ MaxSubscribers \in Nat
    /\ QueueSize \in Nat \ {0} /\ WireSize \in Nat \ {0}
    /\ MaxVersion \in Nat \ {0} /\ MaxFaults \in Nat

VARIABLES
    version,        \* version of the feed in the archive
    refresh,        \* whether a refresh has yet to publish
    subscribers,    \* broker.subscribers, each queue named by its request
    queue,          \* queue[k]: events in the queue of request k
    stream,         \* stream[k]: how far the handler of request k is
    alive,          \* alive[k]: the browser of request k is still there
    wire,           \* wire[k]: events sent to the browser and not yet handled
    source,         \* source[b]: readyState of the EventSource of b
    link,           \* link[b]: the request that EventSource made
    filter,         \* filter[b]: the selection of b
    loads,          \* loads[b]: the loads of b under way
    shown,          \* shown[b]: what b displays, a version under a selection
    faults,
    due,            \* due[k]: newest version published to queue k
    asked           \* asked[b]: version of the feed when b last sent a load

serverVars  == <<version, refresh>>
streamVars  == <<subscribers, queue, stream, alive, wire, due>>
sourceVars  == <<source, link>>
pageVars    == <<filter, loads, shown, asked>>
vars == <<serverVars, streamVars, sourceVars, pageVars, faults>>

NoConn == "none"
Unread == 0         \* no version: the load has not reached the server

Load == [filter : Filter, version : Nat]
NoLoad == [filter |-> FirstFilter, version |-> -1]

TypeOK ==
    /\ version \in Nat /\ refresh \in {"idle", "publish"}
    /\ subscribers \subseteq Conn
    /\ queue \in [Conn -> 0..QueueSize]
    /\ stream \in [Conn -> {"free", "requested", "starting", "streaming"}]
    /\ alive \in [Conn -> BOOLEAN]
    /\ wire \in [Conn -> 0..WireSize]
    /\ source \in [Browser -> {"connecting", "waiting", "open", "closed"}]
    /\ link \in [Browser -> Conn \cup {NoConn}]
    /\ filter \in [Browser -> Filter]
    /\ loads \in [Browser -> [Slot -> Load \cup {NoLoad}]]
    /\ shown \in [Browser -> Load]
    /\ faults \in 0..MaxFaults
    /\ due \in [Conn -> Nat] /\ asked \in [Browser -> Nat]

\* Every browser has just run app.js: it asks for the feed and for events.
Init ==
    /\ version = 1 /\ refresh = "idle"
    /\ subscribers = {}
    /\ queue = [k \in Conn |-> 0] /\ wire = [k \in Conn |-> 0]
    /\ stream = [k \in Conn |-> "free"] /\ alive = [k \in Conn |-> FALSE]
    /\ source = [b \in Browser |-> "connecting"] /\ link = [b \in Browser |-> NoConn]
    /\ filter = [b \in Browser |-> FirstFilter]
    /\ \E s \in Slot : loads = [b \in Browser |-> [u \in Slot |->
           IF u = s THEN [filter |-> FirstFilter, version |-> Unread] ELSE NoLoad]]
    /\ shown = [b \in Browser |-> [filter |-> FirstFilter, version |-> Unread]]
    /\ faults = 0
    /\ due = [k \in Conn |-> 0] /\ asked = [b \in Browser |-> 1]

Fault == faults < MaxFaults /\ faults' = faults + 1

-----------------------------------------------------------------------------
(* The server: refreshes, the broker and the streams.                      *)

\* A refresh of this process persists its items, or fails to.
Persist == \E failed \in BOOLEAN :
    /\ refresh = "idle" /\ version < MaxVersion
    /\ version' = IF failed THEN version ELSE version + 1
    /\ refresh' = "publish"
    /\ UNCHANGED <<streamVars, sourceVars, pageVars, faults>>

\* Another replica updates the archive; its broker is not this one.
PersistElsewhere ==
    /\ version < MaxVersion
    /\ version' = version + 1
    /\ UNCHANGED <<refresh, streamVars, sourceVars, pageVars, faults>>

\* put_nowait; QueueFull drops the event.
Delivered(n) == IF n < QueueSize THEN n + 1 ELSE n

\* Broker.publish
Publish ==
    /\ refresh = "publish"
    /\ refresh' = "idle"
    /\ queue' = [k \in Conn |-> IF k \in subscribers THEN Delivered(queue[k]) ELSE queue[k]]
    /\ due' = [k \in Conn |-> IF k \in subscribers THEN version ELSE due[k]]
    /\ UNCHANGED <<version, subscribers, stream, alive, wire, sourceVars, pageVars, faults>>

AtCapTooLate == MaxSubscribers > 0 /\ Cardinality(subscribers) > MaxSubscribers

AtCap == MaxSubscribers > 0 /\ Cardinality(subscribers) >= MaxSubscribers

\* Broker.subscribe, in api_events
Subscribe(k) ==
    /\ stream[k] = "requested"
    /\ ~AtCap
    /\ subscribers' = subscribers \cup {k}
    /\ stream' = [stream EXCEPT ![k] = "starting"]
    /\ queue' = [queue EXCEPT ![k] = 0]
    /\ due' = [due EXCEPT ![k] = 0]
    /\ UNCHANGED <<serverVars, alive, wire, sourceVars, pageVars, faults>>

\* The request is answered with an error: 503 at the cap, or 429 from the rate
\* limiter or 502 from the proxy.  An EventSource does not retry after an
\* error status.
Refuse(k) ==
    /\ stream[k] = "requested"
    /\ (AtCap /\ UNCHANGED faults) \/ Fault
    /\ stream' = [stream EXCEPT ![k] = "free"]
    /\ source' = [b \in Browser |-> IF link[b] = k THEN "closed" ELSE source[b]]
    /\ link' = [b \in Browser |-> IF link[b] = k THEN NoConn ELSE link[b]]
    /\ UNCHANGED <<serverVars, subscribers, queue, alive, wire, due, pageVars>>

\* The response starts and confirms the stream.
StartStream(k) ==
    /\ stream[k] = "starting" /\ alive[k]
    /\ stream' = [stream EXCEPT ![k] = "streaming"]
    /\ source' = [b \in Browser |-> IF link[b] = k THEN "open" ELSE source[b]]
    /\ UNCHANGED <<serverVars, subscribers, queue, alive, wire, due, link, pageVars, faults>>

\* The browser is gone before the response starts: event_stream never runs, and
\* neither does its finally.
Abandon(k) ==
    /\ stream[k] = "starting" /\ ~alive[k]
    /\ stream' = [stream EXCEPT ![k] = "free"]
    /\ UNCHANGED <<serverVars, subscribers, queue, alive, wire, due, sourceVars, pageVars, faults>>

\* event_stream takes an event and sends it.
Yield(k) ==
    /\ stream[k] = "streaming" /\ queue[k] > 0 /\ wire[k] < WireSize
    /\ queue' = [queue EXCEPT ![k] = @ - 1]
    /\ wire' = [wire EXCEPT ![k] = @ + 1]
    /\ UNCHANGED <<serverVars, subscribers, stream, alive, due, sourceVars, pageVars, faults>>

\* event_stream is cancelled, its finally unsubscribes the queue.
EndStream(k) ==
    /\ stream[k] = "streaming" /\ ~alive[k]
    /\ subscribers' = subscribers \ {k}
    /\ stream' = [stream EXCEPT ![k] = "free"]
    /\ UNCHANGED <<serverVars, queue, alive, wire, due, sourceVars, pageVars, faults>>

\* The process dies: its broker and streams are gone, every EventSource
\* connects again, and the update it had not published stays unpublished.
Crash ==
    /\ Fault
    /\ refresh' = "idle"
    /\ subscribers' = {}
    /\ stream' = [k \in Conn |-> "free"] /\ alive' = [k \in Conn |-> FALSE]
    /\ source' = [b \in Browser |-> IF link[b] = NoConn THEN source[b] ELSE "connecting"]
    /\ link' = [b \in Browser |-> NoConn]
    /\ UNCHANGED <<version, queue, wire, due, pageVars>>

-----------------------------------------------------------------------------
(* The browser.                                                            *)

\* new EventSource, and its automatic reconnection
Connect(b) == \E k \in Conn :
    /\ source[b] = "connecting"
    /\ stream[k] = "free" /\ k \notin subscribers
    /\ stream' = [stream EXCEPT ![k] = "requested"]
    /\ alive' = [alive EXCEPT ![k] = TRUE]
    /\ wire' = [wire EXCEPT ![k] = 0]
    /\ source' = [source EXCEPT ![b] = "waiting"]
    /\ link' = [link EXCEPT ![b] = k]
    /\ queue' = [queue EXCEPT ![k] = 0]
    /\ due' = [due EXCEPT ![k] = 0]
    /\ UNCHANGED <<serverVars, subscribers, pageVars, faults>>

\* The connection breaks: onerror, and the EventSource connects again.
Break(b) ==
    /\ link[b] # NoConn
    /\ Fault
    /\ alive' = [alive EXCEPT ![link[b]] = FALSE]
    /\ source' = [source EXCEPT ![b] = "connecting"]
    /\ link' = [link EXCEPT ![b] = NoConn]
    /\ UNCHANGED <<serverVars, subscribers, queue, stream, wire, due, pageVars>>

\* loadFeed, up to its request, with the selection f
LoadFeed(b, f) == \E s \in Slot :
    /\ loads[b][s] = NoLoad
    /\ loads' = [loads EXCEPT ![b][s] = [filter |-> f, version |-> Unread]]
    /\ asked' = [asked EXCEPT ![b] = version]
    /\ UNCHANGED shown

\* onmessage of a feed_updated event
OnMessageIfQuiet(b) ==
    /\ link[b] # NoConn /\ wire[link[b]] > 0
    /\ wire' = [wire EXCEPT ![link[b]] = @ - 1]
    /\ \/ (\A s \in Slot : loads[b][s] = NoLoad) /\ LoadFeed(b, filter[b])
       \/ (\E s \in Slot : loads[b][s] # NoLoad) /\ UNCHANGED <<loads, asked, shown>>
    /\ UNCHANGED <<serverVars, subscribers, queue, stream, alive, due, sourceVars, filter, faults>>

OnMessage(b) ==
    /\ link[b] # NoConn /\ wire[link[b]] > 0
    /\ wire' = [wire EXCEPT ![link[b]] = @ - 1]
    /\ LoadFeed(b, filter[b])
    /\ UNCHANGED <<serverVars, subscribers, queue, stream, alive, due, sourceVars, filter, faults>>

\* setInterval(loadFeed)
PollWhileConnected(b) ==
    /\ \/ source[b] # "closed" /\ LoadFeed(b, filter[b])
       \/ source[b] = "closed" /\ UNCHANGED <<loads, asked, shown>>
    /\ UNCHANGED <<serverVars, streamVars, sourceVars, filter, faults>>

Poll(b) ==
    /\ LoadFeed(b, filter[b])
    /\ UNCHANGED <<serverVars, streamVars, sourceVars, filter, faults>>

\* A search, a tag or the footer link: another selection, and a load.
Select(b) == \E f \in Filter \ {filter[b]} :
    /\ filter' = [filter EXCEPT ![b] = f]
    /\ LoadFeed(b, f)
    /\ UNCHANGED <<serverVars, streamVars, sourceVars, faults>>

\* /api/feed, /api/items or /api/search reads the archive for a load.  (With an
\* OpenSearch index /api/search reads that instead; SearchIndex is about its lag.)
ReadFeed(b, s) ==
    /\ loads[b][s] # NoLoad /\ loads[b][s].version = Unread
    /\ loads' = [loads EXCEPT ![b][s] = [filter |-> loads[b][s].filter, version |-> version]]
    /\ UNCHANGED <<serverVars, streamVars, sourceVars, filter, shown, asked, faults>>

\* The rest of loadFeed: the answer replaces what is displayed.
Render(b, s) ==
    /\ loads[b][s] # NoLoad /\ loads[b][s].version # Unread
    /\ shown' = [shown EXCEPT ![b] = loads[b][s]]
    /\ loads' = [loads EXCEPT ![b][s] = NoLoad]
    /\ UNCHANGED <<serverVars, streamVars, sourceVars, filter, asked, faults>>

\* The load fails: an error is displayed and the items stay.
LoadFails(b, s) ==
    /\ loads[b][s] # NoLoad
    /\ Fault
    /\ loads' = [loads EXCEPT ![b][s] = NoLoad]
    /\ UNCHANGED <<serverVars, streamVars, sourceVars, filter, shown, asked>>

-----------------------------------------------------------------------------
StreamStep(k) ==
    Subscribe(k) \/ Refuse(k) \/ StartStream(k) \/ Abandon(k) \/ Yield(k) \/ EndStream(k)

PageStep(b) ==
    \/ Connect(b) \/ Break(b) \/ OnMessage(b) \/ Poll(b) \/ Select(b)
    \/ \E s \in Slot : ReadFeed(b, s) \/ Render(b, s) \/ LoadFails(b, s)

Next ==
    \/ Persist \/ PersistElsewhere \/ Publish \/ Crash
    \/ \E k \in Conn : StreamStep(k)
    \/ \E b \in Browser : PageStep(b)

Spec == Init /\ [][Next]_vars

\* The event loop runs what is ready, EventSources connect when they can, the
\* timer of the page fires, and loads are answered.
Fairness ==
    /\ WF_vars(Publish)
    /\ \A k \in Conn :
          /\ WF_vars(Subscribe(k)) /\ WF_vars(StartStream(k)) /\ WF_vars(Abandon(k))
          /\ WF_vars(Yield(k)) /\ WF_vars(EndStream(k))
          /\ WF_vars(AtCap /\ Refuse(k))
    /\ \A b \in Browser :
          /\ WF_vars(Connect(b)) /\ WF_vars(OnMessage(b)) /\ WF_vars(Poll(b))
          /\ \A s \in Slot : WF_vars(ReadFeed(b, s)) /\ WF_vars(Render(b, s))

FairSpec == Spec /\ Fairness

-----------------------------------------------------------------------------
(* Properties.                                                             *)

\* Broker.subscribe keeps the streams in progress within the cap, whatever
\* breaks, ends or is abandoned in between.
StreamsCapped == MaxSubscribers > 0 =>
    Cardinality({k \in Conn : stream[k] \in {"starting", "streaming"}}) <= MaxSubscribers

\* Dropping an event for a full queue loses no update: a browser with nothing
\* left to receive has sent a load after everything published to its stream.
UpdatesAskedFor == \A b \in Browser : link[b] # NoConn =>
    \/ queue[link[b]] > 0 \/ wire[link[b]] > 0
    \/ asked[b] >= due[link[b]]

\* Whatever events are lost, and in whatever order answers arrive, a page ends
\* up with the current feed.
PageIsCurrent == <>[](\A b \in Browser : shown[b].version = version)
=============================================================================
