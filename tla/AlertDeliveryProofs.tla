------------------------ MODULE AlertDeliveryProofs ------------------------
(***************************************************************************)
(* Theorems about AlertDelivery, for every number of replicas, channels    *)
(* and items.                                                              *)
(***************************************************************************)
EXTENDS AlertDelivery, TLAPS

-----------------------------------------------------------------------------
(* Type correctness.                                                       *)

\* What an upsert leaves is a table again.
LEMMA UpsertTable ==
    ASSUME IsTable(table), now \in Nat, NEW live \in SUBSET LiveItem,
           NEW samples \in SUBSET SampleItem
    PROVE  /\ IsTable(UpsertItems(table, live, samples, now))
           /\ DOMAIN UpsertItems(table, live, samples, now) = DOMAIN table \cup live \cup samples
  BY DEF IsTable, UpsertItems, Item, Row

\* One more accepted send keeps the type of the history.
LEMMA SendsType ==
    ASSUME sends \in [Item -> [Channel -> Nat]], NEW i \in Item, NEW c \in Channel,
           sends' = [sends EXCEPT ![i][c] = @ + 1]
    PROVE  /\ sends' \in [Item -> [Channel -> Nat]]
           /\ sends'[i][c] = sends[i][c] + 1
           /\ \A j \in Item, d \in Channel : <<j, d>> # <<i, c>> => sends'[j][d] = sends[j][d]
<1>1. sends[i] \in [Channel -> Nat] /\ sends[i][c] + 1 \in Nat
  OBVIOUS
<1>2. [sends[i] EXCEPT ![c] = sends[i][c] + 1] \in [Channel -> Nat]
  BY <1>1
<1>3. sends' = [sends EXCEPT ![i] = [sends[i] EXCEPT ![c] = sends[i][c] + 1]]
  OBVIOUS
<1> QED
  BY <1>1, <1>2, <1>3

\* The next channel of an item that is not through yet is a configured one.
LEMMA ChannelInRange ==
    ASSUME TypeOK, NEW r \in Replica, next[r] <= Channels
    PROVE  next[r] \in Channel
  BY AlertAssumption DEF TypeOK, Channel

\* Every step keeps the types.
LEMMA TypeInductive == TypeOK /\ [Next]_vars => TypeOK'
<1> SUFFICES ASSUME TypeOK, [Next]_vars PROVE TypeOK'
  OBVIOUS
<1> USE AlertAssumption
<1>1. ASSUME NEW r \in Replica, Upsert(r) PROVE TypeOK'
  <2>1. PICK i \in LiveItem : /\ table' = UpsertItems(table, {i}, {}, now)
                              /\ urgent' = urgent \cup {i} \/ urgent' = urgent \ {i}
    BY <1>1 DEF Upsert
  <2>2. {i} \in SUBSET LiveItem /\ {} \in SUBSET SampleItem /\ i \in Item
    BY DEF Item
  <2>3. IsTable(table') /\ DOMAIN table' = DOMAIN table \cup {i}
    <3>1. /\ IsTable(UpsertItems(table, {i}, {}, now))
          /\ DOMAIN UpsertItems(table, {i}, {}, now) = DOMAIN table \cup {i} \cup {}
      BY <2>2, UpsertTable DEF TypeOK
    <3> QED
      BY <2>1, <3>1
  <2> QED
    BY <1>1, <2>1, <2>2, <2>3 DEF Upsert, TypeOK
<1>2. ASSUME NEW r \in Replica, UpsertSamples(r) PROVE TypeOK'
  <2>1. {} \in SUBSET LiveItem /\ SampleItem \in SUBSET SampleItem /\ SampleItem \subseteq Item
    BY DEF Item
  <2>2. IsTable(table') /\ DOMAIN table' = DOMAIN table \cup SampleItem
    <3>1. /\ IsTable(UpsertItems(table, {}, SampleItem, now))
          /\ DOMAIN UpsertItems(table, {}, SampleItem, now) = DOMAIN table \cup {} \cup SampleItem
      BY <2>1, UpsertTable DEF TypeOK
    <3> QED
      BY <1>2, <3>1 DEF UpsertSamples
  <2> QED
    BY <1>2, <2>1, <2>2 DEF UpsertSamples, TypeOK
<1>3. ASSUME NEW r \in Replica, Prune(r) PROVE TypeOK'
  <2>1. PICK dead \in [rows : SUBSET Item, marks : SUBSET Item] :
           doomed' = [doomed EXCEPT ![r] = dead]
    <3>1. /\ Expired(table, now - RetentionDays) \in SUBSET Item
          /\ Forgettable(PruneItems(table, now - RetentionDays), now - RetentionDays) \in SUBSET Item
      BY DEF Expired, Forgettable, IsTable, TypeOK
    <3> QED
      BY <1>3, <3>1 DEF Prune
  <2>2. doomed' \in [Replica -> [rows : SUBSET Item, marks : SUBSET Item]]
    BY <2>1 DEF TypeOK
  <2> QED
    BY <1>3, <2>2 DEF Prune, TypeOK
<1>13. ASSUME NEW r \in Replica, PruneCommit(r) PROVE TypeOK'
  <2>1. IsTable(table') /\ urgent' \subseteq DOMAIN table' /\ urgent' \in SUBSET Item
    BY <1>13 DEF PruneCommit, TypeOK, IsTable
  <2>2. DOMAIN marks' \subseteq Item /\ \A i \in DOMAIN marks' : marks'[i] \in Nat
    BY <1>13 DEF PruneCommit, TypeOK
  <2>3. departed' \in [Item -> Nat]
    BY <1>13 DEF PruneCommit, TypeOK
  <2>4. doomed' \in [Replica -> [rows : SUBSET Item, marks : SUBSET Item]]
    BY <1>13 DEF PruneCommit, Nothing, TypeOK
  <2>5. faults' \in Nat
    BY <1>13 DEF PruneCommit, Fault, TypeOK
  <2> QED
    BY <1>13, <2>1, <2>2, <2>3, <2>4, <2>5 DEF PruneCommit, TypeOK
<1>4. ASSUME NEW r \in Replica, Query(r) PROVE TypeOK'
  <2>1. Newest(Unalerted, MaxAlertsPerRun) \in SUBSET Item
    BY DEF Newest, Unalerted, TypeOK
  <2> QED
    BY <1>4, <2>1 DEF Query, TypeOK
<1>5. ASSUME NEW r \in Replica, Send(r) PROVE TypeOK'
  <2>1. PICK i \in Item : /\ next[r] <= Channels
                          /\ sends' = [sends EXCEPT ![i][next[r]] = @ + 1]
    BY <1>5 DEF Send
  <2>2. sends' \in [Item -> [Channel -> Nat]]
    BY <2>1, SendsType, ChannelInRange DEF TypeOK
  <2> QED
    BY <1>5, <2>2 DEF Send, TypeOK
<1>6. ASSUME NEW r \in Replica, ItemDone(r) PROVE TypeOK'
  BY <1>6 DEF ItemDone, TypeOK
<1>7. ASSUME NEW r \in Replica, SendFails(r) PROVE TypeOK'
  <2>1. PICK i \in Item : /\ next[r] <= Channels
                          /\ \/ sends' = sends
                             \/ sends' = [sends EXCEPT ![i][next[r]] = @ + 1]
    BY <1>7 DEF SendFails
  <2>2. sends' \in [Item -> [Channel -> Nat]]
    BY <2>1, SendsType, ChannelInRange DEF TypeOK
  <2> QED
    BY <1>7, <2>2 DEF SendFails, Fault, TypeOK
<1>8. ASSUME NEW r \in Replica, LoopDone(r) PROVE TypeOK'
  BY <1>8 DEF LoopDone, TypeOK
<1>9. ASSUME NEW r \in Replica, MarkAlerted(r) PROVE TypeOK'
  <2>1. /\ DOMAIN Marked(alerted[r]) \subseteq Item
        /\ \A i \in DOMAIN Marked(alerted[r]) : Marked(alerted[r])[i] \in Nat
    BY DEF Marked, TypeOK
  <2>2. DOMAIN marks' \subseteq Item /\ \A i \in DOMAIN marks' : marks'[i] \in Nat
    BY <1>9, <2>1 DEF MarkAlerted, TypeOK
  <2> QED
    BY <1>9, <2>2 DEF MarkAlerted, Fault, TypeOK
<1>10. ASSUME NEW r \in Replica, Crash(r) PROVE TypeOK'
  BY <1>10 DEF Crash, Fault, Nothing, TypeOK
<1>11. CASE Tick
  BY <1>11 DEF Tick, TypeOK
<1>12. CASE UNCHANGED vars
  BY <1>12 DEF vars, TypeOK
<1> QED
  BY <1>1, <1>2, <1>3, <1>4, <1>5, <1>6, <1>7, <1>8, <1>9, <1>10, <1>11, <1>12,
     <1>13 DEF Next, AlertStep

\* In every reachable state each variable has its type.
THEOREM TypeCorrect == Spec => []TypeOK
<1>1. Init => TypeOK
  BY DEF Init, TypeOK, NoRows, IsTable, Nothing
<1> QED
  BY <1>1, TypeInductive, PTL DEF Spec

-----------------------------------------------------------------------------
(* No alert is lost.  The list of alerted items, and the channels before   *)
(* next[r] for the item the loop is at, carry the evidence from the sends  *)
(* to the mark; the history of sends only grows.                           *)

\* What a replica has put on its list went through every channel.
ListIsDelivered == \A r \in Replica : \A i \in alerted[r] :
    \A c \in Channel : sends[i][c] >= 1

\* The current item went through the channels before the next one.
CurrentIsPartlyDelivered == \A r \in Replica : \A i \in Item :
    IsCurrent(r, i) => \A c \in Channel : c < next[r] => sends[i][c] >= 1

DeliveryInv == MarkedMeansDelivered /\ ListIsDelivered /\ CurrentIsPartlyDelivered

\* The loop is at one item at a time.
LEMMA CurrentIsUnique ==
    ASSUME TypeOK, NEW r \in Replica, NEW i \in Item, NEW j \in Item,
           IsCurrent(r, i), IsCurrent(r, j)
    PROVE  i = j
<1>1. Rank[i] \in Nat /\ Rank[j] \in Nat /\ Rank[i] <= Rank[j] /\ Rank[j] <= Rank[i]
  BY AlertAssumption DEF IsCurrent
<1> QED
  BY <1>1, AlertAssumption

\* The history of sends only grows.
LEMMA SendsGrow ==
    ASSUME TypeOK, [Next]_vars
    PROVE  \A i \in Item, c \in Channel : sends'[i][c] >= sends[i][c]
<1>1. ASSUME sends' = sends PROVE \A i \in Item, c \in Channel : sends'[i][c] >= sends[i][c]
  BY <1>1 DEF TypeOK
<1>2. ASSUME NEW i \in Item, NEW c \in Channel, sends' = [sends EXCEPT ![i][c] = @ + 1]
      PROVE  \A j \in Item, d \in Channel : sends'[j][d] >= sends[j][d]
  BY <1>2, SendsType DEF TypeOK
<1>3. ASSUME NEW r \in Replica, Send(r) \/ SendFails(r)
      PROVE  \A i \in Item, c \in Channel : sends'[i][c] >= sends[i][c]
  <2>1. \/ sends' = sends
        \/ /\ next[r] <= Channels
           /\ \E i \in Item : sends' = [sends EXCEPT ![i][next[r]] = @ + 1]
    BY <1>3 DEF Send, SendFails
  <2> QED
    BY <1>1, <1>2, <2>1, ChannelInRange
<1> QED
  BY <1>1, <1>3 DEF Next, AlertStep, Upsert, UpsertSamples, Prune, PruneCommit, Query, ItemDone,
                    LoopDone, MarkAlerted, Crash, Tick, vars

\* Every step keeps DeliveryInv.
LEMMA DeliveryInductive == TypeOK /\ TypeOK' /\ DeliveryInv /\ [Next]_vars => DeliveryInv'
<1> SUFFICES ASSUME TypeOK, TypeOK', DeliveryInv, [Next]_vars PROVE DeliveryInv'
  OBVIOUS
<1>0. /\ MarkedMeansDelivered /\ ListIsDelivered /\ CurrentIsPartlyDelivered
      /\ \A i \in Item, c \in Channel : /\ sends[i][c] \in Nat /\ sends'[i][c] \in Nat
                                        /\ sends'[i][c] >= sends[i][c]
  BY SendsGrow DEF DeliveryInv, TypeOK
<1>1. ASSUME NEW i \in Item, \A c \in Channel : sends[i][c] >= 1
      PROVE  \A c \in Channel : sends'[i][c] >= 1
  BY <1>0, <1>1
<1>2. MarkedMeansDelivered'
  <2>1. ASSUME DOMAIN marks' \subseteq DOMAIN marks PROVE MarkedMeansDelivered'
    BY <1>0, <1>1, <2>1 DEF MarkedMeansDelivered, TypeOK
  <2>2. ASSUME NEW r \in Replica, MarkAlerted(r) PROVE MarkedMeansDelivered'
    <3>1. DOMAIN marks' \subseteq DOMAIN marks \cup alerted[r]
      BY <2>2 DEF MarkAlerted, Marked
    <3>2. \A i \in DOMAIN marks \cup alerted[r] :
             i \in Item /\ \A c \in Channel : sends[i][c] >= 1
      BY <1>0 DEF MarkedMeansDelivered, ListIsDelivered, TypeOK
    <3> QED
      BY <1>1, <3>1, <3>2 DEF MarkedMeansDelivered
  <2> QED
    BY <2>1, <2>2 DEF Next, AlertStep, Upsert, UpsertSamples, Prune, PruneCommit, Query, Send, ItemDone,
                      SendFails, LoopDone, Crash, Tick, vars
<1>3. ListIsDelivered'
  <2>1. ASSUME \A q \in Replica : alerted'[q] \subseteq alerted[q] PROVE ListIsDelivered'
    BY <1>0, <1>1, <2>1 DEF ListIsDelivered, TypeOK
  <2>2. ASSUME NEW r \in Replica, ItemDone(r) PROVE ListIsDelivered'
    <3>1. PICK i \in Item : /\ IsCurrent(r, i) /\ next[r] > Channels
                            /\ alerted' = [alerted EXCEPT ![r] = @ \cup {i}]
      BY <2>2 DEF ItemDone
    <3>2. \A c \in Channel : c < next[r]
      BY <3>1, AlertAssumption DEF Channel, TypeOK
    <3>3. \A c \in Channel : sends[i][c] >= 1
      BY <1>0, <3>1, <3>2 DEF CurrentIsPartlyDelivered
    <3>4. \A q \in Replica : alerted'[q] \subseteq alerted[q] \cup {i} /\ alerted'[q] \subseteq Item
      BY <3>1 DEF TypeOK
    <3>5. ASSUME NEW q \in Replica, NEW j \in alerted'[q]
          PROVE  j \in Item /\ ((q = r /\ j = i) \/ j \in alerted[q])
      BY <3>1, <3>4 DEF TypeOK
    <3> QED
      BY <1>0, <1>1, <3>3, <3>5 DEF ListIsDelivered
  <2>3. ASSUME NEW r \in Replica, Query(r) \/ MarkAlerted(r) \/ Crash(r)
        PROVE  \A q \in Replica : alerted'[q] \subseteq alerted[q]
    BY <2>3 DEF Query, MarkAlerted, Crash, TypeOK
  <2> QED
    BY <2>1, <2>2, <2>3 DEF Next, AlertStep, Upsert, UpsertSamples, Prune, PruneCommit, Send,
                            SendFails, LoopDone, Tick, vars
<1>4. CurrentIsPartlyDelivered'
  \* A replica that starts at a new item, or stops, has nothing to show.
  <2>1. ASSUME NEW r \in Replica, next'[r] = 1,
               \A q \in Replica \ {r} :
                  next'[q] = next[q] /\ todo'[q] = todo[q] /\ pc'[q] = pc[q]
        PROVE  CurrentIsPartlyDelivered'
    <3>1. ASSUME NEW q \in Replica, NEW i \in Item, NEW c \in Channel,
                 IsCurrent(q, i)', c < next'[q]
          PROVE  sends'[i][c] >= 1
      <4>1. q # r
        BY <2>1, <3>1, AlertAssumption DEF Channel
      <4>2. IsCurrent(q, i) /\ c < next[q]
        BY <2>1, <3>1, <4>1 DEF IsCurrent
      <4> QED
        BY <1>0, <4>2 DEF CurrentIsPartlyDelivered
    <3> QED
      BY <3>1 DEF CurrentIsPartlyDelivered
  <2>2. ASSUME UNCHANGED <<next, todo, pc>> PROVE CurrentIsPartlyDelivered'
    BY <1>0, <2>2 DEF CurrentIsPartlyDelivered, IsCurrent
  <2>3. ASSUME NEW r \in Replica, Send(r) PROVE CurrentIsPartlyDelivered'
    <3>1. PICK i \in Item : /\ IsCurrent(r, i) /\ next[r] <= Channels
                            /\ sends' = [sends EXCEPT ![i][next[r]] = @ + 1]
      BY <2>3 DEF Send
    <3>2. /\ next' = [next EXCEPT ![r] = @ + 1]
          /\ UNCHANGED <<todo, pc>>
      BY <2>3 DEF Send
    <3>3. next[r] \in Channel /\ sends'[i][next[r]] >= 1
      BY <1>0, <3>1, ChannelInRange, SendsType DEF TypeOK
    <3>4. ASSUME NEW q \in Replica, NEW j \in Item, NEW c \in Channel,
                 IsCurrent(q, j)', c < next'[q]
          PROVE  sends'[j][c] >= 1
      <4>1. IsCurrent(q, j)
        BY <3>2, <3>4 DEF IsCurrent
      <4>2. CASE q # r
        BY <1>0, <3>2, <3>4, <4>1, <4>2 DEF CurrentIsPartlyDelivered, TypeOK
      <4>3. CASE q = r
        <5>1. j = i
          BY <3>1, <4>1, <4>3, CurrentIsUnique
        <5>2. c < next[r] \/ c = next[r]
          <6>1. next'[r] = next[r] + 1 /\ next[r] \in Nat
            BY <3>2 DEF TypeOK
          <6>2. c \in Nat
            BY AlertAssumption DEF Channel
          <6> QED
            BY <3>4, <4>3, <6>1, <6>2
        <5> QED
          BY <1>0, <3>1, <3>3, <5>1, <5>2 DEF CurrentIsPartlyDelivered
      <4> QED
        BY <4>2, <4>3
    <3> QED
      BY <3>4 DEF CurrentIsPartlyDelivered
  <2>4. ASSUME NEW r \in Replica, LoopDone(r) \/ MarkAlerted(r) \/ Prune(r) \/ PruneCommit(r)
        PROVE  CurrentIsPartlyDelivered'
    <3>1. /\ UNCHANGED <<next, todo>>
          /\ \A q \in Replica : pc'[q] = "sending" => pc[q] = "sending"
      BY <2>4 DEF LoopDone, MarkAlerted, Prune, PruneCommit, TypeOK
    <3> QED
      BY <1>0, <3>1 DEF CurrentIsPartlyDelivered, IsCurrent
  <2>5. ASSUME NEW r \in Replica, Query(r) \/ ItemDone(r) \/ SendFails(r) \/ Crash(r)
        PROVE  CurrentIsPartlyDelivered'
    <3>1. /\ next'[r] = 1
          /\ \A q \in Replica \ {r} :
                next'[q] = next[q] /\ todo'[q] = todo[q] /\ pc'[q] = pc[q]
      BY <2>5 DEF Query, ItemDone, SendFails, Crash, TypeOK
    <3> QED
      BY <2>1, <3>1
  <2> QED
    BY <2>2, <2>3, <2>4, <2>5 DEF Next, AlertStep, Upsert, UpsertSamples, Tick, vars
<1> QED
  BY <1>2, <1>3, <1>4 DEF DeliveryInv

\* An item is marked only after every configured channel took it.
THEOREM NoAlertIsLost == Spec => []MarkedMeansDelivered
<1>1. Init => DeliveryInv
  BY DEF Init, DeliveryInv, MarkedMeansDelivered, ListIsDelivered,
         CurrentIsPartlyDelivered, IsCurrent
<1>2. DeliveryInv => MarkedMeansDelivered
  BY DEF DeliveryInv
<1> QED
  BY <1>1, <1>2, TypeCorrect, DeliveryInductive, PTL DEF Spec

-----------------------------------------------------------------------------
(* Repeats, for a single replica.  A pair (item, channel) is charged while *)
(* something says that the channel has the item: the mark of a row that is *)
(* there, the list of the run, or the position of the loop.  A channel     *)
(* gets an item only when the pair is not charged, and a charge is lost    *)
(* only to a fault or with the row: the mark of a row that stays is kept,  *)
(* and a mark that outlives its row no longer counts when it is pruned.    *)

Solo == \A r, q \in Replica : r = q

Charged(i, c) ==
    \/ i \in DOMAIN marks /\ i \in DOMAIN table
    \/ \E r \in Replica : i \in alerted[r] \/ (IsCurrent(r, i) /\ c < next[r])

ChargeAt(i, c) ==
    /\ sends[i][c] <= 1 + faults + departed[i]
    /\ ~Charged(i, c) => sends[i][c] <= faults + departed[i]

\* A run deals only with items that are neither marked nor on its list.
RunIsFresh == \A r \in Replica :
    /\ pc[r] \in {"idle", "pruning"} => alerted[r] = {}
    /\ pc[r] = "sending" => todo[r] \cap (DOMAIN marks \cup alerted[r]) = {}

\* The items of a run have rows, and the rows and marks of a prune under way are
\* the ones its statements saw: nobody else writes.
RunSeesRows == \A r \in Replica :
    /\ pc[r] = "sending" => todo[r] \subseteq DOMAIN table
    /\ alerted[r] \subseteq DOMAIN table
    /\ pc[r] # "pruning" => doomed[r] = Nothing
    /\ doomed[r].marks \cap DOMAIN table \subseteq doomed[r].rows

RepeatsInv == RunIsFresh /\ RunSeesRows /\ \A i \in Item, c \in Channel : ChargeAt(i, c)

\* With one replica no step marks an item the run still has to send.
LEMMA FreshInductive == Solo /\ TypeOK /\ RunIsFresh /\ [Next]_vars => RunIsFresh'
<1> SUFFICES ASSUME Solo, TypeOK, RunIsFresh, [Next]_vars PROVE RunIsFresh'
  OBVIOUS
<1> USE DEF RunIsFresh
<1>1. ASSUME UNCHANGED <<pc, alerted, todo>>, DOMAIN marks' \subseteq DOMAIN marks
      PROVE  RunIsFresh'
  BY <1>1
<1>2. ASSUME NEW r \in Replica, Query(r) PROVE RunIsFresh'
  BY <1>2 DEF Query, Newest, Unalerted, TypeOK
<1>3. ASSUME NEW r \in Replica, Send(r) PROVE RunIsFresh'
  BY <1>1, <1>3 DEF Send
<1>4. ASSUME NEW r \in Replica, ItemDone(r) PROVE RunIsFresh'
  BY <1>4 DEF ItemDone, IsCurrent, TypeOK
<1>5. ASSUME NEW r \in Replica, SendFails(r) PROVE RunIsFresh'
  BY <1>5 DEF SendFails, TypeOK
<1>6. ASSUME NEW r \in Replica, LoopDone(r) PROVE RunIsFresh'
  BY <1>6 DEF LoopDone, TypeOK
<1>7. ASSUME NEW r \in Replica, MarkAlerted(r) PROVE RunIsFresh'
  BY <1>7 DEF MarkAlerted, Solo, TypeOK
<1>8. ASSUME NEW r \in Replica, Crash(r) PROVE RunIsFresh'
  BY <1>8 DEF Crash, TypeOK
<1>9. ASSUME NEW r \in Replica, Upsert(r) \/ UpsertSamples(r) PROVE RunIsFresh'
  BY <1>1, <1>9 DEF Upsert, UpsertSamples
<1>11. ASSUME NEW r \in Replica, Prune(r) \/ PruneCommit(r) PROVE RunIsFresh'
  BY <1>11 DEF Prune, PruneCommit, Solo, TypeOK
<1>10. CASE Tick \/ UNCHANGED vars
  BY <1>1, <1>10 DEF Tick, vars
<1> QED
  BY <1>2, <1>3, <1>4, <1>5, <1>6, <1>7, <1>8, <1>9, <1>10, <1>11 DEF Next, AlertStep

\* With one replica no step takes a row from under a run or a prune.
LEMMA SeesRowsInductive ==
    Solo /\ TypeOK /\ RunIsFresh /\ RunSeesRows /\ [Next]_vars => RunSeesRows'
<1> SUFFICES ASSUME Solo, TypeOK, RunIsFresh, RunSeesRows, [Next]_vars PROVE RunSeesRows'
  OBVIOUS
<1> USE DEF RunSeesRows
<1>1. ASSUME NEW r \in Replica, Query(r) PROVE RunSeesRows'
  <2>1. Newest(Unalerted, MaxAlertsPerRun) \subseteq DOMAIN table
    BY DEF Newest, Unalerted, Visible
  <2> QED
    BY <1>1, <2>1 DEF Query, TypeOK
<1>2. ASSUME NEW r \in Replica, Send(r) \/ LoopDone(r) PROVE RunSeesRows'
  BY <1>2 DEF Send, LoopDone, TypeOK
<1>3. ASSUME NEW r \in Replica, ItemDone(r) PROVE RunSeesRows'
  BY <1>3 DEF ItemDone, IsCurrent, TypeOK
<1>4. ASSUME NEW r \in Replica, SendFails(r) PROVE RunSeesRows'
  BY <1>4 DEF SendFails, TypeOK
<1>5. ASSUME NEW r \in Replica, MarkAlerted(r) PROVE RunSeesRows'
  BY <1>5 DEF MarkAlerted, TypeOK
<1>6. ASSUME NEW r \in Replica, Crash(r) PROVE RunSeesRows'
  BY <1>6 DEF Crash, Nothing, TypeOK
\* An upsert only adds rows, and no prune is under way: the only replica is idle.
<1>7. ASSUME NEW r \in Replica, Upsert(r) \/ UpsertSamples(r) PROVE RunSeesRows'
  <2>1. pc[r] = "idle" /\ UNCHANGED <<marks, pc, doomed, todo, alerted>>
    BY <1>7 DEF Upsert, UpsertSamples
  <2>2. DOMAIN table \subseteq DOMAIN table'
    BY <1>7 DEF Upsert, UpsertSamples, UpsertItems
  <2> QED
    BY <2>1, <2>2 DEF Solo, Nothing
<1>8. ASSUME NEW r \in Replica, Prune(r) PROVE RunSeesRows'
  <2> DEFINE rows == Expired(table, now - RetentionDays)
             gone == Forgettable(PruneItems(table, now - RetentionDays), now - RetentionDays)
  <2>1. gone \cap DOMAIN table \subseteq rows
    BY DEF Forgettable, PruneItems
  <2>2. /\ doomed' = [doomed EXCEPT ![r] = [rows |-> rows, marks |-> gone]]
        /\ pc' = [pc EXCEPT ![r] = "pruning"]
        /\ UNCHANGED <<table, todo, alerted>>
    BY <1>8 DEF Prune
  <2> HIDE DEF rows, gone
  <2> QED
    BY <2>1, <2>2 DEF Solo, TypeOK
<1>9. ASSUME NEW r \in Replica, PruneCommit(r) PROVE RunSeesRows'
  <2>1. alerted[r] = {} /\ pc'[r] = "idle" /\ doomed'[r] = Nothing /\ alerted' = alerted
    BY <1>9 DEF PruneCommit, RunIsFresh, TypeOK
  <2> QED
    BY <2>1 DEF Solo, Nothing
<1>10. CASE Tick \/ UNCHANGED vars
  BY <1>10 DEF Tick, vars
<1> QED
  BY <1>1, <1>2, <1>3, <1>4, <1>5, <1>6, <1>7, <1>8, <1>9, <1>10 DEF Next, AlertStep

\* Every step keeps the account of repeated sends.
LEMMA ChargeInductive ==
    Solo /\ TypeOK /\ TypeOK' /\ RepeatsInv /\ [Next]_vars
        => \A i \in Item, c \in Channel : ChargeAt(i, c)'
<1> SUFFICES ASSUME Solo, TypeOK, TypeOK', RepeatsInv, [Next]_vars,
                    NEW i \in Item, NEW c \in Channel
             PROVE  ChargeAt(i, c)'
  OBVIOUS
<1>0. /\ faults \in Nat /\ faults' \in Nat
      /\ departed[i] \in Nat /\ departed'[i] \in Nat
      /\ sends[i][c] \in Nat /\ sends'[i][c] \in Nat
      /\ RunIsFresh /\ RunSeesRows /\ ChargeAt(i, c)
  BY DEF TypeOK, RepeatsInv
\* A step that sends nothing and loses no charge.
<1>1. ASSUME sends'[i][c] = sends[i][c], faults' >= faults, departed'[i] >= departed[i],
             Charged(i, c) => Charged(i, c)'
      PROVE  ChargeAt(i, c)'
  BY <1>0, <1>1 DEF ChargeAt
\* A fault pays for a lost charge, or for one more send of an uncharged pair.
<1>2. ASSUME faults' = faults + 1, departed'[i] = departed[i],
             \/ sends'[i][c] = sends[i][c]
             \/ ~Charged(i, c) /\ sends'[i][c] = sends[i][c] + 1
      PROVE  ChargeAt(i, c)'
  BY <1>0, <1>2 DEF ChargeAt
<1>3. ASSUME NEW r \in Replica, Query(r) PROVE ChargeAt(i, c)'
  <2>1. Charged(i, c) => Charged(i, c)'
    BY <1>0, <1>3 DEF Query, Charged, IsCurrent, RunIsFresh, Solo, TypeOK
  <2> QED
    BY <1>0, <1>1, <1>3, <2>1 DEF Query
\* The pair the loop is at is not charged.
<1>4. ASSUME NEW r \in Replica, IsCurrent(r, i), c = next[r] PROVE ~Charged(i, c)
  BY <1>0, <1>4 DEF Charged, RunIsFresh, IsCurrent, Solo, TypeOK
<1>5. ASSUME NEW r \in Replica, Send(r) PROVE ChargeAt(i, c)'
  <2>1. PICK k \in Item : /\ IsCurrent(r, k) /\ next[r] <= Channels
                          /\ sends' = [sends EXCEPT ![k][next[r]] = @ + 1]
    BY <1>5 DEF Send
  <2>2. /\ next' = [next EXCEPT ![r] = @ + 1]
        /\ UNCHANGED <<faults, table, marks, pc, todo, alerted, departed>>
    BY <1>5 DEF Send
  <2>3. next[r] \in Channel /\ next[r] \in Nat /\ next'[r] = next[r] + 1 /\ c \in Nat
    BY <2>1, <2>2, ChannelInRange, AlertAssumption DEF TypeOK, Channel
  <2>4. /\ sends'[k][next[r]] = sends[k][next[r]] + 1
        /\ <<i, c>> # <<k, next[r]>> => sends'[i][c] = sends[i][c]
    BY <2>1, <2>3, SendsType DEF TypeOK
  <2>5. CASE i = k /\ c = next[r]
    <3>1. ~Charged(i, c) /\ sends'[i][c] = sends[i][c] + 1
      BY <1>4, <2>1, <2>4, <2>5
    <3>2. Charged(i, c)'
      BY <2>1, <2>2, <2>3, <2>5 DEF Charged, IsCurrent
    <3> QED
      BY <1>0, <2>2, <3>1, <3>2 DEF ChargeAt
  <2>6. CASE ~(i = k /\ c = next[r])
    <3>1. Charged(i, c) => Charged(i, c)'
      BY <2>2, <2>3 DEF Charged, IsCurrent, Solo
    <3> QED
      BY <1>0, <1>1, <2>2, <2>4, <2>6, <3>1
  <2> QED
    BY <2>5, <2>6
<1>6. ASSUME NEW r \in Replica, ItemDone(r) PROVE ChargeAt(i, c)'
  <2>1. PICK k \in Item : /\ IsCurrent(r, k)
                          /\ alerted' = [alerted EXCEPT ![r] = @ \cup {k}]
    BY <1>6 DEF ItemDone
  <2>2. UNCHANGED <<sends, faults, departed, table, marks>>
    BY <1>6 DEF ItemDone
  <2>3. alerted'[r] = alerted[r] \cup {k}
    BY <2>1 DEF TypeOK
  <2>4. IsCurrent(r, i) => i = k
    BY <2>1, CurrentIsUnique
  <2>5. Charged(i, c) => Charged(i, c)'
    BY <2>2, <2>3, <2>4 DEF Charged, Solo
  <2> QED
    BY <1>0, <1>1, <2>2, <2>5
<1>7. ASSUME NEW r \in Replica, SendFails(r) PROVE ChargeAt(i, c)'
  <2>1. PICK k \in Item : /\ IsCurrent(r, k) /\ next[r] <= Channels
                          /\ \/ next[r] = 1 /\ UNCHANGED <<faults, sends>>
                             \/ /\ faults' = faults + 1
                                /\ \/ sends' = sends
                                   \/ sends' = [sends EXCEPT ![k][next[r]] = @ + 1]
    BY <1>7 DEF SendFails, Fault
  <2>2. UNCHANGED <<table, marks, alerted, departed>>
    BY <1>7 DEF SendFails
  <2>3. CASE next[r] = 1 /\ UNCHANGED <<faults, sends>>
    <3>1. ~(c < next[r])
      BY <2>3, AlertAssumption DEF Channel
    <3>2. Charged(i, c) => Charged(i, c)'
      BY <2>2, <3>1 DEF Charged, Solo
    <3> QED
      BY <1>0, <1>1, <2>2, <2>3, <3>2
  <2>4. CASE faults' = faults + 1 /\ sends' = sends
    BY <1>2, <2>2, <2>4
  <2>5. CASE faults' = faults + 1 /\ sends' = [sends EXCEPT ![k][next[r]] = @ + 1]
    <3>1. next[r] \in Channel
      BY <2>1, ChannelInRange
    <3>2. /\ sends'[k][next[r]] = sends[k][next[r]] + 1
          /\ <<i, c>> # <<k, next[r]>> => sends'[i][c] = sends[i][c]
      BY <2>5, <3>1, SendsType DEF TypeOK
    <3>3. (i = k /\ c = next[r]) => ~Charged(i, c)
      BY <1>4, <2>1
    <3> QED
      BY <1>2, <2>2, <2>5, <3>2, <3>3
  <2> QED
    BY <2>1, <2>3, <2>4, <2>5
<1>8. ASSUME NEW r \in Replica, LoopDone(r) PROVE ChargeAt(i, c)'
  <2>1. Charged(i, c) => Charged(i, c)'
    BY <1>8 DEF LoopDone, Charged, IsCurrent, Solo
  <2> QED
    BY <1>0, <1>1, <1>8, <2>1 DEF LoopDone
<1>9. ASSUME NEW r \in Replica, MarkAlerted(r) PROVE ChargeAt(i, c)'
  <2>1. CASE marks' = Marked(alerted[r]) /\ faults' = faults
    <3>1. Charged(i, c) => Charged(i, c)'
      BY <1>0, <1>9, <2>1 DEF MarkAlerted, Marked, Charged, IsCurrent, RunSeesRows, Solo
    <3> QED
      BY <1>0, <1>1, <1>9, <2>1, <3>1 DEF MarkAlerted
  <2>2. CASE faults' = faults + 1
    BY <1>2, <1>9, <2>2 DEF MarkAlerted
  <2> QED
    BY <1>9, <2>1, <2>2 DEF MarkAlerted, Fault
<1>10. ASSUME NEW r \in Replica, Crash(r) PROVE ChargeAt(i, c)'
  BY <1>2, <1>10 DEF Crash, Fault
<1>11. ASSUME NEW r \in Replica, PruneCommit(r) PROVE ChargeAt(i, c)'
  <2>1. UNCHANGED <<sends, todo, next, alerted>> /\ pc[r] = "pruning" /\ pc'[r] = "idle"
    BY <1>11 DEF PruneCommit, TypeOK
  <2>2. CASE faults' = faults + 1 /\ departed' = departed
    BY <1>2, <2>1, <2>2
  <2>3. CASE /\ faults' = faults
             /\ table' = [j \in DOMAIN table \ doomed[r].rows |-> table[j]]
             /\ marks' = [j \in DOMAIN marks \ doomed[r].marks |-> marks[j]]
             /\ departed' = [j \in Item |->
                               IF j \in doomed[r].rows THEN departed[j] + 1 ELSE departed[j]]
    <3>1. CASE i \in doomed[r].rows
      <4>1. departed'[i] = departed[i] + 1
        BY <2>3, <3>1
      <4> QED
        BY <1>0, <2>1, <2>3, <4>1 DEF ChargeAt
    <3>2. CASE i \notin doomed[r].rows
      <4>1. departed'[i] = departed[i]
        BY <2>3, <3>2
      \* The row stays, so its mark was not among the ones to forget.
      <4>2. i \in DOMAIN marks /\ i \in DOMAIN table
               => i \in DOMAIN marks' /\ i \in DOMAIN table'
        BY <1>0, <2>3, <3>2 DEF RunSeesRows
      <4>3. Charged(i, c) => Charged(i, c)'
        BY <2>1, <4>2 DEF Charged, IsCurrent, Solo
      <4> QED
        BY <1>0, <1>1, <2>1, <2>3, <4>1, <4>3
    <3> QED
      BY <3>1, <3>2
  <2> QED
    BY <1>11, <2>2, <2>3 DEF PruneCommit, Fault
<1>12. ASSUME UNCHANGED <<sends, faults, departed, marks, todo, next, alerted>>,
              DOMAIN table \subseteq DOMAIN table',
              \A r \in Replica : pc[r] = "sending" => pc'[r] = "sending"
       PROVE  ChargeAt(i, c)'
  <2>1. Charged(i, c) => Charged(i, c)'
    BY <1>12 DEF Charged, IsCurrent
  <2> QED
    BY <1>0, <1>1, <1>12, <2>1
<1>13. ASSUME NEW r \in Replica, Upsert(r) \/ UpsertSamples(r) PROVE ChargeAt(i, c)'
  <2>1. DOMAIN table \subseteq DOMAIN table'
    BY <1>13 DEF Upsert, UpsertSamples, UpsertItems
  <2> QED
    BY <1>12, <1>13, <2>1 DEF Upsert, UpsertSamples
<1>15. ASSUME NEW r \in Replica, Prune(r) PROVE ChargeAt(i, c)'
  BY <1>12, <1>15 DEF Prune, TypeOK
<1>14. CASE Tick \/ UNCHANGED vars
  BY <1>12, <1>14 DEF Tick, vars
<1> QED
  BY <1>3, <1>5, <1>6, <1>7, <1>8, <1>9, <1>10, <1>11, <1>13, <1>14, <1>15
     DEF Next, AlertStep

\* With one replica no channel sees an item again without a fault or a departure
\* of its row, whatever retention does to the marks in between.
THEOREM RepeatsHaveACauseHolds == Solo => (Spec => []RepeatsHaveACause)
<1> SUFFICES ASSUME Solo PROVE Spec => []RepeatsHaveACause
  OBVIOUS
<1>1. Init => RepeatsInv
  BY DEF Init, RepeatsInv, RunIsFresh, RunSeesRows, Nothing, ChargeAt
<1>2. TypeOK /\ TypeOK' /\ RepeatsInv /\ [Next]_vars => RepeatsInv'
  BY FreshInductive, SeesRowsInductive, ChargeInductive DEF RepeatsInv
<1>3. RepeatsInv => RepeatsHaveACause
  BY DEF RepeatsInv, ChargeAt, RepeatsHaveACause
<1> QED
  BY <1>1, <1>2, <1>3, TypeCorrect, PTL DEF Spec
=============================================================================
