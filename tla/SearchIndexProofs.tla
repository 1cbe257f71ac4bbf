------------------------- MODULE SearchIndexProofs -------------------------
(***************************************************************************)
(* Proofs about SearchIndex, for any number of replicas, items and faults  *)
(* and any limit of the reconcile: the types.                              *)
(*                                                                         *)
(* The types are not inductive by themselves: that the rows a replica      *)
(* reads from the archive are of the kind it takes them for rests on the   *)
(* kind of every row in the table, whoever wrote it.                       *)
(***************************************************************************)
EXTENDS SearchIndex, TLAPS

\* A row is marked as what its writer got it from.
RowKinds == \A i \in DOMAIN table :
    (table[i].sample => i \in SampleItem) /\ (~table[i].sample => i \in LiveItem)

\* The same of a document.
DocKinds == \A i \in DOMAIN docs :
    (docs[i] => i \in SampleItem) /\ (~docs[i] => i \in LiveItem)

Work == [live : SUBSET LiveItem, samples : SUBSET SampleItem]

ReplicaOK ==
    /\ phase \in [Replica -> {"idle", "prune", "index", "read", "bulk", "purge"}]
    /\ work \in [Replica -> Work]
    /\ booted \in [Replica -> BOOLEAN] /\ recent \in [Replica -> BOOLEAN]

TableOK == IsTable(table) /\ RowKinds

IndexOK ==
    /\ DOMAIN docs \subseteq Item /\ docs \in [DOMAIN docs -> BOOLEAN]
    /\ DocKinds

\* TypeOK, with the kinds.
SInv == ReplicaOK /\ TableOK /\ IndexOK /\ faults \in 0..MaxFaults

LEMMA TypeFollows == SInv => TypeOK
BY DEF SInv, TypeOK, ReplicaOK, TableOK, IndexOK, Work

\* Writing rows and deleting them.
LEMMA UpsertKinds ==
    ASSUME NEW T, IsTable(T),
           \A i \in DOMAIN T : (T[i].sample => i \in SampleItem) /\ (~T[i].sample => i \in LiveItem),
           NEW live \in SUBSET LiveItem, NEW samples \in SUBSET SampleItem
    PROVE  LET U == UpsertItems(T, live, samples, 1)
           IN  /\ IsTable(U)
               /\ \A i \in DOMAIN U : (U[i].sample => i \in SampleItem)
                                      /\ (~U[i].sample => i \in LiveItem)
<1> DEFINE U == UpsertItems(T, live, samples, 1)
<1>1. DOMAIN U = DOMAIN T \cup live \cup samples /\ U = [i \in DOMAIN U |-> U[i]]
  BY DEF UpsertItems
<1>2. \A i \in live \cup samples : U[i] = [sample |-> i \notin live, seen |-> 1]
  BY DEF UpsertItems
<1>3. \A i \in DOMAIN U \ (live \cup samples) : U[i] = T[i] /\ i \in DOMAIN T
  BY DEF UpsertItems
<1> HIDE DEF U
<1>4. \A i \in DOMAIN U : /\ U[i] \in Row /\ i \in Item
                          /\ (U[i].sample => i \in SampleItem)
                          /\ (~U[i].sample => i \in LiveItem)
  <2> SUFFICES ASSUME NEW i \in DOMAIN U
               PROVE  /\ U[i] \in Row /\ i \in Item
                      /\ (U[i].sample => i \in SampleItem)
                      /\ (~U[i].sample => i \in LiveItem)
    OBVIOUS
  <2>1. CASE i \in live \cup samples
    <3>1. (i \notin live) \in BOOLEAN /\ 1 \in Nat
      OBVIOUS
    <3>2. U[i] = [sample |-> i \notin live, seen |-> 1]
      BY <1>2, <2>1
    <3>3. U[i] \in Row
      BY <3>1, <3>2 DEF Row
    <3>4. U[i].sample = (i \notin live)
      BY <3>2
    <3>5. (i \in live => i \in LiveItem) /\ (i \notin live => i \in SampleItem)
      BY <2>1
    <3> QED  BY Zenon, <2>1, <3>3, <3>4, <3>5 DEF Item
  <2>2. CASE i \notin live \cup samples
    BY <1>3, <2>2 DEF IsTable
  <2> QED  BY <2>1, <2>2
<1> QED
  BY <1>1, <1>4 DEF IsTable, U

LEMMA PruneKinds ==
    ASSUME TypeOK, RowKinds
    PROVE  LET U == PruneItems(table, 1)
           IN  /\ IsTable(U)
               /\ \A i \in DOMAIN U : (U[i].sample => i \in SampleItem)
                                      /\ (~U[i].sample => i \in LiveItem)
BY DEF TypeOK, RowKinds, PruneItems, Expired, IsTable

\* Writing documents.
LEMMA BulkKinds ==
    ASSUME TypeOK, DocKinds, NEW live \in SUBSET LiveItem, NEW samples \in SUBSET SampleItem,
           Bulk(live, samples)
    PROVE  /\ DOMAIN docs' \subseteq Item /\ docs' \in [DOMAIN docs' -> BOOLEAN]
           /\ DocKinds'
<1>0. PICK refused \in SUBSET (live \cup samples) :
         LET written == (live \cup samples) \ refused
         IN  docs' = [i \in DOMAIN docs \cup written |->
                         IF i \in written THEN i \notin live ELSE docs[i]]
  BY DEF Bulk
<1> DEFINE W == (live \cup samples) \ refused
<1>1. /\ DOMAIN docs' = DOMAIN docs \cup W
      /\ docs' = [i \in DOMAIN docs' |-> docs'[i]]
      /\ \A i \in DOMAIN docs \cup W : docs'[i] = IF i \in W THEN i \notin live ELSE docs[i]
  BY <1>0
<1>2. W \subseteq live \cup samples
  OBVIOUS
<1> HIDE DEF W
<1>3. ASSUME NEW i \in DOMAIN docs'
      PROVE  /\ i \in Item /\ docs'[i] \in BOOLEAN
             /\ (docs'[i] => i \in SampleItem) /\ (~docs'[i] => i \in LiveItem)
  <2>1. CASE i \in W
    <3>1. docs'[i] = (i \notin live) /\ (i \in live \/ i \in samples)
      BY <1>1, <1>2, <2>1
    <3> QED  BY Zenon, <3>1 DEF Item
  <2>2. CASE i \notin W
    BY <1>1, <2>2 DEF TypeOK, DocKinds
  <2> QED  BY <2>1, <2>2
<1> QED
  BY <1>1, <1>3 DEF DocKinds

-----------------------------------------------------------------------------
(* Every step keeps the invariant.                                         *)

LEMMA SearchInit == Init => SInv
<1> SUFFICES ASSUME Init PROVE SInv
  OBVIOUS
<1>1. NoWork \in Work
  BY DEF NoWork, Work
<1>2. IsTable(table) /\ DOMAIN table = {}
  BY DEF Init, NoRows, IsTable
<1>3. DOMAIN docs = {} /\ docs \in [DOMAIN docs -> BOOLEAN]
  BY DEF Init, NoDocs
<1>4. TableOK /\ IndexOK
  BY <1>2, <1>3 DEF Init, TableOK, IndexOK, RowKinds, DocKinds
<1>5. ReplicaOK
  BY <1>1 DEF Init, ReplicaOK
<1> QED
  BY <1>4, <1>5, SearchAssumption DEF Init, SInv

LEMMA FaultCounted ==
    ASSUME faults \in 0..MaxFaults, Fault \/ UNCHANGED faults PROVE faults' \in 0..MaxFaults
BY SearchAssumption DEF Fault

\* A replica goes to another phase.
LEMMA Moves ==
    ASSUME ReplicaOK, NEW r \in Replica,
           NEW p \in {"idle", "prune", "index", "read", "bulk", "purge"}, Goto(r, p),
           NEW w \in Work, work' = work \/ work' = [work EXCEPT ![r] = w],
           booted' \in [Replica -> BOOLEAN], recent' \in [Replica -> BOOLEAN]
    PROVE  ReplicaOK'
BY DEF Goto, ReplicaOK

LEMMA SyncEnds ==
    ASSUME ReplicaOK, NEW r \in Replica, NEW count, SyncDone(r, count) PROVE ReplicaOK'
<1>1. NoWork \in Work
  BY DEF NoWork, Work
<1>2. booted' \in [Replica -> BOOLEAN]
  BY DEF SyncDone, ReplicaOK
<1>3. recent' \in [Replica -> BOOLEAN]
  BY DEF SyncDone, ReplicaOK
<1> QED
  BY <1>1, <1>2, <1>3, Moves DEF SyncDone

LEMMA StepKeeps == ASSUME SInv, NEW r \in Replica, SearchStep(r) PROVE SInv'
<1>0. ReplicaOK /\ TableOK /\ IndexOK /\ faults \in 0..MaxFaults
  BY DEF SInv
<1>1. NoWork \in Work /\ TypeOK /\ DocKinds /\ RowKinds
  BY <1>0, TypeFollows DEF NoWork, Work, TableOK, IndexOK
<1>2. booted \in [Replica -> BOOLEAN] /\ recent \in [Replica -> BOOLEAN] /\ work[r] \in Work
  BY <1>0 DEF ReplicaOK
<1>3. UNCHANGED table => TableOK'
  BY <1>0 DEF TableOK, RowKinds
<1>4. UNCHANGED docs => IndexOK'
  BY <1>0 DEF IndexOK, DocKinds
<1>5. UNCHANGED faults \/ Fault => faults' \in 0..MaxFaults
  BY <1>0, FaultCounted
<1>6. \A ok \in BOOLEAN : Works(ok) => UNCHANGED faults \/ Fault
  BY DEF Works
<1>7. ASSUME NEW live \in SUBSET LiveItem, NEW samples \in SUBSET SampleItem,
             table' = UpsertItems(table, live, samples, 1)
      PROVE  TableOK'
  <2>1. LET U == UpsertItems(table, live, samples, 1)
        IN  /\ IsTable(U)
            /\ \A i \in DOMAIN U : (U[i].sample => i \in SampleItem)
                                   /\ (~U[i].sample => i \in LiveItem)
    BY <1>0, UpsertKinds DEF TableOK, RowKinds
  <2> QED  BY <1>7, <2>1 DEF TableOK, RowKinds
<1>8. ASSUME NEW live \in SUBSET LiveItem, NEW samples \in SUBSET SampleItem, Bulk(live, samples)
      PROVE  IndexOK' /\ faults' \in 0..MaxFaults
  <2>1. UNCHANGED faults \/ Fault
    BY <1>8 DEF Bulk, Works
  <2> QED  BY <1>1, <1>5, <1>8, <2>1, BulkKinds DEF IndexOK
<1>9. CASE Boot(r)
  <2>1. TableOK'
    BY <1>3, <1>7, <1>9 DEF Boot
  <2>2. ReplicaOK'
    BY <1>0, <1>1, <1>2, <1>9, Moves DEF Boot
  <2> QED  BY <1>4, <1>5, <1>9, <2>1, <2>2 DEF SInv, Boot
<1>10. CASE Persist(r)
  <2>1. PICK live \in SUBSET LiveItem, samples \in {{}, SampleItem}, ok \in BOOLEAN :
           /\ Works(ok)
           /\ table' = IF ok THEN UpsertItems(table, live, samples, 1) ELSE table
           /\ work' = [work EXCEPT ![r] = [live |-> live, samples |-> samples \ live]]
           /\ Goto(r, "prune")
           /\ UNCHANGED <<docs, booted, recent>>
    BY <1>10 DEF Persist
  <2>2. samples \in SUBSET SampleItem /\ [live |-> live, samples |-> samples \ live] \in Work
    BY DEF Work
  <2>3. TableOK'
    BY <1>3, <1>7, <2>1, <2>2
  <2>4. ReplicaOK'
    BY <1>0, <1>2, <2>1, <2>2, Moves
  <2> QED  BY <1>4, <1>5, <1>6, <2>1, <2>3, <2>4 DEF SInv
<1>11. CASE Prune(r)
  <2>1. table' = table \/ table' = PruneItems(table, 1)
    BY <1>11 DEF Prune
  <2>2. TableOK'
    <3>1. LET U == PruneItems(table, 1)
          IN  /\ IsTable(U)
              /\ \A i \in DOMAIN U : (U[i].sample => i \in SampleItem)
                                     /\ (~U[i].sample => i \in LiveItem)
      BY <1>1, PruneKinds
    <3> QED  BY <1>3, <2>1, <3>1 DEF TableOK, RowKinds
  <2>3. ReplicaOK'
    BY <1>0, <1>1, <1>2, <1>11, Moves DEF Prune
  <2> QED  BY <1>4, <1>5, <1>11, <2>2, <2>3 DEF SInv, Prune
<1>13. CASE IndexItems(r)
  <2>1. /\ Bulk(work[r].live, {}) \/ (Fault /\ UNCHANGED docs)
        /\ Goto(r, IF recent[r] THEN "idle" ELSE "read")
        /\ work' = [work EXCEPT ![r] = NoWork]
        /\ UNCHANGED <<table, booted, recent>>
    BY <1>13 DEF IndexItems
  <2>2. work[r].live \in SUBSET LiveItem /\ {} \in SUBSET SampleItem
    BY <1>2 DEF Work
  <2>3. IndexOK' /\ faults' \in 0..MaxFaults
    BY <1>4, <1>5, <1>8, <2>1, <2>2
  <2>4. ReplicaOK'
    <3>1. (IF recent[r] THEN "idle" ELSE "read") \in {"idle", "read"}
      OBVIOUS
    <3> QED  BY <1>0, <1>1, <1>2, <2>1, <3>1, Moves
  <2> QED  BY <1>3, <2>1, <2>3, <2>4 DEF SInv
<1>14. CASE ReadArchive(r)
  <2>1. UNCHANGED <<table, docs>>
    BY <1>14 DEF ReadArchive
  <2>2. CASE Fault /\ SyncDone(r, 0)
    BY <1>0, <1>3, <1>4, <1>5, <2>1, <2>2, SyncEnds DEF SInv
  <2>3. CASE ~(Fault /\ SyncDone(r, 0))
    <3>1. PICK rows \in SUBSET DOMAIN table :
             /\ work' = [work EXCEPT ![r] = [live    |-> rows \cap LiveRows(table),
                                            samples |-> rows \ LiveRows(table)]]
             /\ Goto(r, "bulk")
             /\ UNCHANGED <<booted, recent, faults>>
      BY <1>14, <2>3 DEF ReadArchive
    <3> DEFINE read == [live |-> rows \cap LiveRows(table), samples |-> rows \ LiveRows(table)]
    <3>2. read \in Work
      BY <1>1 DEF Work, RowKinds, LiveRows
    <3> HIDE DEF read
    <3>3. ReplicaOK'
      BY <1>0, <1>2, <3>1, <3>2, Moves DEF read
    <3> QED  BY <1>3, <1>4, <1>5, <2>1, <3>1, <3>3 DEF SInv
  <2> QED  BY <2>2, <2>3
<1>15. CASE BulkArchive(r)
  <2>1. UNCHANGED table
    BY <1>15 DEF BulkArchive
  <2>2. CASE Fault /\ SyncDone(r, 0) /\ UNCHANGED docs
    BY <1>0, <1>3, <1>4, <1>5, <2>1, <2>2, SyncEnds DEF SInv
  <2>3. CASE ~(Fault /\ SyncDone(r, 0) /\ UNCHANGED docs)
    <3>1. /\ Bulk(work[r].live, work[r].samples)
          /\ \/ Goto(r, "purge") /\ UNCHANGED <<work, booted, recent>>
             \/ SyncDone(r, Count(work[r]))
      BY <1>15, <2>3 DEF BulkArchive
    <3>2. IndexOK' /\ faults' \in 0..MaxFaults
      BY <1>2, <1>8, <3>1 DEF Work
    <3>3. ReplicaOK'
      BY <1>0, <1>1, <1>2, <3>1, SyncEnds, Moves
    <3> QED  BY <1>3, <2>1, <3>2, <3>3 DEF SInv
  <2> QED  BY <2>2, <2>3
<1>16. CASE Purge(r)
  <2>1. PICK ok \in BOOLEAN :
           /\ Works(ok)
           /\ docs' = IF ok THEN [i \in {j \in DOMAIN docs : ~docs[j]} |-> docs[i]] ELSE docs
           /\ SyncDone(r, Count(work[r]))
           /\ UNCHANGED table
    BY <1>16 DEF Purge
  <2>2. IndexOK'
    <3>1. CASE ok
      <4> DEFINE D == {j \in DOMAIN docs : ~docs[j]}
      <4>1. docs' = [i \in D |-> docs[i]] /\ D \subseteq DOMAIN docs
        BY <2>1, <3>1
      <4>2. DOMAIN docs' = D /\ \A i \in D : docs'[i] = docs[i] /\ docs[i] \in BOOLEAN
        BY <1>0, <4>1 DEF IndexOK
      <4> HIDE DEF D
      <4>3. docs' \in [DOMAIN docs' -> BOOLEAN] /\ DocKinds'
        BY <1>0, <4>1, <4>2 DEF IndexOK, DocKinds
      <4> QED  BY <1>0, <4>1, <4>2, <4>3 DEF IndexOK
    <3>2. CASE ~ok
      BY <1>4, <2>1, <3>2
    <3> QED  BY <3>1, <3>2
  <2>3. ReplicaOK'
    BY <1>0, <2>1, SyncEnds
  <2> QED  BY <1>3, <1>5, <1>6, <2>1, <2>2, <2>3 DEF SInv
<1> QED
  BY <1>9, <1>10, <1>11, <1>13, <1>14, <1>15, <1>16 DEF SearchStep

LEMMA SearchNext == SInv /\ [Next]_vars => SInv'
<1> SUFFICES ASSUME SInv, [Next]_vars PROVE SInv'
  OBVIOUS
<1>0. ReplicaOK /\ TableOK /\ IndexOK /\ faults \in 0..MaxFaults
  BY DEF SInv
<1>1. CASE UNCHANGED vars
  BY <1>0, <1>1 DEF SInv, vars, ReplicaOK, TableOK, RowKinds, IndexOK, DocKinds
<1>2. ASSUME NEW r \in Replica, IntervalPasses(r) PROVE SInv'
  <2>1. ReplicaOK'
    BY <1>0, <1>2 DEF IntervalPasses, ReplicaOK
  <2> QED
    BY <1>0, <1>2, <2>1 DEF SInv, IntervalPasses, TableOK, RowKinds, IndexOK, DocKinds
<1>3. ASSUME NEW r \in Replica, Crash(r) PROVE SInv'
  <2>1. NoWork \in Work /\ Goto(r, "idle") /\ work' = [work EXCEPT ![r] = NoWork]
    BY <1>3 DEF Crash, Goto, NoWork, Work
  <2>2. booted' \in [Replica -> BOOLEAN] /\ recent' \in [Replica -> BOOLEAN]
    BY <1>0, <1>3 DEF Crash, ReplicaOK
  <2>3. ReplicaOK'
    BY <1>0, <2>1, <2>2, Moves
  <2>4. faults' \in 0..MaxFaults
    BY <1>0, <1>3, FaultCounted DEF Crash
  <2> QED
    BY <1>0, <1>3, <2>3, <2>4 DEF SInv, Crash, TableOK, RowKinds, IndexOK, DocKinds
<1>4. CASE Age
  <2>1. PICK i \in DOMAIN table : table' = [table EXCEPT ![i].seen = 0]
    BY <1>4 DEF Age
  <2>2. UNCHANGED <<docs, phase, work, booted, recent, faults>>
    BY <1>4 DEF Age
  <2>3. TableOK'
    <3>1. table[i] \in Row /\ table = [j \in DOMAIN table |-> table[j]]
      BY <1>0 DEF TableOK, IsTable
    <3>2. [table[i] EXCEPT !.seen = 0] \in Row /\ [table[i] EXCEPT !.seen = 0].sample = table[i].sample
      BY <3>1 DEF Row
    <3>3. /\ DOMAIN table' = DOMAIN table /\ table' = [j \in DOMAIN table' |-> table'[j]]
          /\ table'[i] = [table[i] EXCEPT !.seen = 0]
          /\ \A j \in DOMAIN table \ {i} : table'[j] = table[j]
      BY <2>1, <3>1
    <3>4. ASSUME NEW j \in DOMAIN table
          PROVE  table'[j] \in Row /\ table'[j].sample = table[j].sample
      <4>1. table[j] \in Row
        BY <1>0 DEF TableOK, IsTable
      <4>2. CASE j = i
        BY <3>2, <3>3, <4>2
      <4>3. CASE j # i
        BY <3>3, <4>1, <4>3
      <4> QED  BY <4>2, <4>3
    <3> QED  BY <1>0, <3>3, <3>4 DEF TableOK, IsTable, RowKinds
  <2> QED
    BY <1>0, <2>2, <2>3 DEF SInv, ReplicaOK, IndexOK, DocKinds
<1> QED
  BY <1>1, <1>2, <1>3, <1>4, StepKeeps DEF Next

-----------------------------------------------------------------------------
\* The state of archive, index and replicas stays within its types: what
\* sync_archive took for live rows and for samples are such.
THEOREM TypeCorrect == Spec => []TypeOK
<1> QED
  BY TypeFollows, SearchInit, SearchNext, PTL DEF Spec
=============================================================================
