---------------------------- MODULE HistoryProofs ----------------------------
(***************************************************************************)
(* Proofs about History, for any finite set of machines, any totals and    *)
(* any number of batches: a stored batch is what its own threads fetched,  *)
(* and the verdicts belong to the batch that was chosen.                   *)
(*                                                                         *)
(* The first rests on the count of StreamingData: as long as the waiter    *)
(* polls, `remaining` is the number of threads that have not counted, so   *)
(* nothing is loading only when all have (SaveInv).  The second on the     *)
(* button: a task that still runs is one of the last calculation (CalcInv).*)
(***************************************************************************)
EXTENDS History, FiniteSetTheorems, TLAPS

\* Threads that have not counted yet.
Left == {m \in Machines : thread[m] \in {"fetch", "push", "count"}}

SaveTypes ==
    /\ history \in [Batches -> [Machines -> Totals \cup {NoRow}]]
    /\ counter \in [Machines -> Totals]
    /\ thread \in [Machines -> {"idle", "fetch", "push", "count", "done"}]
    /\ got \in [Machines -> Totals \cup {NoRow}]
    /\ items \in [Machines -> Totals \cup {NoRow, Loading}]
    /\ results \in [Machines -> Totals \cup {NoRow, Loading}]
    /\ remaining \in Int /\ loading \in BOOLEAN
    /\ waiter \in {"idle", "poll", "store"}
    /\ saving = (waiter # "idle")

\* What the threads of a save have delivered.
Delivered ==
    waiter = "poll" =>
        /\ \A m \in Machines :
              /\ thread[m] # "idle"
              /\ thread[m] # "fetch" => got[m] # NoRow
              /\ thread[m] \in {"count", "done"} => items[m] = got[m]
        /\ remaining = Cardinality(Left)
        /\ ~loading => Left = {}

\* What the waiter has copied.
Copied == waiter = "store" => \A m \in Machines : results[m] = got[m] /\ got[m] # NoRow

\* Threads run while the waiter polls only.
Quiet == waiter # "poll" => Left = {}

\* The batch that is being saved has a number: deletions only make room.
Room == saving => MaxBatch \notin Present

SaveInv == SaveTypes /\ Delivered /\ Copied /\ Quiet /\ Room

CalcInv ==
    /\ counter \in [Machines -> Totals]
    /\ history \in [Batches -> [Machines -> Totals \cup {NoRow}]]
    /\ base \in [Machines -> Totals \cup {NoRow}]
    /\ shown \in [Machines -> Verdict]
    /\ tasks \subseteq Task
    /\ \A t \in tasks : t.base = base[t.m]
    /\ VerdictIsOfChosen

-----------------------------------------------------------------------------
(* The number of a batch. *)

\* A bounded set of numbers has a largest one.
LEMMA LargestIn ==
    ASSUME NEW n \in Nat, NEW S \in SUBSET (1..n), S # {}
    PROVE  Max(S) \in S /\ \A y \in S : Max(S) >= y
  <1> DEFINE R == OpToRel(<, Nat)
             T == {n - x : x \in S}
  <1>1. T \subseteq Nat
    OBVIOUS
  <1>2. T # {}
    <2>1. PICK s \in S : TRUE
      OBVIOUS
    <2>2. n - s \in T
      BY <2>1
    <2>3. QED
      BY <2>2
  <1>3. \E x \in T : \A y \in T : ~(<<y, x>> \in R)
    <2>1. IsWellFoundedOn(R, Nat)
      BY NatLessThanWellFounded
    <2> HIDE DEF T, R
    <2>2. QED
      BY <1>1, <1>2, <2>1, WFMin
  <1>4. PICK x \in T : \A y \in T : ~(y < x)
    BY <1>1, <1>3 DEF OpToRel
  <1>5. PICK s \in S : x = n - s
    OBVIOUS
  <1>6. \A y \in S : s >= y
    <2>1. TAKE y \in S
    <2>2. n - y \in T
      OBVIOUS
    <2>3. ~(n - y < n - s) /\ y \in Int /\ s \in Int
      BY <1>4, <1>5, <2>2
    <2>4. QED
      BY <2>3
  <1>7. QED
    BY <1>6, Zenon DEF Max

\* As long as the last number is free, there is a next one, and the other way round.
LEMMA NextNumber ==
    /\ MaxBatch \notin Present => NewBatch \in Batches
    /\ NewBatch <= MaxBatch => MaxBatch \notin Present
  <1>1. MaxBatch \in Nat \ {0} /\ Present \in SUBSET (1..MaxBatch)
    BY HistoryAssumption DEF Present, Batches
  <1>2. CASE Present = {}
    BY <1>1, <1>2 DEF NewBatch, Batches
  <1>3. CASE Present # {}
    <2>1. Max(Present) \in Present /\ \A y \in Present : Max(Present) >= y
      BY <1>1, <1>3, LargestIn
    <2>2. NewBatch = Max(Present) + 1 /\ Max(Present) \in 1..MaxBatch
      BY <1>1, <1>3, <2>1 DEF NewBatch
    <2>3. QED
      BY <1>1, <2>1, <2>2 DEF Batches
  <1>4. QED
    BY <1>2, <1>3

-----------------------------------------------------------------------------
(* The save. *)

LEMMA LeftCount ==
    IsFiniteSet(Left) /\ Cardinality(Left) \in Nat
  <1>1. Left \in SUBSET Machines /\ IsFiniteSet(Machines)
    BY HistoryAssumption DEF Left
  <1>2. QED
    BY <1>1, FS_Subset, FS_CardinalityType

\* What does not touch the save.
LEMMA ApartSave ==
    ASSUME SaveInv, UNCHANGED saveVars, Present' \subseteq Present,
           counter' \in [Machines -> Totals],
           history' \in [Batches -> [Machines -> Totals \cup {NoRow}]]
    PROVE  SaveInv'
  BY DEF SaveInv, saveVars, SaveTypes, Delivered, Copied, Quiet, Room, Left

LEMMA ClickSaveStep ==
    ASSUME SaveInv, ClickSave
    PROVE  SaveInv'
  <1>1. /\ saving' = TRUE /\ items' = [m \in Machines |-> Loading]
        /\ remaining' = Cardinality(Machines) /\ loading' = TRUE
        /\ thread' = [m \in Machines |-> "fetch"] /\ got' = Empty /\ waiter' = "poll"
        /\ UNCHANGED <<counter, history, results>> /\ NewBatch <= MaxBatch
    BY DEF ClickSave
  <1>2. Left' = Machines
    BY <1>1 DEF Left
  <1>3. Cardinality(Machines) \in Int
    BY HistoryAssumption, FS_CardinalityType
  <1>4. SaveTypes'
    <2>1. got' \in [Machines -> Totals \cup {NoRow}]
      BY <1>1 DEF Empty
    <2>2. /\ items' \in [Machines -> Totals \cup {NoRow, Loading}]
          /\ thread' \in [Machines -> {"idle", "fetch", "push", "count", "done"}]
      BY <1>1
    <2>3. QED
      BY <1>1, <1>3, <2>1, <2>2 DEF SaveInv, SaveTypes
  <1>5. Delivered'
    BY <1>1, <1>2 DEF Delivered
  <1>6. Copied' /\ Quiet'
    BY <1>1 DEF Copied, Quiet
  <1>7. Room'
    BY <1>1, NextNumber DEF Room, Present
  <1>8. QED
    BY <1>4, <1>5, <1>6, <1>7 DEF SaveInv

\* A thread up to its push: it is still to count.
LEMMA ThreadStep ==
    ASSUME SaveInv, NEW m \in Machines, Fetch(m) \/ Push(m)
    PROVE  SaveInv'
  <1>1. /\ SaveTypes /\ Delivered /\ Quiet /\ Room
        /\ thread[m] \in {"fetch", "push"}
    BY DEF SaveInv, Fetch, Push
  <1>2. waiter = "poll"
    BY <1>1 DEF Quiet, Left
  <1>3. UNCHANGED <<counter, history, saving, remaining, loading, waiter, results>>
    BY DEF Fetch, Push
  <1>4. /\ thread' \in [Machines -> {"idle", "fetch", "push", "count", "done"}]
        /\ \A k \in Machines \ {m} : thread'[k] = thread[k]
        /\ thread'[m] \in {"push", "count"}
    BY <1>1 DEF Fetch, Push, SaveTypes
  <1>5. Left' = Left
    BY <1>1, <1>4 DEF Left
  <1>6. /\ got' \in [Machines -> Totals \cup {NoRow}]
        /\ items' \in [Machines -> Totals \cup {NoRow, Loading}]
    BY <1>1 DEF Fetch, Push, SaveTypes
  <1>7. SaveTypes'
    BY <1>1, <1>3, <1>4, <1>6 DEF SaveTypes
  <1>8. ASSUME NEW k \in Machines
        PROVE  /\ thread'[k] # "idle"
               /\ thread'[k] # "fetch" => got'[k] # NoRow
               /\ thread'[k] \in {"count", "done"} => items'[k] = got'[k]
    <2>1. /\ thread[k] # "idle"
          /\ thread[k] # "fetch" => got[k] # NoRow
          /\ thread[k] \in {"count", "done"} => items[k] = got[k]
      BY <1>1, <1>2 DEF Delivered
    <2>2. CASE k # m
      BY <1>1, <1>4, <2>1, <2>2 DEF Fetch, Push, SaveTypes
    <2>3. CASE k = m /\ Fetch(m)
      <3>1. got'[m] = counter[m] /\ counter[m] \in Totals /\ thread'[m] = "push"
        BY <1>1, <2>3 DEF Fetch, SaveTypes
      <3>2. counter[m] # NoRow
        BY <3>1, HistoryAssumption DEF Totals, NoRow
      <3>3. QED
        BY <2>3, <3>1, <3>2
    <2>4. CASE k = m /\ Push(m)
      BY <1>1, <2>1, <2>4 DEF Push, SaveTypes
    <2>5. QED
      BY <2>2, <2>3, <2>4
  <1>9. Delivered'
    BY <1>1, <1>2, <1>3, <1>5, <1>8 DEF Delivered
  <1>10. Copied' /\ Quiet'
    BY <1>2, <1>3 DEF Copied, Quiet
  <1>11. Room'
    BY <1>1, <1>3 DEF Room, Present
  <1>12. QED
    BY <1>7, <1>9, <1>10, <1>11 DEF SaveInv

\* A thread counts: one less is left, and the last one ends the loading.
LEMMA CountStep ==
    ASSUME SaveInv, NEW m \in Machines, Count(m)
    PROVE  SaveInv'
  <1>1. /\ SaveTypes /\ Delivered /\ Quiet /\ Room
        /\ thread[m] = "count" /\ m \in Left
    BY DEF SaveInv, Count, Left
  <1>2. waiter = "poll" /\ remaining = Cardinality(Left) /\ loading
    BY <1>1 DEF Quiet, Delivered
  <1>3. /\ UNCHANGED <<counter, history, saving, got, items, waiter, results>>
        /\ remaining' = remaining - 1 /\ loading' = (loading /\ remaining > 1)
        /\ thread' = [thread EXCEPT ![m] = "done"]
    BY DEF Count
  <1>4. /\ thread' \in [Machines -> {"idle", "fetch", "push", "count", "done"}]
        /\ \A k \in Machines \ {m} : thread'[k] = thread[k]
        /\ thread'[m] = "done"
    BY <1>1, <1>3 DEF SaveTypes
  <1>5. Left' = Left \ {m}
    BY <1>4 DEF Left
  <1>6. Cardinality(Left') = Cardinality(Left) - 1 /\ IsFiniteSet(Left')
    BY <1>1, <1>5, LeftCount, FS_RemoveElement
  <1>7. SaveTypes'
    <2>1. remaining' \in Int /\ loading' \in BOOLEAN
      BY <1>1, <1>3 DEF SaveTypes
    <2>2. QED
      BY <1>1, <1>3, <1>4, <2>1 DEF SaveTypes
  <1>8. \A k \in Machines :
           /\ thread'[k] # "idle"
           /\ thread'[k] # "fetch" => got'[k] # NoRow
           /\ thread'[k] \in {"count", "done"} => items'[k] = got'[k]
    BY <1>1, <1>2, <1>3, <1>4 DEF Delivered
  <1>9. ~loading' => Left' = {}
    <2>1. ~loading' => Cardinality(Left') = 0
      <3>1. Cardinality(Left) \in Nat /\ Cardinality(Left) # 0
        BY <1>1, LeftCount, FS_EmptySet
      <3>2. ~loading' => ~(remaining > 1)
        BY <1>2, <1>3
      <3>3. ~(remaining > 1) => Cardinality(Left) = 1
        BY <1>2, <3>1
      <3>4. QED
        BY <1>6, <3>2, <3>3
    <2>2. QED
      BY <1>6, <2>1, FS_EmptySet
  <1>10. Delivered'
    BY <1>2, <1>3, <1>6, <1>8, <1>9 DEF Delivered
  <1>11. Copied' /\ Quiet'
    BY <1>2, <1>3 DEF Copied, Quiet
  <1>12. Room'
    BY <1>1, <1>3 DEF Room, Present
  <1>13. QED
    BY <1>7, <1>10, <1>11, <1>12 DEF SaveInv

\* The waiter finds all of them counted: what it copies is what they fetched.
LEMMA CollectStep ==
    ASSUME SaveInv, Collect
    PROVE  SaveInv'
  <1>1. /\ SaveTypes /\ Delivered /\ Room
        /\ waiter = "poll" /\ ~loading /\ results' = items /\ waiter' = "store"
        /\ UNCHANGED <<counter, history, saving, thread, got, items, remaining, loading>>
    BY DEF SaveInv, Collect
  <1>2. Left' = {} /\ Left = {}
    BY <1>1 DEF Delivered, Left
  <1>3. SaveTypes'
    BY <1>1 DEF SaveTypes
  <1>4. ASSUME NEW m \in Machines
        PROVE  items[m] = got[m] /\ got[m] # NoRow
    <2>1. thread[m] = "done"
      BY <1>1, <1>2 DEF Delivered, Left, SaveTypes
    <2>2. QED
      BY <1>1, <2>1 DEF Delivered
  <1>5. Copied' /\ Quiet' /\ Delivered'
    BY <1>1, <1>2, <1>4 DEF Copied, Quiet, Delivered
  <1>6. Room'
    BY <1>1 DEF Room, Present
  <1>7. QED
    BY <1>3, <1>5, <1>6 DEF SaveInv

\* The rows of the new batch are what the threads fetched.
LEMMA StoreStep ==
    ASSUME SaveInv, Store
    PROVE  /\ SaveInv'
           /\ \A m \in Machines :
                 history'[NewBatch][m] # NoRow => history'[NewBatch][m] = got[m]
  <1>1. SaveTypes /\ Copied /\ Room /\ Quiet /\ waiter = "store" /\ saving
    BY DEF SaveInv, Store, SaveTypes
  <1>2. NewBatch \in Batches
    BY <1>1, NextNumber DEF Room
  <1>3. /\ waiter' = "idle" /\ saving' = FALSE
        /\ results' = Empty /\ items' = Empty /\ got' = Empty
        /\ thread' = [m \in Machines |-> "idle"]
        /\ UNCHANGED <<counter, remaining, loading>>
    BY DEF Store
  <1>4. PICK stored \in SUBSET Machines :
           history' = [history EXCEPT ![NewBatch] =
                         [m \in Machines |-> IF m \notin stored THEN NoRow
                                             ELSE IF results[m] = Loading THEN Failed
                                             ELSE results[m]]]
    BY DEF Store, SaveBatch
  <1>5. history'[NewBatch] = [m \in Machines |-> IF m \notin stored THEN NoRow
                                                 ELSE IF results[m] = Loading THEN Failed
                                                 ELSE results[m]]
    BY <1>1, <1>2, <1>4 DEF SaveTypes
  <1>6. \A m \in Machines : results[m] = got[m] /\ got[m] \in Totals /\ got[m] # Loading
    BY <1>1, HistoryAssumption DEF Copied, SaveTypes, Totals, Loading
  <1>7. Failed \in Totals
    BY HistoryAssumption DEF Failed, Totals
  <1>8. history' \in [Batches -> [Machines -> Totals \cup {NoRow}]]
    <2>1. [m \in Machines |-> IF m \notin stored THEN NoRow
                              ELSE IF results[m] = Loading THEN Failed
                              ELSE results[m]] \in [Machines -> Totals \cup {NoRow}]
      BY <1>6, <1>7
    <2>2. QED
      BY <1>1, <1>4, <2>1 DEF SaveTypes
  <1>9. SaveTypes'
    <2>1. /\ got' \in [Machines -> Totals \cup {NoRow}]
          /\ items' \in [Machines -> Totals \cup {NoRow, Loading}]
          /\ results' \in [Machines -> Totals \cup {NoRow, Loading}]
          /\ thread' \in [Machines -> {"idle", "fetch", "push", "count", "done"}]
      BY <1>3 DEF Empty
    <2>2. QED
      BY <1>1, <1>3, <1>8, <2>1 DEF SaveTypes
  <1>10. Delivered' /\ Copied' /\ Room'
    BY <1>3 DEF Delivered, Copied, Room
  <1>11. Quiet'
    BY <1>3 DEF Quiet, Left
  <1>12. \A m \in Machines : history'[NewBatch][m] # NoRow => history'[NewBatch][m] = got[m]
    BY <1>5, <1>6
  <1>13. QED
    BY <1>9, <1>10, <1>11, <1>12 DEF SaveInv

-----------------------------------------------------------------------------
(* Browsing: it only empties rows, or changes rows there are. *)

Browse ==
    \/ \E b \in Batches : DeleteBatch(b)
    \/ \E b \in Batches, m \in Machines : DeleteEntry(b, m) \/ UpdateEntry(b, m)

LEMMA BrowseStep ==
    ASSUME history \in [Batches -> [Machines -> Totals \cup {NoRow}]], Browse
    PROVE  /\ history' \in [Batches -> [Machines -> Totals \cup {NoRow}]]
           /\ Present' \subseteq Present
           /\ UNCHANGED <<counter, saveVars, calcVars>>
  <1>1. ASSUME NEW b \in Batches, NEW row \in [Machines -> Totals \cup {NoRow}],
               history' = [history EXCEPT ![b] = row], b \in Present
        PROVE  /\ history' \in [Batches -> [Machines -> Totals \cup {NoRow}]]
               /\ Present' \subseteq Present
    BY <1>1 DEF Present
  <1>2. Empty \in [Machines -> Totals \cup {NoRow}]
    BY DEF Empty
  <1>3. ASSUME NEW b \in Batches, DeleteBatch(b)
        PROVE  /\ history' \in [Batches -> [Machines -> Totals \cup {NoRow}]]
               /\ Present' \subseteq Present
    BY <1>1, <1>2, <1>3 DEF DeleteBatch
  <1>4. ASSUME NEW b \in Batches, NEW m \in Machines, NEW v \in Totals \cup {NoRow},
               history[b][m] # NoRow, history' = [history EXCEPT ![b][m] = v]
        PROVE  /\ history' \in [Batches -> [Machines -> Totals \cup {NoRow}]]
               /\ Present' \subseteq Present
    <2> DEFINE row == [history[b] EXCEPT ![m] = v]
    <2>1. row \in [Machines -> Totals \cup {NoRow}]
      OBVIOUS
    <2>2. history' = [history EXCEPT ![b] = row]
      BY <1>4
    <2>3. b \in Present
      BY <1>4 DEF Present, Empty
    <2>4. QED
      BY <1>1, <2>1, <2>2, <2>3
  <1>5. ASSUME NEW b \in Batches, NEW m \in Machines, DeleteEntry(b, m) \/ UpdateEntry(b, m)
        PROVE  /\ history' \in [Batches -> [Machines -> Totals \cup {NoRow}]]
               /\ Present' \subseteq Present
    BY <1>4, <1>5 DEF DeleteEntry, UpdateEntry
  <1>6. UNCHANGED <<counter, saveVars, calcVars>>
    BY DEF Browse, DeleteBatch, DeleteEntry, UpdateEntry
  <1>7. QED
    BY <1>3, <1>5, <1>6 DEF Browse

LEMMA CounterStep ==
    ASSUME counter \in [Machines -> Totals], NEW m \in Machines, CounterChanges(m)
    PROVE  counter' \in [Machines -> Totals]
  BY DEF CounterChanges

LEMMA SaveStep ==
    ASSUME SaveInv, [Next]_vars
    PROVE  SaveInv'
  <1>0. SaveTypes
    BY DEF SaveInv
  <1>1. CASE Browse
    BY <1>0, <1>1, BrowseStep, ApartSave DEF SaveTypes
  <1>2. ASSUME NEW m \in Machines, CounterChanges(m) PROVE SaveInv'
    <2>1. UNCHANGED <<saveVars, history>> /\ Present' = Present
      BY <1>2 DEF CounterChanges, Present
    <2>2. QED
      BY <1>0, <1>2, <2>1, CounterStep, ApartSave DEF SaveTypes
  <1>3. ASSUME UNCHANGED <<counter, history, saveVars>> PROVE SaveInv'
    BY <1>0, <1>3, ApartSave DEF SaveTypes, Present
  <1>4. ASSUME NEW b, NEW e, ClickCalc(b, e) PROVE SaveInv'
    BY <1>3, <1>4 DEF ClickCalc
  <1>5. ASSUME NEW t \in tasks, Calculate(t) PROVE SaveInv'
    BY <1>3, <1>5 DEF Calculate
  <1>6. CASE UNCHANGED vars
    BY <1>3, <1>6 DEF vars
  <1>7. ASSUME NEW m \in Machines, Fetch(m) \/ Push(m) \/ Count(m) PROVE SaveInv'
    BY <1>7, ThreadStep, CountStep
  <1>8. QED
    BY <1>1, <1>2, <1>4, <1>5, <1>6, <1>7, ClickSaveStep, CollectStep, StoreStep
    DEF Next, Threads, User, Browse

-----------------------------------------------------------------------------
(* The calculation. *)

\* A comparison says "no base" exactly when there is none, and "less" only of a
\* base that counted something.
LEMMA JudgeMeans ==
    ASSUME NEW from \in Totals \cup {NoRow}, NEW to \in Totals \cup {NoRow}
    PROVE  /\ Judge(from, to) \in Verdict
           /\ Judge(from, to) = "no base" => from = NoRow
           /\ Judge(from, to) \in {"more", "less", "same", "no end"} => from # NoRow
           /\ Judge(from, to) = "less" => from > 0
  <1>1. from \in Int /\ to \in Int /\ (to # NoRow => to >= 0)
    BY HistoryAssumption DEF Totals, NoRow
  <1>2. CASE from = NoRow
    BY <1>2 DEF Judge, Verdict
  <1>3. CASE from # NoRow /\ to = NoRow
    BY <1>3 DEF Judge, Verdict
  <1>4. CASE from # NoRow /\ to # NoRow /\ to < from
    <2>1. Judge(from, to) = "less"
      BY <1>1, <1>4 DEF Judge
    <2>2. from # NoRow /\ from > 0
      BY <1>1, <1>4
    <2>3. QED
      BY <2>1, <2>2 DEF Verdict, Normal
  <1>5. CASE from # NoRow /\ to # NoRow /\ to = from
    <2>1. Judge(from, to) = "same"
      BY <1>1, <1>5 DEF Judge
    <2>2. from # NoRow
      BY <1>1, <1>5
    <2>3. QED
      BY <2>1, <2>2 DEF Verdict, Normal
  <1>6. CASE from # NoRow /\ to # NoRow /\ to > from
    <2>1. Judge(from, to) = "more"
      BY <1>1, <1>6 DEF Judge
    <2>2. from # NoRow
      BY <1>1, <1>6
    <2>3. QED
      BY <2>1, <2>2 DEF Verdict, Normal
  <1>7. to < from \/ to = from \/ to > from
    BY <1>1
  <1>8. QED
    BY <1>2, <1>3, <1>4, <1>5, <1>6, <1>7

LEMMA ClickCalcStep ==
    ASSUME CalcInv, NEW b, NEW e, ClickCalc(b, e)
    PROVE  CalcInv'
  <1>1. /\ b \in Batches /\ e \in Batches \cup {Live}
        /\ base' = history[b] /\ UNCHANGED <<counter, history>>
        /\ tasks' = {TaskOf(m, b, e) : m \in Machines}
        /\ shown' = [m \in Machines |-> "loading"]
        /\ history \in [Batches -> [Machines -> Totals \cup {NoRow}]]
    BY DEF ClickCalc, Present, CalcInv
  <1>2. ASSUME NEW m \in Machines
        PROVE  TaskOf(m, b, e) \in Task /\ TaskOf(m, b, e).base = history[b][TaskOf(m, b, e).m]
    BY <1>1 DEF TaskOf, Task
  <1>3. shown' \in [Machines -> Verdict] /\ VerdictIsOfChosen'
    BY <1>1 DEF Verdict, VerdictIsOfChosen
  <1>4. tasks' \subseteq Task /\ \A t \in tasks' : t.base = base'[t.m]
    BY <1>1, <1>2
  <1>5. QED
    BY <1>1, <1>3, <1>4 DEF CalcInv

LEMMA CalculateStep ==
    ASSUME CalcInv, NEW t \in tasks, Calculate(t)
    PROVE  CalcInv'
  <1>1. /\ t \in Task /\ t.base = base[t.m] /\ t.m \in Machines
        /\ t.base \in Totals \cup {NoRow} /\ t.end \in Totals \cup {NoRow, Loading}
        /\ counter \in [Machines -> Totals] /\ shown \in [Machines -> Verdict]
    BY DEF CalcInv, Task
  <1>2. EndOf(t) \in Totals \cup {NoRow}
    BY <1>1 DEF EndOf
  <1>3. /\ shown' = [shown EXCEPT ![t.m] = Judge(t.base, EndOf(t))]
        /\ tasks' = tasks \ {t} /\ UNCHANGED <<counter, history, base>>
    BY DEF Calculate
  <1>4. /\ Judge(t.base, EndOf(t)) \in Verdict
        /\ Judge(t.base, EndOf(t)) = "no base" => t.base = NoRow
        /\ Judge(t.base, EndOf(t)) \in {"more", "less", "same", "no end"} => t.base # NoRow
        /\ Judge(t.base, EndOf(t)) = "less" => t.base > 0
    BY <1>1, <1>2, JudgeMeans
  <1> DEFINE j == Judge(t.base, EndOf(t))
  <1> HIDE DEF j
  <1>5. /\ j \in Verdict /\ (j = "no base" => t.base = NoRow)
        /\ j \in {"more", "less", "same", "no end"} => t.base # NoRow
        /\ j = "less" => t.base > 0
        /\ shown' = [shown EXCEPT ![t.m] = j]
    BY <1>3, <1>4 DEF j
  <1>6. VerdictIsOfChosen'
    BY <1>1, <1>3, <1>5 DEF CalcInv, VerdictIsOfChosen
  <1>7. shown' \in [Machines -> Verdict]
    BY <1>1, <1>5
  <1>8. QED
    BY <1>3, <1>6, <1>7 DEF CalcInv

LEMMA CalcStep ==
    ASSUME CalcInv, SaveInv, [Next]_vars
    PROVE  CalcInv'
  <1>1. SaveTypes'
    BY SaveStep DEF SaveInv
  <1>2. ASSUME UNCHANGED calcVars PROVE CalcInv'
    BY <1>1, <1>2 DEF calcVars, CalcInv, VerdictIsOfChosen, SaveTypes
  <1>3. CASE Browse
    BY <1>2, <1>3, BrowseStep DEF SaveInv, SaveTypes
  <1>4. ASSUME NEW m \in Machines, Fetch(m) \/ Push(m) \/ Count(m) \/ CounterChanges(m)
        PROVE  CalcInv'
    BY <1>2, <1>4 DEF Fetch, Push, Count, CounterChanges
  <1>5. CASE ClickSave \/ Collect \/ Store \/ UNCHANGED vars
    BY <1>2, <1>5 DEF ClickSave, Collect, Store, vars
  <1>6. QED
    BY <1>3, <1>4, <1>5, ClickCalcStep, CalculateStep DEF Next, Threads, User, Browse

-----------------------------------------------------------------------------
(* The theorems. *)

LEMMA InitInv == Init => SaveInv /\ CalcInv
  <1> SUFFICES ASSUME Init PROVE SaveInv /\ CalcInv
    OBVIOUS
  <1>1. Empty \in [Machines -> Totals \cup {NoRow}] /\ Empty \in [Machines -> Totals \cup {NoRow, Loading}]
    BY DEF Empty
  <1>2. /\ counter \in [Machines -> Totals]
        /\ history = [b \in Batches |-> Empty] /\ saving = FALSE
        /\ thread = [m \in Machines |-> "idle"] /\ got = Empty /\ items = Empty /\ results = Empty
        /\ remaining = 0 /\ loading = FALSE /\ waiter = "idle"
        /\ base = Empty /\ tasks = {} /\ shown = [m \in Machines |-> "none"]
    BY DEF Init
  <1>3. history \in [Batches -> [Machines -> Totals \cup {NoRow}]]
    BY <1>1, <1>2
  <1>4. thread \in [Machines -> {"idle", "fetch", "push", "count", "done"}]
    BY <1>2
  <1>5. SaveTypes
    <2>1. remaining \in Int /\ waiter \in {"idle", "poll", "store"}
      BY <1>2
    <2>4. (saving = (waiter # "idle")) /\ loading \in BOOLEAN
      <3>1. (waiter # "idle") = FALSE
        BY <1>2
      <3>2. saving = FALSE /\ loading = FALSE
        BY <1>2
      <3>3. QED
        BY <3>1, <3>2
    <2>2. /\ got \in [Machines -> Totals \cup {NoRow}]
          /\ items \in [Machines -> Totals \cup {NoRow, Loading}]
          /\ results \in [Machines -> Totals \cup {NoRow, Loading}]
      BY <1>1, <1>2
    <2>3. QED
      BY <1>2, <1>3, <1>4, <2>1, <2>2, <2>4 DEF SaveTypes
  <1>6. Delivered /\ Copied /\ Quiet /\ Room
    BY <1>2 DEF Delivered, Copied, Quiet, Room, Left
  <1>7. CalcInv
    BY <1>1, <1>2, <1>3 DEF CalcInv, VerdictIsOfChosen, Verdict
  <1>8. QED
    BY <1>5, <1>6, <1>7 DEF SaveInv

LEMMA Invariance == Spec => [](SaveInv /\ CalcInv)
  <1>1. SaveInv /\ CalcInv /\ [Next]_vars => (SaveInv /\ CalcInv)'
    BY SaveStep, CalcStep
  <1>2. QED
    BY InitInv, <1>1, PTL DEF Spec

\* Every variable keeps its type, whatever saves, calculations and edits overlap.
THEOREM Typing == Spec => []TypeOK
  <1>1. SaveInv /\ CalcInv => TypeOK
    BY Zenon DEF SaveInv, SaveTypes, CalcInv, TypeOK
  <1>2. QED
    BY Invariance, <1>1, PTL

\* A stored batch is what its own threads have fetched.
THEOREM BatchIsFetched == Spec => SavedIsFetched
  <1>1. SaveInv /\ CalcInv /\ [Next]_vars =>
          [Store => \A m \in Machines :
              history'[NewBatch][m] # NoRow => history'[NewBatch][m] = got[m]]_vars
    BY StoreStep
  <1>2. QED
    BY Invariance, <1>1, PTL DEF Spec, SavedIsFetched

\* The verdicts on the page belong to the batch chosen last.
THEOREM VerdictsBelong == Spec => []VerdictIsOfChosen
  <1>1. SaveInv /\ CalcInv => VerdictIsOfChosen
    BY DEF CalcInv
  <1>2. QED
    BY Invariance, <1>1, PTL

=============================================================================
