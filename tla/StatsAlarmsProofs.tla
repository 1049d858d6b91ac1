------------------------- MODULE StatsAlarmsProofs -------------------------
(***************************************************************************)
(* Proofs about StatsAlarms, for every set of items, every retention and   *)
(* every length of time.                                                   *)
(*                                                                         *)
(* SyncIsExact rests on one fact that every step of a running collector    *)
(* keeps: an item with an open row is either tracked in memory or was      *)
(* forgotten by a failed statement (Tracked). The two loops of sync_alarms *)
(* then work through `raised` and through what is tracked beyond it        *)
(* (Progress).  ClosedRowsAreHistory rests on what the connection and the  *)
(* file may differ in: an open transaction never holds back a removal of a *)
(* closed row the file still needs (FileInv).                              *)
(* FileIsLog, the refinement, rests on what committing at any moment would *)
(* do to the file (LogInv).                                                *)
(***************************************************************************)
EXTENDS StatsAlarms, TLAPS

\* An open row has someone who will close it.
Tracked ==
    pc # "down" => \A i \in Items : Open(rows, i) # {} => i \in activeAlarms \cup forgotten

\* What the phase of sync_alarms has done so far.
Progress ==
    /\ pc = "raising" =>
          \A i \in raised \ todo : Open(rows, i) # {} \/ i \in missed
    /\ pc \in {"clearing", "synced"} =>
          \A i \in raised : Open(rows, i) # {} \/ i \in missed
    /\ pc = "clearing" => activeAlarms \ raised \subseteq todo /\ todo \cap raised = {}
    /\ pc = "synced" => activeAlarms \subseteq raised

\* Outside a transaction the file is what the connection sees.
FileInv ==
    /\ ~inTx => disk = rows
    /\ \A r \in disk : (~r.active /\ r.end >= clock - Retention) => r \in rows

\* No row is from the future.
Clocked == \A r \in rows \cup disk : r.last <= clock

IInv == TypeOK /\ Clocked /\ Tracked /\ Progress /\ FileInv

\* The statements of alarm_upsert and alarm_clear, row by row.
Refresh(i, r) == IF r.item = i /\ r.active THEN [r EXCEPT !.last = clock] ELSE r
Close(i, r) ==
    IF r.item = i /\ r.active
    THEN [r EXCEPT !.active = FALSE, !.end = clock, !.last = clock] ELSE r

-----------------------------------------------------------------------------
(* What the statements do to the rows. *)

\* A refreshed row is the row, later.
LEMMA RefreshOne ==
    ASSUME TypeOK, Clocked, NEW i \in Items, NEW r \in rows
    PROVE  /\ Refresh(i, r) \in Row
           /\ Refresh(i, r).item = r.item /\ Refresh(i, r).active = r.active
           /\ Refresh(i, r).last <= clock
           /\ ~r.active => Refresh(i, r) = r
  <1>1. r \in Row /\ clock \in 1..MaxClock /\ r.last <= clock
    BY DEF TypeOK, Clocked
  <1>2. QED
    BY <1>1, AlarmAssumption DEF Refresh, Row, None

\* A row closed by alarm_clear keeps its key and its item.
LEMMA CloseOne ==
    ASSUME TypeOK, Clocked, NEW i \in Items, NEW r \in rows
    PROVE  /\ Close(i, r) \in Row
           /\ Close(i, r).item = r.item
           /\ Close(i, r).active <=> (r.active /\ r.item # i)
           /\ Close(i, r).last <= clock
           /\ (~r.active \/ r.item # i) => Close(i, r) = r
  <1>1. /\ r \in Row /\ clock \in 1..MaxClock /\ r.last <= clock
        /\ r.first \in 1..MaxClock /\ r.last \in 1..MaxClock /\ r.item \in Items
        /\ r.first <= r.last
        /\ MaxClock \in Nat
    BY AlarmAssumption DEF TypeOK, Clocked, Row
  <1>2. CASE r.item = i /\ r.active
    <2>1. Close(i, r) = [item |-> r.item, first |-> r.first, last |-> clock,
                         end |-> clock, active |-> FALSE]
      BY <1>1, <1>2 DEF Close, Row
    <2>2. r.first <= clock /\ clock # None
      BY <1>1 DEF None
    <2>3. Close(i, r) \in Row
      BY <1>1, <2>1, <2>2 DEF Row
    <2>4. QED
      BY <1>1, <1>2, <2>1, <2>3
  <1>3. CASE ~(r.item = i /\ r.active)
    BY <1>1, <1>3 DEF Close
  <1>4. QED
    BY <1>2, <1>3

\* What a statement of sync_alarms may do: `table` is well-typed, not from the
\* future, keeps the closed rows, and opens or closes no item but i.
Harmless(table, i) ==
    /\ table \in SUBSET Row
    /\ \A r \in table : r.last <= clock
    /\ \A r \in rows : ~r.active => r \in table
    /\ \A j \in Items \ {i} : Open(table, j) # {} => Open(rows, j) # {}
    /\ \A j \in Items \ {i} : Open(rows, j) # {} => Open(table, j) # {}

\* The UPDATE of alarm_upsert is harmless, and its item stays open.
LEMMA RefreshHarmless ==
    ASSUME TypeOK, Clocked, NEW i \in Items, RefreshRow(i)
    PROVE  /\ Harmless(rows', i) /\ Write(rows')
           /\ Open(rows', i) # {}
  <1>1. rows' = {Refresh(i, r) : r \in rows} /\ Write(rows')
    BY DEF RefreshRow, Write, Refresh
  <1>2. /\ \A q \in rows' : \E r \in rows : q = Refresh(i, r)
        /\ \A r \in rows : Refresh(i, r) \in rows'
    BY <1>1
  <1>3. /\ \A q \in rows' : q \in Row /\ q.last <= clock
        /\ \A r \in rows : ~r.active => r \in rows'
    BY <1>2, RefreshOne
  <1>4. \A j \in Items : Open(rows', j) # {} => Open(rows, j) # {}
    BY <1>2, RefreshOne DEF Open
  <1>5. \A j \in Items : Open(rows, j) # {} => Open(rows', j) # {}
    BY <1>2, RefreshOne DEF Open
  <1>6. Harmless(rows', i)
    BY <1>3, <1>4, <1>5 DEF Harmless
  <1>7. QED
    BY <1>1, <1>5, <1>6 DEF RefreshRow

\* So is the INSERT, whether it succeeds or not.
LEMMA InsertHarmless ==
    ASSUME TypeOK, Clocked, NEW i \in Items, InsertRow(i)
    PROVE  /\ Harmless(rows', i)
           /\ Write(rows') \/ UNCHANGED <<rows, disk, inTx>>
           /\ Open(rows, i) # {} => Open(rows', i) # {}
  <1>1. CASE Write(rows \cup {NewRow(i)})
    <2>1. NewRow(i) \in Row /\ NewRow(i).last <= clock /\ NewRow(i).item = i
      BY AlarmAssumption DEF NewRow, Row, None, TypeOK
    <2>2. rows' = rows \cup {NewRow(i)}
      BY <1>1 DEF Write
    <2>3. rows \in SUBSET Row /\ \A r \in rows : r.last <= clock
      BY DEF TypeOK, Clocked
    <2>4. QED
      BY <1>1, <2>1, <2>2, <2>3 DEF Harmless, Open
  <1>2. CASE UNCHANGED <<rows, disk, inTx>>
    BY <1>2 DEF Harmless, TypeOK, Clocked
  <1>3. QED
    BY <1>1, <1>2 DEF InsertRow, Busy

\* alarm_clear is harmless, and leaves its item without an open row.
LEMMA CloseHarmless ==
    ASSUME TypeOK, Clocked, NEW i \in Items, CloseRows(i)
    PROVE  Harmless(rows', i) /\ Write(rows') /\ Open(rows', i) = {}
  <1>1. rows' = {Close(i, r) : r \in rows} /\ Write(rows')
    BY DEF CloseRows, Write, Close
  <1>2. /\ \A q \in rows' : \E r \in rows : q = Close(i, r)
        /\ \A r \in rows : Close(i, r) \in rows'
    BY <1>1
  <1>3. /\ \A q \in rows' : q \in Row /\ q.last <= clock
        /\ \A r \in rows : ~r.active => r \in rows'
    BY <1>2, CloseOne
  <1>4. \A j \in Items : Open(rows', j) # {} => Open(rows, j) # {}
    BY <1>2, CloseOne DEF Open
  <1>5. \A j \in Items \ {i} : Open(rows, j) # {} => Open(rows', j) # {}
    BY <1>2, CloseOne DEF Open
  <1>6. ASSUME NEW q \in rows', q.item = i, q.active PROVE FALSE
    BY <1>2, <1>6, CloseOne
  <1>7. Open(rows', i) = {}
    BY <1>6 DEF Open
  <1>8. QED
    BY <1>1, <1>3, <1>4, <1>5, <1>7 DEF Harmless

\* A successful statement that is harmless keeps the types and the file's tie to
\* the connection.
LEMMA WriteHarmless ==
    ASSUME IInv, NEW i \in Items, Harmless(rows', i), UNCHANGED clock,
           Write(rows') \/ UNCHANGED <<rows, disk, inTx>>
    PROVE  /\ rows' \in SUBSET Row /\ disk' \in SUBSET Row /\ inTx' \in BOOLEAN
           /\ Clocked' /\ FileInv'
  <1>1. TypeOK /\ Clocked /\ FileInv
    BY DEF IInv
  <1>2. CASE Write(rows')
    BY <1>1, <1>2 DEF Write, Harmless, TypeOK, Clocked, FileInv
  <1>3. CASE UNCHANGED <<rows, disk, inTx>>
    BY <1>1, <1>3 DEF TypeOK, Clocked, FileInv
  <1>4. QED
    BY <1>2, <1>3

-----------------------------------------------------------------------------
(* The invariant, action by action. *)

\* The outcome of a COMMIT, with the clock moved on.
LEMMA FlushStep ==
    ASSUME IInv, Flush, clock' \in clock..MaxClock
    PROVE  /\ rows' = rows /\ disk' \in SUBSET Row /\ inTx' \in BOOLEAN
           /\ clock' \in 1..MaxClock
           /\ Clocked' /\ FileInv'
  <1>1. /\ TypeOK /\ Clocked /\ FileInv
        /\ clock \in Nat /\ clock' \in Nat /\ clock <= clock' /\ MaxClock \in Nat
        /\ Retention \in Nat
    BY AlarmAssumption DEF IInv, TypeOK
  <1>2. \A r \in Row : r.last \in Nat /\ r.end \in Nat
    BY AlarmAssumption DEF Row, None
  <1>3. \A r \in rows \cup disk : r \in Row /\ r.last <= clock'
    BY <1>1, <1>2 DEF TypeOK, Clocked
  <1>4. \A r \in disk : (~r.active /\ r.end >= clock' - Retention) => r \in rows
    BY <1>1, <1>2, <1>3 DEF FileInv
  <1>5. CASE CommitOk
    <2>1. rows' = rows /\ disk' = rows /\ inTx' = FALSE
      BY <1>5 DEF CommitOk
    <2>2. clock' \in 1..MaxClock
      BY <1>1 DEF TypeOK
    <2>3. Clocked'
      BY <1>3, <2>1 DEF Clocked
    <2>4. FileInv'
      BY <2>1 DEF FileInv
    <2>5. QED
      BY <1>1, <2>1, <2>2, <2>3, <2>4 DEF TypeOK
  <1>6. CASE CommitBusy
    BY <1>1, <1>3, <1>4, <1>6 DEF CommitBusy, TypeOK, Clocked, FileInv
  <1>7. QED
    BY <1>5, <1>6 DEF Flush

\* Whatever one item's upsert does.
LEMMA UpsertStep ==
    ASSUME IInv, NEW i \in Items, Upsert(i)
    PROVE  IInv'
  <1>0. TypeOK /\ Clocked /\ Tracked /\ Progress
    BY DEF IInv
  <1>1. /\ Harmless(rows', i)
        /\ Write(rows') \/ UNCHANGED <<rows, disk, inTx>>
    BY <1>0, RefreshHarmless, InsertHarmless DEF Upsert
  <1>2. /\ rows' \in SUBSET Row /\ disk' \in SUBSET Row /\ inTx' \in BOOLEAN
        /\ Clocked' /\ FileInv'
    BY <1>1, WriteHarmless DEF Upsert
  <1>3. TypeOK'
    BY <1>0, <1>2 DEF Upsert, TypeOK
  <1>4. Tracked'
    BY <1>0, <1>1 DEF Upsert, Tracked, Harmless
  <1>5. Progress'
    <2>1. pc' = "raising" /\ raised' = raised /\ todo' = todo \ {i}
          /\ missed' = IF Open(rows', i) = {} THEN missed \cup {i} ELSE missed
      BY DEF Upsert
    <2>2. ASSUME NEW j \in raised' \ todo' PROVE Open(rows', j) # {} \/ j \in missed'
      <3>1. j \in Items
        BY <1>0, <2>1 DEF TypeOK
      <3>2. CASE j = i
        BY <2>1, <3>2
      <3>3. CASE j # i
        BY <1>0, <1>1, <2>1, <3>1, <3>3 DEF Progress, Harmless, Upsert
      <3>4. QED
        BY <3>2, <3>3
    <2>3. QED
      BY <2>1, <2>2 DEF Progress
  <1>6. QED
    BY <1>2, <1>3, <1>4, <1>5 DEF IInv

\* Whatever one item's clear does.
LEMMA ClearStep ==
    ASSUME IInv, NEW i \in Items, Clear(i)
    PROVE  IInv'
  <1>0. TypeOK /\ Clocked /\ Tracked /\ Progress
    BY DEF IInv
  <1>1. Harmless(rows, i)
    BY <1>0 DEF Harmless, TypeOK, Clocked
  <1>2. /\ Harmless(rows', i)
        /\ Write(rows') \/ UNCHANGED <<rows, disk, inTx>>
        /\ Open(rows', i) # {} => i \in forgotten'
        /\ forgotten \subseteq forgotten' /\ forgotten' \subseteq forgotten \cup {i}
    <2>1. CASE CloseRows(i) /\ UNCHANGED forgotten
      BY <1>0, <2>1, CloseHarmless
    <2>2. CASE Busy /\ forgotten' = IF Open(rows, i) = {} THEN forgotten ELSE forgotten \cup {i}
      BY <1>1, <2>2 DEF Busy
    <2>3. QED
      BY <2>1, <2>2 DEF Clear
  <1>3. /\ rows' \in SUBSET Row /\ disk' \in SUBSET Row /\ inTx' \in BOOLEAN
        /\ Clocked' /\ FileInv'
    BY <1>2, WriteHarmless DEF Clear
  <1>4. TypeOK'
    BY <1>0, <1>2, <1>3 DEF Clear, TypeOK
  <1>5. Tracked'
    BY <1>0, <1>2 DEF Clear, Tracked, Harmless
  <1>6. Progress'
    <2>1. i \notin raised
      BY <1>0 DEF Clear, Progress
    <2>2. raised \subseteq Items
      BY <1>0 DEF TypeOK
    <2>3. QED
      BY <1>0, <1>2, <2>1, <2>2 DEF Clear, Progress, Harmless
  <1>7. QED
    BY <1>3, <1>4, <1>5, <1>6 DEF IInv

\* Retention removes closed rows that are old enough, and nothing else.
LEMMA PruneStep ==
    ASSUME IInv, Prune
    PROVE  IInv'
  <1>0. TypeOK /\ Clocked /\ Tracked /\ Progress /\ FileInv
    BY DEF IInv
  <1>1. rows' = {r \in rows : r.active \/ r.end >= clock - Retention}
        /\ disk' = (IF inTx THEN disk ELSE rows') /\ inTx' = inTx
    BY DEF Prune, Write
  <1>2. \A j \in Items : Open(rows', j) = Open(rows, j)
    BY <1>1 DEF Open
  <1>3. TypeOK'
    BY <1>0, <1>1 DEF Prune, TypeOK
  <1>4. Clocked'
    BY <1>0, <1>1 DEF Prune, Clocked
  <1>5. Tracked' /\ Progress'
    <2>1. raised \subseteq Items
      BY <1>0 DEF TypeOK
    <2>2. QED
      BY <1>0, <1>2, <2>1 DEF Prune, Tracked, Progress
  <1>6. FileInv'
    BY <1>0, <1>1 DEF Prune, FileInv
  <1>7. QED
    BY <1>3, <1>4, <1>5, <1>6 DEF IInv

\* The initial state is in the inductive invariant.
LEMMA InvInit == Init => IInv
  <1> SUFFICES ASSUME Init PROVE IInv
    OBVIOUS
  <1>1. TypeOK
    <2>1. 1 \in 1..MaxClock
      BY AlarmAssumption
    <2>2. QED
      BY <2>1, Zenon DEF Init, TypeOK
  <1>2. Clocked /\ FileInv
    BY DEF Init, Clocked, FileInv
  <1>3. Tracked /\ Progress
    BY DEF Init, Tracked, Progress
  <1>4. QED
    BY <1>1, <1>2, <1>3 DEF IInv

\* Every step keeps it.
LEMMA InvStep == IInv /\ [Next]_vars => IInv'
  <1> SUFFICES ASSUME IInv, [Next]_vars PROVE IInv'
    OBVIOUS
  <1>0. TypeOK /\ Clocked /\ Tracked /\ Progress /\ FileInv
    BY DEF IInv
  <1>1. CASE StartStream
    BY <1>0, <1>1 DEF StartStream, Seed, IInv, TypeOK, Clocked, Tracked, Progress, FileInv
  <1>2. CASE Round
    <2>1. Flush /\ clock' \in clock..MaxClock
      BY <1>2 DEF Round
    <2>2. /\ rows' = rows /\ disk' \in SUBSET Row /\ inTx' \in BOOLEAN
          /\ clock' \in 1..MaxClock /\ Clocked' /\ FileInv'
      BY <2>1, FlushStep
    <2>3. TypeOK' /\ Tracked' /\ Progress'
      BY <1>0, <1>2, <2>2 DEF Round, TypeOK, Tracked, Progress
    <2>4. QED
      BY <2>2, <2>3 DEF IInv
  <1>3. CASE Resnapshot
    <2>1. Flush /\ clock' \in clock..MaxClock
      BY <1>3 DEF Resnapshot
    <2>2. /\ rows' = rows /\ disk' \in SUBSET Row /\ inTx' \in BOOLEAN
          /\ clock' \in 1..MaxClock /\ Clocked' /\ FileInv'
      BY <2>1, FlushStep
    <2>3. TypeOK' /\ Tracked' /\ Progress'
      BY <1>0, <1>3, <2>2 DEF Resnapshot, TypeOK, Tracked, Progress
    <2>4. QED
      BY <2>2, <2>3 DEF IInv
  <1>4. ASSUME NEW i \in Items, Upsert(i) PROVE IInv'
    BY <1>4, UpsertStep
  <1>5. CASE RaisingDone
    BY <1>0, <1>5 DEF RaisingDone, IInv, TypeOK, Clocked, Tracked, Progress, FileInv
  <1>6. ASSUME NEW i \in Items, Clear(i) PROVE IInv'
    BY <1>6, ClearStep
  <1>7. CASE ClearingDone
    BY <1>0, <1>7 DEF ClearingDone, IInv, TypeOK, Clocked, Tracked, Progress, FileInv
  <1>8. CASE EndRound
    BY <1>0, <1>8 DEF EndRound, IInv, TypeOK, Clocked, Tracked, Progress, FileInv
  <1>9. CASE Prune
    BY <1>9, PruneStep
  <1>10. CASE StopStream
    BY <1>0, <1>10 DEF StopStream, IInv, TypeOK, Clocked, Tracked, Progress, FileInv
  <1>11. CASE UNCHANGED vars
    BY <1>0, <1>11 DEF vars, IInv, TypeOK, Clocked, Tracked, Progress, FileInv
  <1>12. QED
    BY <1>1, <1>2, <1>3, <1>4, <1>5, <1>6, <1>7, <1>8, <1>9, <1>10, <1>11
    DEF Next, Collector

-----------------------------------------------------------------------------

\* Every variable keeps its type.
THEOREM Typing == Spec => []TypeOK
  <1>1. IInv => TypeOK
    BY DEF IInv
  <1>2. QED
    BY InvInit, InvStep, <1>1, PTL DEF Spec

\* After a sync the table says exactly which alarms are active, up to the
\* statements that failed.
THEOREM SyncsExactly == Spec => []SyncIsExact
  <1>1. IInv => SyncIsExact
    BY DEF IInv, TypeOK, Tracked, Progress, SyncIsExact
  <1>2. QED
    BY InvInit, InvStep, <1>1, PTL DEF Spec

\* A closed occurrence that reached the file stays there until retention.
THEOREM HistoryIsKept == Spec => ClosedRowsAreHistory
  <1>1. IInv /\ IInv' /\ [Next]_vars =>
          [\A r \in disk : (~r.active /\ r.end >= clock - Retention) => r \in disk']_vars
    <2> SUFFICES ASSUME IInv, [Next]_vars,
                        NEW r \in disk, ~r.active, r.end >= clock - Retention
                 PROVE  r \in disk'
      OBVIOUS
    <2>0. TypeOK /\ Clocked /\ FileInv /\ r \in rows
      BY DEF IInv, FileInv
    <2>1. ASSUME NEW i \in Items, Harmless(rows', i),
                 Write(rows') \/ UNCHANGED <<rows, disk, inTx>>
          PROVE  r \in disk'
      BY <2>0, <2>1 DEF Harmless, Write
    <2>2. ASSUME NEW i \in Items, Upsert(i) PROVE r \in disk'
      BY <2>0, <2>1, <2>2, RefreshHarmless, InsertHarmless DEF Upsert
    <2>3. ASSUME NEW i \in Items, Clear(i) PROVE r \in disk'
      BY <2>0, <2>1, <2>3, CloseHarmless DEF Clear, Busy
    <2>4. CASE Round \/ Resnapshot
      BY <2>0, <2>4 DEF Round, Resnapshot, Flush, CommitOk, CommitBusy
    <2>5. CASE Prune
      BY <2>0, <2>5 DEF Prune, Write
    <2>6. CASE UNCHANGED disk
      BY <2>6
    <2>7. QED
      BY <2>2, <2>3, <2>4, <2>5, <2>6
      DEF Next, Collector, StartStream, RaisingDone, ClearingDone, EndRound, StopStream, vars
  <1>2. QED
    BY InvInit, InvStep, <1>1, PTL DEF Spec, ClosedRowsAreHistory

-----------------------------------------------------------------------------
(* The file is an AlarmLog.  While a transaction is open the connection is *)
(* several statements ahead of the file, so each statement is compared     *)
(* with the file as it was committed last, not with the statement before:  *)
(* Related says that committing now would be one step of AlarmLog.         *)

\* Committing t over d.
Related(d, t) ==
    /\ \A r \in d : r \in t \/ (\E s \in t : Log!Continues(r, s)) \/ Log!Expired(r, clock)
    /\ \A s \in t : s \notin d => \A r \in d : Log!Same(r, s) => Log!Continues(r, s)

\* The primary key.
KeyOnce(t) == \A r, s \in t : Log!Same(r, s) => r = s

\* alarm_clear writes both columns.
Ended(t) == \A r \in t : ~r.active => r.end = r.last

LogInv ==
    /\ Related(disk, rows)
    /\ KeyOnce(rows) /\ KeyOnce(disk)
    /\ Ended(rows) /\ Ended(disk)

\* The rows are numbers where numbers are compared.
LEMMA RowNumbers ==
    ASSUME NEW r \in Row
    PROVE  /\ r.first \in Nat /\ r.last \in Nat /\ r.end \in Nat /\ r.first <= r.last
           /\ r.active \in BOOLEAN
  BY AlarmAssumption DEF Row, None

\* A table whose rows are those of `rows`, as they are or a step further.
LEMMA GrownRelated ==
    ASSUME TypeOK, LogInv, NEW t \in SUBSET Row,
           \A s \in t : \E r \in rows : s = r \/ Log!Continues(r, s),
           \A r \in rows : \E s \in t : s = r \/ Log!Continues(r, s)
    PROVE  Related(disk, t)
  <1>1. \A r \in disk \cup rows \cup t : r.last \in Nat
    BY RowNumbers DEF TypeOK
  <1>2. \A r \in disk, q \in rows, s \in t :
           Log!Continues(r, q) /\ (s = q \/ Log!Continues(q, s)) => Log!Continues(r, s)
    BY <1>1 DEF Log!Continues, Log!Same
  <1>3. ASSUME NEW r \in disk
        PROVE  r \in t \/ (\E s \in t : Log!Continues(r, s)) \/ Log!Expired(r, clock)
    <2>1. r \in rows \/ (\E s \in rows : Log!Continues(r, s)) \/ Log!Expired(r, clock)
      BY DEF LogInv, Related
    <2>2. QED
      BY <1>2, <2>1
  <1>4. ASSUME NEW s \in t, s \notin disk, NEW r \in disk, Log!Same(r, s)
        PROVE  Log!Continues(r, s)
    <2>1. PICK q \in rows : s = q \/ Log!Continues(q, s)
      OBVIOUS
    <2>2. Log!Same(r, q)
      BY <1>4, <2>1 DEF Log!Continues, Log!Same
    <2>3. CASE q \in disk
      BY <1>4, <2>1, <2>2, <2>3 DEF LogInv, KeyOnce
    <2>4. CASE q \notin disk
      <3>1. Log!Continues(r, q)
        BY <2>2, <2>4 DEF LogInv, Related
      <3>2. QED
        BY <1>2, <2>1, <3>1
    <2>5. QED
      BY <2>3, <2>4
  <1>5. QED
    BY <1>3, <1>4 DEF Related

\* What a statement must do for the file to stay a log.
Logged(t) == Related(disk, t) /\ KeyOnce(t) /\ Ended(t)

LEMMA RefreshLogged ==
    ASSUME IInv, LogInv, NEW i \in Items, RefreshRow(i)
    PROVE  Logged(rows')
  <1>1. rows' = {Refresh(i, r) : r \in rows}
    BY DEF RefreshRow, Write, Refresh
  <1>2. TypeOK /\ Clocked /\ clock \in Nat /\ \A r \in rows : r \in Row
    BY DEF IInv, TypeOK
  <1>3. ASSUME NEW r \in rows
        PROVE  /\ Refresh(i, r) = r \/ Log!Continues(r, Refresh(i, r))
               /\ Log!Same(r, Refresh(i, r))
               /\ ~Refresh(i, r).active => Refresh(i, r) = r
    <2>1. r.last \in Nat /\ r.last <= clock /\ r \in Row
      BY <1>2, RowNumbers DEF Clocked
    <2>2. CASE r.item = i /\ r.active
      <3>1. Refresh(i, r) = [r EXCEPT !.last = clock]
        BY <2>2 DEF Refresh
      <3>2. QED
        BY <2>1, <2>2, <3>1 DEF Log!Continues, Log!Same, Row
    <2>3. CASE ~(r.item = i /\ r.active)
      BY <2>3 DEF Refresh, Log!Same
    <2>4. QED
      BY <2>2, <2>3
  <1>4. /\ rows' \in SUBSET Row
        /\ \A s \in rows' : \E r \in rows : s = r \/ Log!Continues(r, s)
        /\ \A r \in rows : \E s \in rows' : s = r \/ Log!Continues(r, s)
    BY <1>1, <1>2, <1>3, RefreshOne
  <1>5. Related(disk, rows')
    BY <1>2, <1>4, GrownRelated
  <1>6. KeyOnce(rows')
    BY <1>1, <1>3 DEF LogInv, KeyOnce, Log!Same
  <1>7. Ended(rows')
    BY <1>1, <1>3 DEF LogInv, Ended
  <1>8. QED
    BY <1>5, <1>6, <1>7 DEF Logged

LEMMA CloseLogged ==
    ASSUME IInv, LogInv, NEW i \in Items, CloseRows(i)
    PROVE  Logged(rows')
  <1>1. rows' = {Close(i, r) : r \in rows}
    BY DEF CloseRows, Write, Close
  <1>2. TypeOK /\ Clocked /\ clock \in Nat /\ \A r \in rows : r \in Row
    BY DEF IInv, TypeOK
  <1>3. ASSUME NEW r \in rows
        PROVE  /\ Close(i, r) = r \/ Log!Continues(r, Close(i, r))
               /\ Log!Same(r, Close(i, r))
               /\ ~Close(i, r).active => Close(i, r) = r \/ Close(i, r).end = Close(i, r).last
    <2>1. r.last \in Nat /\ r.last <= clock /\ r \in Row
      BY <1>2, RowNumbers DEF Clocked
    <2>2. CASE r.item = i /\ r.active
      <3>1. Close(i, r) = [item |-> r.item, first |-> r.first, last |-> clock,
                           end |-> clock, active |-> FALSE]
        BY <2>1, <2>2 DEF Close, Row
      <3>2. QED
        BY <2>1, <2>2, <3>1 DEF Log!Continues, Log!Same
    <2>3. CASE ~(r.item = i /\ r.active)
      BY <2>3 DEF Close, Log!Same
    <2>4. QED
      BY <2>2, <2>3
  <1>4. /\ rows' \in SUBSET Row
        /\ \A s \in rows' : \E r \in rows : s = r \/ Log!Continues(r, s)
        /\ \A r \in rows : \E s \in rows' : s = r \/ Log!Continues(r, s)
    BY <1>1, <1>2, <1>3, CloseOne
  <1>5. Related(disk, rows')
    BY <1>2, <1>4, GrownRelated
  <1>6. KeyOnce(rows')
    BY <1>1, <1>3 DEF LogInv, KeyOnce, Log!Same
  <1>7. Ended(rows')
    BY <1>1, <1>3 DEF LogInv, Ended
  <1>8. QED
    BY <1>5, <1>6, <1>7 DEF Logged

\* A new row's key is not in the file either: what the file holds beyond the
\* connection is expired, and nothing that begins now is.
LEMMA InsertLogged ==
    ASSUME IInv, LogInv, NEW i \in Items, InsertRow(i)
    PROVE  Logged(rows')
  <1>1. TypeOK /\ Clocked /\ clock \in Nat /\ Retention \in Nat
    BY AlarmAssumption DEF IInv, TypeOK
  <1>2. CASE (\A r \in rows : ~(r.item = i /\ r.first = clock)) /\ Write(rows \cup {NewRow(i)})
    <2> DEFINE n == NewRow(i)
    <2>1. rows' = rows \cup {n} /\ n.item = i /\ n.first = clock /\ n.active
      BY <1>2 DEF Write, NewRow
    <2> HIDE DEF n
    <2>2. \A r \in rows : ~Log!Same(r, n) /\ ~Log!Same(n, r)
      BY <1>2, <2>1 DEF Log!Same
    <2>3. \A r \in disk : ~Log!Same(r, n)
      <3>1. SUFFICES ASSUME NEW r \in disk, Log!Same(r, n) PROVE FALSE
        OBVIOUS
      <3>2. r.first = clock /\ r.first <= r.last /\ r.last \in Nat
        BY <1>1, <2>1, <3>1, RowNumbers DEF TypeOK, Log!Same
      <3>3. ~Log!Expired(r, clock)
        BY <1>1, <3>2 DEF Log!Expired
      <3>4. \E s \in rows : Log!Same(s, n)
        BY <3>1, <3>3 DEF LogInv, Related, Log!Continues, Log!Same
      <3>5. QED
        BY <2>2, <3>4
    <2>4. Related(disk, rows')
      BY <2>1, <2>3 DEF LogInv, Related
    <2>5. KeyOnce(rows') /\ Ended(rows')
      BY <2>1, <2>2 DEF LogInv, KeyOnce, Ended
    <2>6. QED
      BY <2>4, <2>5 DEF Logged
  <1>3. CASE UNCHANGED rows
    BY <1>3 DEF LogInv, Logged
  <1>4. QED
    BY <1>2, <1>3 DEF InsertRow, Busy

\* What prune_alarms removes is expired, and so is what the file still holds of it.
LEMMA PruneLogged ==
    ASSUME IInv, LogInv, Prune
    PROVE  Logged(rows')
  <1>1. TypeOK /\ Clocked /\ clock \in Nat /\ Retention \in Nat
    BY AlarmAssumption DEF IInv, TypeOK
  <1>2. rows' = {r \in rows : r.active \/ r.end >= clock - Retention}
    BY DEF Prune, Write
  <1>3. \A r \in disk \cup rows : r.last \in Nat /\ r.end \in Nat
    BY <1>1, RowNumbers DEF TypeOK
  <1>4. ASSUME NEW s \in rows, s \notin rows'
        PROVE  Log!Expired(s, clock)
    BY <1>1, <1>2, <1>3, <1>4 DEF LogInv, Ended, Log!Expired
  <1>5. ASSUME NEW r \in disk
        PROVE  r \in rows' \/ (\E s \in rows' : Log!Continues(r, s)) \/ Log!Expired(r, clock)
    <2>1. CASE r \in rows
      BY <1>4, <2>1
    <2>2. ASSUME NEW s \in rows, Log!Continues(r, s)
          PROVE  s \in rows' \/ Log!Expired(r, clock)
      BY <1>1, <1>3, <1>4, <2>2 DEF Log!Continues, Log!Expired
    <2>3. r \in rows \/ (\E s \in rows : Log!Continues(r, s)) \/ Log!Expired(r, clock)
      BY DEF LogInv, Related
    <2>4. QED
      BY <2>1, <2>2, <2>3
  <1>6. rows' \subseteq rows
    BY <1>2
  <1>7. Related(disk, rows')
    BY <1>5, <1>6 DEF LogInv, Related
  <1>8. QED
    BY <1>6, <1>7 DEF LogInv, Logged, KeyOnce, Ended

\* A statement: the file takes it over at once, or stays what it was.
LEMMA StatementLog ==
    ASSUME IInv, IInv', LogInv, Logged(rows'), clock' = clock,
           Write(rows') \/ UNCHANGED <<rows, disk, inTx>>
    PROVE  LogInv' /\ Log!Next
  <1>1. clock \in Nat /\ \A r \in rows' : r.last <= clock
    BY AlarmAssumption DEF IInv, TypeOK, Clocked
  <1>2. CASE disk' = disk
    <2>1. LogInv'
      BY <1>2 DEF LogInv, Logged, Related, KeyOnce, Ended
    <2>2. Log!Next
      BY <1>1, <1>2 DEF LogInv, KeyOnce, Log!Next, Log!Commit
    <2>3. QED
      BY <2>1, <2>2
  <1>3. CASE disk' = rows'
    <2>1. LogInv'
      BY <1>3 DEF LogInv, Logged, Related, KeyOnce, Ended
    <2>2. Log!Next
      BY <1>1, <1>3 DEF Logged, Related, KeyOnce, Log!Next, Log!Commit
    <2>3. QED
      BY <2>1, <2>2
  <1>4. QED
    BY <1>2, <1>3 DEF Write

\* The end of flush: several statements reach the file at once, or none.
LEMMA FlushLog ==
    ASSUME IInv, IInv', LogInv, Flush, clock' \in clock..MaxClock
    PROVE  LogInv' /\ Log!Next
  <1>1. /\ TypeOK /\ clock \in Nat /\ clock' \in Nat /\ clock' >= clock /\ Retention \in Nat
        /\ \A r \in rows' \cup disk' : r.last <= clock'
    BY AlarmAssumption DEF IInv, TypeOK, Clocked
  <1>2. \A r \in disk : Log!Expired(r, clock) => Log!Expired(r, clock')
    <2>1. \A r \in disk : r.last \in Nat
      BY <1>1, RowNumbers DEF TypeOK
    <2>2. QED
      BY <1>1, <2>1 DEF Log!Expired
  <1>3. CASE CommitOk
    <2>1. rows' = rows /\ disk' = rows
      BY <1>3 DEF CommitOk
    <2>2. LogInv'
      BY <2>1 DEF LogInv, Related, KeyOnce, Ended
    <2>3. Log!Next
      BY <1>1, <1>2, <2>1 DEF LogInv, Related, KeyOnce, Log!Next, Log!Commit
    <2>4. QED
      BY <2>2, <2>3
  <1>4. CASE CommitBusy
    <2>1. rows' = rows /\ disk' = disk
      BY <1>4 DEF CommitBusy
    <2>2. LogInv'
      BY <1>2, <2>1 DEF LogInv, Related, KeyOnce, Ended
    <2>3. Log!Next
      BY <1>1, <2>1 DEF LogInv, KeyOnce, Log!Next, Log!Commit
    <2>4. QED
      BY <2>2, <2>3
  <1>5. QED
    BY <1>3, <1>4 DEF Flush

\* Every step of the collector, seen in the file, is a step of AlarmLog or none.
LEMMA LogStep ==
    ASSUME IInv, IInv', LogInv, [Next]_vars
    PROVE  LogInv' /\ [Log!Next]_<<clock, disk>>
  <1>0. TypeOK /\ Clocked
    BY DEF IInv
  <1>1. ASSUME UNCHANGED <<clock, rows, disk>>
        PROVE  LogInv' /\ UNCHANGED <<clock, disk>>
    BY <1>1 DEF LogInv, Related, KeyOnce, Ended
  <1>2. CASE Round \/ Resnapshot
    BY <1>2, FlushLog DEF Round, Resnapshot
  <1>3. ASSUME NEW i \in Items, Upsert(i)
        PROVE  LogInv' /\ Log!Next
    <2>1. Write(rows') \/ UNCHANGED <<rows, disk, inTx>>
      BY <1>0, <1>3, RefreshHarmless, InsertHarmless DEF Upsert
    <2>2. Logged(rows')
      BY <1>3, RefreshLogged, InsertLogged DEF Upsert
    <2>3. clock' = clock
      BY <1>3 DEF Upsert
    <2>4. QED
      BY <2>1, <2>2, <2>3, StatementLog
  <1>4. ASSUME NEW i \in Items, Clear(i)
        PROVE  LogInv' /\ [Log!Next]_<<clock, disk>>
    <2>1. clock' = clock
      BY <1>4 DEF Clear
    <2>2. CASE CloseRows(i)
      <3>1. Write(rows') /\ Logged(rows')
        BY <1>0, <2>2, CloseHarmless, CloseLogged
      <3>2. QED
        BY <2>1, <3>1, StatementLog
    <2>3. CASE Busy
      BY <1>1, <2>1, <2>3 DEF Busy
    <2>4. QED
      BY <1>4, <2>2, <2>3 DEF Clear
  <1>5. CASE Prune
    <2>1. Write(rows') /\ clock' = clock
      BY <1>5 DEF Prune, Write
    <2>2. QED
      BY <1>5, <2>1, PruneLogged, StatementLog
  <1>6. CASE StopStream
    <2>1. rows' = disk /\ disk' = disk /\ clock' = clock
      BY <1>6 DEF StopStream
    <2>2. QED
      BY <2>1 DEF LogInv, Related, KeyOnce, Ended
  <1>7. CASE StartStream \/ RaisingDone \/ ClearingDone \/ EndRound \/ UNCHANGED vars
    BY <1>1, <1>7 DEF StartStream, RaisingDone, ClearingDone, EndRound, vars
  <1>8. QED
    BY <1>2, <1>3, <1>4, <1>5, <1>6, <1>7 DEF Next, Collector

\* Whatever fails, the file is a log of occurrences: StatsAlarms implements
\* AlarmLog.
THEOREM FileIsLog == Spec => ImplementsAlarmLog
  <1>1. Init => LogInv /\ Log!Init
    BY DEF Init, LogInv, Related, KeyOnce, Ended, Log!Init
  <1>2. QED
    BY InvInit, InvStep, LogStep, <1>1, PTL DEF Spec, ImplementsAlarmLog, Log!Spec

=============================================================================
