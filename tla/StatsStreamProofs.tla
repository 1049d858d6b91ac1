------------------------- MODULE StatsStreamProofs -------------------------
(***************************************************************************)
(* Proofs about StatsStream, for every set of machines and values and for  *)
(* every buffer size, sample count and bound.                              *)
(*                                                                         *)
(* The argument for OnlyGapsAreStale: between two snapshots the collector  *)
(* walks through the agent's log.  The numbers below seq are either in     *)
(* `states`, or overtaken there by a later one, or in `gaps`, so what an   *)
(* item's field says is its value at some cut between seq-2 and the end of *)
(* the answer being read, up to observations in gaps (Fresh); an item      *)
(* whose block was already applied holds what handle_block takes of it     *)
(* (Applied), and what comes after that is passed over.  The same cut for  *)
(* every item is reached when the answer is read to its end (EndCut),      *)
(* which is what WritesAreOneCut says of the rows.                         *)
(***************************************************************************)
EXTENDS StatsStream, TLAPS

\* The agent's /current is its log: the latest value, or none reported.
CurrentIsLatest ==
    \A i \in Items : Explained(log, {}, i, current[i], Len(log))

\* The collector knows no instance newer than the agent's.
Instances ==
    /\ instanceId <= instance
    /\ pc = "reading" => instanceId <= doc.instance /\ doc.instance <= instance

\* The newest observation the collector can have seen.
Horizon == IF pc = "reading" THEN doc.next - 1 ELSE LastReturned(seq)

Cut(i, v, n) ==
    /\ n >= seq - 1 \/ (n = seq - 2 /\ seq - 1 \in gaps)
    /\ Explained(log, gaps, i, v, n)

Fresh(i) ==
    states[i] # Unseen => \E n \in 0..Len(log) : n <= Horizon /\ Cut(i, states[i], n)

\* The answer being read is a piece of the log starting at seq.
DocIsLog ==
    /\ doc.from = seq
    /\ doc.next >= seq
    /\ doc.next - 1 <= Len(log)
    /\ doc.next - 1 <= LastReturned(seq)
    /\ lastSeq \in {0, doc.next}
    /\ Len(doc.log) >= doc.next - 1
    /\ \A k \in 1..(doc.next - 1) : doc.log[k] = log[k]

\* Items whose block was applied hold what was taken of them.
Applied ==
    \A i \in Items : MachineOf[i] \notin doc.todo =>
        \A k \in Sent(i) : Taken(i, k) => states[i] = doc.log[k].v

Linked == pc # "down" /\ instanceId = instance

CollectorInv ==
    Linked => /\ seq <= Len(log) + 2
              /\ \A i \in Items : Fresh(i)
              /\ pc = "reading" => DocIsLog /\ Applied

IInv ==
    /\ TypeOK
    /\ CurrentIsLatest
    /\ Instances
    /\ CollectorInv

-----------------------------------------------------------------------------


\* What a value is explained by in one log stays its explanation in a log that
\* agrees on the same prefix, with more gaps.
LEMMA ExplainedStable ==
    ASSUME NEW lg, NEW lg2, NEW lost, NEW lost2, NEW i, NEW v, NEW n \in Nat,
           \A k \in 1..n : lg2[k] = lg[k],
           lost \subseteq lost2,
           Explained(lg, lost, i, v, n)
    PROVE  Explained(lg2, lost2, i, v, n)
  <1>1. CASE \E k \in 1..n : /\ lg[k].i = i /\ lg[k].v = v
                             /\ \A j \in (k + 1)..n : lg[j].i = i => j \in lost
    <2>1. PICK k \in 1..n : /\ lg[k].i = i /\ lg[k].v = v
                            /\ \A j \in (k + 1)..n : lg[j].i = i => j \in lost
      BY <1>1
    <2>2. \A j \in (k + 1)..n : lg2[j].i = i => j \in lost2
      BY <2>1
    <2>3. QED
      BY <2>1, <2>2 DEF Explained
  <1>2. CASE v = Unavailable /\ \A j \in 1..n : lg[j].i = i => j \in lost
    BY <1>2 DEF Explained
  <1>3. QED
    BY <1>1, <1>2 DEF Explained

\* A cut may move past observations of other machines and past lost ones.
LEMMA ExplainedFurther ==
    ASSUME NEW lg, NEW lost, NEW i, NEW v, NEW n \in Nat, NEW n2 \in Nat, n <= n2,
           \A j \in (n + 1)..n2 : lg[j].i = i => j \in lost,
           Explained(lg, lost, i, v, n)
    PROVE  Explained(lg, lost, i, v, n2)
  <1>1. CASE \E k \in 1..n : /\ lg[k].i = i /\ lg[k].v = v
                             /\ \A j \in (k + 1)..n : lg[j].i = i => j \in lost
    <2>1. PICK k \in 1..n : /\ lg[k].i = i /\ lg[k].v = v
                            /\ \A j \in (k + 1)..n : lg[j].i = i => j \in lost
      BY <1>1
    <2>2. \A j \in (k + 1)..n2 : lg[j].i = i => j \in lost
      BY <2>1
    <2>3. QED
      BY <2>1, <2>2 DEF Explained
  <1>2. CASE v = Unavailable /\ \A j \in 1..n : lg[j].i = i => j \in lost
    <2>1. \A j \in 1..n2 : lg[j].i = i => j \in lost
      BY <1>2
    <2>2. QED
      BY <1>2, <2>1 DEF Explained
  <1>3. QED
    BY <1>1, <1>2 DEF Explained

-----------------------------------------------------------------------------

\* What a log holds at a number it has reached.
LEMMA ObservationAt ==
    ASSUME NEW lg \in Seq(Observation), NEW k \in 1..Len(lg)
    PROVE  lg[k].i \in Items /\ lg[k].v \in Values
  <1>1. lg[k] \in Observation
    OBVIOUS
  <1>2. QED
    BY <1>1 DEF Observation

RowMap == [Columns -> Values \cup {Unseen}]

\* The rows of a StateMap.
LEMMA RowsTyped == ASSUME NEW st \in StateMap PROVE Rows(st) \in RowMap
  BY DEF StateMap, Rows, RowMap, Columns

\* The initial state is well-typed.
LEMMA TypeInit == Init => TypeOK
  <1> SUFFICES ASSUME Init PROVE TypeOK
    OBVIOUS
  <1>1. NoneSeen \in StateMap
    BY DEF NoneSeen, StateMap
  <1>2. rows \in RowMap
    BY <1>1, RowsTyped DEF Init
  <1>3. QED
    BY <1>1, <1>2, ConstantsAssumption
    DEF Init, TypeOK, NoDocument, RowMap, Document, Observation, Failed

\* Every step keeps the types.
LEMMA TypeStep == TypeOK /\ [Next]_vars => TypeOK'
  <1> SUFFICES ASSUME TypeOK, [Next]_vars PROVE TypeOK'
    OBVIOUS
  <1> USE ConstantsAssumption DEF TypeOK, Failed, RowMap
  <1>0. NoDocument \in Document
    BY DEF NoDocument, Document, Observation
  <1>1. ASSUME NEW i \in Items, NEW v \in Values, Observe(i, v) PROVE TypeOK'
    <2>1. log' \in Seq(Observation)
      BY <1>1 DEF Observe, Observation
    <2>2. QED
      BY <1>1, <2>1 DEF Observe, collectorVars
  <1>2. CASE AgentStalls
    BY <1>2 DEF AgentStalls, collectorVars
  <1>3. CASE AgentResumes
    BY <1>3 DEF AgentResumes, collectorVars
  <1>4. CASE AgentRestarts
    BY <1>4 DEF AgentRestarts, collectorVars
  <1>5. ASSUME TakeSnapshot
        PROVE  /\ up' \in BOOLEAN /\ states' \in StateMap /\ seq' \in Nat
               /\ instanceId' \in Nat /\ rows' \in RowMap
               /\ gaps' \in SUBSET (Nat \ {0})
    <2>1. ASSUME NEW got \in SUBSET Machines, NEW next \in Nat, NEW inst \in Nat,
                 Rebase(got, next, inst)
          PROVE  /\ states' \in StateMap /\ seq' \in Nat /\ instanceId' \in Nat
                 /\ rows' \in RowMap /\ gaps' \in SUBSET (Nat \ {0})
      <3>1. states' \in StateMap
        BY <2>1 DEF Rebase, StateMap
      <3>2. rows' \in RowMap
        BY <2>1, <3>1, RowsTyped DEF Rebase
      <3>3. QED
        BY <2>1, <3>1, <3>2 DEF Rebase
    <2>2. NextSequence \in Nat
      BY DEF NextSequence
    <2>3. CASE WholeSnapshot
      BY <2>1, <2>2, <2>3 DEF WholeSnapshot
    <2>4. CASE PartialSnapshot
      BY <2>1, <2>2, <2>4 DEF PartialSnapshot
    <2>5. QED
      BY <1>5, <2>3, <2>4 DEF TakeSnapshot
  <1>15. CASE StartStream
    BY <1>5, <1>15 DEF StartStream
  <1>6. CASE SampleAnswered
    <2> DEFINE hi == LastReturned(seq)
    <2>0. seq >= 1
      BY <1>6 DEF SampleAnswered, AcceptsFrom, FirstSequence, NextSequence
    <2>1. hi \in Nat /\ hi <= Len(log)
      BY <2>0 DEF LastReturned
    <2>2. doc' \in Document
      <3> DEFINE seen == {MachineOf[log[k].i] : k \in seq..hi}
      <3>1. seen \subseteq Machines
        <4>1. \A k \in seq..hi : k \in 1..Len(log)
          BY <2>0, <2>1
        <4> HIDE DEF hi
        <4>2. \A k \in seq..hi : MachineOf[log[k].i] \in Machines
          BY <4>1, ObservationAt
        <4>3. QED
          BY <4>2
      <3>2. doc' = [from |-> seq, next |-> hi + 1, log |-> log,
                    instance |-> instance, todo |-> seen]
        BY <1>6 DEF SampleAnswered
      <3> HIDE DEF hi, seen
      <3>3. QED
        BY <2>0, <2>1, <3>1, <3>2 DEF Document
    <2>3. QED
      BY <1>6, <2>1, <2>2 DEF SampleAnswered, agentVars
  <1>7. CASE SampleRefused
    BY <1>7 DEF SampleRefused, agentVars
  <1>8. ASSUME NEW m \in Machines, HandleBlock(m) PROVE TypeOK'
    <2>1. ASSUME NEW i \in Items, NEW k \in Sent(i) PROVE doc.log[k].v \in Values
      <3>1. k \in 1..Len(doc.log) /\ doc.log \in Seq(Observation)
        BY DEF Document, Sent
      <3>2. QED
        BY <3>1, ObservationAt
    <2>2. \A i \in Items : (\E k \in Sent(i) : Taken(i, k)) =>
             doc.log[CHOOSE k \in Sent(i) : Taken(i, k)].v \in Values
      BY <2>1
    <2>3. states' \in StateMap
      BY <1>8, <2>2 DEF HandleBlock, StateMap
    <2>4. doc' \in Document
      BY <1>8 DEF HandleBlock, Document
    <2>5. QED
      BY <1>8, <2>3, <2>4 DEF HandleBlock, agentVars
  <1>9. CASE AnswerBreaks
    BY <1>9, <1>0 DEF AnswerBreaks, DropDocument, agentVars
  <1>10. CASE EndRound
    <2>1. seq' \in Nat
      BY <1>10 DEF EndRound, ResumeAt
    <2>2. doc.next \in Nat \ {0} /\ doc.from \in Nat \ {0}
      BY DEF Document
    <2>3. gaps' \in SUBSET (Nat \ {0})
      <3>1. Missed(seq') \subseteq doc.from..(seq' - 1)
        BY DEF Missed
      <3>2. Missed(seq') \subseteq Nat \ {0}
        BY <2>1, <2>2, <3>1
      <3>3. QED
        BY <1>10, <3>2 DEF EndRound
    <2>4. rows' \in RowMap
      BY <1>10, RowsTyped DEF EndRound
    <2>5. QED
      BY <1>10, <1>0, <2>1, <2>3, <2>4 DEF EndRound, DropDocument, agentVars
  <1>11. CASE RoundFailed
    <2>2. CASE TakeSnapshot
      BY <1>5, <1>11, <2>2 DEF RoundFailed
    <2>3. CASE SnapshotFails
      BY <1>11, <2>3 DEF RoundFailed, SnapshotFails
    <2>4. QED
      BY <1>11, <2>2, <2>3 DEF RoundFailed
  <1>12. CASE StopStream
    BY <1>12, <1>0 DEF StopStream, DropDocument, agentVars, NoneSeen, StateMap
  <1>13. CASE UNCHANGED vars
    BY <1>13 DEF vars, agentVars, collectorVars
  <1>14. CASE ProcessHeader
    BY <1>14 DEF ProcessHeader, agentVars, Document
  <1>16. QED
    BY <1>1, <1>2, <1>3, <1>4, <1>15, <1>6, <1>7, <1>8, <1>9, <1>10, <1>11, <1>12, <1>13,
       <1>14
    DEF Next, Agent, Collector, RoundOk, AnswerTimesOut

-----------------------------------------------------------------------------

\* What Observe does to the log, in the terms of the lemmas above.
LEMMA ObserveLog ==
    ASSUME TypeOK, NEW i \in Items, NEW v \in Values, Observe(i, v)
    PROVE  /\ Len(log') = Len(log) + 1
           /\ \A k \in 1..Len(log) : log'[k] = log[k]
           /\ log'[Len(log) + 1].i = i
           /\ log'[Len(log) + 1].v = v
           /\ Len(log) \in Nat
  BY DEF TypeOK, Observe

\* /current follows the log.
LEMMA CurrentStep == TypeOK /\ CurrentIsLatest /\ [Next]_vars => CurrentIsLatest'
  <1> SUFFICES ASSUME TypeOK, CurrentIsLatest, [Next]_vars PROVE CurrentIsLatest'
    OBVIOUS
  <1>1. ASSUME NEW i \in Items, NEW v \in Values, Observe(i, v) PROVE CurrentIsLatest'
    <2> SUFFICES ASSUME NEW d \in Items
                 PROVE  Explained(log', {}, d, current'[d], Len(log'))
      BY DEF CurrentIsLatest
    <2>0. /\ Len(log') = Len(log) + 1
          /\ \A k \in 1..Len(log) : log'[k] = log[k]
          /\ log'[Len(log) + 1].i = i
          /\ log'[Len(log) + 1].v = v
          /\ Len(log) \in Nat
          /\ current' = [current EXCEPT ![i] = v]
          /\ current \in [Items -> Values]
      BY <1>1, ObserveLog DEF Observe, TypeOK
    <2>1. CASE d = i
      BY <2>0, <2>1 DEF Explained
    <2>2. CASE d # i
      <3>1. Explained(log', {}, d, current[d], Len(log))
        BY <2>0, ExplainedStable DEF CurrentIsLatest
      <3>2. \A j \in (Len(log) + 1)..Len(log') : log'[j].i # d
        BY <2>0, <2>2
      <3>3. Explained(log', {}, d, current[d], Len(log'))
        BY <2>0, <3>1, <3>2, ExplainedFurther
      <3>4. QED
        BY <2>0, <2>2, <3>3
    <2>3. QED
      BY <2>1, <2>2
  <1>2. CASE AgentRestarts
    BY <1>2 DEF AgentRestarts, CurrentIsLatest, Explained
  <1>3. CASE UNCHANGED <<log, current>>
    BY <1>3 DEF CurrentIsLatest
  <1>4. QED
    BY <1>1, <1>2, <1>3
    DEF Next, Agent, Collector, vars, agentVars, AgentStalls, AgentResumes, StartStream,
        SampleAnswered, SampleRefused, ProcessHeader, HandleBlock, AnswerBreaks, RoundOk,
        AnswerTimesOut, EndRound, RoundFailed, StopStream

\* Instance numbers only grow, and the collector's are the agent's or older.
LEMMA InstancesStep == TypeOK /\ Instances /\ [Next]_vars => Instances'
  <1> SUFFICES ASSUME TypeOK, Instances, [Next]_vars PROVE Instances'
    OBVIOUS
  <1> USE DEF Instances, TypeOK, Failed
  <1>0. doc.instance \in Nat
    BY DEF Document
  <1>1. CASE Agent
    <2>1. /\ instance' \in Nat /\ instance <= instance'
          /\ UNCHANGED <<pc, instanceId, doc>>
      <3>1. ASSUME NEW i \in Items, NEW v \in Values, Observe(i, v)
            PROVE  UNCHANGED <<instance, pc, instanceId, doc>>
        BY <3>1 DEF Observe, collectorVars
      <3>2. CASE AgentStalls \/ AgentResumes
        BY <3>2 DEF AgentStalls, AgentResumes, collectorVars
      <3>3. CASE AgentRestarts
        BY <3>3 DEF AgentRestarts, collectorVars
      <3>4. QED
        BY <1>1, <3>1, <3>2, <3>3 DEF Agent
    <2>2. QED
      BY <1>0, <2>1
  <1>2. ASSUME TakeSnapshot, instance' = instance, pc' = "idle" PROVE Instances'
    BY <1>2 DEF TakeSnapshot, WholeSnapshot, PartialSnapshot, Rebase
  <1>3. CASE SampleAnswered
    BY <1>3 DEF SampleAnswered, agentVars
  <1>4. CASE SampleRefused
    BY <1>4 DEF SampleRefused, agentVars
  <1>5. ASSUME NEW m \in Machines, HandleBlock(m) PROVE Instances'
    <2>1. doc'.instance = doc.instance
      BY <1>5 DEF HandleBlock, Document
    <2>2. QED
      BY <1>5, <2>1 DEF HandleBlock, agentVars
  <1>6. CASE AnswerBreaks
    BY <1>6 DEF AnswerBreaks, agentVars
  <1>7. CASE EndRound
    BY <1>7 DEF EndRound, agentVars
  <1>8. CASE RoundFailed
    BY <1>2, <1>8 DEF RoundFailed, SnapshotFails
  <1>9. CASE StopStream
    BY <1>9 DEF StopStream, agentVars
  <1>10. CASE UNCHANGED vars
    BY <1>10 DEF vars, agentVars, collectorVars
  <1>11. CASE ProcessHeader
    BY <1>11 DEF ProcessHeader, agentVars
  <1>12. CASE StartStream
    BY <1>2, <1>12 DEF StartStream
  <1>13. QED
    BY <1>1, <1>3, <1>4, <1>5, <1>6, <1>7, <1>8, <1>9, <1>10, <1>11, <1>12
    DEF Next, Collector, RoundOk, AnswerTimesOut

-----------------------------------------------------------------------------
(* The collector's picture. *)

\* A snapshot is explained by the whole log, whatever the gaps.
LEMMA CurrentExplained ==
    ASSUME TypeOK, CurrentIsLatest, NEW i \in Items, NEW lost
    PROVE  Explained(log, lost, i, current[i], Len(log))
  <1>1. Explained(log, {}, i, current[i], Len(log)) /\ Len(log) \in Nat
    BY DEF CurrentIsLatest, TypeOK
  <1>2. QED
    BY <1>1, ExplainedStable

\* The agent's steps leave what the collector holds explained.
LEMMA CollectorAgentStep ==
    TypeOK /\ Instances /\ CollectorInv /\ Agent => CollectorInv'
  <1> SUFFICES ASSUME TypeOK, Instances, CollectorInv, Agent PROVE CollectorInv'
    OBVIOUS
  <1>1. ASSUME NEW i \in Items, NEW v \in Values, Observe(i, v), Linked'
        PROVE  CollectorInv'
    <2>0. /\ Len(log') = Len(log) + 1
          /\ \A k \in 1..Len(log) : log'[k] = log[k]
          /\ Len(log) \in Nat
          /\ UNCHANGED <<instance, pc, seq, instanceId, states, doc, lastSeq, gaps>>
          /\ Linked
          /\ doc.next \in Nat /\ doc.from \in Nat \ {0}
          /\ seq \in Nat
      BY <1>1, ObserveLog DEF Observe, collectorVars, Linked, TypeOK, Document
    <2>1. Horizon <= Horizon'
      BY <2>0, ConstantsAssumption DEF Horizon, LastReturned
    <2>2. ASSUME NEW d \in Items, states[d] # Unseen PROVE Fresh(d)'
      <3>1. PICK n \in 0..Len(log) : n <= Horizon /\ Cut(d, states[d], n)
        BY <2>0, <2>2 DEF CollectorInv, Fresh
      <3>2. Explained(log', gaps, d, states[d], n)
        BY <2>0, <3>1, ExplainedStable DEF Cut
      <3>3. Horizon \in Int /\ Horizon' \in Int
        BY <2>0, ConstantsAssumption DEF Horizon, LastReturned
      <3>4. n \in 0..Len(log') /\ n <= Horizon'
        BY <2>0, <2>1, <3>1, <3>3
      <3>5. QED
        BY <2>0, <3>1, <3>2, <3>4 DEF Fresh, Cut
    <2>3. ASSUME pc = "reading" PROVE DocIsLog' /\ Applied'
      <3>1. DocIsLog /\ Applied
        BY <2>0, <2>3 DEF CollectorInv
      <3>2. DocIsLog'
        <4>1. LastReturned(seq) \in Int /\ LastReturned(seq)' \in Int
              /\ LastReturned(seq) <= LastReturned(seq)'
          BY <2>0, ConstantsAssumption DEF LastReturned
        <4>2. doc.next - 1 <= Len(log') /\ doc.next - 1 <= LastReturned(seq)'
          BY <2>0, <3>1, <4>1 DEF DocIsLog
        <4>3. \A k \in 1..(doc.next - 1) : doc.log[k] = log'[k]
          BY <2>0, <3>1 DEF DocIsLog
        <4>4. QED
          BY <2>0, <3>1, <4>2, <4>3 DEF DocIsLog
      <3>3. Applied'
        <4>1. \A c \in Items : Sent(c)' = Sent(c)
          BY <2>0 DEF Sent
        <4>2. There' = There
          BY <4>1 DEF There
        <4>3. ASSUME NEW c \in Items, NEW k, Taken(c, k)' PROVE Taken(c, k)
          <5>1. Looked(c, There) /\ Known(c, doc.log[k].v)
            BY <2>0, <4>2, <4>3 DEF Taken, Looked, Known
          <5>2. QED
            BY <2>0, <4>1, <4>3, <5>1 DEF Taken
        <4>4. doc' = doc /\ states' = states
          BY <2>0
        <4>5. QED
          BY <3>1, <4>1, <4>3, <4>4 DEF Applied
      <3>4. QED
        BY <3>2, <3>3
    <2>4. QED
      BY <2>0, <2>2, <2>3 DEF CollectorInv, Fresh
  <1>2. CASE AgentRestarts
    <2>1. ~Linked'
      BY <1>2 DEF AgentRestarts, Linked, collectorVars, Instances, TypeOK
    <2>2. QED
      BY <2>1 DEF CollectorInv
  <1>3. CASE AgentStalls \/ AgentResumes
    BY <1>3 DEF AgentStalls, AgentResumes, collectorVars, CollectorInv, Linked, Fresh, Cut,
                Horizon, LastReturned, DocIsLog, Applied, Sent, Taken, Looked, There, Known
  <1>4. QED
    BY <1>1, <1>2, <1>3 DEF Agent, CollectorInv

\* A snapshot makes every machine fresh.
LEMMA SnapshotFresh ==
    ASSUME TypeOK, CurrentIsLatest, TakeSnapshot, UNCHANGED log, pc' = "idle"
    PROVE  CollectorInv'
  <1>0. Len(log) \in Nat /\ Unseen # Unavailable
    BY ConstantsAssumption DEF TypeOK
  <1>1. ASSUME NEW got \in SUBSET Machines, NEW inst, Rebase(got, NextSequence, inst)
        PROVE  CollectorInv'
    <2>0. seq' = Len(log) + 1 /\ gaps' = {}
          /\ \A i \in Items : states'[i] \in {current[i], Unseen}
      BY <1>1 DEF Rebase, NextSequence
    <2>1. Horizon' = Len(log)
      BY <1>0, <2>0, ConstantsAssumption DEF Horizon, LastReturned
    <2>2. ASSUME NEW i \in Items PROVE Fresh(i)'
      <3>1. Explained(log, {}, i, current[i], Len(log))
        BY CurrentExplained
      <3>2. QED
        BY <1>0, <2>0, <2>1, <3>1 DEF Fresh, Cut
    <2>3. QED
      BY <1>0, <2>0, <2>2 DEF CollectorInv
  <1>2. ASSUME Rebase({}, 0, instanceId) PROVE CollectorInv'
    BY <1>0, <1>2 DEF Rebase, CollectorInv, Fresh
  <1>3. QED
    BY <1>1, <1>2 DEF TakeSnapshot, WholeSnapshot, PartialSnapshot

\* The request is answered: the answer starts at seq, nothing is applied yet.
LEMMA AnsweredStep ==
    ASSUME TypeOK, Instances, CollectorInv, SampleAnswered
    PROVE  CollectorInv'
  <1> SUFFICES ASSUME Linked' PROVE seq' <= Len(log') + 2
                                    /\ (\A i \in Items : Fresh(i)')
                                    /\ DocIsLog' /\ Applied'
    BY DEF CollectorInv
  <1> DEFINE hi == LastReturned(seq)
             seen == {MachineOf[log[k].i] : k \in seq..hi}
  <1>0. /\ Len(log) \in Nat
        /\ seq \in Nat
        /\ seq <= Len(log) + 1
        /\ Linked
        /\ UNCHANGED <<log, seq, states, gaps>>
        /\ doc' = [from |-> seq, next |-> hi + 1, log |-> log,
                   instance |-> instance, todo |-> seen]
        /\ lastSeq' = 0
        /\ pc = "idle" /\ pc' = "reading"
    BY DEF SampleAnswered, AcceptsFrom, NextSequence, agentVars, TypeOK, Linked
  <1>1. hi \in Nat /\ hi <= Len(log) /\ hi >= seq - 1
    <2>1. seq >= 1
      BY <1>0, ConstantsAssumption
      DEF SampleAnswered, AcceptsFrom, FirstSequence, NextSequence, TypeOK
    <2>2. QED
      BY <1>0, <2>1, ConstantsAssumption DEF LastReturned
  <1>2. Horizon = hi
    BY <1>0 DEF Horizon
  <1> HIDE DEF hi, seen
  <1>3. Horizon' = hi
    BY <1>0, <1>1 DEF Horizon
  <1>4. ASSUME NEW i \in Items PROVE Fresh(i)'
    BY <1>0, <1>2, <1>3 DEF CollectorInv, Fresh, Cut
  <1>5. DocIsLog'
    <2>1. LastReturned(seq)' = hi
      BY <1>0 DEF hi, LastReturned
    <2>2. QED
      BY <1>0, <1>1, <2>1 DEF DocIsLog
  <1>6. Applied'
    <2> SUFFICES ASSUME NEW i \in Items, MachineOf[i] \notin doc'.todo, NEW k \in Sent(i)'
                 PROVE  FALSE
      BY DEF Applied
    <2>1. k \in seq..hi /\ log[k].i = i
      BY <1>0, <1>1 DEF Sent
    <2>2. MachineOf[i] \in seen
      BY <2>1 DEF seen
    <2>3. QED
      BY <1>0, <2>2
  <1>7. QED
    BY <1>0, <1>4, <1>5, <1>6

\* An item's field is given at most one observation of an answer.
LEMMA TakenOnce ==
    ASSUME TypeOK, NEW i \in Items, NEW j \in Sent(i), NEW k \in Sent(i),
           Taken(i, j), Taken(i, k)
    PROVE  j = k
  <1>1. /\ j \in Nat /\ k \in Nat
        /\ j \in 1..Len(doc.log) /\ k \in 1..Len(doc.log) /\ doc.log \in Seq(Observation)
    BY DEF TypeOK, Document, Sent
  <1>2. doc.log[j].v \in Nat /\ doc.log[k].v \in Nat
    BY <1>1, ObservationAt, ConstantsAssumption
  <1>3. Kind[i] \in Kinds
    BY ConstantsAssumption
  <1>4. CASE Kind[i] = "last"
    BY <1>1, <1>4 DEF Taken
  <1>5. CASE Kind[i] = "condition"
    BY <1>1, <1>2, <1>5 DEF Taken
  <1>6. CASE Kind[i] \in {"first", "estop"}
    BY <1>1, <1>6 DEF Taken
  <1>7. QED
    BY <1>3, <1>4, <1>5, <1>6 DEF Kinds

\* One block is applied: the items of its machine hold what is taken of them, which is
\* what they were at the number of that observation.
LEMMA BlockStep ==
    ASSUME TypeOK, Instances, CollectorInv, NEW m \in Machines, HandleBlock(m)
    PROVE  CollectorInv'
  <1> SUFFICES ASSUME Linked' PROVE seq' <= Len(log') + 2
                                    /\ (\A d \in Items : Fresh(d)')
                                    /\ DocIsLog' /\ Applied'
    BY DEF CollectorInv, HandleBlock
  <1>0. /\ UNCHANGED <<log, current, seq, gaps, pc, lastSeq>>
        /\ pc = "reading" /\ Linked
        /\ doc'.from = doc.from /\ doc'.next = doc.next /\ doc'.log = doc.log
        /\ doc'.todo = doc.todo \ {m}
        /\ Len(log) \in Nat
        /\ doc.next \in Nat \ {0} /\ doc.from \in Nat \ {0} /\ seq \in Nat
    BY DEF HandleBlock, Document, agentVars, TypeOK, Linked
  <1>1. DocIsLog /\ Applied /\ (\A d \in Items : Fresh(d)) /\ seq <= Len(log) + 2
    BY <1>0 DEF CollectorInv
  <1>2. DocIsLog'
    BY <1>0, <1>1 DEF DocIsLog, LastReturned
  <1>3. Horizon = doc.next - 1 /\ Horizon' = doc.next - 1
    BY <1>0 DEF Horizon
  <1>4. \A d \in Items : MachineOf[d] # m => states'[d] = states[d]
    BY DEF HandleBlock
  <1>5. \A d \in Items : (~\E k \in Sent(d) : Taken(d, k)) => states'[d] = states[d]
    BY DEF HandleBlock
  <1>6. ASSUME NEW d \in Items, MachineOf[d] = m, NEW k \in Sent(d), Taken(d, k)
        PROVE  states'[d] = doc.log[k].v
    <2> DEFINE c == CHOOSE j \in Sent(d) : Taken(d, j)
    <2>1. c \in Sent(d) /\ Taken(d, c)
      BY <1>6
    <2>2. c = k
      BY <1>6, <2>1, TakenOnce
    <2>3. QED
      BY <1>6, <2>2 DEF HandleBlock
  <1>7. ASSUME NEW d \in Items PROVE Fresh(d)'
    <2>1. CASE states'[d] = states[d]
      BY <1>0, <1>1, <1>3, <2>1 DEF Fresh, Cut
    <2>2. CASE states'[d] # states[d]
      <3>1. PICK k \in Sent(d) : Taken(d, k)
        BY <1>5, <2>2
      <3>2. states'[d] = doc.log[k].v
        BY <1>4, <1>6, <2>2, <3>1
      <3>3. k \in seq..(doc.next - 1) /\ doc.log[k].i = d /\ k \in 1..(doc.next - 1)
        BY <1>0, <1>1 DEF Sent, DocIsLog
      <3>4. log[k].i = d /\ log[k].v = states'[d] /\ k \in 0..Len(log) /\ k \in 1..k
        BY <1>0, <1>1, <3>2, <3>3 DEF DocIsLog
      <3>5. Explained(log, gaps, d, states'[d], k)
        BY <3>3, <3>4 DEF Explained
      <3>6. QED
        BY <1>0, <1>3, <3>3, <3>4, <3>5 DEF Fresh, Cut
    <2>3. QED
      BY <2>1, <2>2
  <1>8. Applied'
    <2> SUFFICES ASSUME NEW d \in Items, MachineOf[d] \notin doc'.todo,
                        NEW k \in Sent(d)', Taken(d, k)'
                 PROVE  states'[d] = doc.log[k].v
      BY <1>0 DEF Applied
    <2>1. k \in Sent(d) /\ Taken(d, k)
      BY <1>0 DEF Sent, Taken, Looked, There, Known
    <2>2. CASE MachineOf[d] = m
      BY <1>6, <2>1, <2>2
    <2>3. CASE MachineOf[d] # m
      BY <1>0, <1>1, <1>4, <2>1, <2>3 DEF Applied
    <2>4. QED
      BY <2>2, <2>3
  <1>9. QED
    BY <1>0, <1>1, <1>2, <1>7, <1>8

\* What the end of a round leaves behind when the Header was parsed: every
\* machine stands exactly at the end of the answer, which is seq - 2 in the new
\* seq, and seq - 1 is in a gap.
LEMMA EndCut ==
    ASSUME TypeOK, Instances, CollectorInv, Linked, EndRound, lastSeq > 0
    PROVE  /\ doc.next \in Nat \ {0} /\ doc.next - 1 <= Len(log)
           /\ seq' = doc.next + 1
           /\ doc.next \in gaps' /\ gaps \subseteq gaps'
           /\ \A i \in Items : states[i] # Unseen =>
                 Explained(log, gaps', i, states[i], doc.next - 1)
  <1>0. /\ pc = "reading"
        /\ Len(log) \in Nat
        /\ doc.next \in Nat \ {0} /\ doc.from \in Nat \ {0} /\ seq \in Nat
        /\ gaps' = gaps \cup Missed(seq')
        /\ seq' = ResumeAt(seq, lastSeq)
    BY DEF EndRound, Document, TypeOK
  <1>1. DocIsLog /\ Applied /\ (\A d \in Items : Fresh(d))
    BY <1>0 DEF CollectorInv
  <1>2. seq' = doc.next + 1
    BY <1>0, <1>1 DEF DocIsLog, ResumeAt
  <1>3. doc.next - 1 \in Nat /\ doc.next - 1 <= Len(log) /\ seq <= doc.next /\ doc.from = seq
    BY <1>0, <1>1 DEF DocIsLog
  <1>4. doc.next \in gaps' /\ gaps \subseteq gaps'
    BY <1>0, <1>2, <1>3 DEF Missed
  <1>5. ASSUME NEW j \in seq..(doc.next - 1),
               MachineOf[doc.log[j].i] \in doc.todo \/ PassedOver(j)
        PROVE  j \in gaps'
    BY <1>0, <1>2, <1>3, <1>5 DEF Missed
  <1>6. ASSUME NEW i \in Items, states[i] # Unseen
        PROVE  Explained(log, gaps', i, states[i], doc.next - 1)
    <2>0. \A j \in seq..(doc.next - 1) : doc.log[j] = log[j]
      BY <1>0, <1>1, <1>3 DEF DocIsLog
    <2>1. CASE MachineOf[i] \notin doc.todo /\ \E k \in Sent(i) : Taken(i, k)
      <3>1. PICK k \in Sent(i) : Taken(i, k)
        BY <2>1
      <3>2. k \in seq..(doc.next - 1) /\ doc.log[k].i = i /\ doc.log[k].v = states[i]
        BY <1>1, <1>3, <2>1, <3>1 DEF Applied, Sent
      <3>3. k \in 1..(doc.next - 1) /\ log[k].i = i /\ log[k].v = states[i]
        BY <1>0, <1>3, <2>0, <3>2
      <3>4. ASSUME NEW j \in (k + 1)..(doc.next - 1), log[j].i = i PROVE j \in gaps'
        <4>1. j \in seq..(doc.next - 1) /\ doc.log[j].i = i /\ k < j
          BY <1>0, <1>3, <2>0, <3>2, <3>4
        <4>2. PassedOver(j)
          BY <3>1, <4>1, TakenOnce DEF PassedOver
        <4>3. QED
          BY <1>5, <4>1, <4>2
      <3>5. QED
        BY <3>3, <3>4 DEF Explained
    <2>2. CASE MachineOf[i] \in doc.todo \/ \A k \in Sent(i) : ~Taken(i, k)
      <3>1. PICK n \in 0..Len(log) : n <= Horizon /\ Cut(i, states[i], n)
        BY <1>1, <1>6 DEF Fresh
      <3>2. n \in Nat /\ n <= doc.next - 1
        BY <1>0, <3>1 DEF Horizon
      <3>4. ASSUME NEW j \in seq..(doc.next - 1), log[j].i = i PROVE j \in gaps'
        <4>1. doc.log[j].i = i
          BY <2>0, <3>4
        <4>2. MachineOf[doc.log[j].i] \in doc.todo \/ PassedOver(j)
          BY <2>2, <4>1 DEF PassedOver
        <4>3. QED
          BY <1>5, <4>2
      <3>5. \A j \in (n + 1)..(doc.next - 1) : j \in seq..(doc.next - 1) \/ j \in gaps
        BY <1>0, <1>3, <3>1, <3>2 DEF Cut
      <3>6. Explained(log, gaps', i, states[i], n)
        BY <1>4, <3>1, <3>2, ExplainedStable DEF Cut
      <3>7. QED
        BY <1>3, <1>4, <3>2, <3>4, <3>5, <3>6, ExplainedFurther
    <2>3. QED
      BY <2>1, <2>2
  <1>7. QED
    BY <1>0, <1>2, <1>3, <1>4, <1>6

\* Giving an answer up without having moved seq leaves everything as fresh.
LEMMA DroppedFresh ==
    ASSUME TypeOK, CollectorInv, Linked, pc = "reading", pc' # "reading",
           UNCHANGED <<log, seq, states, gaps>>
    PROVE  CollectorInv'
  <1>1. Len(log) \in Nat /\ seq \in Nat /\ doc.next \in Nat
    BY DEF TypeOK, Document
  <1>2. Horizon = doc.next - 1 /\ Horizon' = LastReturned(seq)
    BY DEF Horizon, LastReturned
  <1>3. DocIsLog /\ (\A i \in Items : Fresh(i)) /\ seq <= Len(log) + 2
    BY DEF CollectorInv
  <1>4. Horizon <= Horizon' /\ Horizon \in Int /\ Horizon' \in Int
    BY <1>1, <1>2, <1>3, ConstantsAssumption DEF DocIsLog, LastReturned
  <1>5. ASSUME NEW i \in Items, states[i] # Unseen PROVE Fresh(i)'
    <2>1. PICK n \in 0..Len(log) : n <= Horizon /\ Cut(i, states[i], n)
      BY <1>3, <1>5 DEF Fresh
    <2>2. n <= Horizon'
      BY <1>1, <1>4, <2>1
    <2>3. QED
      BY <1>1, <2>1, <2>2 DEF Fresh, Cut
  <1>6. \A i \in Items : Fresh(i)'
    BY <1>5 DEF Fresh
  <1>7. QED
    BY <1>3, <1>6 DEF CollectorInv

\* The end of a round, of a complete answer or of one that timed out.
LEMMA EndRoundStep ==
    ASSUME TypeOK, Instances, CollectorInv, EndRound
    PROVE  CollectorInv'
  <1> SUFFICES ASSUME Linked' PROVE CollectorInv'
    BY DEF CollectorInv
  <1>0. /\ UNCHANGED <<log, states>> /\ Linked /\ pc = "reading" /\ pc' = "idle"
        /\ Len(log) \in Nat /\ lastSeq \in Nat /\ seq \in Nat /\ doc.next \in Nat
        /\ gaps \in SUBSET (Nat \ {0})
    BY DEF EndRound, agentVars, Linked, TypeOK, Document
  <1>1. CASE lastSeq = 0
    <2>1. DocIsLog
      BY <1>0 DEF CollectorInv
    <2>2. seq' = seq /\ gaps' = gaps
      BY <1>0, <1>1, <2>1 DEF EndRound, ResumeAt, Missed, DocIsLog
    <2>3. QED
      BY <1>0, <2>2, DroppedFresh
  <1>2. CASE lastSeq > 0
    <2>1. /\ doc.next \in Nat \ {0} /\ doc.next - 1 <= Len(log)
          /\ seq' = doc.next + 1
          /\ doc.next \in gaps' /\ gaps \subseteq gaps'
          /\ \A i \in Items : states[i] # Unseen =>
                Explained(log, gaps', i, states[i], doc.next - 1)
      BY <1>0, <1>2, EndCut
    <2>2. Horizon' >= doc.next - 1
      BY <1>0, <2>1, ConstantsAssumption DEF Horizon, LastReturned
    <2>3. ASSUME NEW i \in Items PROVE Fresh(i)'
      <3>1. doc.next - 1 \in 0..Len(log) /\ doc.next - 1 = seq' - 2 /\ seq' - 1 = doc.next
        BY <1>0, <2>1
      <3>2. QED
        BY <1>0, <2>1, <2>2, <3>1 DEF Fresh, Cut
    <2>4. QED
      BY <1>0, <2>1, <2>3 DEF CollectorInv
  <1>3. QED
    BY <1>0, <1>1, <1>2

\* Every step keeps the collector's picture explained.
LEMMA CollectorStep ==
    TypeOK /\ CurrentIsLatest /\ Instances /\ CollectorInv /\ [Next]_vars => CollectorInv'
  <1> SUFFICES ASSUME TypeOK, CurrentIsLatest, Instances, CollectorInv, [Next]_vars
               PROVE  CollectorInv'
    OBVIOUS
  <1>1. CASE Agent
    BY <1>1, CollectorAgentStep
  <1>2. CASE StartStream
    BY <1>2, SnapshotFresh DEF StartStream
  <1>3. CASE SampleAnswered
    BY <1>3, AnsweredStep
  <1>4. CASE SampleRefused
    BY <1>4 DEF SampleRefused, agentVars, CollectorInv, Linked, Fresh, Cut, Horizon,
                LastReturned
  <1>5. ASSUME NEW m \in Machines, HandleBlock(m) PROVE CollectorInv'
    BY <1>5, BlockStep
  <1>6. CASE AnswerBreaks
    BY <1>6, DroppedFresh DEF AnswerBreaks, agentVars, CollectorInv, Linked
  <1>7. CASE EndRound
    BY <1>7, EndRoundStep
  <1>8. CASE RoundFailed
    <2>1. CASE TakeSnapshot
      BY <1>8, <2>1, SnapshotFresh DEF RoundFailed
    <2>2. CASE SnapshotFails
      BY <1>8, <2>2 DEF RoundFailed, SnapshotFails, CollectorInv, Linked, Fresh,
                        Cut, Horizon, LastReturned, Failed
    <2>3. QED
      BY <1>8, <2>1, <2>2 DEF RoundFailed
  <1>9. CASE StopStream
    BY <1>9 DEF StopStream, CollectorInv, Linked
  <1>10. CASE UNCHANGED vars
    BY <1>10 DEF vars, agentVars, collectorVars, CollectorInv, Linked, Fresh, Cut, Horizon,
                 LastReturned, DocIsLog, Applied, Sent, Taken, Looked, There, Known
  <1>11. CASE ProcessHeader
    BY <1>11 DEF ProcessHeader, agentVars, CollectorInv, Linked, Fresh, Cut, Horizon,
                 LastReturned, DocIsLog, Applied, Sent, Taken, Looked, There, Known
  <1>12. QED
    BY <1>1, <1>2, <1>3, <1>4, <1>5, <1>6, <1>7, <1>8, <1>9, <1>10, <1>11
    DEF Next, Collector, RoundOk, AnswerTimesOut

-----------------------------------------------------------------------------
(* The stored rows. *)

\* What WritesAreOneCut asks of a write.
OneCut ==
    \E n \in 0..Len(log) : \A i \in Columns :
        rows'[i] # Unseen => Explained(log, gaps', i, rows'[i], n)

\* A snapshot, whole or partial, writes one cut: the end of the log.
LEMMA SnapshotIsOneCut ==
    ASSUME TypeOK, CurrentIsLatest, TakeSnapshot
    PROVE  OneCut
  <1>1. PICK got \in SUBSET Machines, next \in Nat, inst \in Nat : Rebase(got, next, inst)
    BY DEF TakeSnapshot, WholeSnapshot, PartialSnapshot, TypeOK, NextSequence
  <1>2. \A i \in Columns : rows'[i] \in {current[i], Unseen}
    BY <1>1 DEF Rebase, Rows, Columns
  <1>3. \A i \in Items : Explained(log, gaps', i, current[i], Len(log))
    BY CurrentExplained
  <1>4. Len(log) \in 0..Len(log)
    BY DEF TypeOK
  <1>5. QED
    BY <1>2, <1>3, <1>4 DEF OneCut, Columns

\* So does every other step that changes the rows, a timed-out round aside.
LEMMA WriteStep ==
    ASSUME IInv, [Next]_vars, rows' # rows, instanceId' = instance, ~AnswerTimesOut
    PROVE  OneCut
  <1>0. TypeOK /\ CurrentIsLatest /\ Instances /\ CollectorInv
    BY DEF IInv
  <1>1. CASE StartStream
    BY <1>0, <1>1, SnapshotIsOneCut DEF StartStream
  <1>2. CASE RoundFailed
    BY <1>0, <1>2, SnapshotIsOneCut DEF RoundFailed, SnapshotFails
  <1>3. CASE RoundOk
    <2>1. EndRound /\ lastSeq > 0 /\ Linked /\ rows' = Rows(states)
      BY <1>3 DEF RoundOk, EndRound, Linked
    <2>2. /\ doc.next \in Nat \ {0} /\ doc.next - 1 <= Len(log)
          /\ \A i \in Items : states[i] # Unseen =>
                Explained(log, gaps', i, states[i], doc.next - 1)
      BY <1>0, <2>1, EndCut
    <2>3. doc.next - 1 \in 0..Len(log)
      BY <1>0, <2>2 DEF TypeOK
    <2>4. QED
      BY <2>1, <2>2, <2>3 DEF OneCut, Rows, Columns
  <1>4. QED
    BY <1>1, <1>2, <1>3
    DEF Next, Agent, Collector, vars, Observe, AgentStalls, AgentResumes, AgentRestarts,
        SampleAnswered, SampleRefused, ProcessHeader, HandleBlock, AnswerBreaks, StopStream

-----------------------------------------------------------------------------

\* The inductive invariant holds at first.
LEMMA InvInit == Init => IInv
  <1> SUFFICES ASSUME Init PROVE IInv
    OBVIOUS
  <1>1. TypeOK
    BY TypeInit
  <1>2. CurrentIsLatest /\ Instances
    BY DEF Init, CurrentIsLatest, Explained, Instances
  <1>3. CollectorInv
    BY DEF Init, CollectorInv, Linked
  <1>4. QED
    BY <1>1, <1>2, <1>3 DEF IInv

\* Every step keeps the inductive invariant.
LEMMA InvStep == IInv /\ [Next]_vars => IInv'
  BY TypeStep, CurrentStep, InstancesStep, CollectorStep DEF IInv

\* Every variable keeps its type.
THEOREM Typing == Spec => []TypeOK
  <1>1. IInv => TypeOK
    BY DEF IInv
  <1>2. QED
    BY InvInit, InvStep, <1>1, PTL DEF Spec

\* The collector's picture is stale only where an observation fell into a gap.
THEOREM StaleOnlyInGaps == Spec => []OnlyGapsAreStale
  <1>1. IInv => OnlyGapsAreStale
    <2> SUFFICES ASSUME IInv, pc \in {"idle"} \cup Failed, instanceId = instance,
                        NEW i \in Items, states[i] # Unseen
                 PROVE  \E n \in 0..Len(log) :
                           n >= seq - 2 /\ Explained(log, gaps, i, states[i], n)
      BY DEF OnlyGapsAreStale
    <2>1. Fresh(i) /\ seq \in Nat
      BY DEF IInv, CollectorInv, Linked, Failed, TypeOK
    <2>2. QED
      BY <2>1 DEF Fresh, Cut
  <1>2. QED
    BY InvInit, InvStep, <1>1, PTL DEF Spec

\* Whatever is written to the samples table outside a timed-out round is one
\* cut of the agent's history.
THEOREM RowsAreOneCut == Spec => WritesAreOneCut
  <1>1. IInv /\ [Next]_vars =>
            [(rows' # rows /\ instanceId' = instance /\ ~AnswerTimesOut) =>
                \E n \in 0..Len(log) : \A i \in Columns :
                    rows'[i] # Unseen => Explained(log, gaps', i, rows'[i], n)]_vars
    BY WriteStep DEF OneCut
  <1>2. QED
    BY InvInit, InvStep, <1>1, PTL DEF Spec, WritesAreOneCut

=============================================================================
