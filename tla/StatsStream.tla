---------------------------- MODULE StatsStream ----------------------------
(***************************************************************************)
(* The streaming collector `mtc_stats stream`                              *)
(* (src/mtconnect_collect/tools/mtc_stats.cpp) against the MTConnect agent *)
(* it polls over HTTP.                                                     *)
(*                                                                         *)
(* The agent numbers its observations 1, 2, ...; the header of every       *)
(* answer carries nextSequence, the number the next observation will get.  *)
(* The collector asks /sample?from=seq once per round, applies the blocks  *)
(* of the answer to its in-memory `states` while it is still reading, and  *)
(* falls back to a full /current snapshot when a request fails.            *)
(*                                                                         *)
(* A block is not applied observation by observation: of an item that has  *)
(* changed more than once in it the code takes the last, the first or the  *)
(* one it looks for last, and some items it does not look at (Taken).      *)
(*                                                                         *)
(* Simplifications: one value of a condition at a time; the agent restarts *)
(* with an empty buffer and everything unavailable; database writes succeed *)
(* (StatsAlarms models SQLITE_BUSY); alarm rows are in StatsAlarms, the    *)
(* webhook notices in AlertTracker. stream_state gets seq and instanceId   *)
(* in the steps that change them and is never used by the stream, so it    *)
(* has no variables of its own.                                            *)
(***************************************************************************)
EXTENDS Integers, Sequences

CONSTANTS
    Machines,      \* the devices of the agent
    Items,         \* their data items, as far as handle_block looks for them
    MachineOf,     \* the device of an item
    Kind,          \* how handle_block looks for it, see Kinds
    SectionOf,     \* the place of a condition's <Condition> section in its block
    Values,        \* what an item may report, as numbers: a condition's in the order
                   \* of kStates, Normal first
    Unavailable,   \* the value of an item that has reported nothing yet
    Unseen,        \* the item's field in MachineState is as constructed
    BufferSize,    \* observations the agent keeps (its circular buffer)
    SampleCount,   \* the count= parameter of /sample (g_sample_count)
    MaxSeq,        \* bound: observations of the first agent instance; of each later one
                   \* there is one less
    MaxInstance    \* bound: agent instances (1 + restarts)

\* "last": the tags that apply() visits one by one (Execution, ControllerMode, Program,
\* ProgramComment, Availability); "first": partTotal and tmMode, found by name;
\* "condition": the conditions; "estop": EmergencyStop, inside parse_conditions.
Kinds == {"last", "first", "condition", "estop"}

ASSUME ConstantsAssumption ==
    /\ MachineOf \in [Items -> Machines]
    /\ Kind \in [Items -> Kinds]
    /\ SectionOf \in [Items -> Nat]
    /\ Values \subseteq Nat
    /\ BufferSize \in Nat \ {0}
    /\ SampleCount \in Nat \ {0}
    /\ MaxSeq \in Nat
    /\ MaxInstance \in Nat \ {0}
    /\ Unavailable \in Values
    /\ Unseen \notin Values

VARIABLES
    up,         \* agent: answers requests
    instance,   \* agent: instanceId of its headers
    log,        \* agent: every observation of this instance, in sequence order
    current,    \* agent: the value /current reports for each item
    pc,         \* collector: where cmd_stream stands
    seq,        \* collector: from= of the next /sample
    instanceId, \* collector: instanceId of the last snapshot
    states,     \* collector: the StateMap
    doc,        \* the /sample answer being read, see Document
    lastSeq,    \* StreamParser::lastSeq_
    rows,       \* database: the samples rows the last flush wrote
    gaps        \* history: sequence numbers below seq that did not get into
                \* `states` since the last snapshot: no /sample delivered them, or
                \* handle_block passed over them

agentVars     == <<up, instance, log, current>>
collectorVars == <<pc, seq, instanceId, states, doc, lastSeq>>
vars          == <<agentVars, collectorVars, rows, gaps>>

Observation == [i : Items, v : Values]
StateMap    == [Items -> Values \cup {Unseen}]

\* What a row of `samples` has of a machine: all but its conditions.
Columns  == {i \in Items : Kind[i] \in {"last", "first"}}
Rows(st) == [i \in Columns |-> st[i]]

\* A /sample answer: observations from..next-1 of `log` as it was when the
\* answer was made, and the machines whose DeviceStream is not yet parsed.
Document ==
    {d \in [from : Nat \ {0}, next : Nat \ {0}, log : Seq(Observation),
            instance : Nat \ {0}, todo : SUBSET Machines] : d.next <= Len(d.log) + 1}

\* A round owns its parser: none is left between rounds.
NoDocument == [from |-> 1, next |-> 1, log |-> <<>>, instance |-> 1, todo |-> {}]

NextSequence  == Len(log) + 1
FirstSequence == IF Len(log) > BufferSize THEN NextSequence - BufferSize ELSE 1
NoneSeen      == [i \in Items |-> Unseen]

-----------------------------------------------------------------------------
(* The agent. *)

\* Only changes are observations.
Observe(i, v) ==
    /\ up /\ Len(log) + instance <= MaxSeq
    /\ v # current[i]
    /\ log' = Append(log, [i |-> i, v |-> v])
    /\ current' = [current EXCEPT ![i] = v]
    /\ UNCHANGED <<up, instance, collectorVars, rows, gaps>>

AgentStalls ==
    /\ up
    /\ up' = FALSE
    /\ UNCHANGED <<instance, log, current, collectorVars, rows, gaps>>

AgentResumes ==
    /\ ~up
    /\ up' = TRUE
    /\ UNCHANGED <<instance, log, current, collectorVars, rows, gaps>>

\* A new agent process numbers its observations from 1 again.
AgentRestarts ==
    /\ instance < MaxInstance
    /\ up' = TRUE
    /\ instance' = instance + 1
    /\ log' = <<>>
    /\ current' = [i \in Items |-> Unavailable]
    /\ UNCHANGED <<collectorVars, rows, gaps>>

\* The agent refuses a from= outside its buffer with a 4xx status.
AcceptsFrom(from) == up /\ FirstSequence <= from /\ from <= NextSequence

LastReturned(from) ==
    IF from + SampleCount - 1 < Len(log) THEN from + SampleCount - 1 ELSE Len(log)

-----------------------------------------------------------------------------
(* The collector. *)

\* Why a request failed: a 4xx status, no connection, an incomplete body. The
\* code does not tell them apart (ok = false).
Failed == {"refused", "broken"}

DropDocument == doc' = NoDocument /\ lastSeq' = 0

\* Mutant of ResumeAt: resume at nextSequence itself (what the MTConnect protocol
\* asks for - see the README on what that breaks).
ResumeAtNext(old, last) == IF last > 0 THEN last ELSE old

\* `seq = parser.last_seq() + 1` when anything was parsed.
ResumeAt(old, last) == IF last > 0 THEN last + 1 ELSE old

\* Which of the conditions that a block has (`there`) parse_conditions looks at: the
\* ones in the first <Condition> section; and no EmergencyStop without such a section.
Looked(i, there) ==
    LET siblings == {c \in there : Kind[c] = "condition" /\ MachineOf[c] = MachineOf[i]}
    IN  /\ Kind[i] = "condition" => \A c \in siblings : SectionOf[i] <= SectionOf[c]
        /\ Kind[i] = "estop" => siblings # {}

\* Of an EmergencyStop only TRIGGERED and ARMED are taken.
Known(i, v) == Kind[i] = "estop" => v # Unavailable

\* /current has every item once.
InCurrent(i) == Looked(i, Items) /\ Known(i, current[i])

\* What the collector knows after parsing a /current document: the machines
\* whose DeviceStream it got, and what the Header said.
Rebase(got, next, inst) ==
    /\ states' = [i \in Items |-> IF MachineOf[i] \in got /\ InCurrent(i) THEN current[i]
                                                                     ELSE Unseen]
    /\ seq' = next
    /\ instanceId' = inst
    /\ rows' = Rows(states')
    /\ gaps' = {}

\* A /current document replaces `states`, `seq` and `instanceId` and is written
\* out. An agent that hangs while sending it leaves a part of the document,
\* which http.get returns as if it were whole: some devices, or not even the
\* Header (seq 0).
WholeSnapshot == up /\ UNCHANGED up /\ Rebase(Machines, NextSequence, instance)
PartialSnapshot ==
    /\ up
    /\ up' = FALSE
    /\ \/ \E got \in SUBSET Machines : Rebase(got, NextSequence, instance)
       \/ Rebase({}, 0, instanceId)
TakeSnapshot == WholeSnapshot \/ PartialSnapshot

\* Mutant: the rows are flushed although the snapshot failed.
SnapshotFailsFlushing ==
    /\ ~up
    /\ rows' = Rows(states)
    /\ UNCHANGED <<up, states, seq, instanceId, gaps>>

SnapshotFails ==
    /\ ~up
    /\ UNCHANGED <<up, states, seq, instanceId, rows, gaps>>

\* Process start: the mandatory snapshot; without it the process exits.
StartStream ==
    /\ pc = "down"
    /\ TakeSnapshot
    /\ pc' = "idle"
    /\ UNCHANGED <<instance, log, current, doc, lastSeq>>

\* The request of a round is answered; nothing of the body is read yet.
SampleAnswered ==
    /\ pc = "idle"
    /\ AcceptsFrom(seq)
    /\ LET hi == LastReturned(seq)
       IN  doc' = [from |-> seq, next |-> hi + 1, log |-> log,
                   instance |-> instance, todo |-> {MachineOf[log[k].i] : k \in seq..hi}]
    /\ lastSeq' = 0
    /\ pc' = "reading"
    /\ UNCHANGED <<agentVars, seq, instanceId, states, rows, gaps>>

\* The request of a round is refused (4xx) or not answered.
SampleRefused ==
    /\ pc = "idle"
    /\ ~AcceptsFrom(seq)
    /\ pc' = "refused"
    /\ UNCHANGED <<agentVars, seq, instanceId, states, doc, lastSeq,
                   rows, gaps>>

\* process_header: the Header comes first in the body.
ProcessHeader ==
    /\ pc = "reading" /\ lastSeq = 0
    /\ lastSeq' = doc.next
    /\ UNCHANGED <<agentVars, pc, seq, instanceId, states, doc,
                   rows, gaps>>

\* The observations of an item in the answer, and the items that are in it.
Sent(i) == {k \in doc.from..(doc.next - 1) : doc.log[k].i = i}
There   == {i \in Items : Sent(i) # {}}

\* The k-th observation is the one that handle_block leaves in the item's field:
\* apply() overwrites, named_sample_value and the search for EmergencyStop end at the
\* first one, parse_conditions goes through the states in the order of kStates.
Taken(i, k) ==
    /\ k \in Sent(i)
    /\ \A j \in Sent(i) :
          CASE Kind[i] = "last"      -> j <= k
            [] Kind[i] = "condition" -> \/ doc.log[j].v < doc.log[k].v
                                        \/ doc.log[j].v = doc.log[k].v /\ j <= k
            [] OTHER                 -> k <= j
    /\ Looked(i, There) /\ Known(i, doc.log[k].v)

\* handle_block: one complete DeviceStream is applied to `states` at once, before it
\* is known whether the answer will be complete.  Its numbers are below the Header's
\* nextSequence, so lastSeq_ stays.
HandleBlock(m) ==
    /\ pc = "reading" /\ lastSeq > 0 /\ m \in doc.todo
    /\ states' = [i \in Items |->
           IF MachineOf[i] = m /\ \E k \in Sent(i) : Taken(i, k)
           THEN doc.log[CHOOSE k \in Sent(i) : Taken(i, k)].v
           ELSE states[i]]
    /\ doc' = [doc EXCEPT !.todo = @ \ {m}]
    /\ UNCHANGED <<agentVars, pc, seq, instanceId, lastSeq, rows, gaps>>

\* Mutant: seq advances although the answer is incomplete.
AnswerBreaksAdvancing ==
    /\ pc = "reading"
    /\ pc' = "broken"
    /\ seq' = ResumeAt(seq, lastSeq)
    /\ DropDocument
    /\ UNCHANGED <<agentVars, instanceId, states, rows, gaps>>

\* The connection breaks in the middle of the answer.
AnswerBreaks ==
    /\ pc = "reading"
    /\ pc' = "broken"
    /\ DropDocument
    /\ UNCHANGED <<agentVars, seq, instanceId, states, rows, gaps>>

\* A change in the answer that is not in `states` as handle_block took an older one of
\* the same item, or none.
PassedOver(k) == \A j \in Sent(doc.log[k].i) : Taken(doc.log[k].i, j) => j < k

\* What the next request will not ask for again and `states` did not get: the
\* numbers beyond the answer, those of the devices that were not parsed, and what
\* was passed over.
Missed(resume) ==
    {k \in doc.from..(resume - 1) :
        k >= doc.next \/ MachineOf[doc.log[k].i] \in doc.todo \/ PassedOver(k)}

\* The ok branch of a round: advance, persist, flush.
EndRound ==
    /\ pc = "reading"
    /\ seq' = ResumeAt(seq, lastSeq)
    /\ rows' = Rows(states)
    /\ gaps' = gaps \cup Missed(seq')
    /\ pc' = "idle"
    /\ DropDocument
    /\ UNCHANGED <<agentVars, instanceId, states>>

\* The answer was read to its end.
RoundOk == lastSeq > 0 /\ doc.todo = {} /\ EndRound

\* The agent hangs while sending: the receive time-out ends the round, and
\* request() reports it as a normal end.
AnswerTimesOut == ~up /\ EndRound

\* After any failed request: re-snapshot.
RoundFailed ==
    /\ pc \in Failed
    /\ TakeSnapshot \/ SnapshotFails
    /\ pc' = "idle"
    /\ UNCHANGED <<instance, log, current, doc, lastSeq>>

\* mtc_ctl stop (or a crash) ends the process; memory is lost, the file stays.
StopStream ==
    /\ pc # "down"
    /\ pc' = "down"
    /\ states' = NoneSeen
    /\ DropDocument
    /\ UNCHANGED <<agentVars, seq, instanceId, rows, gaps>>

-----------------------------------------------------------------------------

Init ==
    /\ up = TRUE
    /\ instance = 1
    /\ log = <<>>
    /\ current = [i \in Items |-> Unavailable]
    /\ pc = "down"
    /\ seq = 1
    /\ instanceId = 0
    /\ states = NoneSeen
    /\ doc = NoDocument
    /\ lastSeq = 0
    /\ rows = Rows(NoneSeen)
    /\ gaps = {}

Agent ==
    \/ \E i \in Items, v \in Values : Observe(i, v)
    \/ AgentStalls
    \/ AgentResumes
    \/ AgentRestarts

Collector ==
    \/ StartStream
    \/ SampleAnswered
    \/ SampleRefused
    \/ ProcessHeader
    \/ \E m \in Machines : HandleBlock(m)
    \/ RoundOk
    \/ AnswerTimesOut
    \/ RoundFailed

Next == Agent \/ Collector \/ AnswerBreaks \/ StopStream

Spec == Init /\ [][Next]_vars

\* The loop of cmd_stream never stops by itself, and an operator (or the
\* service wrapper) starts a stopped collector again.
FairSpec == Spec /\ WF_vars(Collector)

-----------------------------------------------------------------------------
(* Properties. *)

\* Types of the locals of cmd_stream, of the answer and of the table.
TypeOK ==
    /\ up \in BOOLEAN
    /\ instance \in Nat \ {0}
    /\ log \in Seq(Observation)
    /\ current \in [Items -> Values]
    /\ pc \in {"down", "idle", "reading"} \cup Failed
    /\ seq \in Nat
    /\ instanceId \in Nat
    /\ states \in StateMap
    /\ doc \in Document
    /\ lastSeq \in Nat
    /\ rows \in [Columns -> Values \cup {Unseen}]
    /\ gaps \in SUBSET (Nat \ {0})

\* v is what i reported last among the first n observations of a log, the lost
\* ones left out.
Explained(lg, lost, i, v, n) ==
    \/ \E k \in 1..n : /\ lg[k].i = i /\ lg[k].v = v
                       /\ \A j \in (k + 1)..n : lg[j].i = i => j \in lost
    \/ v = Unavailable /\ \A j \in 1..n : lg[j].i = i => j \in lost

\* The collector is behind only by observations in gaps: between rounds, as long as
\* the agent is the one the baseline came from, what it holds of an item is the newest
\* observation not in a gap at some cut from seq-2 on - whatever answers broke or
\* stalled half-way, whatever was applied twice and in whatever order, whatever
\* snapshot failed (the loop of cmd_stream and StreamParser::feed).
OnlyGapsAreStale ==
    (pc \in {"idle"} \cup Failed /\ instanceId = instance) =>
        \A i \in Items : states[i] # Unseen =>
            \E n \in 0..Len(log) : n >= seq - 2 /\ Explained(log, gaps, i, states[i], n)

\* What is written to `samples` is one cut of the agent's history, the same for
\* every column of every machine (observations in gaps aside): the half of an answer
\* that was applied to `states` before its connection broke is never flushed, not
\* even when the snapshot that should replace it fails (mtc_stats.cpp 778-787:
\* only the snapshot and the ok branch reach flush). A round that a time-out
\* ended is left out: its half of an answer is written.
WritesAreOneCut ==
    [][(rows' # rows /\ instanceId' = instance /\ ~AnswerTimesOut) =>
          \E n \in 0..Len(log) : \A i \in Columns :
              rows'[i] # Unseen => Explained(log, gaps', i, rows'[i], n)]_vars

\* Once the agent stops hanging, a running collector ends up holding exactly what a
\* snapshot of the agent tells, and keeps it, in spite of gaps, of changes passed
\* over, of half-read answers and of restarts it did not notice (observations and
\* restarts are finite here, see the bounds).
EventuallyInSync ==
    <>[]up => <>[](pc = "down" \/ \A i \in Items :
                      states[i] = IF InCurrent(i) THEN current[i] ELSE Unseen)

\* The agent's latest observation of i among the first n is number k.
Latest(i, n, k) ==
    k \in 1..n /\ log[k].i = i /\ \A j \in (k + 1)..n : log[j].i # i

\* What the header of mtc_stats.cpp promises (lines 4-6: each request returns
\* only what is new since the last sequence number, continued incrementally):
\* after an answer of the agent of the baseline was read to its end, no machine
\* is behind that answer in what apply() reads.
IncrementCatchesUp ==
    [][(RoundOk /\ instanceId = instance) =>
          \A i \in Items : \A k \in 1..(doc.next - 1) :
             (Kind[i] = "last" /\ Latest(i, doc.next - 1, k) /\ states[i] # Unseen)
                => states'[i] = log[k].v]_vars

=============================================================================
