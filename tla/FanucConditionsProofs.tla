------------------------ MODULE FanucConditionsProofs ------------------------
(***************************************************************************)
(* Proofs about FanucConditions, for any alarms, axes and programs: a      *)
(* standing alarm is shown, and a comment is never that of an earlier      *)
(* program: its own, or that of the program its number is as a short.       *)
(*                                                                         *)
(* The round looks at one bit of the alarm word after the other, so the    *)
(* invariant says of each alarm that its bit is still to come or that its  *)
(* condition is FAULT by an alarm of this round (BitsDone); a later bit    *)
(* may overwrite the condition, but only with another alarm of the round   *)
(* (stood and met bracket what the controller had).                        *)
(***************************************************************************)
EXTENDS FanucConditions, TLAPS

Round == pc \in {"alarms", "status"}

\* In a round the alarms there are lie between the history's two sets.
Bracketed ==
    /\ alarms \subseteq Alarms
    /\ Round => stood \subseteq alarms /\ alarms \subseteq met

BitsDone ==
    Round => \A a \in stood : TypeOf[a] \in todo \/ value[ConditionOf(a)] \in met

\* The bits end with the last one.
BitsEnd == pc = "status" => todo = {}

Typed ==
    /\ program \in Int
    /\ running \in Programs

\* Whoever is not connected shows no program.
NoProgramApart == ~connected => program <= 0

-----------------------------------------------------------------------------

\* Every alarm belongs to a condition the adapter has.
LEMMA ConditionType ==
    ASSUME NEW a \in Alarms
    PROVE  ConditionOf(a) \in Conditions
  <1>1. TypeOf[a] \in 0..30 /\ AxisOf[a] \in Axes \cup {0}
    BY FanucAssumption
  <1>2. CASE AxisOf[a] = 0
    BY <1>1, <1>2 DEF ConditionOf, Conditions, Plain, OfAxis
  <1>3. CASE AxisOf[a] # 0
    BY <1>1, <1>3 DEF ConditionOf, Conditions, Plain, OfAxis
  <1>4. QED
    BY <1>2, <1>3

-----------------------------------------------------------------------------
(* Alarms and conditions. *)

AlarmInv == Bracketed /\ BitsDone /\ BitsEnd

\* A round that is over asks nothing of the conditions.
LEMMA PassAlarms ==
    ASSUME AlarmInv, PassEnds, UNCHANGED alarms
    PROVE  AlarmInv'
  BY DEF AlarmInv, PassEnds, Bracketed, BitsDone, BitsEnd, Round

\* The machine may change at any time of a round.
LEMMA MachineAlarms ==
    ASSUME AlarmInv, Machine
    PROVE  AlarmInv'
  <1>1. ASSUME NEW a \in Alarms, AlarmRaised(a) PROVE AlarmInv'
    <2>1. /\ alarms' = alarms \cup {a} /\ pc' = pc /\ stood' = stood /\ todo' = todo /\ value' = value
          /\ met' = IF pc = "idle" THEN met ELSE met \cup {a}
      BY <1>1 DEF AlarmRaised
    <2>2. Bracketed'
      BY <2>1 DEF AlarmInv, Bracketed, Round
    <2>3. BitsDone' /\ BitsEnd'
      BY <2>1 DEF AlarmInv, BitsDone, BitsEnd, Round
    <2>4. QED
      BY <2>2, <2>3 DEF AlarmInv
  <1>2. ASSUME NEW a \in Alarms, AlarmEnds(a) PROVE AlarmInv'
    BY <1>2 DEF AlarmEnds, AlarmInv, Bracketed, BitsDone, BitsEnd, Round
  <1>3. CASE Switches \/ \E n \in Programs : RunsProgram(n)
    BY <1>3 DEF Switches, RunsProgram, history, AlarmInv, Bracketed, BitsDone, BitsEnd, Round
  <1>4. QED
    BY <1>1, <1>2, <1>3 DEF Machine

\* The reading of the alarm word begins the round: all its bits are to come.
LEMMA DynamicAlarms ==
    ASSUME AlarmInv, ReadDynamic
    PROVE  AlarmInv'
  <1>1. /\ todo' = {TypeOf[a] : a \in alarms} /\ stood' = alarms /\ met' = alarms
        /\ alarms' = alarms
        /\ pc' = IF alarms = {} THEN "status" ELSE "alarms"
    BY DEF ReadDynamic, machine
  <1>2. QED
    BY <1>1 DEF AlarmInv, Bracketed, BitsDone, BitsEnd, Round

\* The end of a bit.
LEMMA BitAlarms ==
    ASSUME BitDone
    PROVE  todo' = todo \ {NextBit} /\ BitsEnd' /\ pc' \in {"alarms", "status"}
  BY DEF BitDone, BitsEnd

\* The alarms of a bit are set, each condition to one of them.
LEMMA ReadAlarmsAlarms ==
    ASSUME AlarmInv, ReadAlarms
    PROVE  AlarmInv'
  <1> DEFINE here == {a \in alarms : TypeOf[a] = NextBit}
             of(c) == {a \in here : ConditionOf(a) = c}
             hit == {ConditionOf(a) : a \in here}
  <1>1. /\ pc = "alarms" /\ BitDone /\ stood' = stood /\ met' = met /\ alarms' = alarms
        /\ stood \subseteq alarms /\ alarms \subseteq met /\ alarms \subseteq Alarms
    BY DEF ReadAlarms, machine, history, AlarmInv, Bracketed, Round
  <1>2. PICK last \in [hit -> here] :
             /\ \A c \in hit : last[c] \in of(c)
             /\ value' = [c \in Conditions |-> IF c \in hit THEN last[c] ELSE value[c]]
    BY DEF ReadAlarms
  <1>3. todo' = todo \ {NextBit} /\ BitsEnd' /\ pc' \in {"alarms", "status"}
    BY <1>1, BitAlarms
  <1>4. ASSUME NEW a \in stood, TypeOf[a] \notin todo'
        PROVE  value'[ConditionOf(a)] \in met
    <2>1. a \in alarms /\ ConditionOf(a) \in Conditions
      BY <1>1, ConditionType
    <2>2. value'[ConditionOf(a)] =
             IF ConditionOf(a) \in hit THEN last[ConditionOf(a)] ELSE value[ConditionOf(a)]
      BY <1>2, <2>1
    <2>3. CASE ConditionOf(a) \in hit
      BY <1>1, <1>2, <2>2, <2>3
    <2>4. CASE ConditionOf(a) \notin hit
      <3>1. TypeOf[a] # NextBit
        BY <2>1, <2>4
      <3>2. TypeOf[a] \notin todo
        BY <1>3, <1>4, <3>1
      <3>3. QED
        BY <1>1, <2>2, <2>4, <3>2 DEF AlarmInv, BitsDone, Round
    <2>5. QED
      BY <2>3, <2>4
  <1>5. BitsDone'
    BY <1>1, <1>4 DEF BitsDone
  <1>6. Bracketed'
    BY <1>1 DEF Bracketed
  <1>7. QED
    BY <1>3, <1>5, <1>6 DEF AlarmInv

\* A bit that could not be read: its alarms are not claimed to be shown.
LEMMA UnreadAlarms ==
    ASSUME AlarmInv, AlarmsUnread
    PROVE  AlarmInv'
  <1>1. /\ pc = "alarms" /\ BitDone /\ stood' = {a \in stood : TypeOf[a] # NextBit}
        /\ met' = met /\ alarms' = alarms /\ value' = value
    BY DEF AlarmsUnread, machine
  <1>2. todo' = todo \ {NextBit} /\ BitsEnd' /\ pc' \in {"alarms", "status"}
    BY <1>1, BitAlarms
  <1>3. QED
    BY <1>1, <1>2 DEF AlarmInv, Bracketed, BitsDone, Round

LEMMA AdapterAlarms ==
    ASSUME AlarmInv, Adapter
    PROVE  AlarmInv'
  <1>1. CASE Connect \/ ConnectFails \/ StatusRead \/ Disconnect
    BY <1>1, PassAlarms DEF Connect, ConnectFails, StatusRead, Disconnect, machine
  <1>2. CASE ConfigureFails
    BY <1>2 DEF ConfigureFails, machine, history, AlarmInv, Bracketed, BitsDone, BitsEnd, Round
  <1>3. QED
    BY <1>1, <1>2, DynamicAlarms, ReadAlarmsAlarms, UnreadAlarms DEF Adapter

-----------------------------------------------------------------------------
(* Program and comment. *)

ProgramInv == Typed /\ NoProgramApart /\ CommentIsOfProgram

\* What is not a reading of the program leaves program and comment alone, or makes
\* both unavailable.
LEMMA ApartProgram ==
    ASSUME ProgramInv, running' \in Programs,
           \/ UNCHANGED <<program, info, connected>>
           \/ UNCHANGED <<program, info>> /\ ~connected
           \/ program' = NoMachine
    PROVE  ProgramInv'
  BY DEF ProgramInv, Typed, NoProgramApart, CommentIsOfProgram, NoMachine

\* What may be said of a program.
Said(number) ==
    {number, NoComment} \cup IF number > MaxShort THEN Directory \cap {AsShort(number)} ELSE {}

\* The fallback finds programs the controller has only.
LEMMA ScannedIsThere ==
    ASSUME NEW number, Scanned(number)
    PROVE  number \in Directory
  BY DEF Scanned, Page

\* getProgramComment returns nothing else.
LEMMA CommentsSaid ==
    ASSUME NEW number \in Nat
    PROVE  Comments(number) \subseteq Said(number)
  <1> DEFINE own    == IF ~old /\ number \in Directory THEN {number} ELSE {}
             listed == IF Scanned(AsShort(number)) THEN AsShort(number) ELSE NoComment
  <1>1. own \subseteq {number}
    OBVIOUS
  <1>2. listed \in Said(number)
    <2>1. CASE ~Scanned(AsShort(number))
      BY <2>1 DEF Said
    <2>2. CASE Scanned(AsShort(number)) /\ number > MaxShort
      BY <2>2, ScannedIsThere DEF Said
    <2>3. CASE Scanned(AsShort(number)) /\ ~(number > MaxShort)
      <3>1. number <= MaxShort
        BY <2>3, FanucAssumption
      <3>2. AsShort(number) = number
        BY <3>1 DEF AsShort
      <3>3. QED
        BY <2>3, <3>2 DEF Said
    <2>4. QED
      BY <2>1, <2>2, <2>3
  <1>3. Comments(number) \subseteq own \cup {listed, NoComment}
    BY DEF Comments
  <1>4. number \in Said(number) /\ NoComment \in Said(number)
    BY DEF Said
  <1>5. QED
    BY <1>1, <1>2, <1>3, <1>4

\* A new program brings what is said of it.
LEMMA DynamicProgram ==
    ASSUME ProgramInv, ReadDynamic
    PROVE  ProgramInv'
  <1>1. /\ program' = running /\ running' = running /\ connected /\ connected' = connected
        /\ running \in Nat /\ running \in Programs
    BY FanucAssumption DEF ReadDynamic, machine, ProgramInv, Typed
  <1>2. ASSUME running > 0 PROVE info' \in Said(running)
    <2>1. CASE GetHeader(running)
      <3>1. info' \in Comments(running)
        BY <1>1, <1>2, <2>1 DEF GetHeader
      <3>2. QED
        BY <1>1, <3>1, CommentsSaid
    <2>2. CASE program = running /\ info' = info
      BY <1>1, <1>2, <2>2 DEF ProgramInv, CommentIsOfProgram, Said
    <2>3. QED
      BY <2>1, <2>2 DEF ReadDynamic
  <1>3. CommentIsOfProgram'
    BY <1>1, <1>2 DEF CommentIsOfProgram, Said
  <1>4. QED
    BY <1>1, <1>3 DEF ProgramInv, Typed, NoProgramApart

LEMMA AdapterProgram ==
    ASSUME ProgramInv, Adapter
    PROVE  ProgramInv'
  <1>0. running \in Programs
    BY DEF ProgramInv, Typed
  <1>1. CASE Connect
    BY <1>0, <1>1, ApartProgram DEF Connect, machine, header
  <1>2. CASE ConfigureFails \/ ReadAlarms \/ AlarmsUnread \/ StatusRead
    BY <1>0, <1>2, ApartProgram DEF ConfigureFails, ReadAlarms, AlarmsUnread, StatusRead, machine, header
  <1>3. CASE ConnectFails \/ Disconnect
    BY <1>0, <1>3, ApartProgram DEF ConnectFails, Disconnect, AllUnavailable, machine
  <1>4. QED
    BY <1>1, <1>2, <1>3, DynamicProgram DEF Adapter

LEMMA MachineProgram ==
    ASSUME ProgramInv, Machine
    PROVE  ProgramInv'
  <1>1. running \in Programs
    BY DEF ProgramInv, Typed
  <1>2. /\ UNCHANGED <<program, info, connected>>
        /\ running' \in Programs
    BY <1>1 DEF Machine, AlarmRaised, AlarmEnds, RunsProgram, Switches, header
  <1>3. QED
    BY <1>2, ApartProgram

-----------------------------------------------------------------------------
(* The theorems. *)

LEMMA AlarmInvariance == Spec => []AlarmInv
  <1>1. Init => AlarmInv
    BY DEF Init, AlarmInv, Bracketed, BitsDone, BitsEnd, Round
  <1>2. AlarmInv /\ [Next]_vars => AlarmInv'
    <2>1. ASSUME AlarmInv, UNCHANGED vars PROVE AlarmInv'
      BY <2>1 DEF vars, machine, history, AlarmInv, Bracketed, BitsDone, BitsEnd, Round
    <2>2. QED
      BY <2>1, AdapterAlarms, MachineAlarms DEF Next
  <1>3. QED
    BY <1>1, <1>2, PTL DEF Spec

LEMMA ProgramInvariance == Spec => []ProgramInv
  <1>1. Init => ProgramInv
    BY FanucAssumption DEF Init, ProgramInv, Typed, NoProgramApart, CommentIsOfProgram, NoNumber
  <1>2. ProgramInv /\ [Next]_vars => ProgramInv'
    <2>1. ASSUME ProgramInv, UNCHANGED vars PROVE ProgramInv'
      BY <2>1 DEF vars, machine, header, ProgramInv, Typed, NoProgramApart, CommentIsOfProgram
    <2>2. QED
      BY <2>1, AdapterProgram, MachineProgram DEF Next
  <1>3. QED
    BY <1>1, <1>2, PTL DEF Spec

\* An alarm that stood all through a round and could be read is shown: its condition
\* is FAULT by an alarm of this round.
THEOREM StandingShown == Spec => []StandingAlarmsAreShown
  <1>1. AlarmInv => StandingAlarmsAreShown
    BY DEF AlarmInv, BitsDone, BitsEnd, Round, StandingAlarmsAreShown
  <1>2. QED
    BY AlarmInvariance, <1>1, PTL

\* The comment shown with a program is its own or UNKNOWN, or that of the program
\* whose number its own is as a short.
THEOREM CommentsMatch == Spec => []CommentIsOfProgram
  <1>1. ProgramInv => CommentIsOfProgram
    BY DEF ProgramInv
  <1>2. QED
    BY ProgramInvariance, <1>1, PTL

=============================================================================
