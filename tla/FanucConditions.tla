--------------------------- MODULE FanucConditions ---------------------------
(***************************************************************************)
(* What the FANUC adapter (src/mtconnect_collect/src/fanuc/                *)
(* fanuc_adapter.cpp) remembers from one round of readings to the next:    *)
(* the conditions it has set to FAULT, in mActiveConditions                *)
(* (condition_list.hpp), and the comment of the running program, which is  *)
(* read again some time after a read that failed.  ShdrAdapter has the     *)
(* loop around it and what agents are sent.                                *)
(*                                                                         *)
(* The machine changes between any two calls of a round: the alarm word of *)
(* cnc_rddynamic2 may be old when the messages are fetched.                *)
(*                                                                         *)
(* Simplifications: conditions and program meet in `connected` only, so    *)
(* one behaviour varies one of them, see `varies`; a condition's value is  *)
(* the alarm it is FAULT by; all that happens to mActiveConditions is      *)
(* that conditions join and that all leave, so it is a set (in the code a  *)
(* condition may be in it many times); a comment is the number of its      *)
(* program.                                                                *)
(***************************************************************************)
EXTENDS Integers, FiniteSetsExt

CONSTANTS
    Alarms,     \* what the machine may have to complain of
    TypeOf,     \* the bit of the alarm word it belongs to
    AxisOf,     \* its axis, or 0
    Axes,       \* axes of the machine
    Programs,   \* numbers that may be running, 0: none
    Directory,  \* numbers of the programs the controller has
    PageSize,   \* CNC_MAX_PROGRAMS
    LastTop,    \* 32000
    MaxShort,   \* 32767, the largest short
    Wrap,       \* GetTickCount counts modulo this
    RetryMs,    \* mCommentRetryMs
    MaxPass     \* the longest pass of the loop, in ticks

ASSUME FanucAssumption ==
    /\ TypeOf \in [Alarms -> 0..30]
    /\ AxisOf \in [Alarms -> Axes \cup {0}]
    /\ Axes \subseteq Nat \ {0}
    /\ 0 \in Programs /\ Programs \subseteq Nat /\ Directory \subseteq Nat \ {0}
    /\ PageSize \in Nat \ {0} /\ MaxShort \in Nat /\ LastTop \in 0..(MaxShort - PageSize)
    /\ Wrap \in Nat \ {0} /\ RetryMs \in 0..(Wrap - 1) /\ MaxPass \in 1..Wrap

VARIABLES
    varies,     \* which half of the machine changes; never changes itself
    old,        \* the controller has no cnc_rdprogdir3; never changes
    up,         \* the machine answers
    busy,       \* it answers EW_BUSY to what can be busy
    alarms,     \* the alarms it has
    running,    \* number of its running program
    connected,  \* mConnected
    configured, \* mConfigured
    value,      \* the conditions
    active,     \* mActiveConditions
    todo,       \* bits of the alarm word still to be looked at
    program,    \* mProgram
    info,       \* mProgramInfo
    unknown,    \* mCommentUnknown
    nextRetry,  \* mCommentNextRetry
    tick,       \* GetTickCount
    stood,      \* history: alarms that stood all through the round and were not failed to be read
    met,        \* history: alarms there were at some time of the round
    pc          \* where the round stands

machine == <<varies, old, up, busy, alarms, running>>
header  == <<program, info, unknown, nextRetry>>
history == <<stood, met>>
vars == <<machine, connected, configured, value, active, todo, header, tick, history, pc>>

Normal      == "NORMAL"
Unavailable == "UNAVAILABLE"
Missing     == "missing"  \* the datum is only made by configure

\* Values of mProgram and mProgramInfo that are no program's number.
NoNumber == -1
NoComment == -2  \* "UNKNOWN"
NoMachine == -3  \* "UNAVAILABLE"

Plain      == {"servo", "comms", "logic", "motion", "system", "spindle"} \X {0}
OfAxis     == {"travel", "overheat", "servo"} \X Axes
Conditions == Plain \cup OfAxis

-----------------------------------------------------------------------------
(* Helpers of the code. *)

\* translateAlarmNo.
ConditionOf(a) ==
    LET t == TypeOf[a]
        x == AxisOf[a]
    IN  CASE t \in {0, 19}       -> <<"logic", 0>>
          [] t \in {2, 7}        -> <<"comms", 0>>
          [] t \in {3, 8, 12}    -> <<"motion", 0>>
          [] t = 9               -> <<"spindle", 0>>
          [] t = 6               -> <<"servo", x>>
          [] t = 4 /\ x # 0      -> <<"travel", x>>
          [] t = 5 /\ x # 0      -> <<"overheat", x>>
          [] OTHER               -> <<"system", 0>>

\* (short)mProgramNum.
AsShort(number) ==
    IF number <= MaxShort THEN number
    ELSE ((number + MaxShort + 1) % (2 * (MaxShort + 1))) - MaxShort - 1

\* cnc_rdprogdir2: the first programs from a number on, of those whose number is a short.
Page(top) ==
    LET there == {n \in Directory : n \in top..MaxShort}
    IN  {n \in there : Cardinality({k \in there : k < n}) < PageSize}

\* The fallback of getProgramComment: page after page while they are full, each as
\* many numbers further on as the page before had programs.
Tops == {k * PageSize : k \in 0..(LastTop \div PageSize)}
Scanned(number) ==
    \E top \in Tops :
        /\ number \in Page(top)
        /\ \A before \in Tops : before < top => Cardinality(Page(before)) = PageSize

\* getProgramComment: cnc_rdprogdir3 asks for the program itself; where that finds
\* nothing, the fallback looks for the number as a short. A busy controller may be
\* free again by the fallback.
Comments(number) ==
    LET own    == IF ~old /\ number \in Directory THEN {number} ELSE {}
        listed == IF Scanned(AsShort(number)) THEN AsShort(number) ELSE NoComment
    IN  CASE ~up        -> {NoComment}
          [] up /\ busy -> own \cup {listed, NoComment}
          [] OTHER      -> IF own = {} THEN {listed} ELSE own

\* Mutant: the comment of the last program stays when the read fails.
GetHeaderKeeping(number) ==
    IF number <= 0
    THEN unknown' = FALSE /\ UNCHANGED <<info, nextRetry>>
    ELSE \E found \in Comments(number) :
            /\ info' = IF found = NoComment THEN info ELSE found
            /\ unknown' = (found = NoComment)
            /\ nextRetry' = IF unknown' THEN (tick + RetryMs) % Wrap ELSE nextRetry

\* Mutant: a failed read is not noted for another try.
GetHeaderOnce(number) ==
    /\ IF number <= 0 THEN info' = info ELSE info' \in Comments(number)
    /\ unknown' = FALSE
    /\ UNCHANGED nextRetry

\* getHeader.
GetHeader(number) ==
    IF number <= 0
    THEN unknown' = FALSE /\ UNCHANGED <<info, nextRetry>>
    ELSE \E found \in Comments(number) :
            /\ info' = found
            /\ unknown' = (found = NoComment)
            /\ nextRetry' = IF unknown' THEN (tick + RetryMs) % Wrap ELSE nextRetry

\* Adapter::unavailable, for the data modelled here.
AllUnavailable ==
    /\ value' = [c \in Conditions |-> IF value[c] = Missing THEN Missing ELSE Unavailable]
    /\ program' = NoMachine /\ info' = NoMachine
    /\ UNCHANGED <<active, unknown, nextRetry>>

-----------------------------------------------------------------------------
(* The machine. *)

AlarmRaised(a) ==
    /\ varies = "alarms" /\ a \notin alarms
    /\ alarms' = alarms \cup {a}
    /\ met' = IF pc = "idle" THEN met ELSE met \cup {a}
    /\ UNCHANGED <<varies, old, up, busy, running, connected, configured, value, active, todo, header, tick, stood, pc>>

AlarmEnds(a) ==
    /\ varies = "alarms" /\ a \in alarms
    /\ alarms' = alarms \ {a}
    /\ stood' = stood \ {a}
    /\ UNCHANGED <<varies, old, up, busy, running, connected, configured, value, active, todo, header, tick, met, pc>>

RunsProgram(n) ==
    /\ varies = "program" /\ n # running
    /\ running' = n
    /\ UNCHANGED <<varies, old, up, busy, alarms, connected, configured, value, active, todo, header, tick, history, pc>>

Switches ==
    /\ \/ up' = ~up /\ UNCHANGED busy
       \/ busy' = ~busy /\ UNCHANGED up
    /\ UNCHANGED <<varies, old, alarms, running, connected, configured, value, active, todo, header, tick, history, pc>>

-----------------------------------------------------------------------------
(* The adapter. *)

\* GetTickCount goes on by the length of a pass.
TimePasses ==
    tick' \in IF varies = "program" THEN {(tick + d) % Wrap : d \in 1..MaxPass} ELSE {tick}

\* The round is over: the loop sends and sleeps.
PassEnds == pc' = "idle" /\ todo' = {} /\ stood' = {} /\ met' = {} /\ TimePasses

\* Mutant: the conditions of the axes are not reset.
ConnectPlain ==
    /\ pc = "idle" /\ ~connected /\ up
    /\ connected' = TRUE /\ configured' = TRUE
    /\ value' = [c \in Conditions |-> IF c \in Plain THEN Normal ELSE Unavailable]
    /\ PassEnds
    /\ UNCHANGED <<machine, active, header>>

\* connect; the first time with configure, which makes the data of the axes.
Connect ==
    /\ pc = "idle" /\ ~connected /\ up
    /\ connected' = TRUE /\ configured' = TRUE
    /\ value' = [c \in Conditions |-> Normal]
    /\ PassEnds
    /\ UNCHANGED <<machine, active, header>>

\* configAxesNames ends the process when the names cannot be read.
ConfigureFails ==
    /\ pc = "idle" /\ ~connected /\ up /\ ~configured /\ busy
    /\ pc' = "exited"
    /\ UNCHANGED <<machine, connected, configured, value, active, todo, header, tick, history>>

ConnectFails ==
    /\ pc = "idle" /\ ~connected /\ ~up
    /\ AllUnavailable
    /\ PassEnds
    /\ UNCHANGED <<machine, connected, configured>>

\* ConditionList: add, and remove from the begin of the list to its end.
Add(conds) == active' = active \cup conds
RemoveAll  == active' = {}

\* getCondition, no alarm: the list is emptied, what was in it is normal.
ResetConditions ==
    /\ value' = [c \in Conditions |-> IF c \in active THEN Normal ELSE value[c]]
    /\ RemoveAll

\* getPositions up to getCondition: program, perhaps its comment, alarm word.
ReadDynamic ==
    /\ pc = "idle" /\ connected /\ up
    /\ program' = running
    /\ IF program # running \/ (unknown /\ tick >= nextRetry)
       THEN GetHeader(running)
       ELSE UNCHANGED <<info, unknown, nextRetry>>
    /\ todo' = {TypeOf[a] : a \in alarms}
    /\ stood' = alarms /\ met' = alarms
    /\ IF alarms = {}
       THEN ResetConditions /\ pc' = "status"
       ELSE UNCHANGED <<value, active>> /\ pc' = "alarms"
    /\ UNCHANGED <<machine, connected, configured, tick>>

NextBit == Min(todo)
BitDone == todo' = todo \ {NextBit} /\ pc' = IF todo = {NextBit} THEN "status" ELSE "alarms"

\* cnc_rdalmmsg2 for one bit: every alarm of its type is set in turn, in an order
\* that is the controller's. A condition joins the list when it changed; mChanged
\* may also be left from an earlier bit, and then it is in the list.
ReadAlarms ==
    /\ pc = "alarms" /\ up
    /\ LET here   == {a \in alarms : TypeOf[a] = NextBit}
           of(c)  == {a \in here : ConditionOf(a) = c}
           hit    == {ConditionOf(a) : a \in here}
       IN  /\ \E last \in [hit -> here] :
                 /\ \A c \in hit : last[c] \in of(c)
                 /\ value' = [c \in Conditions |-> IF c \in hit THEN last[c] ELSE value[c]]
           /\ Add({c \in hit : of(c) # {value[c]}})
    /\ BitDone
    /\ UNCHANGED <<machine, connected, configured, header, tick, history>>

\* Mutant: the first failing call ends the loop over the bits.
AlarmsUnreadBreaking ==
    /\ pc = "alarms" /\ (busy \/ ~up)
    /\ stood' = {a \in stood : TypeOf[a] # NextBit}
    /\ todo' = {} /\ pc' = "status"
    /\ UNCHANGED <<machine, connected, configured, value, active, header, tick, met>>

\* cnc_rdalmmsg2 fails: on to the next bit.
AlarmsUnread ==
    /\ pc = "alarms" /\ (busy \/ ~up)
    /\ stood' = {a \in stood : TypeOf[a] # NextBit}
    /\ BitDone
    /\ UNCHANGED <<machine, connected, configured, value, active, header, tick, met>>

\* getStatus ends the round.
StatusRead ==
    /\ pc = "status" /\ up
    /\ PassEnds
    /\ UNCHANGED <<machine, connected, configured, value, active, header>>

\* getPositions or getStatus fails: disconnect.
Disconnect ==
    /\ pc = "status" \/ (pc = "idle" /\ connected)
    /\ ~up
    /\ connected' = FALSE
    /\ AllUnavailable
    /\ PassEnds
    /\ UNCHANGED <<machine, configured>>

-----------------------------------------------------------------------------

Init ==
    /\ varies \in {"alarms", "program"}
    /\ old \in BOOLEAN /\ up = TRUE /\ busy = FALSE
    /\ alarms = {} /\ running \in IF varies = "program" THEN Programs ELSE {0}
    /\ connected = FALSE /\ configured = FALSE
    /\ value = [c \in Conditions |-> IF c \in Plain THEN Unavailable ELSE Missing]
    /\ active = {} /\ todo = {}
    /\ program = NoNumber /\ info = NoNumber
    /\ unknown = FALSE /\ nextRetry = 0 /\ tick = 0
    /\ stood = {} /\ met = {}
    /\ pc = "idle"

Adapter ==
    \/ Connect \/ ConfigureFails \/ ConnectFails
    \/ ReadDynamic \/ ReadAlarms \/ AlarmsUnread \/ StatusRead \/ Disconnect

Machine ==
    \/ \E a \in Alarms : AlarmRaised(a) \/ AlarmEnds(a)
    \/ \E n \in Programs : RunsProgram(n)
    \/ Switches

Next == Adapter \/ Machine

Spec == Init /\ [][Next]_vars

\* The loop of the adapter runs until the process ends.
FairSpec == Spec /\ WF_vars(Adapter)

-----------------------------------------------------------------------------
(* Properties. *)

\* An alarm that stood all through a round, and whose messages could be read, is
\* shown: its condition is FAULT, by an alarm the machine had in this very round,
\* although a condition shows one alarm only, several bits of the alarm word may
\* name it, and alarms come and go between the calls.
StandingAlarmsAreShown ==
    pc = "status" => \A a \in stood : value[ConditionOf(a)] \in met

\* Whatever the order of faults, losses of the connection and rounds: once the
\* machine has no alarm left and stays in reach, no condition stays FAULT or
\* UNAVAILABLE - although only conditions in mActiveConditions are ever reset.
EndedAlarmsClear ==
    <>[](alarms = {} /\ up /\ pc # "exited") => <>[](\A c \in Conditions : value[c] = Normal)

\* The comment that is shown with a program is that program's own or UNKNOWN, never
\* the one of a program that ran before: products are counted by it. The exception
\* is a number no short holds: the fallback takes it for the program whose number it
\* is as a short, when there is one.
CommentIsOfProgram ==
    connected /\ program > 0 =>
        \/ info \in {program, NoComment}
        \/ program > MaxShort /\ info = AsShort(program) /\ info \in Directory

\* getPositions: an UNKNOWN comment is read again from time to time, not only when
\* the program changes. So it is learned once the controller answers - unless the
\* time of the retry falls into the last pass before GetTickCount starts over, or
\* the number is too large for a short.
CommentIsLearned ==
    \A n \in Programs \cap Directory :
        n <= MaxShort /\ <>[](running = n /\ up /\ ~busy /\ pc # "exited")
            => <>[](info = n \/ (unknown /\ nextRetry > Wrap - MaxPass))

=============================================================================
