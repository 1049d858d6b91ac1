------------------------------- MODULE CncSim -------------------------------
(***************************************************************************)
(* The machine simulator src/mtconnect_collect/tools/cnc_sim.c: a machine  *)
(* that runs part programs by itself (auto_cycle_tick, sim_step) while an  *)
(* operator sends commands over HTTP (cmd_apply).  A tick of the main loop *)
(* and a command each run under g_lock, so each is one step.               *)
(*                                                                         *)
(* Simplifications: alarms, spindle, loads, totals and overrides other     *)
(* than "the feed is 0 or not" are emitted and steer nothing, and are left *)
(* out; a position is either the home position or not, and of the start of *)
(* the block in work only counts whether it is its end (len); whether a    *)
(* state has lasted long enough, and whether a move is finished, is        *)
(* decided anew in every tick.                                             *)
(***************************************************************************)
EXTENDS Integers

CONSTANTS
    Programs,     \* the built-in part programs
    LastLine,     \* the line of BLK_END of every program
    Still,        \* the lines of every program that only switch the spindle: BLK_SPINDLE
    NProducts,    \* how many products a program makes in turn
    SwitchParts,  \* PRODUCT_SWITCH_PARTS
    MaxParts      \* bound: parts counted

ASSUME CncSimAssumption ==
    /\ LastLine \in [Programs -> Nat \ {0}]
    /\ Still \in [Programs -> SUBSET (Nat \ {0})]
    /\ NProducts \in [Programs -> Nat \ {0}]
    /\ SwitchParts \in Nat \ {0}
    /\ MaxParts \in Nat

VARIABLES
    m,       \* g_m, the machine
    passed,  \* history: lines gone through since the program was started
    taken,   \* history: the last command was not `auto on`
    made,    \* history: parts counted since the last command (2: or more)
    chosen   \* history: product_index was set by hand

simVars == <<m, passed, taken, made, chosen>>

Exec == {"READY", "ACTIVE", "INTERRUPTED", "STOPPED"}
Mode == {"AUTOMATIC", "MANUAL", "MDI"}

Machine ==
    [auto : BOOLEAN, estop : BOOLEAN, exec : Exec, mode : Mode,
     prog : Programs, line : Nat, way : BOOLEAN, home : BOOLEAN, fed : BOOLEAN,
     jog : BOOLEAN, mdi : BOOLEAN, part : 0..MaxParts, product : Nat]

-----------------------------------------------------------------------------
(* Products. *)

\* update_product_index: C division truncates, so (0 - 1) / SwitchParts is 0.
ProductOf(g) ==
    IF g.part = 0 THEN 0 ELSE ((g.part - 1) \div SwitchParts) % NProducts[g.prog]

\* current_product, which every emission and every answer calls.
Normalised(g) ==
    IF g.product < NProducts[g.prog] THEN g ELSE [g EXCEPT !.product = 0]

-----------------------------------------------------------------------------
(* One tick of the main loop. *)

\* Whether a line that is entered has a way to go from where the machine is: the first
\* one, which goes home, has none at home, and a spindle line stays where the one before
\* it ended.
HasWay(g, i) == IF i = 0 THEN ~g.home ELSE i \notin Still[g.prog]

\* enter_block: a line the program does not have is ignored.
EnterBlock(g, i) ==
    IF i \in 0..LastLine[g.prog] THEN [g EXCEPT !.line = i, !.way = HasWay(g, i)] ELSE g

\* Mutant: the program goes on where it was left.
AutoCycleOn(g, due) ==
    CASE ~g.auto \/ g.estop \/ ~due -> g
      [] g.auto /\ ~g.estop /\ due /\ g.exec = "READY" -> [g EXCEPT !.exec = "ACTIVE"]
      [] g.auto /\ ~g.estop /\ due /\ g.exec = "ACTIVE" -> [g EXCEPT !.exec = "INTERRUPTED"]
      [] g.auto /\ ~g.estop /\ due /\ g.exec = "INTERRUPTED" -> [g EXCEPT !.exec = "ACTIVE"]
      [] g.auto /\ ~g.estop /\ due /\ g.exec = "STOPPED" ->
            [g EXCEPT !.exec = "READY", !.line = 0, !.home = TRUE]

\* Mutant: a stopped machine is not made ready again.
AutoCycleStuck(g, due) ==
    CASE ~g.auto \/ g.estop \/ ~due \/ g.exec = "STOPPED" -> g
      [] g.auto /\ ~g.estop /\ due /\ g.exec = "READY" -> EnterBlock([g EXCEPT !.exec = "ACTIVE"], 0)
      [] g.auto /\ ~g.estop /\ due /\ g.exec = "ACTIVE" -> [g EXCEPT !.exec = "INTERRUPTED"]
      [] g.auto /\ ~g.estop /\ due /\ g.exec = "INTERRUPTED" -> [g EXCEPT !.exec = "ACTIVE"]

\* auto_cycle_tick: after a while (due) ready machines start, active ones
\* pause, paused ones go on and stopped ones are made ready.
AutoCycle(g, due) ==
    CASE ~g.auto \/ g.estop \/ ~due -> g
      [] g.auto /\ ~g.estop /\ due /\ g.exec = "READY" -> EnterBlock([g EXCEPT !.exec = "ACTIVE"], 0)
      [] g.auto /\ ~g.estop /\ due /\ g.exec = "ACTIVE" -> [g EXCEPT !.exec = "INTERRUPTED"]
      [] g.auto /\ ~g.estop /\ due /\ g.exec = "INTERRUPTED" -> [g EXCEPT !.exec = "ACTIVE"]
      [] g.auto /\ ~g.estop /\ due /\ g.exec = "STOPPED" ->
            [g EXCEPT !.exec = "READY", !.line = 0, !.home = TRUE]

Runs(g)   == g.exec = "ACTIVE" /\ ~g.estop
AtEnd(g)  == Runs(g) /\ ~g.mdi /\ g.line = LastLine[g.prog]
InBlock(g) == Runs(g) /\ ~g.mdi /\ g.line # LastLine[g.prog]

\* sim_step moves by hand only when no program runs.
Jogs(g) == ~Runs(g) /\ g.jog /\ ~g.estop

\* A spindle line has no feed: when it has a way to go, it does not get on.
Stuck(g) == g.line \in Still[g.prog] /\ g.way

\* The last block: count, choose the product, back to the start.
EndOfProgram(g) ==
    LET counted == [g EXCEPT !.part = @ + 1]
    IN  [counted EXCEPT !.product = ProductOf(counted),
                        !.exec = "READY", !.line = 0, !.home = TRUE]

\* sim_step; `at` is whether the axes are then at home, `done` whether the
\* move that is under way is finished.
SimStep(g, at, done) ==
    CASE Jogs(g) -> [g EXCEPT !.home = at, !.jog = ~done]
      [] ~Jogs(g) /\ ~Runs(g) -> g
      [] Runs(g) /\ g.mdi ->
            IF done THEN [g EXCEPT !.home = at, !.mdi = FALSE, !.exec = "READY"]
                    ELSE [g EXCEPT !.home = at]
      [] AtEnd(g) -> EndOfProgram(g)
      [] InBlock(g) ->
            IF ~g.way THEN EnterBlock(g, g.line + 1)
            ELSE IF done THEN EnterBlock([g EXCEPT !.home = at], g.line + 1)
            ELSE [g EXCEPT !.home = at]

\* One pass of the main loop that is a tick: auto_cycle_tick, sim_step,
\* emit_state, under the lock.
Tick(due, at, done) ==
    LET g == AutoCycle(m, due)
    IN  /\ AtEnd(g) => g.part < MaxParts
        /\ done => g.fed /\ ~(InBlock(g) /\ Stuck(g))
        /\ m' = Normalised(SimStep(g, at, done))
        /\ passed' = (IF m.exec = "READY" /\ g.exec = "ACTIVE" THEN {} ELSE passed)
                     \cup (IF InBlock(g) /\ (done \/ ~g.way) THEN {g.line} ELSE {})
        /\ made' = IF AtEnd(g) /\ made < 2 THEN made + 1 ELSE made
        /\ chosen' = (chosen /\ ~AtEnd(g))
        /\ UNCHANGED taken

-----------------------------------------------------------------------------
(* Commands: cmd_apply.  All but `auto` end the automatic cycle first. *)

\* Mutant: the automatic cycle goes on under the operator's hands.
TakenOverNot(g) == g

\* Every command but `auto`, refused and unknown ones too.
TakenOver(g) == [g EXCEPT !.auto = FALSE]

\* The answer holds state_json, which calls current_product.
Answer(g) ==
    /\ m' = Normalised(g)
    /\ made' = 0

SetAuto(on) ==
    /\ Answer([m EXCEPT !.auto = on])
    /\ taken' = ~on
    /\ UNCHANGED <<passed, chosen>>

\* A command that takes over, and its answer.
Obey(g) ==
    /\ Answer(g)
    /\ taken' = TRUE

\* start and resume in an emergency stop, jog while a program runs, an unknown
\* command: nothing but the takeover.
Refused ==
    /\ Obey(TakenOver(m))
    /\ UNCHANGED <<passed, chosen>>

Start ==
    /\ ~m.estop
    /\ Obey(EnterBlock([TakenOver(m) EXCEPT !.mode = "AUTOMATIC", !.exec = "ACTIVE",
                                              !.mdi = FALSE, !.jog = FALSE, !.home = TRUE], 0))
    /\ passed' = {}
    /\ UNCHANGED chosen

Stop ==
    /\ Obey([TakenOver(m) EXCEPT !.exec = IF @ \in {"ACTIVE", "INTERRUPTED"} THEN "STOPPED" ELSE @])
    /\ UNCHANGED <<passed, chosen>>

Hold ==
    /\ Obey([TakenOver(m) EXCEPT !.exec = IF @ = "ACTIVE" THEN "INTERRUPTED" ELSE @])
    /\ UNCHANGED <<passed, chosen>>

\* Mutant: resume does not look at the emergency stop.
ResumeAnyway ==
    /\ Obey([TakenOver(m) EXCEPT !.exec = IF /\ @ \in {"STOPPED", "INTERRUPTED"}
                                               /\ (m.mode = "AUTOMATIC" \/ m.mdi)
                                            THEN "ACTIVE" ELSE @])
    /\ UNCHANGED <<passed, chosen>>

Resume ==
    /\ ~m.estop
    /\ Obey([TakenOver(m) EXCEPT !.exec = IF /\ @ \in {"STOPPED", "INTERRUPTED"}
                                               /\ (m.mode = "AUTOMATIC" \/ m.mdi)
                                            THEN "ACTIVE" ELSE @])
    /\ UNCHANGED <<passed, chosen>>

Reset ==
    /\ Obey([TakenOver(m) EXCEPT !.exec = "READY", !.line = 0, !.way = FALSE, !.home = TRUE,
                                   !.jog = FALSE, !.mdi = FALSE, !.part = 0, !.product = 0])
    /\ chosen' = FALSE
    /\ UNCHANGED passed

Estop ==
    /\ Obey([TakenOver(m) EXCEPT !.estop = TRUE, !.exec = "STOPPED"])
    /\ UNCHANGED <<passed, chosen>>

EstopRelease ==
    /\ Obey([TakenOver(m) EXCEPT !.estop = FALSE, !.exec = "READY"])
    /\ UNCHANGED <<passed, chosen>>

SetMode(mode) ==
    /\ Obey([TakenOver(m) EXCEPT !.mode = mode, !.exec = "READY"])
    /\ UNCHANGED <<passed, chosen>>

\* Mutant: the product of the last program stays.
SetProgramOnly(p) ==
    /\ Obey([TakenOver(m) EXCEPT !.prog = p, !.exec = "READY", !.line = 0, !.way = FALSE,
                                   !.home = TRUE, !.part = 0])
    /\ chosen' = FALSE
    /\ UNCHANGED passed

SetProgram(p) ==
    /\ Obey([TakenOver(m) EXCEPT !.prog = p, !.exec = "READY", !.line = 0, !.way = FALSE,
                                   !.home = TRUE, !.part = 0, !.product = 0])
    /\ chosen' = FALSE
    /\ UNCHANGED passed

\* alarm <id>: like hold; alarm none changes no more than Refused.
Alarm == Hold

\* jog: refused while a program runs, not in an emergency stop.
Jog ==
    /\ m.exec # "ACTIVE"
    /\ Obey([TakenOver(m) EXCEPT !.jog = TRUE, !.mode = "MANUAL", !.exec = "READY"])
    /\ UNCHANGED <<passed, chosen>>

\* mdi: never refused, and the program that ran is left where it is.
Mdi ==
    /\ Obey([TakenOver(m) EXCEPT !.mdi = TRUE, !.mode = "MDI", !.exec = "ACTIVE"])
    /\ UNCHANGED <<passed, chosen>>

SetFeed(fed) ==
    /\ Obey([TakenOver(m) EXCEPT !.fed = fed])
    /\ UNCHANGED <<passed, chosen>>

SetPart(k) ==
    /\ LET g == [TakenOver(m) EXCEPT !.part = k] IN Obey([g EXCEPT !.product = ProductOf(g)])
    /\ chosen' = FALSE
    /\ UNCHANGED passed

SetProduct(k) ==
    /\ Obey([TakenOver(m) EXCEPT !.product = k])
    /\ chosen' = TRUE
    /\ UNCHANGED passed

\* setpos: one axis of the position, and of the start of the block in work.
SetPos(at, way) ==
    /\ Obey([TakenOver(m) EXCEPT !.home = at, !.way = way])
    /\ UNCHANGED <<passed, chosen>>

-----------------------------------------------------------------------------

SimInit ==
    /\ m \in [auto : {TRUE}, estop : {FALSE}, exec : {"READY"}, mode : {"AUTOMATIC"},
              prog : Programs, line : {0}, way : {FALSE}, home : {TRUE}, fed : {TRUE},
              jog : {FALSE}, mdi : {FALSE}, part : {0}, product : {0}]
    /\ passed = {}
    /\ taken = FALSE
    /\ made = 0
    /\ chosen = FALSE

Commands ==
    \/ \E on \in BOOLEAN : SetAuto(on) \/ SetFeed(on)
    \/ \E at, way \in BOOLEAN : SetPos(at, way)
    \/ Refused \/ Start \/ Stop \/ Hold \/ Resume \/ Reset
    \/ Estop \/ EstopRelease \/ Alarm \/ Jog \/ Mdi
    \/ \E mode \in Mode : SetMode(mode)
    \/ \E p \in Programs : SetProgram(p) \/ SetProduct(NProducts[p])
    \/ \E k \in 0..MaxParts : SetPart(k)

MainLoop == \E due, at, done \in BOOLEAN : Tick(due, at, done)

SimNext == MainLoop \/ Commands

SimSpec == SimInit /\ [][SimNext]_simVars

\* The loop goes on and time passes; a move that is fed and not for ever paused
\* comes to its end, as every tick brings it a way forward.
SimFairSpec ==
    /\ SimSpec
    /\ SF_simVars(\E at, done \in BOOLEAN : Tick(TRUE, at, done))
    /\ SF_simVars(\E due, at \in BOOLEAN : Runs(AutoCycle(m, due)) /\ Tick(due, at, TRUE))

-----------------------------------------------------------------------------
(* Properties. *)

\* Types; the line is one of the program's and the product one it makes (enter_block,
\* current_product).
SimTypeOK ==
    /\ m \in Machine
    /\ m.line \in 0..LastLine[m.prog]
    /\ m.product < NProducts[m.prog]
    /\ passed \subseteq Nat
    /\ taken \in BOOLEAN
    /\ made \in 0..2
    /\ chosen \in BOOLEAN

\* What the statistics count as machining (is_machining: ACTIVE and AUTOMATIC) a
\* machine in emergency stop never reads: mdi does make it ACTIVE, but then the
\* mode is MDI, and no command changes the one without the other.
EstopIsNeverMachining == m.estop => ~(m.exec = "ACTIVE" /\ m.mode = "AUTOMATIC")

\* In an emergency stop the simulator moves nothing by itself, ends no move and
\* counts nothing, whatever was under way and whatever was commanded meanwhile.
EstopFreezes == [][MainLoop /\ m.estop => m' = m]_simVars

\* programInfo follows the count (the first SwitchParts parts are of product 0,
\* the next of product 1, and so on) through every reset, change of program and
\* change of the count, unless the product was set by hand.
ProductFollowsCount == ~chosen => m.product = ProductOf(m)

\* A part is counted only when every line of the program was gone through since
\* it was last started: jogging, mdi, another program, an emergency stop or the
\* automatic cycle in between never lead into the middle of a program.
EveryPartIsMade ==
    [][MainLoop /\ m'.part > m.part => passed' = 0..(LastLine[m.prog] - 1)]_simVars

\* After a command has taken over, at most the part in work is still counted
\* before the next command (cnc_sim.c:6-8: manual takeover).
TakeoverEndsProduction == taken => made <= 1

\* With the automatic cycle on and no command, the simulator keeps on producing,
\* whatever the operator left it in - unless a setpos has moved the start of the spindle
\* line it stands in, which then has a way to go and never ends.
AutoProduces ==
    <>[](m.auto /\ ~m.estop /\ m.fed) => <>(m.part = MaxParts) \/ <>[]Stuck(m)

=============================================================================
