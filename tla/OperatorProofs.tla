---------------------------- MODULE OperatorProofs ----------------------------
(***************************************************************************)
(* Proofs about the parts of the system that face an operator, which do    *)
(* not know of each other: the service console, the notices about machines *)
(* that are offline, and the GUI's pages of machines.  One section each,   *)
(* with the inductive invariant of the component, a lemma for each part of *)
(* it, and the theorems.                                                   *)
(***************************************************************************)
EXTENDS ServiceConsole, AlertTracker, MachinePages,
        FiniteSetTheorems, SequenceTheorems, WellFoundedInduction, TLAPS

-----------------------------------------------------------------------------
(***************************************************************************)
(* The service console.  Its actors meet only in the processes; the        *)
(* invariant says what the list of a stop that nobody has spawned beside   *)
(* holds, and what a start that nobody has spawned beside will spawn.      *)
(***************************************************************************)

-----------------------------------------------------------------------------
(* Operators of the model. *)

\* Min picks the least number of a set.
LEMMA LeastIn ==
    ASSUME NEW S \in SUBSET Nat, S # {}
    PROVE  Min(S) \in S /\ \A y \in S : Min(S) <= y
  <1> DEFINE R == OpToRel(<, Nat)
  <1>1. \E x \in S : \A y \in S : ~(<<y, x>> \in R)
    <2>1. IsWellFoundedOn(R, Nat)
      BY NatLessThanWellFounded
    <2> HIDE DEF R
    <2>2. QED
      BY <2>1, WFMin
  <1>2. PICK x \in S : \A y \in S : ~(y < x)
    BY <1>1 DEF OpToRel
  <1>3. \A y \in S : x <= y
    BY <1>2
  <1>4. QED
    BY <1>2, <1>3 DEF Min

\* The number of a new process is free, and in nobody's list.
LEMMA NewPid ==
    ASSUME FreePids # {}
    PROVE  /\ Min(FreePids) \in Pids \ Alive
           /\ \A a \in Actors : Min(FreePids) \notin victims[a]
  <1>1. FreePids \in SUBSET Nat
    BY ServiceConsoleAssumption DEF FreePids
  <1>2. Min(FreePids) \in FreePids
    BY <1>1, LeastIn
  <1>3. QED
    BY <1>2 DEF FreePids

\* What start spawns next is one of the services it has still to spawn.
LEMMA NextRole ==
    ASSUME TypeOK, NEW a \in Actors, todo[a] # {}
    PROVE  /\ Min(todo[a]) \in todo[a] /\ Pipeline[Min(todo[a])] \in Roles
           /\ \A i \in todo[a] \ {Min(todo[a])} : Pipeline[i] # Pipeline[Min(todo[a])]
  <1>1. todo[a] \in SUBSET DOMAIN Pipeline
    BY DEF TypeOK
  <1>2. DOMAIN Pipeline \subseteq Nat
    BY ServiceConsoleAssumption
  <1>3. Min(todo[a]) \in todo[a]
    BY <1>1, <1>2, LeastIn
  <1>4. QED
    BY <1>1, <1>3, ServiceConsoleAssumption DEF IsInjective, Roles, Range

\* The value for an unused process number is no process.
LEMMA NoProcessIsNone == NoProcess \notin Process
  BY ServiceConsoleAssumption DEF NoProcess, Process, Roles

\* What a console's operator and its command do beside the steps of stop and start.
ConsoleGoes(c) ==
    \/ \E command \in {"start", "stop"} : Command(c, command)
    \/ \E r \in Optional : Poll(c, r)
    \/ Interrupt(c) \/ Returns(c)

\* The service's main thread, its control handler and the consoles are different actors.
LEMMA ConsolesApart ==
    /\ Main \in Actors /\ Handler \in Actors /\ Main # Handler
    /\ \A c \in Consoles : c \in Actors /\ c # Main /\ c # Handler
  BY ServiceConsoleAssumption DEF Main, Handler, Actors

-----------------------------------------------------------------------------
(* The inductive invariant. *)

\* The service's two threads and what it reports; which job takes an actor where.
ServiceInv ==
    /\ pc[Main] = "idle" <=> svc = "STOPPED"
    /\ pc[Main] = "wait" <=> svc \in {"RUNNING", "STOP_PENDING"}
    /\ pc[Handler] \in {"idle", "list", "grace", "kill", "end"}
    /\ event => pc[Handler] = "idle"
    /\ job[Main] = "start" /\ job[Handler] = "stop"
    /\ pc[Main] = "end" => spared[Main] = {}
    /\ \A a \in Actors : pc[a] = "config" => job[a] = "start"
    /\ \A a \in Actors : pc[a] = "spawn" => job[a] \in {"start", "poll"}

\* The list of a stop that nobody has spawned beside holds all it may open and has not spared.
ListInv ==
    \A a \in Actors : pc[a] \in {"grace", "kill"} /\ quiet[a] =>
        \A p \in Inside : CanOpen(a, proc[p]) => p \in victims[a] \/ p \in spared[a]

\* What a start that nobody has spawned beside will spawn does not run yet.
FreshInv ==
    \A a \in Actors : job[a] = "start" /\ quiet[a] /\ ~excused =>
        /\ pc[a] = "config" => Inside = {}
        /\ pc[a] = "spawn" => \A p \in Inside, i \in todo[a] : proc[p].role # Pipeline[i]

Children == {p \in Inside : proc[p].owner = Main}

\* The stops of the service's own threads have all its children, whoever else spawns.
ChildrenInv ==
    /\ \A a \in {Main, Handler} : pc[a] \in {"grace", "kill"} => Children \subseteq victims[a] \cup spared[a]
    /\ ~lost /\ (pc[Handler] = "end" \/ event) => Children = {}
    /\ ~lost /\ pc[Main] \in {"idle", "list", "grace", "kill", "config", "failed"} => Children = {}

ConsoleInv == TypeOK /\ ServiceInv /\ ListInv /\ FreshInv /\ OnlyOverlapsDouble /\ ChildrenInv

-----------------------------------------------------------------------------
(* The parts of the invariant. *)

\* Types and the service: what a spawn leaves alone.
LEMMA SpawnTypes ==
    ASSUME TypeOK, NEW a \in Actors, NEW r \in Roles, Spawn(a, r)
    PROVE  /\ proc' \in [Pids -> Process \cup {NoProcess}]
           /\ quiet' \in [Actors -> BOOLEAN] /\ excused' \in BOOLEAN
  <1>1. CASE UNCHANGED <<proc, quiet, excused>>
    BY <1>1 DEF TypeOK
  <1>2. CASE ~UNCHANGED <<proc, quiet, excused>>
    <2>1. [role |-> r, owner |-> a] \in Process
      BY DEF Process
    <2>2. proc' \in [Pids -> Process \cup {NoProcess}]
      BY <1>2, <2>1, NewPid DEF Spawn, TypeOK
    <2>3. quiet' \in [Actors -> BOOLEAN]
      BY <1>2, Zenon DEF Spawn
    <2>4. excused' \in BOOLEAN
      BY <1>2, Zenon DEF Spawn, TypeOK
    <2>5. QED
      BY <2>2, <2>3, <2>4
  <1>3. QED
    BY <1>1, <1>2

\* The end of stop_services: its actor goes on to the configuration or is done.
LEMMA StopDoneTypes ==
    ASSUME TypeOK, NEW a \in Actors, StopDone(a)
    PROVE  /\ pc' = [pc EXCEPT ![a] = AfterStop(a)] /\ AfterStop(a) \in {"config", "end"}
           /\ excused' \in BOOLEAN /\ lost' \in BOOLEAN
  <1>1. pc' = [pc EXCEPT ![a] = AfterStop(a)] /\ AfterStop(a) \in {"config", "end"}
    BY DEF StopDone, AfterStop
  <1>2. excused' \in BOOLEAN
    BY Zenon DEF StopDone, TypeOK
  <1>3. lost' \in BOOLEAN
    BY Zenon DEF StopDone, TypeOK
  <1>4. QED
    BY <1>1, <1>2, <1>3

\* The actor of a stop.
LEMMA StopTypes ==
    ASSUME TypeOK, ServiceInv, NEW a \in Actors, StopServices(a)
    PROVE  TypeOK' /\ ServiceInv'
  <1>0. CASE NoList(a)
    <2>1. spared' \in [Actors -> SUBSET Pids] /\ quiet' \in [Actors -> BOOLEAN]
      BY <1>0 DEF NoList, TypeOK, Inside, Alive
    <2>2. /\ StopDone(a) /\ pc[a] = "list" /\ UNCHANGED <<proc, job, limited, victims, todo, svc, event>>
          /\ \A b \in Actors \ {a} : spared'[b] = spared[b]
      BY <1>0 DEF NoList, svcVars, TypeOK
    <2>3. /\ pc' = [pc EXCEPT ![a] = AfterStop(a)] /\ AfterStop(a) \in {"config", "end"}
          /\ excused' \in BOOLEAN /\ lost' \in BOOLEAN
      BY <2>2, StopDoneTypes
    <2>4. TypeOK'
      BY <2>1, <2>2, <2>3, ConsolesApart DEF TypeOK
    <2>5. QED
      BY <2>2, <2>3, <2>4, ConsolesApart DEF TypeOK, ServiceInv, AfterStop
  <1>1. CASE TakeList(a)
    <2>1. victims' \in [Actors -> SUBSET Pids] /\ quiet' \in [Actors -> BOOLEAN]
      BY <1>1 DEF TakeList, TypeOK, Inside, Alive
    <2>2. CASE {p \in Inside : CanOpen(a, proc[p])} = {}
      <3>1. StopDone(a) /\ victims' = [victims EXCEPT ![a] = {}]
        BY <1>1, <2>2 DEF TakeList
      <3>2. QED
        BY <1>1, <2>1, <3>1, StopDoneTypes, ConsolesApart DEF TakeList, TypeOK, ServiceInv, AfterStop, svcVars
    <2>3. CASE {p \in Inside : CanOpen(a, proc[p])} # {}
      <3>1. pc' = [pc EXCEPT ![a] = "grace"] /\ UNCHANGED <<excused, lost>>
        BY <1>1, <2>3 DEF TakeList
      <3>2. QED
        BY <1>1, <2>1, <3>1, ConsolesApart DEF TakeList, TypeOK, ServiceInv, svcVars
    <2>4. QED
      BY <2>2, <2>3
  <1>2. CASE GraceEnds(a)
    BY <1>2, ConsolesApart DEF GraceEnds, TypeOK, ServiceInv, svcVars, history
  <1>3. ASSUME NEW p \in Pids, KillOne(a, p) \/ SpareOne(a, p) PROVE TypeOK' /\ ServiceInv'
    <2>1. /\ proc' \in [Pids -> Process \cup {NoProcess}]
          /\ victims' \in [Actors -> SUBSET Pids]
          /\ spared' \in [Actors -> SUBSET Pids]
          /\ pc[a] = "kill" /\ \A b \in Actors \ {a} : spared'[b] = spared[b]
          /\ UNCHANGED <<quiet, job, limited, todo, svc, event>>
          /\ \A b \in Actors \ {a} : victims'[b] = victims[b]
          /\ victims'[a] = victims[a] \ {p}
      BY <1>3 DEF KillOne, SpareOne, NextVictim, TypeOK, svcVars
    <2>2. CASE victims[a] = {p}
      <3>1. StopDone(a)
        BY <1>3, <2>2 DEF KillOne, SpareOne, NextVictim
      <3>2. /\ pc' = [pc EXCEPT ![a] = AfterStop(a)] /\ AfterStop(a) \in {"config", "end"}
            /\ excused' \in BOOLEAN /\ lost' \in BOOLEAN
        BY <3>1, StopDoneTypes
      <3>3. TypeOK'
        BY <2>1, <2>2, <3>2, ConsolesApart DEF TypeOK
      <3>4. QED
        BY <2>1, <3>2, <3>3, ConsolesApart DEF TypeOK, ServiceInv, AfterStop
    <2>3. CASE victims[a] # {p}
      <3>1. UNCHANGED <<pc, excused, lost>>
        BY <1>3, <2>3 DEF KillOne, SpareOne, NextVictim
      <3>2. QED
        BY <2>1, <3>1, ConsolesApart DEF TypeOK, ServiceInv
    <2>4. QED
      BY <2>2, <2>3
  <1>4. QED
    BY <1>0, <1>1, <1>2, <1>3 DEF StopServices

\* The steps of cmd_start keep the types and the places of the service's threads.
LEMMA StartTypes ==
    ASSUME TypeOK, ServiceInv, NEW a \in Actors, StartProcs(a)
    PROVE  TypeOK' /\ ServiceInv'
  <1>1. CASE NoMachineList(a)
    BY <1>1, ConsolesApart DEF NoMachineList, TypeOK, ServiceInv, svcVars, history
  <1>2. CASE ConfigFails(a)
    BY <1>2, ConsolesApart DEF ConfigFails, Forgets, TypeOK, ServiceInv, svcVars
  <1>3. CASE ConfigOk(a)
    BY <1>3, ConsolesApart DEF ConfigOk, Forgets, TypeOK, ServiceInv, svcVars
  <1>4. CASE SpawnNext(a)
    <2>1. Pipeline[Min(todo[a])] \in Roles /\ Spawn(a, Pipeline[Min(todo[a])])
      BY <1>4, NextRole DEF SpawnNext
    <2>2. /\ proc' \in [Pids -> Process \cup {NoProcess}]
          /\ quiet' \in [Actors -> BOOLEAN] /\ excused' \in BOOLEAN
      BY <2>1, SpawnTypes
    <2>3. QED
      BY <1>4, <2>2, ConsolesApart DEF SpawnNext, TypeOK, ServiceInv, svcVars
  <1>5. CASE SpawnDone(a)
    BY <1>5, ConsolesApart DEF SpawnDone, TypeOK, ServiceInv, svcVars, history
  <1>6. QED
    BY <1>1, <1>2, <1>3, <1>4, <1>5 DEF StartProcs

\* So do the Windows service's steps: what it reports agrees with where its threads are.
LEMMA ServiceTypes ==
    ASSUME TypeOK, ServiceInv,
           \/ ServiceFails \/ ServiceRuns \/ ServiceStopped \/ HandlerDone
           \/ ServiceStarts \/ ServiceStops \/ ServiceDies
    PROVE  TypeOK' /\ ServiceInv'
  <1>1. CASE ServiceFails
    <2>1. /\ pc[Main] = "failed" /\ pc' = [pc EXCEPT ![Main] = "idle"] /\ svc' = "STOPPED"
          /\ UNCHANGED <<proc, job, limited, victims, todo, event, quiet, spared, excused, lost>>
      BY <1>1 DEF ServiceFails, history
    <2>2. TypeOK'
      BY <2>1, ConsolesApart DEF TypeOK, ServiceInv
    <2>3. ServiceInv'
      BY <2>1, ConsolesApart DEF TypeOK, ServiceInv
    <2>4. QED
      BY <2>2, <2>3
  <1>2. CASE ServiceRuns
    <2>1. /\ pc[Main] = "end" /\ pc' = [pc EXCEPT ![Main] = "wait"] /\ svc' = "RUNNING"
          /\ UNCHANGED <<proc, job, limited, victims, todo, event, quiet, spared, excused, lost>>
      BY <1>2 DEF ServiceRuns, history
    <2>2. TypeOK'
      BY <2>1, ConsolesApart DEF TypeOK, ServiceInv
    <2>3. ServiceInv'
      BY <2>1, ConsolesApart DEF TypeOK, ServiceInv
    <2>4. QED
      BY <2>2, <2>3
  <1>3. CASE ServiceStopped
    <2>1. /\ pc[Main] = "wait" /\ event /\ pc' = [pc EXCEPT ![Main] = "idle"] /\ svc' = "STOPPED" /\ event' = FALSE
          /\ UNCHANGED <<proc, job, limited, victims, todo, quiet, spared, excused, lost>>
      BY <1>3 DEF ServiceStopped, history
    <2>2. TypeOK'
      BY <2>1, ConsolesApart DEF TypeOK, ServiceInv
    <2>3. ServiceInv'
      BY <2>1, ConsolesApart DEF TypeOK, ServiceInv
    <2>4. QED
      BY <2>2, <2>3
  <1>4. CASE HandlerDone
    <2>1. /\ pc[Handler] = "end" /\ pc' = [pc EXCEPT ![Handler] = "idle"] /\ event' = TRUE
          /\ spared' = [spared EXCEPT ![Handler] = {}]
          /\ UNCHANGED <<proc, job, limited, victims, todo, svc, quiet, excused, lost>>
      BY <1>4 DEF HandlerDone, Forgets
    <2>2. TypeOK'
      BY <2>1, ConsolesApart DEF TypeOK, ServiceInv
    <2>3. ServiceInv'
      BY <2>1, ConsolesApart DEF TypeOK, ServiceInv
    <2>4. QED
      BY <2>2, <2>3
  <1>5. CASE ServiceStarts
    <2>1. /\ svc = "STOPPED" /\ pc[Main] = "idle" /\ pc' = [pc EXCEPT ![Main] = "list"] /\ svc' = "START_PENDING"
          /\ UNCHANGED <<proc, job, limited, victims, todo, event, quiet, spared, excused, lost>>
      BY <1>5 DEF ServiceStarts, history
    <2>2. TypeOK'
      BY <2>1, ConsolesApart DEF TypeOK, ServiceInv
    <2>3. ServiceInv'
      BY <2>1, ConsolesApart DEF TypeOK, ServiceInv
    <2>4. QED
      BY <2>2, <2>3
  <1>6. CASE ServiceStops
    <2>1. /\ svc = "RUNNING" /\ pc[Handler] = "idle" /\ pc' = [pc EXCEPT ![Handler] = "list"] /\ svc' = "STOP_PENDING"
          /\ UNCHANGED <<proc, job, limited, victims, todo, event, quiet, spared, excused, lost>>
      BY <1>6 DEF ServiceStops, AcceptsStop, history
    <2>2. TypeOK'
      BY <2>1, ConsolesApart DEF TypeOK, ServiceInv
    <2>3. ServiceInv'
      BY <2>1, ConsolesApart DEF TypeOK, ServiceInv
    <2>4. QED
      BY <2>2, <2>3
  <1>7. CASE ServiceDies
    <2>1. TypeOK'
      <3>1. /\ pc' = [pc EXCEPT ![Main] = "idle", ![Handler] = "idle"]
            /\ victims' = [victims EXCEPT ![Main] = {}, ![Handler] = {}]
            /\ spared' = [spared EXCEPT ![Main] = {}, ![Handler] = {}]
            /\ todo' = [todo EXCEPT ![Main] = {}]
            /\ svc' = "STOPPED" /\ event' = FALSE /\ lost' = TRUE
            /\ UNCHANGED <<proc, job, limited, quiet, excused>>
        BY <1>7 DEF ServiceDies
      <3>2. todo[Handler] = {}
        BY ConsolesApart DEF TypeOK, ServiceInv
      <3>3. /\ \A a \in Actors : spared'[a] # {} => pc'[a] \in {"kill", "config", "end"}
            /\ \A a \in Actors : victims'[a] # {} => pc'[a] \in {"grace", "kill"}
            /\ \A a \in Actors : todo'[a] # {} => pc'[a] = "spawn"
        BY <3>1, <3>2, ConsolesApart DEF TypeOK
      <3>4. pc'[Handler] = "idle"
        BY <3>1, ConsolesApart DEF TypeOK
      <3>5. QED
        BY <3>1, <3>3, <3>4, ConsolesApart DEF TypeOK
    <2>2. ServiceInv'
      <3>1. /\ pc' = [pc EXCEPT ![Main] = "idle", ![Handler] = "idle"]
            /\ svc' = "STOPPED" /\ event' = FALSE /\ job' = job
        BY <1>7 DEF ServiceDies
      <3>2. pc'[Main] = "idle" /\ pc'[Handler] = "idle" /\ \A a \in Actors : pc'[a] \in {"idle", pc[a]}
        BY <3>1, ConsolesApart DEF TypeOK
      <3>3. QED
        BY <3>1, <3>2 DEF ServiceInv
    <2>3. QED
      BY <2>1, <2>2
  <1>8. QED
    BY <1>1, <1>2, <1>3, <1>4, <1>5, <1>6, <1>7

\* And what an operator does at a console, who never moves the service's threads.
LEMMA ConsoleTypes ==
    ASSUME TypeOK, ServiceInv, NEW c \in Consoles,
           ConsoleGoes(c)
    PROVE  TypeOK' /\ ServiceInv'
  <1>1. ASSUME NEW command \in {"start", "stop"}, Command(c, command) PROVE TypeOK' /\ ServiceInv'
    BY <1>1, ConsolesApart DEF Command, FirstStep, TypeOK, ServiceInv, svcVars, history
  <1>2. ASSUME NEW r \in Optional, Poll(c, r) PROVE TypeOK' /\ ServiceInv'
    BY <1>2, ConsolesApart DEF Poll, TypeOK, ServiceInv, svcVars, history
  <1>3. CASE Interrupt(c)
    BY <1>3, ConsolesApart DEF Interrupt, Forgets, TypeOK, ServiceInv, svcVars
  <1>4. CASE Returns(c)
    BY <1>4, ConsolesApart DEF Returns, Forgets, TypeOK, ServiceInv, svcVars
  <1>5. QED
    BY <1>1, <1>2, <1>3, <1>4 DEF ConsoleGoes

\* Types and the service are kept by every step.
LEMMA NextConsoleTypes ==
    ASSUME TypeOK, ServiceInv, [Next]_vars
    PROVE  TypeOK' /\ ServiceInv'
  <1>1. ASSUME NEW a \in Actors, Goes(a) PROVE TypeOK' /\ ServiceInv'
    BY <1>1, StopTypes, StartTypes, ServiceTypes, ConsoleTypes DEF Goes, ConsoleGoes
  <1>2. CASE Operators
    BY <1>2, ServiceTypes, ConsoleTypes DEF Operators, ConsoleGoes
  <1>3. ASSUME NEW p \in Pids, Exit(p) PROVE TypeOK' /\ ServiceInv'
    BY <1>3 DEF Exit, TypeOK, ServiceInv, actorVars, svcVars, history
  <1>4. CASE UNCHANGED vars
    BY <1>4 DEF vars, TypeOK, ServiceInv, actorVars, svcVars, history
  <1>5. QED
    BY <1>1, <1>2, <1>3, <1>4 DEF Next

-----------------------------------------------------------------------------
(* The lists of the stops. *)

\* Processes that end, and actors that leave their list, take nothing from the others'.
LEMMA ListFrame ==
    ASSUME ListInv, \A p \in Inside' : p \in Inside /\ proc'[p] = proc[p],
           \A b \in Actors : pc'[b] \in {"grace", "kill"} /\ quiet'[b] =>
               /\ pc[b] \in {"grace", "kill"} /\ quiet[b] /\ (b \in limited <=> b \in limited')
               /\ \A p \in Inside' : p \in victims[b] \cup spared[b] => p \in victims'[b] \cup spared'[b]
    PROVE  ListInv'
  BY DEF ListInv, CanOpen

\* The list of a stop stays complete: only a spawn adds to what is alive, and then the
\* other actors' stops are not quiet any more.
LEMMA ListStep ==
    ASSUME TypeOK, ServiceInv, ListInv, [Next]_vars
    PROVE  ListInv'
  <1>0. ASSUME NEW a \in Actors, NoList(a) PROVE ListInv'
    <2>1. /\ Inside' = Inside /\ UNCHANGED <<proc, limited, victims>>
          /\ pc'[a] \notin {"grace", "kill"}
          /\ \A b \in Actors \ {a} : pc'[b] = pc[b] /\ spared'[b] = spared[b] /\ quiet'[b] = quiet[b]
      BY <1>0 DEF NoList, StopDone, AfterStop, TypeOK, Inside, Alive
    <2>2. QED
      BY <2>1, ListFrame
  <1>1. ASSUME NEW a \in Actors, TakeList(a) PROVE ListInv'
    <2>1. /\ Inside' = Inside /\ UNCHANGED <<proc, limited, spared>>
          /\ victims'[a] = {p \in Inside : CanOpen(a, proc[p])}
          /\ \A b \in Actors \ {a} : pc'[b] = pc[b] /\ victims'[b] = victims[b] /\ quiet'[b] = quiet[b]
      BY <1>1 DEF TakeList, StopDone, TypeOK, Inside, Alive
    <2>2. QED
      BY <2>1 DEF ListInv, CanOpen
  <1>2. ASSUME NEW a \in Actors, GraceEnds(a) PROVE ListInv'
    <2>1. /\ Inside' = Inside /\ UNCHANGED <<proc, limited, victims, quiet, spared>>
          /\ \A b \in Actors : pc'[b] = pc[b] \/ pc[b] = "grace"
      BY <1>2 DEF GraceEnds, history, TypeOK, Inside, Alive
    <2>2. QED
      BY <2>1, ListFrame
  <1>3. ASSUME NEW a \in Actors, NEW p \in Pids, KillOne(a, p) \/ SpareOne(a, p) PROVE ListInv'
    <2>1. /\ UNCHANGED <<quiet, limited>>
          /\ \A q \in Inside' : q \in Inside /\ proc'[q] = proc[q]
          /\ \A b \in Actors : victims[b] \ {p} \subseteq victims'[b] /\ spared[b] \subseteq spared'[b]
      BY <1>3 DEF KillOne, SpareOne, NextVictim, TypeOK, Inside, Alive
    <2>2. \A b \in Actors : pc'[b] \in {"grace", "kill"} => pc[b] \in {"grace", "kill"}
      BY <1>3 DEF KillOne, SpareOne, NextVictim, StopDone, TypeOK
    <2>3. \A b \in Actors : p \in Inside' /\ p \in victims[b] => p \in victims'[b] \cup spared'[b]
      BY <1>3 DEF KillOne, SpareOne, NextVictim, TypeOK, Inside, Alive
    <2>4. QED
      BY <2>1, <2>2, <2>3, ListFrame
  <1>4. ASSUME NEW a \in Actors, SpawnNext(a) PROVE ListInv'
    <2>1. UNCHANGED <<pc, limited, victims, spared>> /\ Spawn(a, Pipeline[Min(todo[a])]) /\ pc[a] = "spawn"
      BY <1>4 DEF SpawnNext
    <2>2. CASE UNCHANGED <<proc, quiet>>
      BY <2>1, <2>2, ListFrame DEF Inside, Alive
    <2>3. CASE ~UNCHANGED <<proc, quiet>>
      <3>1. \A b \in Actors : pc[b] \in {"grace", "kill"} => ~quiet'[b]
        BY <2>1, <2>3 DEF Spawn, Busy
      <3>2. QED
        BY <2>1, <3>1 DEF ListInv
    <2>4. QED
      BY <2>2, <2>3
  <1>5. ASSUME NEW c \in Consoles, ConsoleGoes(c)
        PROVE  ListInv'
    <2>1. /\ UNCHANGED proc /\ Inside' = Inside /\ pc'[c] \notin {"grace", "kill"}
          /\ \A b \in Actors \ {c} : /\ pc'[b] = pc[b] /\ victims'[b] = victims[b] /\ spared'[b] = spared[b]
                                     /\ quiet'[b] = quiet[b] /\ (b \in limited <=> b \in limited')
      BY <1>5, ConsolesApart DEF ConsoleGoes, Command, FirstStep, Poll, Interrupt, Returns, Forgets, history,
                                 TypeOK, Inside, Alive
    <2>2. QED
      BY <2>1, ListFrame
  <1>6. ASSUME \/ \E a \in Actors : NoMachineList(a) \/ ConfigFails(a) \/ ConfigOk(a) \/ SpawnDone(a)
               \/ ServiceFails \/ ServiceRuns \/ ServiceStopped \/ HandlerDone
               \/ ServiceStarts \/ ServiceStops \/ ServiceDies
        PROVE  ListInv'
    <2>1. UNCHANGED <<proc, limited, quiet>> /\ Inside' = Inside
      BY <1>6 DEF NoMachineList, ConfigFails, ConfigOk, SpawnDone, ServiceFails, ServiceRuns, history,
                  ServiceStopped, HandlerDone, ServiceStarts, ServiceStops, ServiceDies, Inside, Alive
    <2>2. \A b \in Actors : pc'[b] \in {"grace", "kill"} =>
             pc'[b] = pc[b] /\ victims'[b] = victims[b] /\ spared'[b] = spared[b]
      BY <1>6, ConsolesApart DEF TypeOK, history, Forgets,
                  NoMachineList, ConfigFails, ConfigOk, SpawnDone, ServiceFails, ServiceRuns,
                  ServiceStopped, HandlerDone, ServiceStarts, ServiceStops, ServiceDies
    <2>3. QED
      BY <2>1, <2>2, ListFrame
  <1>7. ASSUME NEW p \in Pids, Exit(p) PROVE ListInv'
    <2>1. /\ UNCHANGED <<pc, victims, quiet, spared, limited>>
          /\ \A q \in Inside' : q \in Inside /\ proc'[q] = proc[q]
      BY <1>7 DEF Exit, actorVars, history, Inside, Alive, TypeOK
    <2>2. QED
      BY <2>1, ListFrame
  <1>8. CASE UNCHANGED vars
    BY <1>8, ListFrame DEF vars, actorVars, svcVars, history, Inside, Alive
  <1>9. ASSUME NEW a \in Actors, Goes(a) PROVE ListInv'
    <2>1. CASE StopServices(a)
      BY <1>0, <1>1, <1>2, <1>3, <2>1 DEF StopServices
    <2>2. CASE StartProcs(a)
      BY <1>4, <1>6, <2>2 DEF StartProcs
    <2>3. CASE a \in Consoles /\ Returns(a)
      BY <1>5, <2>3 DEF ConsoleGoes
    <2>4. QED
      BY <1>6, <1>9, <2>1, <2>2, <2>3 DEF Goes
  <1>10. CASE Operators
    <2>1. CASE ServiceStarts \/ ServiceStops \/ ServiceDies
      BY <1>6, <2>1
    <2>2. ASSUME NEW c \in Consoles, ConsoleGoes(c) PROVE ListInv'
      BY <1>5, <2>2
    <2>3. QED
      BY <1>10, <2>1, <2>2 DEF Operators, ConsoleGoes
  <1>11. QED
    BY <1>7, <1>8, <1>9, <1>10 DEF Next

-----------------------------------------------------------------------------
(* What the steps of stop and start do to each other's processes. *)

\* A step of stop_services: processes only end; the last step of a stop that nobody
\* has spawned beside leaves what its actor may not open or has spared.
LEMMA StopEffect ==
    ASSUME TypeOK, ListInv, NEW a \in Actors, StopServices(a)
    PROVE  /\ \A p \in Inside' : p \in Inside /\ proc'[p] = proc[p]
           /\ UNCHANGED <<job, limited, todo, svc, event>>
           /\ pc[a] \in {"list", "grace", "kill"} /\ pc'[a] \in {"grace", "kill", "config", "end"}
           /\ \A b \in Actors \ {a} : /\ pc'[b] = pc[b] /\ victims'[b] = victims[b]
                                      /\ quiet'[b] = quiet[b] /\ spared'[b] = spared[b]
           /\ pc'[a] \in {"config", "end"} /\ quiet'[a] =>
                 \A p \in Inside' : p \in spared'[a] \/ ~CanOpen(a, proc'[p])
           /\ pc'[a] \in {"config", "end"} => StopDone(a)
           /\ pc'[a] \notin {"config", "end"} => UNCHANGED <<excused, lost>>
  <1> DEFINE Others == \A b \in Actors \ {a} : /\ pc'[b] = pc[b] /\ victims'[b] = victims[b]
                                               /\ quiet'[b] = quiet[b] /\ spared'[b] = spared[b]
  <1>0. CASE NoList(a)
    <2>1. /\ UNCHANGED <<proc, job, limited, todo, svc, event>> /\ Inside' = Inside
          /\ pc[a] = "list" /\ pc'[a] \in {"config", "end"} /\ StopDone(a) /\ spared'[a] = Inside
      BY <1>0 DEF NoList, StopDone, AfterStop, TypeOK, svcVars, Inside, Alive
    <2>2. Others
      BY <1>0 DEF NoList, StopDone, TypeOK
    <2>3. QED
      BY <2>1, <2>2
  <1>1. CASE TakeList(a)
    <2>1. /\ UNCHANGED <<proc, job, limited, todo, svc, event>> /\ Inside' = Inside
          /\ pc[a] = "list" /\ pc'[a] \in {"grace", "config", "end"}
      BY <1>1 DEF TakeList, StopDone, AfterStop, TypeOK, svcVars, Inside, Alive
    <2>2. Others
      BY <1>1 DEF TakeList, StopDone, TypeOK
    <2>3. CASE {p \in Inside : CanOpen(a, proc[p])} = {}
      <3>1. StopDone(a) /\ pc'[a] \in {"config", "end"}
        BY <1>1, <2>3 DEF TakeList, StopDone, AfterStop, TypeOK
      <3>2. \A p \in Inside' : p \in Inside /\ proc'[p] = proc[p] /\ ~CanOpen(a, proc'[p])
        BY <2>1, <2>3
      <3>3. QED
        BY <2>1, <2>2, <3>1, <3>2
    <2>4. CASE {p \in Inside : CanOpen(a, proc[p])} # {}
      <3>1. pc'[a] = "grace" /\ UNCHANGED <<excused, lost>>
        BY <1>1, <2>4 DEF TakeList, TypeOK
      <3>2. QED
        BY <2>1, <2>2, <3>1
    <2>5. QED
      BY <2>3, <2>4
  <1>2. CASE GraceEnds(a)
    BY <1>2 DEF GraceEnds, TypeOK, svcVars, history, Inside, Alive
  <1>3. ASSUME NEW p \in Pids, KillOne(a, p) \/ SpareOne(a, p)
        PROVE  /\ \A q \in Inside' : q \in Inside /\ proc'[q] = proc[q]
               /\ UNCHANGED <<job, limited, todo, svc, event>>
               /\ pc[a] \in {"list", "grace", "kill"} /\ pc'[a] \in {"grace", "kill", "config", "end"}
               /\ Others
               /\ pc'[a] \in {"config", "end"} /\ quiet'[a] =>
                     \A q \in Inside' : q \in spared'[a] \/ ~CanOpen(a, proc'[q])
               /\ pc'[a] \in {"config", "end"} => StopDone(a)
               /\ pc'[a] \notin {"config", "end"} => UNCHANGED <<excused, lost>>
    <2>1. /\ \A q \in Inside' : q \in Inside /\ proc'[q] = proc[q]
          /\ p \in Inside' => p \in spared'[a]
          /\ spared[a] \subseteq spared'[a]
          /\ UNCHANGED <<job, limited, todo, svc, event, quiet>> /\ pc[a] = "kill"
          /\ \A b \in Actors \ {a} : victims'[b] = victims[b] /\ spared'[b] = spared[b]
      <3>1. CASE KillOne(a, p)
        BY <3>1 DEF KillOne, NextVictim, TypeOK, svcVars, Inside, Alive
      <3>2. CASE SpareOne(a, p)
        BY <3>2 DEF SpareOne, NextVictim, TypeOK, svcVars, Inside, Alive
      <3>3. QED
        BY <1>3, <3>1, <3>2
    <2>2. CASE victims[a] = {p}
      <3>1. StopDone(a) /\ pc'[a] \in {"config", "end"}
            /\ \A b \in Actors \ {a} : pc'[b] = pc[b]
        BY <1>3, <2>2 DEF KillOne, SpareOne, NextVictim, StopDone, AfterStop, TypeOK
      <3>2. quiet[a] => \A q \in Inside : CanOpen(a, proc[q]) => q = p \/ q \in spared[a]
        BY <2>1, <2>2 DEF ListInv
      <3>3. quiet'[a] => \A q \in Inside' : q \in spared'[a] \/ ~CanOpen(a, proc[q])
        BY <2>1, <3>2
      <3>4. QED
        BY <2>1, <3>1, <3>3
    <2>3. CASE victims[a] # {p}
      BY <1>3, <2>1, <2>3 DEF KillOne, SpareOne, NextVictim, TypeOK
    <2>4. QED
      BY <2>2, <2>3
  <1>4. QED
    BY <1>0, <1>1, <1>2, <1>3 DEF StopServices

\* What that says of excused: it is given up only where nothing is left, and not at
\* the end of a start's stop that leaves something.
LEMMA StopExcuse ==
    ASSUME TypeOK, ListInv, NEW a \in Actors, StopServices(a)
    PROVE  /\ excused /\ ~excused' => Inside' = {}
           /\ job[a] = "start" /\ pc'[a] \in {"config", "end"} /\ quiet'[a] /\ ~excused' => Inside' = {}
  <1>1. CASE pc'[a] \in {"config", "end"}
    <2>1. StopDone(a)
      BY <1>1, StopEffect
    <2>2. Inside' = {p \in Pids : proc'[p] # NoProcess /\ proc'[p].role \notin Outside}
      BY DEF Inside, Alive
    <2> DEFINE Protected == job[a] = "start" /\ \E p \in Inside' : ~CanOpen(a, proc'[p]) \/ p \in spared'[a]
    <2>3. excused' = IF Inside' = {} /\ quiet'[a] THEN FALSE ELSE excused \/ Protected
      BY <2>1, <2>2, Zenon DEF StopDone
    <2>4. ~excused' => Inside' = {} \/ (~excused /\ ~Protected)
      BY <2>3
    <2>5. QED
      BY <1>1, <2>4, StopEffect
  <1>2. CASE pc'[a] \notin {"config", "end"}
    BY <1>2, StopEffect
  <1>3. QED
    BY <1>1, <1>2

\* A spawn of start or poll.
LEMMA SpawnEffect ==
    ASSUME TypeOK, ServiceInv, NEW a \in Actors, SpawnNext(a),
           ~UNCHANGED <<proc, quiet, excused>>
    PROVE  \E p \in Pids \ Alive :
              /\ Inside' \subseteq Inside \cup {p} /\ \A q \in Inside : proc'[q] = proc[q]
              /\ proc'[p] = [role |-> Pipeline[Min(todo[a])], owner |-> a]
  <1>1. Spawn(a, Pipeline[Min(todo[a])]) /\ Pipeline[Min(todo[a])] \in Roles
    BY NextRole DEF SpawnNext
  <1> DEFINE p == Min(FreePids)
             new == [role |-> Pipeline[Min(todo[a])], owner |-> a]
  <1>2. FreePids # {} /\ proc' = [proc EXCEPT ![p] = new]
    BY <1>1 DEF Spawn
  <1>3. p \in Pids \ Alive
    BY <1>2, NewPid
  <1>4. new # NoProcess
    <2>1. new \in Process
      BY <1>1 DEF Process
    <2>2. QED
      BY <2>1, NoProcessIsNone
  <1> HIDE DEF p, new
  <1>5. /\ Inside' \subseteq Inside \cup {p} /\ proc'[p] = new
        /\ \A q \in Inside : proc'[q] = proc[q]
    BY <1>2, <1>3, <1>4 DEF Inside, Alive, TypeOK
  <1>6. QED
    BY <1>3, <1>5 DEF new

-----------------------------------------------------------------------------
(* What may be spawned. *)

\* What is neither a step of stop_services nor a spawn: processes end at most.
Beside(b) ==
    /\ \A p \in Inside' : p \in Inside /\ proc'[p] = proc[p]
    /\ UNCHANGED excused
    /\ pc[b] \in {"list", "kill"} => pc'[b] \notin {"config", "end"}
    /\ pc'[b] = "spawn" =>
          \/ pc[b] = "spawn" /\ UNCHANGED <<todo[b], job[b], quiet[b]>>
          \/ pc[b] = "config" /\ UNCHANGED <<job[b], quiet[b]>>
          \/ job'[b] = "poll"
    /\ pc'[b] = "config" => pc[b] = "config" /\ job'[b] = job[b] /\ quiet'[b] = quiet[b]

\* Every step is one of stop_services, a spawn of a start, or does nothing that matters to
\* what an actor is about to spawn.
LEMMA BesideStep ==
    ASSUME TypeOK, [Next]_vars, NEW b \in Actors
    PROVE  \/ Beside(b)
           \/ \E a \in Actors : StopServices(a) \/ SpawnNext(a)
  <1>1. ASSUME NEW a \in Actors, NoMachineList(a) \/ ConfigFails(a) \/ ConfigOk(a) \/ SpawnDone(a)
        PROVE  Beside(b)
    BY <1>1 DEF NoMachineList, ConfigFails, ConfigOk, SpawnDone, Beside, history, TypeOK, Inside, Alive
  <1>2. ASSUME \/ ServiceFails \/ ServiceRuns \/ ServiceStopped \/ HandlerDone
               \/ ServiceStarts \/ ServiceStops \/ ServiceDies
        PROVE  Beside(b)
    <2>1. UNCHANGED <<proc, excused, job, quiet>>
          /\ (pc'[b] \in {"config", "spawn"} => pc'[b] = pc[b] /\ todo'[b] = todo[b])
          /\ (pc[b] \in {"list", "kill"} => pc'[b] \notin {"config", "end"})
      BY <1>2, ConsolesApart DEF TypeOK, history, ServiceFails, ServiceRuns,
                  ServiceStopped, HandlerDone, ServiceStarts, ServiceStops, ServiceDies
    <2>2. QED
      BY <2>1 DEF Beside, Inside, Alive
  <1>3. ASSUME NEW c \in Consoles, ConsoleGoes(c) PROVE Beside(b)
    <2>1. CASE \E r \in Optional : Poll(c, r)
      BY <2>1, ConsolesApart DEF Poll, Beside, history, TypeOK, Inside, Alive
    <2>2. CASE Interrupt(c) \/ Returns(c) \/ \E command \in {"start", "stop"} : Command(c, command)
      BY <2>2, ConsolesApart DEF Command, FirstStep, Interrupt, Returns, Beside, history, TypeOK, Inside, Alive
    <2>3. QED
      BY <1>3, <2>1, <2>2 DEF ConsoleGoes
  <1>4. ASSUME NEW p \in Pids, Exit(p) PROVE Beside(b)
    BY <1>4 DEF Exit, actorVars, history, Beside, Inside, Alive, TypeOK
  <1>5. CASE UNCHANGED vars
    BY <1>5 DEF vars, actorVars, history, Beside, Inside, Alive
  <1>6. ASSUME NEW a \in Actors, Goes(a), ~StopServices(a), ~SpawnNext(a) PROVE Beside(b)
    <2>1. CASE a \in Consoles /\ Returns(a)
      BY <1>3, <2>1 DEF ConsoleGoes
    <2>2. QED
      BY <1>1, <1>2, <1>6, <2>1 DEF Goes, StartProcs
  <1>7. CASE Operators
    <2>1. CASE ServiceStarts \/ ServiceStops \/ ServiceDies
      BY <1>2, <2>1
    <2>2. ASSUME NEW c \in Consoles, ConsoleGoes(c) PROVE Beside(b)
      BY <1>3, <2>2
    <2>3. QED
      BY <1>7, <2>1, <2>2 DEF Operators, ConsoleGoes
  <1>8. QED
    BY <1>4, <1>5, <1>6, <1>7 DEF Next

\* Nothing is doubled by a spawn that is not excused.
LEMMA SingleStep ==
    ASSUME TypeOK, ServiceInv, ListInv, FreshInv, OnlyOverlapsDouble, [Next]_vars
    PROVE  OnlyOverlapsDouble'
  <1>1. ASSUME NEW a \in Actors, StopServices(a) PROVE OnlyOverlapsDouble'
    BY <1>1, StopEffect, StopExcuse DEF OnlyOverlapsDouble
  <1>2. ASSUME NEW a \in Actors, SpawnNext(a) PROVE OnlyOverlapsDouble'
    <2>1. CASE UNCHANGED <<proc, quiet, excused>>
      BY <2>1 DEF OnlyOverlapsDouble, Inside, Alive
    <2> DEFINE r == Pipeline[Min(todo[a])]
    <2>2. CASE ~UNCHANGED <<proc, quiet, excused>> /\ ~excused'
      <3>1. /\ pc[a] = "spawn" /\ job[a] \in {"start", "poll"} /\ Min(todo[a]) \in todo[a]
            /\ Spawn(a, r)
        BY <1>2, NextRole DEF SpawnNext, ServiceInv
      <3>2. /\ ~excused /\ ~(job[a] = "start" /\ ~quiet[a])
            /\ ~(job[a] = "poll" /\ \E p \in Alive : proc[p].role = r)
        BY <2>2, <3>1 DEF Spawn
      <3>3. \A p \in Inside : proc[p].role # r
        BY <3>1, <3>2 DEF FreshInv, Inside
      <3>4. PICK p \in Pids \ Alive :
               /\ Inside' \subseteq Inside \cup {p} /\ \A q \in Inside : proc'[q] = proc[q]
               /\ proc'[p] = [role |-> r, owner |-> a]
        BY <1>2, <2>2, SpawnEffect
      <3>5. proc'[p].role = r
        BY <3>4
      <3> HIDE DEF r
      <3>6. QED
        BY <3>2, <3>3, <3>4, <3>5 DEF OnlyOverlapsDouble
    <2>3. QED
      BY <2>1, <2>2 DEF OnlyOverlapsDouble
  <1>3. ASSUME NEW b \in Actors, Beside(b) PROVE OnlyOverlapsDouble'
    BY <1>3 DEF Beside, OnlyOverlapsDouble
  <1>4. QED
    BY <1>1, <1>2, <1>3, BesideStep, ConsolesApart

\* A start keeps what it will spawn apart from what runs, until somebody else spawns.
LEMMA FreshStep ==
    ASSUME TypeOK, ServiceInv, ListInv, FreshInv, [Next]_vars
    PROVE  FreshInv'
  <1> SUFFICES ASSUME NEW b \in Actors, job'[b] = "start", quiet'[b], ~excused',
                      pc'[b] \in {"config", "spawn"}
               PROVE  /\ pc'[b] = "config" => Inside' = {}
                      /\ pc'[b] = "spawn" => \A p \in Inside', i \in todo'[b] : proc'[p].role # Pipeline[i]
    BY DEF FreshInv
  <1>1. ASSUME NEW a \in Actors, StopServices(a)
        PROVE  /\ pc'[b] = "config" => Inside' = {}
               /\ pc'[b] = "spawn" => \A p \in Inside', i \in todo'[b] : proc'[p].role # Pipeline[i]
    <2>1. CASE b = a
      BY <1>1, <2>1, StopEffect, StopExcuse
    <2>2. CASE b # a /\ excused
      BY <1>1, <2>2, StopExcuse
    <2>3. CASE b # a /\ ~excused
      BY <1>1, <2>3, StopEffect DEF FreshInv
    <2>4. QED
      BY <2>1, <2>2, <2>3
  <1>2. ASSUME NEW a \in Actors, SpawnNext(a)
        PROVE  /\ pc'[b] = "config" => Inside' = {}
               /\ pc'[b] = "spawn" => \A p \in Inside', i \in todo'[b] : proc'[p].role # Pipeline[i]
    <2>1. /\ UNCHANGED <<pc, job>> /\ pc[a] = "spawn" /\ Spawn(a, Pipeline[Min(todo[a])])
          /\ todo' = [todo EXCEPT ![a] = @ \ {Min(@)}] /\ todo[a] # {}
      BY <1>2 DEF SpawnNext
    <2>2. todo'[b] \subseteq todo[b]
      BY <2>1 DEF TypeOK
    <2>3. CASE UNCHANGED <<proc, quiet, excused>>
      BY <2>1, <2>2, <2>3 DEF FreshInv, Inside, Alive
    <2>4. CASE ~UNCHANGED <<proc, quiet, excused>>
      <3>1. b = a /\ quiet[a] /\ ~excused
        BY <2>1, <2>4 DEF Spawn, Busy
      <3>2. \A p \in Inside, i \in todo[a] : proc[p].role # Pipeline[i]
        <4>1. \A p \in Inside, i \in todo[b] : proc[p].role # Pipeline[i]
          BY <2>1, <3>1 DEF FreshInv
        <4>2. QED
          BY <2>1, <2>3, <3>1, <4>1
      <3>3. PICK p \in Pids \ Alive :
               /\ Inside' \subseteq Inside \cup {p} /\ \A q \in Inside : proc'[q] = proc[q]
               /\ proc'[p] = [role |-> Pipeline[Min(todo[a])], owner |-> a]
        BY <1>2, <2>4, SpawnEffect
      <3>4. proc'[p].role = Pipeline[Min(todo[a])]
        BY <3>3
      <3>5. todo'[a] = todo[a] \ {Min(todo[a])}
        BY <2>1 DEF TypeOK
      <3>6. \A i \in todo'[a] : Pipeline[i] # Pipeline[Min(todo[a])]
        BY <2>1, <3>5, NextRole
      <3>7. \A q \in Inside', i \in todo'[a] : proc'[q].role # Pipeline[i]
        BY <3>2, <3>3, <3>4, <3>5, <3>6
      <3>8. QED
        BY <2>1, <3>1, <3>7
    <2>5. QED
      BY <2>3, <2>4
  <1>3. CASE Beside(b)
    <2>1. Inside' \subseteq Inside /\ ~excused /\ \A p \in Inside' : proc'[p] = proc[p]
      BY <1>3 DEF Beside
    <2>2. CASE pc'[b] = "config"
      BY <1>3, <2>1, <2>2 DEF Beside, FreshInv
    <2>3. CASE pc'[b] = "spawn"
      <3>1. CASE pc[b] = "spawn" /\ todo'[b] = todo[b] /\ job'[b] = job[b] /\ quiet'[b] = quiet[b]
        <4>1. \A p \in Inside, i \in todo[b] : proc[p].role # Pipeline[i]
          BY <2>1, <3>1 DEF FreshInv
        <4>2. QED
          BY <2>1, <2>3, <3>1, <4>1
      <3>2. CASE pc[b] = "config" /\ job'[b] = job[b] /\ quiet'[b] = quiet[b]
        BY <2>1, <2>3, <3>2 DEF FreshInv
      <3>3. QED
        BY <1>3, <2>3, <3>1, <3>2 DEF Beside
    <2>4. QED
      BY <2>2, <2>3
  <1>4. QED
    BY <1>1, <1>2, <1>3, BesideStep

\* The service's children are on the lists of its stops, and none is left after them.
LEMMA ChildrenStep ==
    ASSUME TypeOK, ServiceInv, ListInv, ChildrenInv, [Next]_vars
    PROVE  ChildrenInv'
  <1> DEFINE Same == UNCHANGED <<proc, event, lost>>
                     /\ pc'[Main] = pc[Main] /\ pc'[Handler] = pc[Handler]
                     /\ victims'[Main] = victims[Main] /\ victims'[Handler] = victims[Handler]
                     /\ spared'[Main] = spared[Main] /\ spared'[Handler] = spared[Handler]
  <1>1. ASSUME NEW a \in Actors, StopServices(a) PROVE ChildrenInv'
    <2>1. Children' \subseteq Children
      BY <1>1, StopEffect DEF Children
    <2>2. CASE a \in Consoles
      <3>1. lost' = lost
        BY <1>1, <2>2, StopEffect, ConsolesApart DEF StopDone, TypeOK
      <3>2. QED
        BY <1>1, <2>1, <2>2, <3>1, StopEffect, ConsolesApart DEF ChildrenInv
    <2>3. CASE a \in {Main, Handler}
      <3>1. \A p \in Inside : CanOpen(a, proc[p])
        BY <2>3, ConsolesApart DEF CanOpen, TypeOK
      <3>2. /\ pc'[a] \in {"grace", "kill"} => Children' \subseteq victims'[a] \cup spared'[a]
            /\ pc'[a] \in {"config", "end"} => Children' \subseteq spared'[a]
        <4>0. CASE NoList(a)
          BY <4>0 DEF NoList, StopDone, AfterStop, TypeOK, Children, Inside, Alive
        <4>1. CASE TakeList(a)
          <5>1. Children' = Children /\ victims'[a] = Inside
            BY <3>1, <4>1 DEF TakeList, TypeOK, Children, Inside, Alive
          <5>2. Inside # {} => pc'[a] = "grace"
            BY <3>1, <4>1 DEF TakeList, TypeOK
          <5>3. QED
            BY <5>1, <5>2 DEF Children
        <4>2. CASE GraceEnds(a)
          <5>1. /\ Children' = Children /\ victims' = victims /\ spared' = spared
                /\ pc[a] = "grace" /\ pc'[a] = "kill"
            BY <4>2 DEF GraceEnds, history, TypeOK, Children, Inside, Alive
          <5>2. QED
            BY <2>3, <5>1 DEF ChildrenInv
        <4>3. ASSUME NEW p \in Pids, KillOne(a, p) \/ SpareOne(a, p)
              PROVE  /\ pc'[a] \in {"grace", "kill"} => Children' \subseteq victims'[a] \cup spared'[a]
                     /\ pc'[a] \in {"config", "end"} => Children' \subseteq spared'[a]
          <5>1. /\ p \in Children' => p \in spared'[a]
                /\ spared[a] \subseteq spared'[a]
                /\ victims'[a] = victims[a] \ {p} /\ pc[a] = "kill"
                /\ victims[a] # {p} => pc'[a] = "kill"
            <6>1. CASE KillOne(a, p)
              BY <6>1 DEF KillOne, NextVictim, TypeOK, Children, Inside, Alive
            <6>2. CASE SpareOne(a, p)
              BY <6>2 DEF SpareOne, NextVictim, TypeOK, Children, Inside, Alive
            <6>3. QED
              BY <4>3, <6>1, <6>2
          <5>2. Children \subseteq victims[a] \cup spared[a]
            BY <2>3, <5>1 DEF ChildrenInv
          <5>3. QED
            BY <2>1, <5>1, <5>2
        <4>4. QED
          BY <1>1, <4>0, <4>1, <4>2, <4>3 DEF StopServices
      <3>3. CASE a = Main
        <4>1. /\ pc'[Handler] = pc[Handler] /\ victims'[Handler] = victims[Handler]
              /\ spared'[Handler] = spared[Handler] /\ event' = event
              /\ pc[Main] \in {"list", "grace", "kill"}
              /\ pc'[Main] \in {"grace", "kill", "config", "end"}
          BY <1>1, <3>3, StopEffect, ConsolesApart
        <4>2. pc'[Main] \notin {"config", "end"} => lost' = lost
          BY <1>1, <3>3, StopEffect
        <4>3. pc'[Main] \in {"config", "end"} => (lost' <=> lost /\ spared'[Main] # {})
          <5>1. pc'[Main] \in {"config", "end"} => StopDone(Main)
            BY <1>1, <3>3, StopEffect
          <5>2. QED
            BY <5>1, ConsolesApart, Zenon DEF StopDone
        <4>4. QED
          <5>1. ~lost' /\ lost => Children' = {}
            BY <3>2, <3>3, <4>1, <4>2, <4>3
          <5>2. ~lost => Children = {}
            BY <4>1 DEF ChildrenInv
          <5>3. ~lost' => Children' = {}
            BY <2>1, <5>1, <5>2
          <5>4. pc'[Main] \in {"grace", "kill"} => Children' \subseteq victims'[Main] \cup spared'[Main]
            BY <3>2, <3>3
          <5>5. pc'[Handler] \in {"grace", "kill"} => Children' \subseteq victims'[Handler] \cup spared'[Handler]
            BY <2>1, <4>1 DEF ChildrenInv
          <5>6. QED
            BY <5>3, <5>4, <5>5 DEF ChildrenInv
      <3>4. CASE a = Handler
        <4>1. /\ pc'[Main] = pc[Main] /\ victims'[Main] = victims[Main] /\ spared'[Main] = spared[Main]
              /\ event' = event /\ pc'[Handler] \in {"grace", "kill", "config", "end"}
          BY <1>1, <3>4, StopEffect, ConsolesApart
        <4>2. pc'[Handler] \notin {"config", "end"} => lost' = lost
          BY <1>1, <3>4, StopEffect
        <4>3. pc'[Handler] \in {"config", "end"} => (lost' <=> lost \/ spared'[Handler] # {})
          <5>1. pc'[Handler] \in {"config", "end"} => StopDone(Handler)
            BY <1>1, <3>4, StopEffect
          <5>2. QED
            BY <5>1, ConsolesApart, Zenon DEF StopDone
        <4>4. ~lost' => ~lost
          BY <4>1, <4>2, <4>3
        <4>5. ~lost' /\ pc'[Handler] = "end" => Children' = {}
          BY <3>2, <3>4, <4>3
        <4>6. QED
          BY <2>1, <3>2, <3>4, <4>1, <4>4, <4>5 DEF ChildrenInv
      <3>5. QED
        BY <2>3, <3>3, <3>4
    <2>4. QED
      BY <2>2, <2>3 DEF Actors
  <1>2. ASSUME NEW a \in Actors, SpawnNext(a) PROVE ChildrenInv'
    <2>1. UNCHANGED <<pc, victims, svc, event, spared, lost>> /\ pc[a] = "spawn"
          /\ Spawn(a, Pipeline[Min(todo[a])])
      BY <1>2 DEF SpawnNext, svcVars
    <2>2. CASE a = Main
      BY <2>1, <2>2 DEF ChildrenInv, ServiceInv, TypeOK
    <2>3. CASE a # Main /\ ~UNCHANGED <<proc, quiet, excused>>
      <3>1. PICK p \in Pids \ Alive :
               /\ Inside' \subseteq Inside \cup {p} /\ \A q \in Inside : proc'[q] = proc[q]
               /\ proc'[p] = [role |-> Pipeline[Min(todo[a])], owner |-> a]
        BY <1>2, <2>3, SpawnEffect
      <3>2. proc'[p].owner # Main
        BY <2>3, <3>1
      <3>3. Children' \subseteq Children
        BY <3>1, <3>2 DEF Children
      <3>4. QED
        BY <2>1, <3>3 DEF ChildrenInv
    <2>4. CASE UNCHANGED <<proc, quiet, excused>>
      BY <2>1, <2>4 DEF ChildrenInv, Children, Inside, Alive
    <2>5. QED
      BY <2>2, <2>3, <2>4
  <1>3. CASE Same
    BY <1>3 DEF ChildrenInv, Children, Inside, Alive
  <1>4. ASSUME NEW a \in Actors, NoMachineList(a) \/ ConfigFails(a) \/ ConfigOk(a) \/ SpawnDone(a)
        PROVE  ChildrenInv'
    <2>1. UNCHANGED <<proc, event, lost, victims>> /\ Children' = Children
      BY <1>4 DEF NoMachineList, ConfigFails, ConfigOk, SpawnDone, svcVars, history, Children, Inside, Alive
    <2>2. /\ pc'[Main] \in {"idle", "list", "grace", "kill", "config", "failed"} =>
                pc'[Main] = pc[Main] \/ pc[Main] \in {"list", "config"}
          /\ pc'[Main] \in {"grace", "kill"} => pc'[Main] = pc[Main] /\ spared'[Main] = spared[Main]
          /\ pc'[Handler] = pc[Handler] /\ spared'[Handler] = spared[Handler]
      BY <1>4, ConsolesApart DEF NoMachineList, ConfigFails, ConfigOk, SpawnDone, Forgets, history,
                                 TypeOK, ServiceInv
    <2>3. QED
      BY <2>1, <2>2 DEF ChildrenInv
  <1>5. CASE ServiceFails \/ ServiceRuns \/ ServiceStopped \/ HandlerDone
             \/ ServiceStarts \/ ServiceStops \/ ServiceDies
    <2>1. UNCHANGED proc /\ Children' = Children
      BY <1>5 DEF ServiceFails, ServiceRuns, ServiceStopped, HandlerDone,
                  ServiceStarts, ServiceStops, ServiceDies, Children, Inside, Alive
    <2>2. CASE ServiceFails
      BY <2>1, <2>2, ConsolesApart DEF ServiceFails, history, ChildrenInv, TypeOK
    <2>3. CASE ServiceRuns
      BY <2>1, <2>3, ConsolesApart DEF ServiceRuns, history, ChildrenInv, TypeOK
    <2>4. CASE ServiceStopped
      BY <2>1, <2>4, ConsolesApart DEF ServiceStopped, history, ChildrenInv, TypeOK
    <2>5. CASE HandlerDone
      BY <2>1, <2>5, ConsolesApart DEF HandlerDone, Forgets, ChildrenInv, TypeOK
    <2>6. CASE ServiceStarts
      BY <2>1, <2>6, ConsolesApart DEF ServiceStarts, history, ChildrenInv, TypeOK
    <2>7. CASE ServiceStops
      BY <2>1, <2>7, ConsolesApart DEF ServiceStops, history, ChildrenInv, TypeOK
    <2>8. CASE ServiceDies
      BY <2>1, <2>8, ConsolesApart DEF ServiceDies, ChildrenInv, TypeOK
    <2>9. QED
      BY <1>5, <2>2, <2>3, <2>4, <2>5, <2>6, <2>7, <2>8
  <1>6. ASSUME NEW c \in Consoles, ConsoleGoes(c) PROVE ChildrenInv'
    <2>1. Same
      BY <1>6, ConsolesApart DEF ConsoleGoes, Command, Poll, Interrupt, Returns, Forgets, history, TypeOK, svcVars
    <2>2. QED
      BY <1>3, <2>1
  <1>7. ASSUME NEW p \in Pids, Exit(p) PROVE ChildrenInv'
    <2>1. Children' \subseteq Children /\ UNCHANGED <<pc, victims, event, spared, lost>>
      BY <1>7 DEF Exit, actorVars, svcVars, history, Children, Inside, Alive, TypeOK
    <2>2. QED
      BY <2>1 DEF ChildrenInv
  <1>8. CASE UNCHANGED vars
    BY <1>3, <1>8 DEF vars, actorVars, svcVars, history
  <1>9. ASSUME NEW a \in Actors, Goes(a) PROVE ChildrenInv'
    <2>1. CASE a \in Consoles /\ Returns(a)
      BY <1>6, <2>1 DEF ConsoleGoes
    <2>2. QED
      BY <1>1, <1>2, <1>4, <1>5, <1>9, <2>1 DEF Goes, StartProcs
  <1>10. CASE Operators
    <2>1. ASSUME NEW c \in Consoles, ConsoleGoes(c) PROVE ChildrenInv'
      BY <1>6, <2>1
    <2>2. QED
      BY <1>5, <1>10, <2>1 DEF Operators, ConsoleGoes
  <1>11. QED
    BY <1>7, <1>8, <1>9, <1>10 DEF Next

-----------------------------------------------------------------------------
(* The theorems. *)

\* In the initial state nothing runs, so every part holds.
LEMMA InitConsole == Init => ConsoleInv
  <1> SUFFICES ASSUME Init PROVE ConsoleInv
    OBVIOUS
  <1>1. Inside = {}
    BY DEF Init, Inside, Alive
  <1>2. job[Main] = "start" /\ job[Handler] = "stop"
    BY ConsolesApart DEF Init
  <1>3. job \in [Actors -> {"none", "start", "stop", "poll"}]
    BY DEF Init
  <1>4. TypeOK
    BY <1>3, ConsolesApart DEF Init, TypeOK
  <1>5. ServiceInv
    BY <1>2, ConsolesApart DEF Init, ServiceInv
  <1>6. ListInv /\ FreshInv /\ OnlyOverlapsDouble /\ ChildrenInv
    BY <1>1, ConsolesApart DEF Init, ListInv, FreshInv, OnlyOverlapsDouble, ChildrenInv, Children
  <1>7. QED
    BY <1>4, <1>5, <1>6 DEF ConsoleInv

\* The inductive invariant of the service console.
THEOREM ConsoleInvariant == Spec => []ConsoleInv
  <1>1. ConsoleInv /\ [Next]_vars => ConsoleInv'
    BY NextConsoleTypes, ListStep, FreshStep, SingleStep, ChildrenStep DEF ConsoleInv
  <1>2. QED
    BY InitConsole, <1>1, PTL DEF Spec

\* Every variable of the console's model keeps its type: the places of the actors, their
\* lists and jobs, the service's state, and the processes (mtc_ctl.cpp, cmd_* and SvcMain).
THEOREM ConsoleTyping == Spec => []TypeOK
  BY ConsoleInvariant, PTL DEF ConsoleInv

\* However starts, stops, polls and the service's threads interleave and fail half-way, no
\* service under the root runs twice, unless two of them overlapped or what ran could not
\* be listed, opened or ended.
THEOREM NothingDoubles == Spec => []OnlyOverlapsDouble
  BY ConsoleInvariant, PTL DEF ConsoleInv

\* When the service reports STOPPED, none of the processes its main thread has spawned under
\* the root is alive, unless the service process itself was killed or its stop could not list
\* or end some (SvcMain, SvcCtrlHandler).
THEOREM StoppedServiceIsGone == Spec => []StoppedServiceLeavesNone
  <1>1. ConsoleInv => StoppedServiceLeavesNone
    BY DEF ConsoleInv, ServiceInv, ChildrenInv, Children, StoppedServiceLeavesNone
  <1>2. QED
    BY <1>1, ConsoleInvariant, PTL

\* A stop that nobody spawned beside leaves, at its end, no process under the root that it has
\* the right to open but those it could not list or end (stop_services: its list, the grace
\* period and the kill).
THEOREM StopsLeaveNone == Spec => StopLeavesNone
  <1>1. ASSUME ConsoleInv, [Next]_vars, NEW b \in Actors,
               pc[b] \in {"list", "kill"}, pc'[b] \in {"config", "end"}, quiet'[b]
        PROVE  \A p \in Inside' : p \in spared'[b] \/ ~CanOpen(b, proc'[p])
    <2>1. PICK a \in Actors : StopServices(a) \/ SpawnNext(a)
      <3>1. ~Beside(b)
        BY <1>1 DEF Beside
      <3>2. QED
        BY <1>1, <3>1, BesideStep DEF ConsoleInv
    <2>2. StopServices(a) /\ a = b
      BY <1>1, <2>1, StopEffect DEF SpawnNext, ConsoleInv
    <2>3. QED
      BY <1>1, <2>2, StopEffect DEF ConsoleInv
  <1>2. ConsoleInv /\ [Next]_vars =>
           [\A a \in Actors :
               /\ pc[a] \in {"list", "kill"} /\ pc'[a] \in {"config", "end"}
               /\ quiet'[a]
               => \A p \in Inside' : p \in spared'[a] \/ ~CanOpen(a, proc'[p])]_vars
    BY <1>1
  <1>3. QED
    BY <1>2, ConsoleInvariant, PTL DEF Spec, StopLeavesNone

-----------------------------------------------------------------------------
(***************************************************************************)
(* The notices: the types, in particular that both maps have the same      *)
(* machines, and that after every check they hold exactly those that read  *)
(* offline.                                                                *)
(***************************************************************************)

\* An age stays an age when time passes.
LEMMA AgeIsAge ==
    ASSUME NEW a \in Ages, NEW e \in 0..1
    PROVE  Later(a, e) \in Ages
  BY AlertAssumption DEF Later, Ages

\* check() on new states keeps the types of everything it writes.
LEMMA CheckTypes ==
    ASSUME AlertTypeOK, NEW st \in AnyStates, NEW e \in 0..1, NEW reqOk \in BOOLEAN,
           Check(st, e, reqOk)
    PROVE  /\ offlineSince' \in SUBSET Machines
           /\ lastOfflineAlert' \in [offlineSince' -> Ages]
           /\ lastReqOk' \in BOOLEAN
           /\ lastReqFailAlert' \in Ages
           /\ told' \in [Machines \cup {Link} -> BOOLEAN]
  <1>1. offlineSince' \in SUBSET Machines
    BY DEF Check, AlertTypeOK
  <1>2. DOMAIN lastOfflineAlert = offlineSince
    BY DEF AlertTypeOK
  <1>3. AlertsAfter(st) = offlineSince'
    BY <1>2 DEF AlertsAfter, Check
  <1>4. ASSUME NEW m \in AlertsAfter(st) PROVE AgeAfter(m, st, e) \in Ages
    <2>1. CASE GoesOffline(m, st) \/ StillOffline(m, st, e)
      BY <2>1, AlertAssumption DEF AgeAfter, Ages
    <2>2. CASE ~(GoesOffline(m, st) \/ StillOffline(m, st, e))
      <3>1. m \in offlineSince
        BY <1>2, <1>4, <2>2 DEF AlertsAfter
      <3>2. lastOfflineAlert[m] \in Ages
        BY <3>1 DEF AlertTypeOK
      <3>3. QED
        BY <2>2, <3>2, AgeIsAge DEF AgeAfter
    <2>3. QED
      BY <2>1, <2>2
  <1>5. lastOfflineAlert' \in [offlineSince' -> Ages]
    BY <1>3, <1>4 DEF Check
  <1>6. lastReqFailAlert' \in Ages
    <2>1. Later(lastReqFailAlert, e) \in Ages
      BY AgeIsAge DEF AlertTypeOK
    <2>2. 0 \in Ages
      BY AlertAssumption DEF Ages
    <2>3. QED
      BY <2>1, <2>2 DEF Check
  <1>7. told' \in [Machines \cup {Link} -> BOOLEAN]
    <2> DEFINE fine == {m \in Machines : ComesBack(m, st)}
                          \cup (IF LinkRecovers(reqOk) THEN {Link} ELSE {})
               Told(sent) == [x \in Machines \cup {Link} |->
                                 IF x \in sent THEN x \in fine ELSE told[x]]
    <2>1. PICK sent : told' = Told(sent)
      BY DEF Check
    <2>2. ASSUME NEW x \in Machines \cup {Link}
          PROVE  (IF x \in sent THEN x \in fine ELSE told[x]) \in BOOLEAN
      <3>1. told[x] \in BOOLEAN
        BY DEF AlertTypeOK
      <3>2. (x \in fine) \in BOOLEAN
        OBVIOUS
      <3>3. QED
        BY <3>1, <3>2
    <2>3. QED
      BY <2>1, <2>2
  <1>8. QED
    BY <1>1, <1>5, <1>6, <1>7 DEF Check

LEMMA AlertInitTypes == AlertInit => AlertTypeOK
  <1> SUFFICES ASSUME AlertInit PROVE AlertTypeOK
    OBVIOUS
  <1>1. /\ running \in BOOLEAN /\ lastReqOk \in BOOLEAN
        /\ told \in [Machines \cup {Link} -> BOOLEAN]
    BY Zenon DEF AlertInit
  <1>2. states \in AnyStates /\ offlineSince \in SUBSET Machines
    BY DEF AlertInit, AnyStates
  <1>3. lastReqFailAlert \in Ages /\ lastOfflineAlert \in [offlineSince -> Ages]
    BY AlertAssumption DEF AlertInit, Ages
  <1>4. QED
    BY <1>1, <1>2, <1>3 DEF AlertTypeOK

LEMMA AlertNextTypes == AlertTypeOK /\ [AlertNext]_alertVars => AlertTypeOK'
  <1> SUFFICES ASSUME AlertTypeOK, [AlertNext]_alertVars PROVE AlertTypeOK'
    OBVIOUS
  <1>1. ASSUME NEW e \in 0..1, Round(e) PROVE AlertTypeOK'
    <2>1. PICK reqOk \in BOOLEAN, st \in AnyStates :
             Check(st, e, reqOk) /\ states' = st
      BY <1>1 DEF Round, Checked
    <2>2. QED
      BY <1>1, <2>1, CheckTypes DEF Round, AlertTypeOK
  <1>2. CASE StopStream
    BY <1>2 DEF StopStream, AlertTypeOK, AnyStates
  <1>3. CASE StartStream
    BY <1>3, AlertAssumption DEF StartStream, AlertTypeOK, AnyStates, Ages
  <1>4. CASE UNCHANGED alertVars
    BY <1>4 DEF alertVars, AlertTypeOK, AnyStates
  <1>5. QED
    BY <1>1, <1>2, <1>3, <1>4 DEF AlertNext

-----------------------------------------------------------------------------
(* The theorems. *)

\* Every variable keeps its type; the two maps of the tracker have the same machines.
THEOREM AlertTyping == AlertSpec => []AlertTypeOK
  BY AlertInitTypes, AlertNextTypes, PTL DEF AlertSpec

\* After every check the maps hold exactly the machines that read offline.
THEOREM MapsFollowStates == AlertSpec => TrackerFollowsStates
  <1>1. ASSUME NEW e \in 0..1, Round(e),
               NEW m \in Machines, states'[m] # "absent"
        PROVE  m \in offlineSince' <=> states'[m] = "off"
    <2>1. PICK reqOk \in BOOLEAN, st \in AnyStates :
             Check(st, e, reqOk) /\ states' = st
      BY <1>1 DEF Round, Checked
    <2>2. st[m] \in {"on", "off"}
      BY <1>1, <2>1 DEF AnyStates
    <2>3. offlineSince' = (offlineSince \cup {k \in Machines : GoesOffline(k, st)})
                              \ {k \in Machines : ComesBack(k, st)}
      BY <2>1 DEF Check
    <2>4. QED
      BY <2>1, <2>2, <2>3 DEF GoesOffline, ComesBack
  <1>2. [AlertNext]_alertVars =>
          [\A e \in 0..1 : Round(e) =>
              \A m \in Machines : states'[m] # "absent" =>
                  (m \in offlineSince' <=> states'[m] = "off")]_alertVars
    BY <1>1
  <1>3. QED
    BY <1>2, PTL DEF AlertSpec, TrackerFollowsStates

-----------------------------------------------------------------------------
(***************************************************************************)
(* The pages.  Of the detail page the invariant says that there is one     *)
(* fetch at most, and of whom, unless a Refresh has overlapped another,    *)
(* and what a frame has learned from its looks; of the overview, that each *)
(* thread has a row of its own and is counted.                             *)
(***************************************************************************)

-----------------------------------------------------------------------------
(* The inductive invariant. *)

ThreadStates == [of : Ids, at : {"fetch", "loaded", "loading"}] \cup {Idle}

\* Unless a Refresh has overlapped a fetch, there is at most one fetch, loading_ says
\* so, and what it has stored is the current machine's.
DetailInv ==
    /\ machines \subseteq Ids /\ IsFiniteSet(machines)
    /\ threads \in [Threads -> ThreadStates]
    /\ loading \in BOOLEAN /\ loaded \in BOOLEAN /\ hurried \in BOOLEAN
    /\ ~hurried =>
          /\ loading <=> Running # {}
          /\ \A t, u \in Running : t = u
          /\ \A t \in Running : /\ threads[t].of = current
                                /\ threads[t].at # "fetch" => data = current
          /\ loaded => data = current

\* What a frame has learned: the machine it began with is current, a fetch is still to
\* be seen, or one has ended since it was seen.
FrameInv ==
    /\ ended \in BOOLEAN
    /\ frame = "fetching" => drawn = current
    /\ frame = "loading" => drawn = current \/ loading \/ ended
    /\ frame \in {"loaded", "render"} => drawn = current \/ ended
    /\ frame = "render" => loaded

Items   == [machine : Ids, of : Ids \cup {Empty}, loading : BOOLEAN]
Workers == [index : Nat \ {0}, machine : Ids, round : Overlaps, at : {"fetch", "count"}]

\* The overview is busy while it has threads, whose number is remaining_; each has a
\* row of its own, and the rows nobody has filled still have theirs.
OverviewInv ==
    /\ items \in Seq(Items)
    /\ workers \subseteq Workers /\ IsFiniteSet(workers)
    /\ busy \in BOOLEAN /\ remaining \in Int
    /\ busy <=> workers # {}
    /\ busy => remaining = Cardinality(workers)
    /\ \A w \in workers : w.index <= Len(items) /\ items[w.index].machine = w.machine
    /\ \A v, w \in workers : v.index = w.index => v = w
    /\ \A i \in 1..Len(items) :
          /\ items[i].of \in {Empty, items[i].machine}
          /\ items[i].loading => \E w \in workers : w.index = i /\ w.at = "fetch"

PagesInv == DetailInv /\ FrameInv /\ OverviewInv

-----------------------------------------------------------------------------
(* The detail page. *)

\* A thread's place moves on, what it reads stays.
LEMMA MovesOn ==
    ASSUME NEW x \in [of : Ids, at : {"fetch", "loaded", "loading"}], NEW place
    PROVE  [x EXCEPT !.at = place] = [of |-> x.of, at |-> place]
  OBVIOUS

\* A running thread has a machine and a place; an idle one has none.
LEMMA RunningStates ==
    ASSUME DetailInv, NEW t \in Threads
    PROVE  t \in Running <=> threads[t] \in [of : Ids, at : {"fetch", "loaded", "loading"}]
  BY DEF DetailInv, ThreadStates, Running, Idle

\* data.reset(), with another machine when none is being read.
LEMMA ResetKeeps ==
    ASSUME DetailInv, UNCHANGED <<machines, threads>>, NEW hurry \in BOOLEAN,
           Running # {} => hurry \/ (~hurried /\ ~loading), Reset(hurry)
    PROVE  DetailInv'
  <1>1. Running' = Running /\ ~loaded' /\ loading' = FALSE /\ loaded' = FALSE
    BY DEF Reset, Running
  <1>2. hurried' \in BOOLEAN
    BY Zenon DEF Reset
  <1>3. ~hurried' => Running = {}
    BY DEF Reset, DetailInv
  <1>4. QED
    BY <1>1, <1>2, <1>3 DEF DetailInv

\* start: a thread for the machine that has become current.
LEMMA StartKeeps ==
    ASSUME DetailInv, UNCHANGED machines, NEW id, Start(id)
    PROVE  DetailInv'
  <1> DEFINE t == CHOOSE u \in Threads \ Running : TRUE
             new == [of |-> id, at |-> "fetch"]
  <1>1. t \in Threads \ Running /\ threads' = [threads EXCEPT ![t] = new]
    BY DEF Start
  <1>2. id \in Ids
    BY DEF Start, Found, DetailInv
  <1>3. new \in ThreadStates /\ new # Idle /\ new.of = id /\ new.at = "fetch"
    BY <1>2 DEF ThreadStates, Idle
  <1> HIDE DEF t, new
  <1>4. threads' \in [Threads -> ThreadStates] /\ Running' = Running \cup {t}
    BY <1>1, <1>3 DEF DetailInv, Running
  <1>5. ~hurried => Running = {}
    BY DEF Start, DetailInv
  <1>6. ~hurried => Running' = {t} /\ threads'[t] = new
    BY <1>1, <1>4, <1>5 DEF DetailInv
  <1>7. QED
    BY <1>3, <1>4, <1>6 DEF Start, DetailInv

\* A step of AsyncData's thread: it stores what it read, then sets loaded_, then clears
\* loading_.
LEMMA ThreadKeeps ==
    ASSUME DetailInv, NEW t \in Threads, Thread(t)
    PROVE  DetailInv'
  <1>1. t \in Running /\ threads[t] \in [of : Ids, at : {"fetch", "loaded", "loading"}]
        /\ UNCHANGED <<machines, current, hurried>>
    BY RunningStates DEF Thread, Stores, SetsLoaded, ClearsLoading, appVars, DetailInv, Running, ThreadStates, Idle
  <1>2. CASE Stores(t)
    <2> DEFINE new == [of |-> threads[t].of, at |-> "loaded"]
    <2>1. threads' = [threads EXCEPT ![t] = new]
      BY <1>1, <1>2, MovesOn DEF Stores
    <2>2. new \in ThreadStates /\ new # Idle /\ new.of = threads[t].of
      BY <1>1 DEF ThreadStates, Idle
    <2> HIDE DEF new
    <2>3. threads' \in [Threads -> ThreadStates] /\ Running' = Running /\ threads'[t] = new
      BY <1>1, <2>1, <2>2 DEF DetailInv, Running
    <2>4. QED
      BY <1>1, <1>2, <2>1, <2>2, <2>3 DEF Stores, DetailInv
  <1>3. CASE SetsLoaded(t)
    <2> DEFINE new == [of |-> threads[t].of, at |-> "loading"]
    <2>1. threads' = [threads EXCEPT ![t] = new]
      BY <1>1, <1>3, MovesOn DEF SetsLoaded
    <2>2. new \in ThreadStates /\ new # Idle /\ new.of = threads[t].of
      BY <1>1 DEF ThreadStates, Idle
    <2> HIDE DEF new
    <2>3. threads' \in [Threads -> ThreadStates] /\ Running' = Running /\ threads'[t] = new
      BY <1>1, <2>1, <2>2 DEF DetailInv, Running
    <2>4. ~hurried => data = current
      BY <1>1, <1>3 DEF SetsLoaded, DetailInv
    <2>5. QED
      BY <1>1, <1>3, <2>1, <2>2, <2>3, <2>4 DEF SetsLoaded, DetailInv
  <1>4. CASE ClearsLoading(t)
    <2>1. threads' \in [Threads -> ThreadStates] /\ Running' = Running \ {t}
      BY <1>1, <1>4 DEF ClearsLoading, DetailInv, Running, ThreadStates
    <2>2. ~hurried => Running' = {}
      BY <1>1, <2>1 DEF DetailInv
    <2>3. QED
      <3>1. UNCHANGED <<machines, current, data, loaded, hurried>> /\ loading' = FALSE
        BY <1>1, <1>4 DEF ClearsLoading
      <3>2. QED
        BY <2>1, <2>2, <3>1 DEF DetailInv
  <1>5. QED
    BY <1>2, <1>3, <1>4 DEF Thread

\* A frame of the detail page.
LEMMA FrameKeeps ==
    ASSUME DetailInv, Frame
    PROVE  DetailInv'
  <1>1. CASE Draw \/ LooksLoading \/ LooksLoaded \/ Rendered
    BY <1>1 DEF Draw, LooksLoading, LooksLoaded, Rendered, asyncVars, appVars, DetailInv, Running
  <1>2. CASE LooksCurrent
    <2>1. CASE NeedsFetch(drawn)
      <3>1. UNCHANGED <<machines, threads>> /\ Reset(hurried) /\ ~loading /\ hurried \in BOOLEAN
        BY <1>2, <2>1 DEF LooksCurrent, NeedsFetch, appVars, DetailInv
      <3>2. QED
        BY <3>1, ResetKeeps
    <2>2. CASE ~NeedsFetch(drawn)
      BY <1>2, <2>2 DEF LooksCurrent, asyncVars, appVars, DetailInv, Running
    <2>3. QED
      BY <2>1, <2>2
  <1>3. CASE Fetch
    <2>1. UNCHANGED machines
      BY <1>3 DEF Fetch, appVars
    <2>2. CASE Start(drawn)
      BY <2>1, <2>2, StartKeeps
    <2>3. CASE StartNot
      BY <2>1, <2>3 DEF StartNot, DetailInv, Running
    <2>4. QED
      BY <1>3, <2>2, <2>3 DEF Fetch
  <1>4. QED
    BY <1>1, <1>2, <1>3 DEF Frame

\* Every step of the GUI keeps the detail page's part.
LEMMA DetailStep ==
    ASSUME DetailInv, [PagesNext]_pagesVars
    PROVE  DetailInv'
  <1>1. CASE Frame
    BY <1>1, FrameKeeps
  <1>2. CASE Refresh
    BY <1>2, ResetKeeps DEF Refresh, appVars
  <1>3. ASSUME NEW t \in Threads, Thread(t) PROVE DetailInv'
    BY <1>3, ThreadKeeps
  <1>4. ASSUME UNCHANGED asyncVars, machines' \subseteq Ids /\ IsFiniteSet(machines') PROVE DetailInv'
    BY <1>4 DEF asyncVars, DetailInv, Running
  <1>5. CASE Add
    <2>1. machines' = machines \cup {added + 1} /\ added + 1 \in Ids /\ UNCHANGED asyncVars
      BY <1>5 DEF Add, detailVars
    <2>2. IsFiniteSet(machines')
      BY <2>1, FS_AddElement DEF DetailInv
    <2>3. QED
      BY <1>4, <2>1, <2>2 DEF DetailInv
  <1>6. ASSUME NEW id \in Ids, Select(id) \/ Delete(id) PROVE DetailInv'
    <2>1. machines' \subseteq machines /\ UNCHANGED asyncVars
      BY <1>6 DEF Select, Delete, detailVars
    <2>2. IsFiniteSet(machines')
      BY <2>1, FS_Subset DEF DetailInv
    <2>3. QED
      BY <1>4, <2>1, <2>2 DEF DetailInv
  <1>7. ASSUME Navigate \/ RefreshOverview \/ UNCHANGED pagesVars \/ \E w \in workers : Push(w) \/ Count(w)
        PROVE  DetailInv'
    <2>1. UNCHANGED <<machines, asyncVars>>
      BY <1>7 DEF Navigate, RefreshOverview, Push, Count, pagesVars, appVars, detailVars
    <2>2. QED
      BY <1>4, <2>1 DEF DetailInv
  <1>8. CASE Clicks
    BY <1>2, <1>5, <1>6, <1>7, <1>8 DEF Clicks
  <1>9. QED
    BY <1>1, <1>3, <1>7, <1>8 DEF PagesNext

\* What a frame has learned stays true while threads go on.
LEMMA FrameStep ==
    ASSUME FrameInv, [PagesNext]_pagesVars
    PROVE  FrameInv'
  <1>1. CASE Draw \/ LooksLoading \/ LooksLoaded \/ Rendered
    BY <1>1 DEF Draw, LooksLoading, LooksLoaded, Rendered, Ends, asyncVars, FrameInv
  <1>2. CASE LooksCurrent
    BY <1>2 DEF LooksCurrent, NeedsFetch, asyncVars, FrameInv
  <1>3. CASE Fetch
    BY <1>3 DEF Fetch, Start, StartNot, Ends, FrameInv
  <1>4. CASE Refresh
    BY <1>4 DEF Refresh, FrameInv
  <1>5. ASSUME NEW t \in Threads, Thread(t) PROVE FrameInv'
    <2>1. CASE Stores(t) \/ SetsLoaded(t)
      BY <2>1 DEF Stores, SetsLoaded, FrameInv
    <2>2. CASE ClearsLoading(t)
      <3>1. ended' = (ended \/ frame = "loading") /\ UNCHANGED <<frame, drawn, current, loaded>>
        BY <2>2 DEF ClearsLoading
      <3>2. ended' \in BOOLEAN
        BY <3>1, Zenon
      <3>3. ended => ended'
        BY <3>1
      <3>4. frame = "loading" => ended'
        BY <3>1
      <3>5. QED
        BY <3>1, <3>2, <3>3, <3>4 DEF FrameInv
    <2>3. QED
      BY <1>5, <2>1, <2>2 DEF Thread
  <1>6. ASSUME NEW id \in Ids, Select(id) PROVE FrameInv'
    BY <1>6 DEF Select, asyncVars, Between, FrameInv
  <1>7. ASSUME UNCHANGED detailVars PROVE FrameInv'
    BY <1>7 DEF detailVars, asyncVars, FrameInv
  <1>8. ASSUME Navigate \/ RefreshOverview \/ Add \/ (\E id \in Ids : Delete(id)) \/ UNCHANGED pagesVars
                 \/ \E w \in workers : Push(w) \/ Count(w)
        PROVE  UNCHANGED detailVars
    BY <1>8 DEF Navigate, RefreshOverview, Add, Delete, Push, Count, pagesVars
  <1>9. CASE Frame
    BY <1>1, <1>2, <1>3, <1>9 DEF Frame
  <1>10. CASE Clicks
    BY <1>4, <1>6, <1>7, <1>8, <1>10 DEF Clicks
  <1>11. QED
    BY <1>5, <1>7, <1>8, <1>9, <1>10 DEF PagesNext

-----------------------------------------------------------------------------
(* The overview. *)

\* SetToSeq lists a finite set, each member once.
LEMMA ListOfSet ==
    ASSUME NEW S, IsFiniteSet(S)
    PROVE  /\ SetToSeq(S) \in Seq(S) /\ Len(SetToSeq(S)) = Cardinality(S)
           /\ Cardinality(S) \in Nat /\ SetToSeq(S) \in [1..Cardinality(S) -> S]
  <1> DEFINE n == Cardinality(S)
  <1>1. n \in Nat /\ ExistsBijection(1..n, S)
    BY FS_CardinalityType
  <1>2. \E f \in [1..n -> S] : IsInjective(f)
    BY <1>1 DEF ExistsBijection, Bijection, Injection, IsInjective
  <1>3. SetToSeq(S) \in [1..n -> S]
    BY <1>2 DEF SetToSeq
  <1>4. QED
    BY <1>1, <1>3

\* A refresh while no other runs: a row and a thread for each machine.
LEMMA RefreshKeeps ==
    ASSUME DetailInv, OverviewInv, RefreshOverview
    PROVE  OverviewInv'
  <1> DEFINE list == SetToSeq(machines)
             n == Cardinality(machines)
  <1>1. /\ n \in Nat /\ list \in [1..n -> machines] /\ Len(list) = n /\ list \in Seq(machines)
        /\ machines \subseteq Ids
    BY ListOfSet DEF DetailInv
  <1>2. list # <<>> <=> n # 0
    BY <1>1
  <1>3. workers = {} /\ ~busy
    BY DEF RefreshOverview, MayRefresh, OverviewInv
  <1> DEFINE new(i, round) == [index |-> i, machine |-> list[i], round |-> round, at |-> "fetch"]
  <1>4. PICK round \in Overlaps :
           /\ items' = [i \in 1..n |-> Item(list[i])]
           /\ remaining' = n /\ busy' = (list # <<>>)
           /\ workers' = {new(i, round) : i \in 1..n}
    BY <1>1, <1>3 DEF RefreshOverview
  <1> HIDE DEF list, n
  <1>5. items' \in [1..n -> Items]
    <2>1. \A i \in 1..n : Item(list[i]) \in Items
      <3>1. TAKE i \in 1..n
      <3>2. list[i] \in Ids
        BY <1>1
      <3>3. QED
        BY <3>2 DEF Item, Items, Empty
    <2>2. QED
      BY <1>4, <2>1
  <1>6. items' \in Seq(Items) /\ Len(items') = n
    BY <1>1, <1>5
  <1>7. workers' \subseteq Workers
    BY <1>1, <1>4 DEF Workers
  <1>8. IsFiniteSet(workers') /\ Cardinality(workers') = n
    <2> DEFINE f == [i \in 1..n |-> new(i, round)]
    <2>1. f \in Bijection(1..n, workers')
      BY <1>4 DEF Bijection, Injection, Surjection, IsInjective
    <2>2. IsFiniteSet(1..n) /\ Cardinality(1..n) = n
      BY <1>1, FS_Interval
    <2>3. QED
      BY <2>1, <2>2, FS_Bijection DEF ExistsBijection
  <1>9. workers' = {} <=> n = 0
    BY <1>1, <1>8, FS_EmptySet
  <1>10. \A w \in workers' : w.index \in 1..n /\ w.machine = list[w.index] /\ w = new(w.index, round)
    BY <1>4
  <1>11. \A i \in 1..n : /\ items'[i].machine = list[i] /\ items'[i].of = Empty
                         /\ new(i, round) \in workers' /\ new(i, round).index = i /\ new(i, round).at = "fetch"
    BY <1>4 DEF Item, Empty
  <1>12. busy' \in BOOLEAN
    BY <1>4, Zenon
  <1>13. /\ busy' <=> workers' # {}
         /\ remaining' = Cardinality(workers') /\ remaining' \in Int
    <2>1. busy' <=> list # <<>>
      BY <1>4
    <2>2. QED
      BY <1>1, <1>2, <1>4, <1>8, <1>9, <2>1
  <1> HIDE DEF new
  <1>14. QED
    BY <1>1, <1>6, <1>7, <1>8, <1>10, <1>11, <1>12, <1>13 DEF OverviewInv

\* push: a thread fills its own row.
LEMMA PushKeeps ==
    ASSUME OverviewInv, NEW w \in workers, Push(w)
    PROVE  OverviewInv'
  <1> DEFINE item == [machine |-> w.machine, of |-> w.machine, loading |-> FALSE]
             done == [w EXCEPT !.at = "count"]
  <1>1. /\ w \in Workers /\ w.index \in 1..Len(items) /\ w.at = "fetch"
        /\ items' = [items EXCEPT ![w.index] = item]
        /\ workers' = (workers \ {w}) \cup {done} /\ UNCHANGED <<remaining, busy>>
    BY DEF Push, OverviewInv, Workers
  <1>2. /\ done \in Workers /\ done.index = w.index /\ done.machine = w.machine /\ done.at = "count"
        /\ item \in Items /\ item.machine = w.machine /\ item.of = w.machine /\ ~item.loading
    BY <1>1 DEF Workers, Items
  <1> HIDE DEF item, done
  <1>3. /\ items' \in Seq(Items) /\ Len(items') = Len(items)
        /\ \A i \in 1..Len(items) : items'[i] = IF i = w.index THEN item ELSE items[i]
    BY <1>1, <1>2, ExceptSeq DEF OverviewInv
  <1>4. done \notin workers
    BY <1>1, <1>2 DEF OverviewInv
  <1>5. IsFiniteSet(workers') /\ Cardinality(workers') = Cardinality(workers)
    <2>1. IsFiniteSet(workers \ {w}) /\ Cardinality(workers \ {w}) = Cardinality(workers) - 1
      BY FS_RemoveElement DEF OverviewInv
    <2>2. Cardinality(workers) \in Nat
      BY FS_CardinalityType DEF OverviewInv
    <2> DEFINE rest == workers \ {w}
    <2>3. done \notin rest /\ workers' = rest \cup {done}
      BY <1>1, <1>4
    <2> HIDE DEF rest
    <2>4. IsFiniteSet(rest \cup {done}) /\ Cardinality(rest \cup {done}) = Cardinality(rest) + 1
      BY <2>1, <2>3, FS_AddElement DEF rest
    <2>5. QED
      BY <2>1, <2>2, <2>3, <2>4 DEF rest
  <1>6. \A v \in workers' : v = done \/ (v \in workers /\ v.index # w.index)
    BY <1>1 DEF OverviewInv
  <1>7. \A i \in 1..Len(items') :
          /\ items'[i].of \in {Empty, items'[i].machine}
          /\ items'[i].loading => \E v \in workers' : v.index = i /\ v.at = "fetch"
    <2> SUFFICES ASSUME NEW i \in 1..Len(items)
                 PROVE  /\ items'[i].of \in {Empty, items'[i].machine}
                        /\ items'[i].loading => \E v \in workers' : v.index = i /\ v.at = "fetch"
      BY <1>3
    <2>1. CASE i = w.index
      BY <1>2, <1>3, <2>1
    <2>2. CASE i # w.index
      BY <1>1, <1>3, <2>2 DEF OverviewInv
    <2>3. QED
      BY <2>1, <2>2
  <1>8. \A v \in workers' : v.index <= Len(items') /\ items'[v.index].machine = v.machine
    <2> SUFFICES ASSUME NEW v \in workers'
                 PROVE  v.index <= Len(items') /\ items'[v.index].machine = v.machine
      OBVIOUS
    <2>1. CASE v = done
      BY <1>1, <1>2, <1>3, <2>1
    <2>2. CASE v \in workers /\ v.index # w.index
      <3>1. v.index \in 1..Len(items) /\ items[v.index].machine = v.machine
        BY <2>2 DEF OverviewInv, Workers
      <3>2. QED
        BY <1>3, <2>2, <3>1
    <2>3. QED
      BY <1>6, <2>1, <2>2
  <1>9. \A u, v \in workers' : u.index = v.index => u = v
    BY <1>1, <1>2, <1>6 DEF OverviewInv
  <1>10. workers' # {} /\ workers' \subseteq Workers
    BY <1>1, <1>2 DEF OverviewInv
  <1>11. QED
    BY <1>1, <1>3, <1>5, <1>7, <1>8, <1>9, <1>10 DEF OverviewInv

\* push: the thread counts itself off.
LEMMA CountKeeps ==
    ASSUME OverviewInv, NEW w \in workers, Count(w)
    PROVE  OverviewInv'
  <1>1. /\ w.at = "count" /\ remaining' = remaining - 1 /\ busy' = (busy /\ remaining > 1)
        /\ workers' = workers \ {w} /\ UNCHANGED items
    BY DEF Count
  <1>2. busy /\ remaining = Cardinality(workers) /\ Cardinality(workers) \in Nat
    BY FS_CardinalityType DEF OverviewInv
  <1>3. IsFiniteSet(workers') /\ Cardinality(workers') = remaining - 1
    BY <1>1, <1>2, FS_RemoveElement DEF OverviewInv
  <1>4. workers' = {} <=> remaining = 1
    BY <1>2, <1>3, FS_EmptySet
  <1>5. remaining >= 1
    BY <1>2, FS_EmptySet DEF OverviewInv
  <1>6. busy' \in BOOLEAN
    BY <1>1, Zenon
  <1>7. /\ busy' <=> workers' # {}
        /\ remaining' \in Int /\ remaining' = Cardinality(workers')
    <2>1. busy' <=> remaining > 1
      BY <1>1, <1>2
    <2>2. QED
      BY <1>1, <1>2, <1>3, <1>4, <1>5, <2>1
  <1>8. \A i \in 1..Len(items) : items[i].loading => \E v \in workers' : v.index = i /\ v.at = "fetch"
    BY <1>1 DEF OverviewInv
  <1>9. QED
    BY <1>1, <1>3, <1>6, <1>7, <1>8 DEF OverviewInv

\* Every step of the GUI keeps the overview's part; of the detail page's part it needs that
\* the list of machines is finite.
LEMMA OverviewStep ==
    ASSUME DetailInv, OverviewInv, [PagesNext]_pagesVars
    PROVE  OverviewInv'
  <1>1. CASE RefreshOverview
    BY <1>1, RefreshKeeps
  <1>2. ASSUME NEW w \in workers, Push(w) \/ Count(w) PROVE OverviewInv'
    BY <1>2, PushKeeps, CountKeeps
  <1>3. CASE UNCHANGED overviewVars
    BY <1>3 DEF overviewVars, OverviewInv
  <1>4. ASSUME NEW t \in Threads, Thread(t) PROVE OverviewInv'
    BY <1>3, <1>4 DEF Thread, Stores, SetsLoaded, ClearsLoading
  <1>5. CASE Clicks
    BY <1>1, <1>3, <1>5 DEF Clicks, Navigate, Refresh, Add, Select, Delete
  <1>6. CASE Frame \/ UNCHANGED pagesVars
    BY <1>3, <1>6 DEF Frame, Draw, LooksCurrent, Fetch, LooksLoading, LooksLoaded, Rendered, pagesVars
  <1>7. QED
    BY <1>2, <1>4, <1>5, <1>6 DEF PagesNext

-----------------------------------------------------------------------------
(* The theorems. *)

\* The GUI starts with no thread and an empty overview.
LEMMA InitPages == PagesInit => PagesInv
  <1> SUFFICES ASSUME PagesInit PROVE PagesInv
    OBVIOUS
  <1>1. Running = {}
    BY DEF PagesInit, Running
  <1>2. DetailInv
    BY <1>1, FS_EmptySet DEF PagesInit, DetailInv, ThreadStates
  <1>3. items \in Seq(Items) /\ Len(items) = 0
    BY DEF PagesInit
  <1>4. OverviewInv
    <2>1. /\ workers = {} /\ IsFiniteSet(workers) /\ busy = FALSE /\ remaining = 0
          /\ 1..Len(items) = {}
      BY <1>3, FS_EmptySet DEF PagesInit
    <2>2. QED
      <3>1. busy \in BOOLEAN /\ ~busy
        BY <2>1, Zenon
      <3>2. QED
        BY <1>3, <2>1, <3>1 DEF OverviewInv
  <1>5. FrameInv
    <2>1. ended \in BOOLEAN /\ frame = "between"
      BY Zenon DEF PagesInit
    <2>2. QED
      BY <2>1 DEF FrameInv
  <1>6. QED
    BY <1>2, <1>4, <1>5 DEF PagesInv

\* The inductive invariant of the pages.
THEOREM PagesInvariant == PagesSpec => []PagesInv
  <1>1. PagesInv /\ [PagesNext]_pagesVars => PagesInv'
    BY DetailStep, FrameStep, OverviewStep DEF PagesInv
  <1>2. QED
    BY InitPages, <1>1, PTL DEF PagesSpec

\* What a frame of the detail page renders is of the machine it names, unless a Refresh
\* overlapped a fetch or a fetch ended between the frame's looks at is_loading, for any
\* number of machines and of threads (MachineDetailPage::draw, AsyncData).
THEOREM DetailShowsItsMachine == PagesSpec => []ShownIsOfMachine
  <1>1. PagesInv => ShownIsOfMachine
    BY DEF PagesInv, DetailInv, FrameInv, ShownIsOfMachine
  <1>2. QED
    BY <1>1, PagesInvariant, PTL

\* Each row of the overview is of its own machine and filled by one worker only, for any
\* list of machines and any order of the workers (OverviewVm::refresh, StreamingData::push).
THEOREM RowsOfTheOverview == PagesSpec => []RowsAreOwn
  <1>1. PagesInv => RowsAreOwn
    BY DEF PagesInv, OverviewInv, RowsAreOwn, Empty
  <1>2. QED
    BY <1>1, PagesInvariant, PTL

=============================================================================
