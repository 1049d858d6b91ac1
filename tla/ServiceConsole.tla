--------------------------- MODULE ServiceConsole ---------------------------
(***************************************************************************)
(* The service console src/mtconnect_collect/tools/mtc_ctl.cpp: start,     *)
(* stop, poll and web as several consoles give them, and the Windows       *)
(* service that wraps start and stop (SvcMain, SvcCtrlHandler).  They meet *)
(* in the processes they start and stop: there is no lock and no record of *)
(* what runs, only the list of processes that stop_services takes.         *)
(*                                                                         *)
(* Simplifications: all commands are given for one root and one agent_dir; *)
(* a process number is not used again while a list holds it; who may not   *)
(* look at a process may not end it either; status, report and install     *)
(* read or register and start nothing.                                     *)
(***************************************************************************)
EXTENDS Integers, Sequences, FiniteSetsExt, Functions

CONSTANTS
    Consoles,  \* consoles of operators
    Pipeline,  \* what start spawns, in its order: collectors, agent, mtc_stats, webserver
    Optional,  \* what --no-poll and --no-web leave out, and poll and web start
    Outside,   \* what does not lie under the root: an agent whose agent_dir is elsewhere
    Pids       \* bound: processes at one time

\* adapters.txt has a line per machine; no console is a thread of the service.
ASSUME ServiceConsoleAssumption ==
    /\ Pipeline \in Seq(Range(Pipeline)) /\ IsInjective(Pipeline)
    /\ Optional \subseteq Range(Pipeline) /\ "none" \notin Range(Pipeline)
    /\ Outside \subseteq Range(Pipeline) \ Optional
    /\ Pids \subseteq Nat
    /\ "SvcMain" \notin Consoles /\ "SvcCtrlHandler" \notin Consoles

VARIABLES
    proc,     \* a process: what it runs as and who spawned it, or NoProcess
    pc,       \* where an actor is in its command
    job,      \* the command
    limited,  \* the consoles whose command has no administrator rights
    victims,  \* pids of stop_services
    todo,     \* the positions in Pipeline that start has still to spawn
    svc,      \* g_svcStatus.dwCurrentState
    event,    \* g_stopEvent
    quiet,    \* history: nobody else has spawned since the actor took its list
    spared,   \* history: what the actor's stop_services could not list or end
    excused,  \* history: why a role may run twice
    lost      \* history: the service has died, or its stop has spared a process

actorVars == <<pc, job, limited, victims, todo>>
svcVars   == <<svc, event>>
history   == <<quiet, spared, excused, lost>>
vars == <<proc, actorVars, svcVars, history>>

Roles == Range(Pipeline)

\* The service process has two threads: SvcMain and the control handler.
Main    == "SvcMain"
Handler == "SvcCtrlHandler"
Actors  == Consoles \cup {Main, Handler}

Process   == [role : Roles, owner : Actors]
NoProcess == [role |-> "none", owner |-> Main]

Alive == {p \in Pids : proc[p] # NoProcess}

\* path_under_root: what stop_services and running_services look at.
Inside == {p \in Alive : proc[p].role \notin Outside}

\* OpenProcess: an ordinary console may not open what the service has started.
CanOpen(a, p) == a \in limited => p.owner # Main

-----------------------------------------------------------------------------
(* Processes. *)

\* A process ends by itself: CTRL_BREAK, an error, an operator.
Exit(p) ==
    /\ p \in Alive
    /\ proc' = [proc EXCEPT ![p] = NoProcess]
    /\ UNCHANGED <<actorVars, svcVars, history>>

FreePids == {p \in Pids \ Alive : \A a \in Actors : p \notin victims[a]}

\* Between the list and the end of the command.
Busy(a) == pc[a] \in {"grace", "kill", "config", "spawn"}

\* spawn_proc: it may fail, and only poll and web look at that.
Spawn(a, r) ==
    \/ UNCHANGED <<proc, quiet, excused>>
    \/ /\ FreePids # {}
       /\ proc' = [proc EXCEPT ![Min(FreePids)] = [role |-> r, owner |-> a]]
       /\ quiet' = [b \in Actors |-> Busy(b) => b = a /\ quiet[b]]
       /\ excused' = \/ excused
                     \/ job[a] = "start" /\ ~quiet[a]
                     \/ job[a] = "poll" /\ \E p \in Alive : proc[p].role = r

-----------------------------------------------------------------------------
(* stop_services. *)

\* Where a command goes on after stop_services.
AfterStop(a) == IF job[a] = "start" THEN "config" ELSE "end"

\* The end of stop_services, after which a process under the root may only be left
\* if it could not be opened, was spared or was spawned meanwhile.
StopDone(a) ==
    /\ pc' = [pc EXCEPT ![a] = AfterStop(a)]
    /\ LET rest == {p \in Pids : proc'[p] # NoProcess /\ proc'[p].role \notin Outside}
       IN  excused' = IF rest = {} /\ quiet'[a] THEN FALSE
                      ELSE \/ excused
                           \/ job[a] = "start" /\ \E p \in rest : ~CanOpen(a, proc'[p]) \/ p \in spared'[a]
    /\ lost' = CASE a = Main    -> lost /\ spared'[a] # {}
                 [] a = Handler -> lost \/ spared'[a] # {}
                 [] OTHER       -> lost

\* The snapshot of the processes fails: it returns, having stopped nothing.
NoList(a) ==
    /\ pc[a] = "list"
    /\ spared' = [spared EXCEPT ![a] = Inside]
    /\ quiet' = [quiet EXCEPT ![a] = TRUE]
    /\ UNCHANGED <<proc, job, limited, victims, todo, svcVars>>
    /\ StopDone(a)

\* The list of processes, and CTRL_BREAK to each; with an empty list it returns.
TakeList(a) ==
    /\ pc[a] = "list"
    /\ UNCHANGED <<proc, job, limited, todo, svcVars, spared>>
    /\ LET seen == {p \in Inside : CanOpen(a, proc[p])}
       IN  /\ victims' = [victims EXCEPT ![a] = seen]
           /\ quiet' = [quiet EXCEPT ![a] = TRUE]
           /\ IF seen = {}
              THEN StopDone(a)
              ELSE pc' = [pc EXCEPT ![a] = "grace"] /\ UNCHANGED <<excused, lost>>

\* Mutant: the wait has no limit.
GraceEndsWhenAllAreGone(a) ==
    /\ pc[a] = "grace" /\ victims[a] \cap Alive = {}
    /\ pc' = [pc EXCEPT ![a] = "kill"]
    /\ UNCHANGED <<proc, job, limited, victims, todo, svcVars, history>>

\* The processes are waited for, graceMs in all.
GraceEnds(a) ==
    /\ pc[a] = "grace"
    /\ pc' = [pc EXCEPT ![a] = "kill"]
    /\ UNCHANGED <<proc, job, limited, victims, todo, svcVars, history>>

\* Off the list, and on to the next or to the end.
NextVictim(a, p) ==
    /\ victims' = [victims EXCEPT ![a] = @ \ {p}]
    /\ UNCHANGED <<quiet, job, limited, todo, svcVars>>
    /\ IF victims[a] = {p} THEN StopDone(a)
                           ELSE UNCHANGED <<pc, excused, lost>>

\* Mutant: nothing is forced, a second CTRL_BREAK at most.
KillOneNot(a, p) ==
    /\ pc[a] = "kill" /\ p \in victims[a]
    /\ UNCHANGED <<proc, spared>>
    /\ NextVictim(a, p)

\* One process of the list, which is ended if it is still there.
KillOne(a, p) ==
    /\ pc[a] = "kill" /\ p \in victims[a]
    /\ proc' = [proc EXCEPT ![p] = NoProcess]
    /\ UNCHANGED spared
    /\ NextVictim(a, p)

\* It may not be opened to end it, is not ended, or not yet: nothing looks at that.
SpareOne(a, p) ==
    /\ pc[a] = "kill" /\ p \in victims[a] \cap Alive
    /\ UNCHANGED proc
    /\ spared' = [spared EXCEPT ![a] = @ \cup {p}]
    /\ NextVictim(a, p)

StopServices(a) ==
    NoList(a) \/ TakeList(a) \/ GraceEnds(a) \/ \E p \in Pids : KillOne(a, p) \/ SpareOne(a, p)

-----------------------------------------------------------------------------
(* start. *)

\* Without the list of machines start returns 1 before it stops anything.
NoMachineList(a) ==
    /\ pc[a] = "list" /\ job[a] = "start"
    /\ pc' = [pc EXCEPT ![a] = "failed"]
    /\ UNCHANGED <<proc, job, limited, victims, todo, svcVars, history>>

\* History: the command is past its stop_services.
Forgets(a) == spared' = [spared EXCEPT ![a] = {}]

\* genconfig fails, or there is no adapter: start returns 1.
ConfigFails(a) ==
    /\ pc[a] = "config"
    /\ pc' = [pc EXCEPT ![a] = "failed"]
    /\ UNCHANGED <<proc, job, limited, victims, todo, svcVars, quiet, excused, lost>>
    /\ Forgets(a)

\* genconfig and read_adapters; --no-poll and --no-web.
ConfigOk(a) ==
    /\ pc[a] = "config"
    /\ \E without \in SUBSET Optional :
           todo' = [todo EXCEPT ![a] = {i \in DOMAIN Pipeline : Pipeline[i] \notin without}]
    /\ pc' = [pc EXCEPT ![a] = "spawn"]
    /\ UNCHANGED <<proc, job, limited, victims, svcVars, quiet, excused, lost>>
    /\ Forgets(a)

SpawnNext(a) ==
    /\ pc[a] = "spawn" /\ todo[a] # {}
    /\ Spawn(a, Pipeline[Min(todo[a])])
    /\ todo' = [todo EXCEPT ![a] = @ \ {Min(@)}]
    /\ UNCHANGED <<pc, job, limited, victims, svcVars, spared, lost>>

SpawnDone(a) ==
    /\ pc[a] = "spawn" /\ todo[a] = {}
    /\ pc' = [pc EXCEPT ![a] = "end"]
    /\ UNCHANGED <<proc, job, limited, victims, todo, svcVars, history>>

StartProcs(a) ==
    NoMachineList(a) \/ ConfigFails(a) \/ ConfigOk(a) \/ SpawnNext(a) \/ SpawnDone(a)

-----------------------------------------------------------------------------
(* Commands of a console. *)

\* Mutant: leftover services are not stopped first.
FirstStepSkipping(command) == IF command = "start" THEN "config" ELSE "list"

\* cmd_start, cmd_stop: both stop what runs first.
FirstStep(command) == "list"

Command(c, command) ==
    /\ pc[c] = "idle"
    /\ pc' = [pc EXCEPT ![c] = FirstStep(command)]
    /\ job' = [job EXCEPT ![c] = command]
    /\ limited' \in {limited, limited \cup {c}}
    /\ UNCHANGED <<proc, victims, todo, svcVars, history>>

\* cmd_poll, cmd_web.
Poll(c, r) ==
    /\ pc[c] = "idle"
    /\ job' = [job EXCEPT ![c] = "poll"]
    /\ pc' = [pc EXCEPT ![c] = "spawn"]
    /\ todo' = [todo EXCEPT ![c] = {i \in DOMAIN Pipeline : Pipeline[i] = r}]
    /\ UNCHANGED <<proc, limited, victims, svcVars, history>>

Returns(c) ==
    /\ pc[c] \in {"end", "failed"}
    /\ pc' = [pc EXCEPT ![c] = "idle"]
    /\ job' = [job EXCEPT ![c] = "none"]
    /\ limited' = limited \ {c}
    /\ quiet' = [quiet EXCEPT ![c] = TRUE]
    /\ Forgets(c)
    /\ UNCHANGED <<proc, victims, todo, svcVars, excused, lost>>

\* The operator closes the console in the middle of a command.
Interrupt(c) ==
    /\ pc[c] # "idle"
    /\ pc' = [pc EXCEPT ![c] = "idle"]
    /\ job' = [job EXCEPT ![c] = "none"]
    /\ victims' = [victims EXCEPT ![c] = {}]
    /\ todo' = [todo EXCEPT ![c] = {}]
    /\ limited' = limited \ {c}
    /\ quiet' = [quiet EXCEPT ![c] = TRUE]
    /\ Forgets(c)
    /\ UNCHANGED <<proc, svcVars, excused, lost>>

-----------------------------------------------------------------------------
(* The Windows service. *)

\* SCM starts the service: START_PENDING, then cmd_start.
ServiceStarts ==
    /\ svc = "STOPPED" /\ pc[Main] = "idle"
    /\ svc' = "START_PENDING"
    /\ pc' = [pc EXCEPT ![Main] = "list"]
    /\ UNCHANGED <<proc, job, limited, victims, todo, event, history>>

\* cmd_start has returned an error.
ServiceFails ==
    /\ pc[Main] = "failed"
    /\ svc' = "STOPPED"
    /\ pc' = [pc EXCEPT ![Main] = "idle"]
    /\ UNCHANGED <<proc, job, limited, victims, todo, event, history>>

\* cmd_start has returned 0, whatever of the pipeline has come up.
ServiceRuns ==
    /\ pc[Main] = "end"
    /\ svc' = "RUNNING"
    /\ pc' = [pc EXCEPT ![Main] = "wait"]
    /\ UNCHANGED <<proc, job, limited, victims, todo, event, history>>

\* Mutant: STOP is accepted while the service starts.
AcceptsStopAlways == svc \in {"START_PENDING", "RUNNING"}

\* ReportSvcStatus: dwControlsAccepted, and what SCM does with it.
AcceptsStop == svc = "RUNNING"

\* SCM stops the service: the handler reports STOP_PENDING and stops everything.
ServiceStops ==
    /\ AcceptsStop /\ pc[Handler] = "idle"
    /\ svc' = "STOP_PENDING"
    /\ pc' = [pc EXCEPT ![Handler] = "list"]
    /\ UNCHANGED <<proc, job, limited, victims, todo, event, history>>

\* SetEvent at the end of the handler.
HandlerDone ==
    /\ pc[Handler] = "end"
    /\ event' = TRUE
    /\ pc' = [pc EXCEPT ![Handler] = "idle"]
    /\ UNCHANGED <<proc, job, limited, victims, todo, svc, quiet, excused, lost>>
    /\ Forgets(Handler)

\* SvcMain after its wait; the process ends.
ServiceStopped ==
    /\ pc[Main] = "wait" /\ event
    /\ svc' = "STOPPED" /\ event' = FALSE
    /\ pc' = [pc EXCEPT ![Main] = "idle"]
    /\ UNCHANGED <<proc, job, limited, victims, todo, history>>

\* The service process is killed: SCM notices, the children stay.
ServiceDies ==
    /\ svc # "STOPPED"
    /\ svc' = "STOPPED" /\ event' = FALSE
    /\ pc' = [pc EXCEPT ![Main] = "idle", ![Handler] = "idle"]
    /\ victims' = [victims EXCEPT ![Main] = {}, ![Handler] = {}]
    /\ todo' = [todo EXCEPT ![Main] = {}]
    /\ spared' = [spared EXCEPT ![Main] = {}, ![Handler] = {}]
    /\ lost' = TRUE
    /\ UNCHANGED <<proc, job, limited, quiet, excused>>

-----------------------------------------------------------------------------

Init ==
    /\ proc = [p \in Pids |-> NoProcess]
    /\ pc = [a \in Actors |-> "idle"]
    /\ job = [a \in Actors |-> CASE a = Main -> "start" [] a = Handler -> "stop" [] OTHER -> "none"]
    /\ limited = {}
    /\ victims = [a \in Actors |-> {}]
    /\ todo = [a \in Actors |-> {}]
    /\ svc = "STOPPED" /\ event = FALSE
    /\ quiet = [a \in Actors |-> TRUE]
    /\ spared = [a \in Actors |-> {}]
    /\ excused = FALSE /\ lost = FALSE

Goes(a) ==
    \/ StopServices(a) \/ StartProcs(a)
    \/ a \in Consoles /\ Returns(a)
    \/ a = Main /\ (ServiceFails \/ ServiceRuns \/ ServiceStopped)
    \/ a = Handler /\ HandlerDone

Operators ==
    \/ \E c \in Consoles :
          \/ \E command \in {"start", "stop"} : Command(c, command)
          \/ \E r \in Optional : Poll(c, r)
          \/ Interrupt(c)
    \/ ServiceStarts \/ ServiceStops \/ ServiceDies

Next ==
    \/ \E a \in Actors : Goes(a)
    \/ Operators
    \/ \E p \in Pids : Exit(p)

Spec == Init /\ [][Next]_vars

\* Every command and both threads of the service run on.
FairSpec == Spec /\ \A a \in Actors : WF_vars(Goes(a))

-----------------------------------------------------------------------------
(* Properties. *)

\* Types; lists and queues of processes are empty outside the steps that use them
\* (stop_services, cmd_start).
TypeOK ==
    /\ proc \in [Pids -> Process \cup {NoProcess}]
    /\ pc \in [Actors -> {"idle", "list", "grace", "kill", "config", "spawn", "end", "failed", "wait"}]
    /\ job \in [Actors -> {"none", "start", "stop", "poll"}]
    /\ limited \subseteq Consoles
    /\ victims \in [Actors -> SUBSET Pids]
    /\ \A a \in Actors : victims[a] # {} => pc[a] \in {"grace", "kill"}
    /\ todo \in [Actors -> SUBSET (DOMAIN Pipeline)]
    /\ \A a \in Actors : todo[a] # {} => pc[a] = "spawn"
    /\ svc \in {"STOPPED", "START_PENDING", "RUNNING", "STOP_PENDING"}
    /\ event \in BOOLEAN /\ excused \in BOOLEAN /\ lost \in BOOLEAN
    /\ quiet \in [Actors -> BOOLEAN]
    /\ spared \in [Actors -> SUBSET Pids]
    /\ \A a \in Actors : spared[a] # {} => pc[a] \in {"kill", "config", "end"}
    /\ pc[Handler] # "idle" \/ event => svc = "STOP_PENDING"

\* When stop_services returns and nothing was spawned since it took its list, no
\* service process under the root is left but those it may not open and those it has
\* spared: processes that ignore CTRL_BREAK, that other stops work on, or that were
\* left by a killed service or an interrupted start are all gone.
StopLeavesNone ==
    [][\A a \in Actors :
          /\ pc[a] \in {"list", "kill"} /\ pc'[a] \in {"config", "end"}
          /\ quiet'[a]
          => \A p \in Inside' : p \in spared'[a] \/ ~CanOpen(a, proc'[p])]_vars

\* Nothing under the root runs twice (two collectors would write one database) unless
\* commands overlapped, poll or web were given for what already ran, or a start could
\* not list, open or end what ran; and a stop that overlaps nothing and spares nothing
\* puts that right.  Killed services, interrupted commands, spawns and configurations
\* that fail do not.
OnlyOverlapsDouble ==
    ~excused => \A p, q \in Inside : proc[p].role = proc[q].role => p = q

\* A service that reports STOPPED has left none of its processes under the root, unless
\* it was killed or its stop has spared some: a stop cannot slip in between the
\* processes it is about to start.
StoppedServiceLeavesNone ==
    svc = "STOPPED" /\ ~lost => \A p \in Inside : proc[p].owner # Main

\* Every stop ends (mtc_ctl.cpp:205: it does not hang), whatever its processes do,
\* and the service leaves STOP_PENDING.
StopEnds ==
    /\ \A a \in Actors : pc[a] \in {"list", "grace", "kill"} ~> pc[a] \notin {"list", "grace", "kill"}
    /\ svc = "STOP_PENDING" ~> svc = "STOPPED"

=============================================================================
