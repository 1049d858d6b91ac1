----------------------------- MODULE CncSampler -----------------------------
(***************************************************************************)
(* The resident sampler of the FOCAS product: src/src/cli_sampler/sampler.c *)
(* over src/src/db/db_ops.c.  One thread goes through its machines, one    *)
(* long-lived connection each, stores a row and the latest state of every  *)
(* machine it reaches, and once an hour moves the rows that are older than *)
(* the retention into an archive file; then it sleeps.                     *)
(*                                                                         *)
(* machine_samples is in WAL mode and the archive is an attached file of   *)
(* its own: within one file SQLite commits a transaction as a whole, but   *)
(* the COMMIT of a transaction over both files commits one after the       *)
(* other.                                                                  *)
(*                                                                         *)
(* Simplifications: the contents of a row are left out, a row has an id    *)
(* and an age; the clock advances while the loop sleeps (a round takes     *)
(* less than an hour); ages stop at Retention + 1.                         *)
(***************************************************************************)
EXTENDS Integers, FiniteSets

CONSTANTS
    Last,       \* machines are numbered 1..Last, in the order of jichuang.txt
    Rows,       \* bound: rows that exist at a time
    Retention,  \* retention_days, in hours
    MaxBackoff  \* MAX_BACKOFF_MS, in seconds

ASSUME SamplerAssumption ==
    Last \in Nat \ {0} /\ Retention \in Nat /\ MaxBackoff \in Nat \ {0}

VARIABLES
    reach,      \* the controller of a machine answers
    trouble,    \* disk or controllers are in trouble: single calls may fail
    pc,         \* where the process stands
    at,         \* machines: the machine of the round that is being looked at
    registered, \* machine_id > 0
    handle,     \* the connection: 0, live, or dead on the controller's side
    backoff,    \* backoff_ms, in seconds
    wait,       \* next_attempt - now, 0 when it has passed
    current,    \* the row of machine_latest shows the machine as it is
    age,        \* of the rows, since they were inserted
    main,       \* rows in machine_samples
    archived,   \* how often a row is in the archive
    torn,       \* history: rows that a COMMIT cut in two has lost
    moving,     \* rows the open transaction has copied
    attached,   \* a database is attached as "archive"
    due,        \* an hour has passed since last_prune
    prunedAge   \* now - pruned_before

machineVars == <<reach, registered, handle, backoff, wait, current>>
fileVars    == <<age, main, archived, torn>>
pruneVars   == <<attached, due, prunedAge>>
vars == <<trouble, pc, at, machineVars, fileVars, moving, pruneVars>>

Machines == 1..Last
Pruning  == {"attach", "copy", "delete", "commit", "commitArchive", "mark"}

Least(a, b) == IF a < b THEN a ELSE b

\* Mutant: ts <= cutoff.
OldOrAsOld == {r \in main : age[r] >= Retention}

\* ts < cutoff.
Old == {r \in main : age[r] > Retention}

\* Rows are numbered anew once they are out of machine_samples.
Free == {r \in Rows : r \notin main}

-----------------------------------------------------------------------------
(* The controllers, the disk, the clock. *)

\* A controller that goes away breaks its connection sooner or later.
MachineSwitches(m) ==
    /\ reach' = [reach EXCEPT ![m] = ~@]
    /\ handle' \in {handle, [handle EXCEPT ![m] = IF @ = "live" THEN "dead" ELSE @]}
    /\ UNCHANGED <<trouble, pc, at, registered, backoff, wait, current,
                   fileVars, moving, pruneVars>>

MachineChanges(m) ==
    /\ current' = [current EXCEPT ![m] = FALSE]
    /\ UNCHANGED <<trouble, pc, at, reach, registered, handle, backoff, wait,
                   fileVars, moving, pruneVars>>

TroubleChanges ==
    /\ trouble' = ~trouble
    /\ UNCHANGED <<pc, at, machineVars, fileVars, moving, pruneVars>>

\* Sleep: seconds pass, or an hour.
Wake ==
    /\ pc = "sleep"
    /\ pc' = "round" /\ at' = 1
    /\ \/ /\ \E d \in 1..2 : wait' = [m \in Machines |-> IF wait[m] > d THEN wait[m] - d ELSE 0]
          /\ UNCHANGED <<age, due, prunedAge>>
       \/ /\ wait' = [m \in Machines |-> 0]
          /\ age' = [r \in Rows |-> IF r \in main THEN Least(age[r] + 1, Retention + 1) ELSE 0]
          /\ prunedAge' = Least(prunedAge + 1, Retention + 1)
          /\ due' = TRUE
    /\ UNCHANGED <<trouble, reach, registered, handle, backoff, current,
                   main, archived, torn, moving, attached>>

-----------------------------------------------------------------------------
(* Start and end of the process. *)

\* register_machine for every machine, once: what fails here is never retried.
Start ==
    /\ pc = "down"
    /\ \E some \in SUBSET Machines :
          /\ ~trouble => some = Machines
          /\ registered' = [m \in Machines |-> m \in some]
    /\ pc' = "round" /\ at' = 1
    /\ UNCHANGED <<trouble, reach, handle, backoff, wait, current,
                   fileVars, moving, pruneVars>>

\* What another process or a new one finds: SQLite rolls back what has not been
\* committed, and between the two COMMITs of a transaction only one of them.
Rollback ==
    /\ torn' = IF pc = "commitArchive" THEN torn \cup moving ELSE torn
    /\ moving' = {}

\* The process is killed, or the host goes down.
Crash ==
    /\ pc # "down"
    /\ pc' = "down" /\ at' = 1
    /\ Rollback
    /\ attached' = FALSE
    /\ registered' = [m \in Machines |-> FALSE]
    /\ handle' = [m \in Machines |-> "none"]
    /\ backoff' = [m \in Machines |-> 0]
    /\ wait' = [m \in Machines |-> 0]
    /\ due' = TRUE
    /\ UNCHANGED <<trouble, reach, current, age, main, archived, prunedAge>>

-----------------------------------------------------------------------------
(* A round. *)

\* The loop goes on to the next machine, then to prune_old_samples or to sleep.
NextMachine ==
    IF at < Last THEN at' = at + 1 /\ UNCHANGED pc
    ELSE at' = 1 /\ pc' = (IF due THEN "prune" ELSE "sleep")

Looking(m) == pc = "round" /\ at = m

\* ensure_connected: still in the backoff window.
InBackoff(m) ==
    /\ Looking(m) /\ handle[m] = "none" /\ wait[m] > 0
    /\ NextMachine
    /\ UNCHANGED <<trouble, machineVars, fileVars, moving, pruneVars>>

\* Mutant: a machine that cannot be connected ends the round (break).
ConnectFailsBreaking(m) ==
    /\ Looking(m) /\ handle[m] = "none" /\ wait[m] = 0
    /\ ~reach[m] \/ trouble
    /\ wait' = [wait EXCEPT ![m] = backoff[m]]
    /\ backoff' = [backoff EXCEPT ![m] = IF @ = 0 THEN 1 ELSE @]
    /\ at' = 1 /\ pc' = (IF due THEN "prune" ELSE "sleep")
    /\ UNCHANGED <<trouble, reach, registered, handle, current,
                   fileVars, moving, pruneVars>>

\* ensure_connected: the next attempt waits for the backoff as it was.
ConnectFails(m) ==
    /\ Looking(m) /\ handle[m] = "none" /\ wait[m] = 0
    /\ ~reach[m] \/ trouble
    /\ wait' = [wait EXCEPT ![m] = backoff[m]]
    /\ backoff' = [backoff EXCEPT ![m] = IF @ = 0 THEN 1 ELSE @]
    /\ NextMachine
    /\ UNCHANGED <<trouble, reach, registered, handle, current,
                   fileVars, moving, pruneVars>>

ConnectOk(m) ==
    /\ Looking(m) /\ handle[m] = "none" /\ wait[m] = 0 /\ reach[m]
    /\ handle' = [handle EXCEPT ![m] = "live"]
    /\ backoff' = [backoff EXCEPT ![m] = 1]
    /\ UNCHANGED <<trouble, pc, at, reach, registered, wait, current,
                   fileVars, moving, pruneVars>>

\* sample_machine without a machine_id returns at once.
SampleUnregistered(m) ==
    /\ Looking(m) /\ handle[m] # "none" /\ ~registered[m]
    /\ NextMachine
    /\ UNCHANGED <<trouble, machineVars, fileVars, moving, pruneVars>>

\* db_add_sample, one retry. Without a free row the model inserts none.
AddSample ==
    \/ \E r \in Free :
          /\ main' = main \cup {r}
          /\ age' = [age EXCEPT ![r] = 0]
          /\ archived' = [archived EXCEPT ![r] = 0]
          /\ torn' = torn \ {r}
    \/ (trouble \/ Free = {}) /\ UNCHANGED fileVars

\* The status was read. The program may still be unknown then, and is stored as
\* if there was none; each of the two statements may fail in both attempts.
SampleOk(m) ==
    /\ Looking(m) /\ handle[m] = "live" /\ registered[m] /\ reach[m]
    /\ AddSample
    /\ \E shown \in {TRUE} \cup (IF trouble THEN {FALSE, current[m]} ELSE {}) :
          current' = [current EXCEPT ![m] = shown]
    /\ NextMachine
    /\ UNCHANGED <<trouble, reach, registered, handle, backoff, wait, moving, pruneVars>>

\* drop_connection.
Drop(m) ==
    /\ handle' = [handle EXCEPT ![m] = "none"]
    /\ backoff' = [backoff EXCEPT ![m] = IF @ = 0 THEN 1 ELSE IF @ < MaxBackoff THEN 2 * @ ELSE @]
    /\ wait' = [wait EXCEPT ![m] = backoff'[m]]

\* The status could not be read.
SampleFails(m) ==
    /\ Looking(m) /\ handle[m] # "none" /\ registered[m]
    /\ handle[m] = "dead" \/ ~reach[m] \/ trouble
    /\ Drop(m)
    /\ NextMachine
    /\ UNCHANGED <<trouble, reach, registered, current, fileVars, moving, pruneVars>>

-----------------------------------------------------------------------------
(* prune_old_samples, db_archive_samples_older_than. *)

EndPrune == pc' = "sleep" /\ due' = FALSE

\* Nothing new to archive, no old row, or the count could not be read.
NothingToPrune ==
    /\ pc = "prune"
    /\ prunedAge <= Retention \/ Old = {} \/ trouble
    /\ EndPrune
    /\ UNCHANGED <<trouble, at, machineVars, fileVars, moving, attached, prunedAge>>

Prune ==
    /\ pc = "prune"
    /\ prunedAge > Retention \/ trouble
    /\ Old # {}
    /\ pc' = "attach"
    /\ UNCHANGED <<trouble, at, machineVars, fileVars, moving, pruneVars>>

\* ATTACH fails while another database has that name.
Attach ==
    /\ pc = "attach" /\ ~attached
    /\ attached' = TRUE
    /\ pc' = "copy"
    /\ UNCHANGED <<trouble, at, machineVars, fileVars, moving, due, prunedAge>>

AttachFails ==
    /\ pc = "attach"
    /\ attached \/ trouble
    /\ pc' = "mark"
    /\ UNCHANGED <<trouble, at, machineVars, fileVars, moving, pruneVars>>

\* Mutant: without BEGIN the statement commits by itself.
CopyCommitted ==
    /\ pc = "copy"
    /\ moving' = Old
    /\ archived' = [r \in Rows |-> IF r \in Old THEN archived[r] + 1 ELSE archived[r]]
    /\ pc' = "delete"
    /\ UNCHANGED <<trouble, at, machineVars, age, main, torn, pruneVars>>

\* BEGIN, INSERT .. SELECT ts < cutoff.
CopyOld ==
    /\ pc = "copy"
    /\ moving' = Old
    /\ pc' = "delete"
    /\ UNCHANGED <<trouble, at, machineVars, fileVars, pruneVars>>

\* DELETE ts < cutoff: the same rows.
DeleteOld ==
    /\ pc = "delete"
    /\ pc' = "commit"
    /\ UNCHANGED <<trouble, at, machineVars, fileVars, moving, pruneVars>>

\* COMMIT: machine_samples first.
CommitMain ==
    /\ pc = "commit"
    /\ main' = main \ moving
    /\ age' = [r \in Rows |-> IF r \in moving THEN 0 ELSE age[r]]
    /\ pc' = "commitArchive"
    /\ UNCHANGED <<trouble, at, machineVars, archived, torn, moving, pruneVars>>

\* COMMIT: then the archive; DETACH.
CommitArchive ==
    /\ pc = "commitArchive"
    /\ archived' = [r \in Rows |-> IF r \in moving THEN archived[r] + 1 ELSE archived[r]]
    /\ moving' = {}
    /\ attached' = FALSE
    /\ pc' = "mark"
    /\ UNCHANGED <<trouble, at, machineVars, age, main, torn, due, prunedAge>>

\* Mutant: the early return forgets to DETACH.
ArchiveFailsAttached ==
    /\ pc \in {"copy", "delete", "commit", "commitArchive"} /\ trouble
    /\ Rollback
    /\ pc' = "mark"
    /\ UNCHANGED <<trouble, at, machineVars, age, main, archived, pruneVars>>

\* Any of these statements fails: ROLLBACK, DETACH.
ArchiveFails ==
    /\ pc \in {"copy", "delete", "commit", "commitArchive"} /\ trouble
    /\ Rollback
    /\ attached' = FALSE
    /\ pc' = "mark"
    /\ UNCHANGED <<trouble, at, machineVars, age, main, archived, due, prunedAge>>

\* db_set_pruned_before, whether or not anything was archived.
SetPrunedBefore ==
    /\ pc = "mark"
    /\ prunedAge' \in {Retention} \cup (IF trouble THEN {prunedAge} ELSE {})
    /\ EndPrune
    /\ UNCHANGED <<trouble, at, machineVars, fileVars, moving, attached>>

-----------------------------------------------------------------------------

Init ==
    /\ reach \in [Machines -> BOOLEAN]
    /\ trouble = FALSE
    /\ pc = "down" /\ at = 1
    /\ registered = [m \in Machines |-> FALSE]
    /\ handle = [m \in Machines |-> "none"]
    /\ backoff = [m \in Machines |-> 0]
    /\ wait = [m \in Machines |-> 0]
    /\ current = [m \in Machines |-> FALSE]
    /\ age = [r \in Rows |-> 0]
    /\ main = {}
    /\ archived = [r \in Rows |-> 1]  \* of the rows before the first
    /\ torn = {} /\ moving = {}
    /\ attached = FALSE
    /\ due = TRUE                  \* last_prune = 0
    /\ prunedAge = Retention + 1   \* no 'pruned_before' yet

Round(m) ==
    \/ InBackoff(m) \/ ConnectFails(m) \/ ConnectOk(m)
    \/ SampleUnregistered(m) \/ SampleOk(m) \/ SampleFails(m)

Archive ==
    \/ NothingToPrune \/ Prune \/ Attach \/ AttachFails \/ CopyOld \/ DeleteOld
    \/ CommitMain \/ CommitArchive \/ ArchiveFails \/ SetPrunedBefore

Sampler == Start \/ Wake \/ Archive \/ \E m \in Machines : Round(m)

Environment ==
    \/ \E m \in Machines : MachineSwitches(m) \/ MachineChanges(m)
    \/ TroubleChanges
    \/ Crash

Next == Sampler \/ Environment

Spec == Init /\ [][Next]_vars

\* The loop never ends by itself, a stopped sampler is started again (it is a
\* resident service), and time passes: one of the sleeps lasts into a new hour.
FairSpec == Spec /\ WF_vars(Sampler) /\ SF_vars(Wake /\ due')

-----------------------------------------------------------------------------
(* Properties. *)

ControlTyped ==
    /\ trouble \in BOOLEAN /\ attached \in BOOLEAN /\ due \in BOOLEAN
    /\ pc \in {"down", "round", "sleep", "prune"} \cup Pruning
    /\ at \in Machines
    /\ pc # "round" => at = 1

MachinesTyped ==
    /\ reach \in [Machines -> BOOLEAN]
    /\ registered \in [Machines -> BOOLEAN]
    /\ handle \in [Machines -> {"none", "live", "dead"}]
    /\ backoff \in [Machines -> 0..MaxBackoff]
    /\ wait \in [Machines -> 0..MaxBackoff]
    /\ \A m \in Machines : wait[m] <= backoff[m] /\ (handle[m] # "none" => wait[m] = 0)
    /\ current \in [Machines -> BOOLEAN]

RowsTyped ==
    /\ age \in [Rows -> 0..(Retention + 1)]
    /\ main \in SUBSET Rows
    /\ archived \in [Rows -> 0..2]
    /\ torn \in SUBSET (Rows \ main)
    /\ moving \in SUBSET Rows
    /\ prunedAge \in 0..(Retention + 1)

\* Types; a machine with a connection waits for none, and no wait exceeds its backoff
\* (sampler.c, the fields of a machine).
TypeOK == ControlTyped /\ MachinesTyped /\ RowsTyped

\* Moving rows to the archive neither duplicates nor loses any: a row is in
\* machine_samples or once in the archive - the rows of a transaction that was
\* cut between its two COMMITs aside - whatever statement failed, and wherever
\* the process was killed (db_archive_samples_older_than, the early returns).
EachRowOnce ==
    \A r \in Rows :
        archived[r] =
            IF r \in main \/ r \in torn \/ (pc = "commitArchive" /\ r \in moving) THEN 0 ELSE 1

\* What is in the two files is a RowArchive, whatever fails and wherever the process is
\* killed: only rows older than the retention leave machine_samples, all of them at
\* once, nothing is written while they are on their way, and they arrive together or
\* are lost together (db_archive_samples_older_than, db_add_sample).
Archives ==
    INSTANCE RowArchive WITH
        old <- {r \in main : age[r] > Retention},
        leaving <- IF pc = "commitArchive" THEN moving ELSE {}
ImplementsRowArchive == Archives!Spec

\* The process is not killed any more and nothing fails.
Calm == pc # "down" /\ ~trouble

\* machine_samples does not grow for ever: when nothing fails any more a row
\* older than the retention is moved out, although pruned_before says so already
\* after an attempt that failed, and whatever that attempt left behind.
OldRowsLeave ==
    \A r \in Rows : <>[]Calm => []<>(r \notin Old)

\* machine_latest becomes what the machine shows: whatever connection broke
\* half-way, and although other machines are away, a registered machine that
\* answers and does not change is shown as it is in the end.
LatestCatchesUp ==
    \A m \in Machines :
        <>[](Calm /\ reach[m] /\ registered[m]) /\ <>[][current'[m] \/ ~current[m]]_vars
            => <>[]current[m]

=============================================================================
