-------------------------- MODULE CncSamplerProofs --------------------------
(***************************************************************************)
(* Proofs about CncSampler: types, that archiving keeps every row once, and *)
(* that the two files together implement RowArchive, for any number of     *)
(* machines and rows, any retention and any backoff limit.  An archive run *)
(* is safe because of what `moving` is while it is under way, which        *)
(* MovingOK says; that nothing but the old rows leaves, and none of them   *)
(* stays, needs MovingOld too.  The backoff stays in its type because a    *)
(* connection always starts from one second, which BackoffOK says.         *)
(***************************************************************************)
EXTENDS CncSampler, TLAPS

\* The rows of the open transaction: still in machine_samples until its first
\* COMMIT, nowhere between the two COMMITs, none at any other time.
MovingOK ==
    /\ pc \in {"delete", "commit"} => moving \subseteq main
    /\ pc = "commitArchive" => moving \cap main = {} /\ moving \cap torn = {}
    /\ pc \notin {"delete", "commit", "commitArchive"} => moving = {}

\* The backoff is one second whenever there is a connection, so that dropping it
\* makes it two at most.
BackoffOK ==
    \A m \in Machines : backoff[m] <= 2 /\ (handle[m] # "none" => backoff[m] = 1)

MachinesInv == MachinesTyped /\ BackoffOK
RowsInv     == RowsTyped /\ EachRowOnce /\ MovingOK
IInv        == ControlTyped /\ MachinesInv /\ RowsInv

LEMMA FirstMachine == 1 \in Machines
  BY SamplerAssumption DEF Machines

LEMMA InitIInv == Init => IInv
  <1> SUFFICES ASSUME Init PROVE IInv
    OBVIOUS
  <1>1. ControlTyped
    BY FirstMachine DEF Init, ControlTyped
  <1>2. MachinesInv
    BY SamplerAssumption DEF Init, MachinesInv, MachinesTyped, BackoffOK
  <1>3. RowsInv
    BY SamplerAssumption DEF Init, RowsInv, RowsTyped, EachRowOnce, MovingOK
  <1> QED
    BY <1>1, <1>2, <1>3 DEF IInv

-----------------------------------------------------------------------------
(* What most steps leave alone. *)

\* The connections are as before.
LEMMA MachinesUntouched ==
    ASSUME IInv, UNCHANGED machineVars
    PROVE  MachinesInv'
  BY DEF IInv, MachinesInv, MachinesTyped, BackoffOK, machineVars

\* The files and the transaction are as before, outside an archive run.
LEMMA RowsUntouched ==
    ASSUME IInv, UNCHANGED <<fileVars, moving, prunedAge>>,
           pc \notin {"delete", "commit", "commitArchive"},
           pc' \notin {"delete", "commit", "commitArchive"}
    PROVE  RowsInv'
  BY DEF IInv, RowsInv, RowsTyped, EachRowOnce, MovingOK, fileVars

\* The files and the transaction are as before, and so is pc.
LEMMA RowsStay ==
    ASSUME IInv, UNCHANGED <<fileVars, moving, prunedAge, pc>>
    PROVE  RowsInv'
  BY DEF IInv, RowsInv, RowsTyped, EachRowOnce, MovingOK, fileVars

\* The loop goes on.
LEMMA LoopGoesOn ==
    ASSUME IInv, pc = "round", NextMachine, UNCHANGED <<trouble, attached, due>>
    PROVE  ControlTyped' /\ pc' \notin {"delete", "commit", "commitArchive"}
  BY SamplerAssumption DEF IInv, ControlTyped, NextMachine, Machines, Pruning

-----------------------------------------------------------------------------
(* The environment, start and sleep. *)

LEMMA EnvironmentIInv == IInv /\ Environment => IInv'
  <1> SUFFICES ASSUME IInv, Environment PROVE IInv'
    OBVIOUS
  <1>1. ASSUME NEW m \in Machines, MachineSwitches(m) PROVE IInv'
    <2>1. ControlTyped' /\ RowsInv'
      BY <1>1, RowsStay DEF IInv, ControlTyped, MachineSwitches, pruneVars
    <2>2. MachinesInv'
      BY <1>1 DEF IInv, MachinesInv, MachinesTyped, BackoffOK, MachineSwitches
    <2> QED
      BY <2>1, <2>2 DEF IInv
  <1>2. ASSUME NEW m \in Machines, MachineChanges(m) PROVE IInv'
    <2>1. ControlTyped' /\ RowsInv'
      BY <1>2, RowsStay DEF IInv, ControlTyped, MachineChanges, pruneVars
    <2>2. MachinesInv'
      BY <1>2 DEF IInv, MachinesInv, MachinesTyped, BackoffOK, MachineChanges
    <2> QED
      BY <2>1, <2>2 DEF IInv
  <1>3. CASE TroubleChanges
    <2>1. ControlTyped' /\ RowsInv'
      BY <1>3, RowsStay DEF IInv, ControlTyped, TroubleChanges, pruneVars
    <2>2. MachinesInv'
      BY <1>3, MachinesUntouched DEF TroubleChanges
    <2> QED
      BY <2>1, <2>2 DEF IInv
  <1>4. CASE Crash
    <2>1. ControlTyped'
      BY <1>4, FirstMachine DEF IInv, ControlTyped, Crash, Machines
    <2>2. MachinesInv'
      BY <1>4, SamplerAssumption DEF IInv, MachinesInv, MachinesTyped, BackoffOK, Crash
    <2>3. RowsInv'
      BY <1>4 DEF IInv, RowsInv, RowsTyped, EachRowOnce, MovingOK, Crash, Rollback
    <2> QED
      BY <2>1, <2>2, <2>3 DEF IInv
  <1> QED
    BY <1>1, <1>2, <1>3, <1>4 DEF Environment

LEMMA StartIInv == IInv /\ Start => IInv'
  <1> SUFFICES ASSUME IInv, Start PROVE IInv'
    OBVIOUS
  <1>1. ControlTyped'
    BY SamplerAssumption DEF IInv, ControlTyped, Start, Machines, pruneVars
  <1>2. MachinesInv'
    BY DEF IInv, MachinesInv, MachinesTyped, BackoffOK, Start
  <1>3. RowsInv'
    BY RowsUntouched DEF Start, pruneVars
  <1> QED
    BY <1>1, <1>2, <1>3 DEF IInv

LEMMA WakeIInv == IInv /\ Wake => IInv'
  <1> SUFFICES ASSUME IInv, Wake PROVE IInv'
    OBVIOUS
  <1>1. ControlTyped'
    BY SamplerAssumption DEF IInv, ControlTyped, Wake, Machines
  <1>2. MachinesInv'
    BY SamplerAssumption DEF IInv, MachinesInv, MachinesTyped, BackoffOK, Wake
  <1>3. RowsInv'
    <2>1. age' \in [Rows -> 0..(Retention + 1)] /\ prunedAge' \in 0..(Retention + 1)
      BY SamplerAssumption DEF IInv, RowsInv, RowsTyped, Wake, Least
    <2>2. EachRowOnce' /\ MovingOK'
      BY DEF IInv, RowsInv, EachRowOnce, MovingOK, Wake
    <2> QED
      BY <2>1, <2>2 DEF IInv, RowsInv, RowsTyped, Wake
  <1> QED
    BY <1>1, <1>2, <1>3 DEF IInv

-----------------------------------------------------------------------------
(* The steps of a round. *)

LEMMA RoundIInv == ASSUME IInv, NEW m \in Machines, Round(m) PROVE IInv'
  <1>1. CASE InBackoff(m) \/ SampleUnregistered(m)
    BY <1>1, LoopGoesOn, MachinesUntouched, RowsUntouched
       DEF IInv, InBackoff, SampleUnregistered, Looking, pruneVars
  <1>2. CASE ConnectFails(m)
    <2>1. ControlTyped' /\ RowsInv'
      BY <1>2, LoopGoesOn, RowsUntouched DEF ConnectFails, Looking, pruneVars
    <2>2. MachinesInv'
      BY <1>2, SamplerAssumption DEF IInv, MachinesInv, MachinesTyped, BackoffOK, ConnectFails
    <2> QED
      BY <2>1, <2>2 DEF IInv
  <1>3. CASE ConnectOk(m)
    <2>1. ControlTyped' /\ RowsInv'
      BY <1>3, RowsStay DEF IInv, ControlTyped, ConnectOk, pruneVars
    <2>2. MachinesInv'
      BY <1>3, SamplerAssumption DEF IInv, MachinesInv, MachinesTyped, BackoffOK, ConnectOk
    <2> QED
      BY <2>1, <2>2 DEF IInv
  <1>4. CASE SampleOk(m)
    <2>1. ControlTyped' /\ pc' \notin {"delete", "commit", "commitArchive"}
      BY <1>4, LoopGoesOn DEF SampleOk, Looking, pruneVars
    <2>2. MachinesInv'
      BY <1>4 DEF IInv, MachinesInv, MachinesTyped, BackoffOK, SampleOk
    <2>3. RowsInv'
      <3>1. CASE UNCHANGED fileVars
        BY <1>4, <2>1, <3>1, RowsUntouched DEF SampleOk, Looking, pruneVars
      <3>2. ASSUME NEW r \in Free,
                   main' = main \cup {r}, age' = [age EXCEPT ![r] = 0],
                   archived' = [archived EXCEPT ![r] = 0], torn' = torn \ {r}
            PROVE  RowsInv'
        BY <1>4, <2>1, <3>2, SamplerAssumption
           DEF IInv, RowsInv, RowsTyped, EachRowOnce, MovingOK, SampleOk, Looking, Free, pruneVars
      <3> QED
        BY <1>4, <3>1, <3>2 DEF SampleOk, AddSample
    <2> QED
      BY <2>1, <2>2, <2>3 DEF IInv
  <1>5. CASE SampleFails(m)
    <2>1. ControlTyped' /\ RowsInv'
      BY <1>5, LoopGoesOn, RowsUntouched DEF SampleFails, Looking, pruneVars
    <2>2. MachinesInv'
      BY <1>5, SamplerAssumption DEF IInv, MachinesInv, MachinesTyped, BackoffOK, SampleFails, Drop
    <2> QED
      BY <2>1, <2>2 DEF IInv
  <1> QED
    BY <1>1, <1>2, <1>3, <1>4, <1>5 DEF Round

-----------------------------------------------------------------------------
(* The steps of an archive run. *)

LEMMA ArchiveIInv == IInv /\ Archive => IInv'
  <1> SUFFICES ASSUME IInv, Archive PROVE IInv'
    OBVIOUS
  <1>1. ControlTyped'
    BY SamplerAssumption
       DEF IInv, ControlTyped, Pruning, Machines, Archive, NothingToPrune, Prune, Attach,
           AttachFails, CopyOld, DeleteOld, CommitMain, CommitArchive, ArchiveFails,
           SetPrunedBefore, EndPrune, pruneVars
  <1>2. MachinesInv'
    BY MachinesUntouched
       DEF Archive, NothingToPrune, Prune, Attach, AttachFails, CopyOld, DeleteOld,
           CommitMain, CommitArchive, ArchiveFails, SetPrunedBefore
  <1>3. RowsInv'
    <2>1. CASE NothingToPrune \/ Prune \/ Attach \/ AttachFails
      BY <2>1, RowsUntouched
         DEF NothingToPrune, Prune, Attach, AttachFails, EndPrune, pruneVars
    <2>2. CASE CopyOld
      BY <2>2 DEF IInv, RowsInv, RowsTyped, EachRowOnce, MovingOK, CopyOld, Old, fileVars, pruneVars
    <2>3. CASE DeleteOld
      BY <2>3 DEF IInv, RowsInv, RowsTyped, EachRowOnce, MovingOK, DeleteOld, fileVars, pruneVars
    <2>4. CASE CommitMain
      BY <2>4, SamplerAssumption
         DEF IInv, RowsInv, RowsTyped, EachRowOnce, MovingOK, CommitMain, pruneVars
    <2>5. CASE CommitArchive
      BY <2>5 DEF IInv, RowsInv, RowsTyped, EachRowOnce, MovingOK, CommitArchive
    <2>6. CASE ArchiveFails
      BY <2>6 DEF IInv, RowsInv, RowsTyped, EachRowOnce, MovingOK, ArchiveFails, Rollback
    <2>7. CASE SetPrunedBefore
      BY <2>7, SamplerAssumption
         DEF IInv, RowsInv, RowsTyped, EachRowOnce, MovingOK, SetPrunedBefore, EndPrune, fileVars
    <2> QED
      BY <2>1, <2>2, <2>3, <2>4, <2>5, <2>6, <2>7 DEF Archive
  <1> QED
    BY <1>1, <1>2, <1>3 DEF IInv

-----------------------------------------------------------------------------

LEMMA StutterIInv == IInv /\ UNCHANGED vars => IInv'
  BY DEF IInv, ControlTyped, MachinesInv, MachinesTyped, BackoffOK, RowsInv, RowsTyped,
         EachRowOnce, MovingOK, vars, machineVars, fileVars, pruneVars

LEMMA Inductive == Spec => []IInv
  <1>1. IInv /\ [Next]_vars => IInv'
    BY EnvironmentIInv, StartIInv, WakeIInv, RoundIInv, ArchiveIInv, StutterIInv
       DEF Next, Sampler
  <1> QED
    BY InitIInv, <1>1, PTL DEF Spec

\* The variables keep their types; in particular no backoff ever exceeds its
\* limit although Drop doubles it (sampler.c, drop_connection).
THEOREM Typing == Spec => []TypeOK
  <1>1. IInv => TypeOK
    BY DEF IInv, MachinesInv, RowsInv, TypeOK
  <1> QED
    BY Inductive, <1>1, PTL

\* Every row is in machine_samples or once in the archive, the rows of a
\* transaction cut between its COMMITs aside (db_archive_samples_older_than).
THEOREM RowsOnce == Spec => []EachRowOnce
  <1>1. IInv => EachRowOnce
    BY DEF IInv, RowsInv
  <1> QED
    BY Inductive, <1>1, PTL

\* No reconnect ever waits longer than two seconds: the limit of a minute is
\* never used (sampler.c, ensure_connected and drop_connection).
THEOREM BackoffStaysShort == Spec => [](\A m \in Machines : wait[m] <= 2)
  <1>1. IInv => \A m \in Machines : wait[m] <= 2
    BY SamplerAssumption DEF IInv, MachinesInv, MachinesTyped, BackoffOK
  <1> QED
    BY Inductive, <1>1, PTL

-----------------------------------------------------------------------------
(* The two files are a RowArchive. *)

\* What the open transaction has copied and deletes are the old rows, all of them:
\* no row is added and none grows old while it is open.
MovingOld == pc \in {"delete", "commit"} => moving = Old

\* The rows that are in neither file for a moment.
Leaving == IF pc = "commitArchive" THEN moving ELSE {}

LEMMA InitArchives == Init => Archives!Init
  BY DEF Init, Archives!Init

\* Both files, and the transaction if it is half committed, are as before.
LEMMA NothingSeen ==
    ASSUME UNCHANGED <<main, age, archived, Leaving>>
    PROVE  UNCHANGED Archives!vars
  BY DEF Archives!vars, Leaving

\* So they are as long as no COMMIT is under way.
LEMMA NothingSeenWithout ==
    ASSUME UNCHANGED fileVars, pc # "commitArchive", pc' # "commitArchive"
    PROVE  UNCHANGED Archives!vars
  BY NothingSeen DEF fileVars, Leaving

LEMMA EnvironmentArchives ==
    ASSUME IInv, Environment
    PROVE  [Archives!Next]_(Archives!vars)
  <1>1. CASE (\E m \in Machines : MachineSwitches(m) \/ MachineChanges(m)) \/ TroubleChanges
    <2>1. UNCHANGED <<fileVars, pc, moving>>
      BY <1>1 DEF MachineSwitches, MachineChanges, TroubleChanges
    <2>2. UNCHANGED <<main, age, archived, Leaving>>
      BY <2>1 DEF fileVars, Leaving
    <2>3. QED
      BY <2>2, NothingSeen
  <1>2. CASE Crash
    <2>1. UNCHANGED <<main, age, archived>> /\ Leaving' = {}
      BY <1>2 DEF Crash, Leaving
    <2>2. Archives!Lose
      BY <2>1 DEF Archives!Lose, Leaving
    <2>3. QED
      BY <2>2 DEF Archives!Next
  <1>3. QED
    BY <1>1, <1>2 DEF Environment

\* Rows grow old while the sampler sleeps.
LEMMA WakeArchives ==
    ASSUME IInv, Wake
    PROVE  [Archives!Next]_(Archives!vars)
  <1>1. /\ pc = "sleep" /\ pc' = "round"
        /\ UNCHANGED <<main, archived>>
    BY DEF Wake
  <1>2. \A r \in main : r \in Rows /\ age[r] \in 0..(Retention + 1)
    BY DEF IInv, RowsInv, RowsTyped
  <1>3. \A r \in main : age[r] > Retention => age'[r] > Retention
    <2> SUFFICES ASSUME NEW r \in main, age[r] > Retention PROVE age'[r] > Retention
      OBVIOUS
    <2>1. age'[r] = age[r] \/ age'[r] = Least(age[r] + 1, Retention + 1)
      BY <1>2 DEF Wake
    <2>2. QED
      BY <1>2, <2>1, SamplerAssumption DEF Least
  <1>4. Archives!GrowOld
    BY <1>1, <1>3 DEF Archives!GrowOld
  <1>5. QED
    BY <1>4 DEF Archives!Next

\* A round may add a row.
LEMMA RoundArchives ==
    ASSUME IInv, NEW m \in Machines, Round(m)
    PROVE  [Archives!Next]_(Archives!vars)
  <1>1. pc = "round" /\ pc' \in {"round", "prune", "sleep"}
    BY DEF Round, InBackoff, ConnectFails, ConnectOk, SampleUnregistered, SampleOk, SampleFails,
           Looking, NextMachine
  <1>2. CASE UNCHANGED fileVars
    BY <1>1, <1>2, NothingSeenWithout
  <1>3. CASE ~UNCHANGED fileVars
    <2>1. SampleOk(m)
      BY <1>3 DEF Round, InBackoff, ConnectFails, ConnectOk, SampleUnregistered, SampleFails
    <2>2. PICK r \in Free : /\ main' = main \cup {r} /\ age' = [age EXCEPT ![r] = 0]
                            /\ archived' = [archived EXCEPT ![r] = 0]
      BY <1>3, <2>1 DEF SampleOk, AddSample
    <2>3. r \in Rows \ main /\ main \subseteq Rows /\ age \in [Rows -> 0..(Retention + 1)]
      BY DEF Free, IInv, RowsInv, RowsTyped
    <2>4. age'[r] = 0 /\ \A x \in main : age'[x] = age[x]
      BY <2>2, <2>3
    <2>5. {x \in main' : age'[x] > Retention} = {x \in main : age[x] > Retention}
      BY <2>2, <2>4, SamplerAssumption
    <2>6. Archives!Add
      BY <1>1, <2>2, <2>3, <2>5 DEF Archives!Add
    <2>7. QED
      BY <2>6 DEF Archives!Next
  <1>4. QED
    BY <1>2, <1>3

\* An archive run shows by its COMMITs, or by the one that is missing.
LEMMA ArchiveArchives ==
    ASSUME IInv, MovingOld, Archive
    PROVE  [Archives!Next]_(Archives!vars)
  <1>1. CASE \/ NothingToPrune \/ Prune \/ Attach \/ AttachFails \/ CopyOld \/ DeleteOld
             \/ SetPrunedBefore
    <2>1. UNCHANGED fileVars /\ pc # "commitArchive" /\ pc' # "commitArchive"
      BY <1>1 DEF NothingToPrune, Prune, Attach, AttachFails, CopyOld, DeleteOld,
                  SetPrunedBefore, EndPrune
    <2>2. QED
      BY <2>1, NothingSeenWithout
  <1>2. CASE CommitMain
    <2>1. /\ pc = "commit" /\ pc' = "commitArchive" /\ moving = Old
          /\ main' = main \ moving /\ moving' = moving /\ archived' = archived
      BY <1>2 DEF CommitMain, MovingOld
    <2>2. \A r \in main' : age'[r] = age[r] /\ ~(age[r] > Retention)
      BY <1>2, <2>1 DEF CommitMain, Old, IInv, RowsInv, RowsTyped
    <2>3. {r \in main' : age'[r] > Retention} = {}
      BY <2>2
    <2>4. Archives!TakeOut
      BY <2>1, <2>3 DEF Archives!TakeOut, Old
    <2>5. QED
      BY <2>4 DEF Archives!Next
  <1>3. CASE CommitArchive
    <2>1. Archives!PutAway
      BY <1>3 DEF CommitArchive, Archives!PutAway
    <2>2. QED
      BY <2>1 DEF Archives!Next
  <1>4. CASE ArchiveFails
    <2>1. Archives!Lose
      BY <1>4 DEF ArchiveFails, Archives!Lose
    <2>2. QED
      BY <2>1 DEF Archives!Next
  <1>5. QED
    BY <1>1, <1>2, <1>3, <1>4 DEF Archive

\* Every step of the sampler is one of the two files, or none.
LEMMA ArchivesStep == IInv /\ MovingOld /\ [Next]_vars => [Archives!Next]_(Archives!vars)
  <1> SUFFICES ASSUME IInv, MovingOld, [Next]_vars PROVE [Archives!Next]_(Archives!vars)
    OBVIOUS
  <1>1. CASE Start
    <2>1. UNCHANGED fileVars /\ pc # "commitArchive" /\ pc' # "commitArchive"
      BY <1>1 DEF Start
    <2>2. QED
      BY <2>1, NothingSeenWithout
  <1>2. CASE UNCHANGED vars
    <2>1. UNCHANGED <<main, age, archived, Leaving>>
      BY <1>2 DEF vars, fileVars, Leaving
    <2>2. QED
      BY <2>1, NothingSeen
  <1>3. QED
    BY <1>1, <1>2, EnvironmentArchives, WakeArchives, RoundArchives, ArchiveArchives
       DEF Next, Sampler

\* The old rows stay the old rows while they are copied and deleted.
LEMMA MovingOldStep == IInv /\ MovingOld /\ [Next]_vars => MovingOld'
  <1> SUFFICES ASSUME IInv, MovingOld, [Next]_vars, pc' \in {"delete", "commit"}
               PROVE  moving' = Old'
    BY DEF MovingOld
  <1>1. CASE CopyOld
    BY <1>1 DEF CopyOld, Old, fileVars
  <1>2. CASE DeleteOld
    BY <1>2 DEF DeleteOld, MovingOld, Old, fileVars
  <1>3. CASE ~CopyOld /\ ~DeleteOld
    <2>1. UNCHANGED <<fileVars, moving, pc>>
      <3>1. CASE Environment
        BY <3>1 DEF Environment, MachineSwitches, MachineChanges, TroubleChanges, Crash
      <3>2. CASE Start \/ Wake
        BY <3>2 DEF Start, Wake
      <3>3. ASSUME NEW m \in Machines, Round(m) PROVE FALSE
        BY <3>3 DEF Round, InBackoff, ConnectFails, ConnectOk, SampleUnregistered, SampleOk,
                    SampleFails, Looking, NextMachine
      <3>4. CASE Archive
        BY <1>3, <3>4 DEF Archive, NothingToPrune, Prune, Attach, AttachFails, CommitMain,
                          CommitArchive, ArchiveFails, SetPrunedBefore, EndPrune
      <3>5. CASE UNCHANGED vars
        BY <3>5 DEF vars
      <3>6. QED
        BY <3>1, <3>2, <3>3, <3>4, <3>5 DEF Next, Sampler
    <2>2. QED
      BY <2>1 DEF MovingOld, Old, fileVars
  <1>4. QED
    BY <1>1, <1>2, <1>3

\* Whatever fails and wherever the sampler is killed, machine_samples and the archive
\* behave as RowArchive (db_archive_samples_older_than, db_add_sample).
THEOREM FilesAreArchive == Spec => ImplementsRowArchive
  <1>1. Init => MovingOld
    BY DEF Init, MovingOld
  <1>2. QED
    BY Inductive, InitArchives, ArchivesStep, MovingOldStep, <1>1, PTL
       DEF Spec, ImplementsRowArchive, Archives!Spec

=============================================================================
