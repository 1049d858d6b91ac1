----------------------------- MODULE RowArchive -----------------------------
(***************************************************************************)
(* What machine_samples and its archive promise together to whoever reads  *)
(* them, without the sampler behind them: a sample comes into              *)
(* machine_samples (src/src/db/db_ops.c 430-504), grows old there, and     *)
(* leaves with all old samples at once, for the archive (759-823).         *)
(*                                                                         *)
(* The two are files of their own, so the samples on their way are in      *)
(* neither for a moment.  No other change falls into this moment; if the   *)
(* process does not outlive it, these samples are lost, all of them.       *)
(* Whatever else fails or is killed shows nowhere.  CncSampler implements  *)
(* this module.                                                            *)
(***************************************************************************)
EXTENDS Integers

CONSTANTS
    Rows  \* samples that exist at a time

VARIABLES
    main,     \* the samples in machine_samples
    old,      \* those of them that are older than the retention
    leaving,  \* those that are out of machine_samples and not in the archive yet
    archived  \* how often a sample is in the archive

vars == <<main, old, leaving, archived>>

\* The samples of earlier times are in the archive.
Init ==
    /\ main = {} /\ old = {} /\ leaving = {}
    /\ archived = [r \in Rows |-> 1]

\* A new sample, under a number that machine_samples does not have.
Add ==
    /\ leaving = {}
    /\ \E r \in Rows \ main :
          /\ main' = main \cup {r}
          /\ archived' = [archived EXCEPT ![r] = 0]
    /\ UNCHANGED <<old, leaving>>

GrowOld ==
    /\ leaving = {}
    /\ old \subseteq old' /\ old' \subseteq main
    /\ UNCHANGED <<main, leaving, archived>>

\* The first COMMIT: every old sample leaves, and no other.
TakeOut ==
    /\ leaving = {}
    /\ main' = main \ old
    /\ leaving' = old /\ old' = {}
    /\ UNCHANGED archived

\* The second COMMIT.
PutAway ==
    /\ archived' = [r \in Rows |-> IF r \in leaving THEN archived[r] + 1 ELSE archived[r]]
    /\ leaving' = {}
    /\ UNCHANGED <<main, old>>

\* There is no second COMMIT.
Lose ==
    /\ leaving' = {}
    /\ UNCHANGED <<main, old, archived>>

Next == Add \/ GrowOld \/ TakeOut \/ PutAway \/ Lose

Spec == Init /\ [][Next]_vars

=============================================================================
