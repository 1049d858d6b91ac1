------------------------------ MODULE History ------------------------------
(***************************************************************************)
(* The history pages of the desktop program: HistoryVm                     *)
(* (src/src/imgui_ui/viewmodel/HistoryVm.cpp) with StreamingData           *)
(* (core/StreamingData.hpp) and the history table (src/src/db/db_ops.c).   *)
(*                                                                         *)
(* "Save" asks every machine in a thread of its own; a waiter thread polls *)
(* until the last one is done and stores what they delivered as a batch.   *)
(* "Calculate" takes a batch and compares it with a later one or with the  *)
(* machines as they are.  Clicks come at any time the buttons allow.       *)
(*                                                                         *)
(* Simplifications: of the counters only the total is kept, and 0 stands   *)
(* for "no counter was read", which is how a HistoryEntry begins; the list *)
(* of machines does not change; a calculating thread is one step.          *)
(***************************************************************************)
EXTENDS Integers, FiniteSets, FiniteSetsExt

CONSTANTS
    Machines,  \* the machines table
    MaxTotal,  \* bound: values of a counter
    MaxBatch   \* bound: numbers of batches

ASSUME HistoryAssumption ==
    /\ IsFiniteSet(Machines)
    /\ MaxTotal \in Nat \ {0} /\ MaxBatch \in Nat \ {0}

VARIABLES
    counter,    \* what a machine would answer now; 0: it does not answer
    history,    \* the table: the totals of a batch, or NoRow
    saving,     \* saving
    thread,     \* of the save, one for every machine
    got,        \* what the thread has fetched
    items,      \* save_stream.items_
    remaining,  \* save_stream.remaining_
    loading,    \* save_stream.loading_
    waiter,     \* the thread that stores the batch
    results,    \* its copy of the items
    base,       \* calculation: the totals of the start batch, or NoRow
    tasks,      \* calculation: the threads that still run
    shown       \* calc_stream.items_, the verdicts

saveVars == <<saving, thread, got, items, remaining, loading, waiter, results>>
calcVars == <<base, tasks, shown>>
vars == <<counter, history, saveVars, calcVars>>

NoRow   == -1
Live    == 0
Failed  == 0   \* HistoryEntry: total = 0, the same as a row says of it
Loading == -2  \* HistoryEntry: loading = true

Totals  == 0..MaxTotal
Batches == 1..MaxBatch
Empty   == [m \in Machines |-> NoRow]
Present == {b \in Batches : history[b] # Empty}

Normal  == {"more", "same"}
Verdict == Normal \cup {"less", "no base", "no end", "loading", "none"}

-----------------------------------------------------------------------------
(* The machines. *)

CounterChanges(m) ==
    /\ \E v \in Totals \ {counter[m]} : counter' = [counter EXCEPT ![m] = v]
    /\ UNCHANGED <<history, saveVars, calcVars>>

-----------------------------------------------------------------------------
(* Save: start_save, StreamingData, the waiter. *)

\* db_save_batch: MAX(batch_id) + 1.
NewBatch == IF Present = {} THEN 1 ELSE Max(Present) + 1

\* start_save: the exchange of `saving`, the placeholders, the threads.
ClickSave ==
    /\ ~saving /\ NewBatch <= MaxBatch
    /\ saving' = TRUE
    /\ items' = [m \in Machines |-> Loading]
    /\ remaining' = Cardinality(Machines)
    /\ loading' = TRUE
    /\ thread' = [m \in Machines |-> "fetch"]
    /\ got' = Empty
    /\ waiter' = "poll"
    /\ UNCHANGED <<counter, history, results, calcVars>>

\* CncConnection::fetch; an entry whose fetch failed stays as it was built.
Fetch(m) ==
    /\ thread[m] = "fetch"
    /\ got' = [got EXCEPT ![m] = counter[m]]
    /\ thread' = [thread EXCEPT ![m] = "push"]
    /\ UNCHANGED <<counter, history, saving, items, remaining, loading, waiter, results, calcVars>>

\* push: the item, under the lock.
Push(m) ==
    /\ thread[m] = "push"
    /\ items' = [items EXCEPT ![m] = got[m]]
    /\ thread' = [thread EXCEPT ![m] = "count"]
    /\ UNCHANGED <<counter, history, saving, got, remaining, loading, waiter, results, calcVars>>

\* Mutant: the comparison is off by one.
CountLate(m) ==
    /\ thread[m] = "count"
    /\ remaining' = remaining - 1
    /\ loading' = (loading /\ remaining > 0)
    /\ thread' = [thread EXCEPT ![m] = "done"]
    /\ UNCHANGED <<counter, history, saving, got, items, waiter, results, calcVars>>

\* push: then remaining_, and the last one ends the loading.
Count(m) ==
    /\ thread[m] = "count"
    /\ remaining' = remaining - 1
    /\ loading' = (loading /\ remaining > 1)
    /\ thread' = [thread EXCEPT ![m] = "done"]
    /\ UNCHANGED <<counter, history, saving, got, items, waiter, results, calcVars>>

\* Mutant: the waiter stops polling one machine too early.
CollectEarly ==
    /\ waiter = "poll" /\ remaining <= 1
    /\ results' = items
    /\ waiter' = "store"
    /\ UNCHANGED <<counter, history, saving, thread, got, items, remaining, loading, calcVars>>

\* The waiter finds that nothing is loading any more and copies the items.
Collect ==
    /\ waiter = "poll" /\ ~loading
    /\ results' = items
    /\ waiter' = "store"
    /\ UNCHANGED <<counter, history, saving, thread, got, items, remaining, loading, calcVars>>

\* Database::save_batch, db_save_batch: the rows one by one, each in a
\* transaction of its own; a row that cannot be inserted is passed over. A row
\* does not say whether its entry was loaded, or ok.
SaveBatch ==
    \E stored \in SUBSET Machines :
        history' = [history EXCEPT ![NewBatch] =
                      [m \in Machines |-> IF m \notin stored THEN NoRow
                                          ELSE IF results[m] = Loading THEN Failed
                                          ELSE results[m]]]

Store ==
    /\ waiter = "store"
    /\ SaveBatch
    /\ waiter' = "idle"
    /\ results' = Empty
    /\ saving' = FALSE
    \* the stream keeps its items, nobody looks at them any more
    /\ items' = Empty /\ got' = Empty /\ thread' = [m \in Machines |-> "idle"]
    /\ UNCHANGED <<counter, remaining, loading, calcVars>>

-----------------------------------------------------------------------------
(* Browse. *)

DeleteBatch(b) ==
    /\ b \in Present
    /\ history' = [history EXCEPT ![b] = Empty]
    /\ UNCHANGED <<counter, saveVars, calcVars>>

DeleteEntry(b, m) ==
    /\ history[b][m] # NoRow
    /\ history' = [history EXCEPT ![b][m] = NoRow]
    /\ UNCHANGED <<counter, saveVars, calcVars>>

UpdateEntry(b, m) ==
    /\ history[b][m] # NoRow
    /\ \E v \in Totals : history' = [history EXCEPT ![b][m] = v]
    /\ UNCHANGED <<counter, saveVars, calcVars>>

-----------------------------------------------------------------------------
(* Calculate: compute_diff. *)

\* What a thread compares: the start total, and the machine or the end batch.
Task == [m : Machines, base : Totals \cup {NoRow}, end : Totals \cup {NoRow, Loading}]

TaskOf(m, b, e) ==
    [m |-> m, base |-> history[b][m], end |-> IF e = Live THEN Loading ELSE history[e][m]]

\* Mutant: the button is not disabled while threads of the last one run.
ClickCalcAgain(b, e) ==
    /\ b \in Present /\ e \in Present \cup {Live}
    /\ base' = history[b]
    /\ tasks' = tasks \cup {TaskOf(m, b, e) : m \in Machines}
    /\ shown' = [m \in Machines |-> "loading"]
    /\ UNCHANGED <<counter, history, saveVars>>

\* The button is disabled while calc_stream.is_loading().
ClickCalc(b, e) ==
    /\ tasks = {}
    /\ b \in Present /\ e \in Present \cup {Live}
    /\ base' = history[b]
    /\ tasks' = {TaskOf(m, b, e) : m \in Machines}
    /\ shown' = [m \in Machines |-> "loading"]
    /\ UNCHANGED <<counter, history, saveVars>>

Judge(from, to) ==
    CASE from = NoRow -> "no base"
      [] from # NoRow /\ to = NoRow -> "no end"
      [] from # NoRow /\ to # NoRow /\ to < from -> "less"
      [] from # NoRow /\ to # NoRow /\ to = from -> "same"
      [] from # NoRow /\ to # NoRow /\ to > from -> "more"

\* A live machine that does not answer has no end value.
EndOf(t) ==
    IF t.end # Loading THEN t.end
    ELSE IF counter[t.m] = Failed THEN NoRow ELSE counter[t.m]

Calculate(t) ==
    /\ t \in tasks
    /\ shown' = [shown EXCEPT ![t.m] = Judge(t.base, EndOf(t))]
    /\ tasks' = tasks \ {t}
    /\ UNCHANGED <<counter, history, saveVars, base>>

-----------------------------------------------------------------------------

Init ==
    /\ counter \in [Machines -> Totals]
    /\ history = [b \in Batches |-> Empty]
    /\ saving = FALSE
    /\ thread = [m \in Machines |-> "idle"]
    /\ got = Empty /\ items = Empty /\ results = Empty
    /\ remaining = 0 /\ loading = FALSE
    /\ waiter = "idle"
    /\ base = Empty /\ tasks = {}
    /\ shown = [m \in Machines |-> "none"]

Threads ==
    \/ \E m \in Machines : Fetch(m) \/ Push(m) \/ Count(m)
    \/ Collect \/ Store
    \/ \E t \in tasks : Calculate(t)

User ==
    \/ ClickSave
    \/ \E b \in Batches, e \in Batches \cup {Live} : ClickCalc(b, e)
    \/ \E b \in Batches : DeleteBatch(b)
    \/ \E b \in Batches, m \in Machines : DeleteEntry(b, m) \/ UpdateEntry(b, m)

Next == Threads \/ User \/ \E m \in Machines : CounterChanges(m)

Spec == Init /\ [][Next]_vars

\* Every thread runs, and a fetch comes to an end (FOCAS calls time out).
FairSpec ==
    /\ Spec
    /\ \A m \in Machines : WF_vars(Fetch(m) \/ Push(m) \/ Count(m))
    /\ WF_vars(Collect \/ Store)
    /\ WF_vars(\E t \in tasks : Calculate(t))

-----------------------------------------------------------------------------
(* Properties. *)

\* Types; `saving` is set exactly as long as there is a waiter (start_save).
TypeOK ==
    /\ counter \in [Machines -> Totals]
    /\ history \in [Batches -> [Machines -> Totals \cup {NoRow}]]
    /\ saving = (waiter # "idle") /\ waiter \in {"idle", "poll", "store"}
    /\ remaining \in Int /\ loading \in BOOLEAN
    /\ thread \in [Machines -> {"idle", "fetch", "push", "count", "done"}]
    /\ got \in [Machines -> Totals \cup {NoRow}]
    /\ items \in [Machines -> Totals \cup {NoRow, Loading}]
    /\ results \in [Machines -> Totals \cup {NoRow, Loading}]
    /\ base \in [Machines -> Totals \cup {NoRow}]
    /\ tasks \subseteq Task
    /\ shown \in [Machines -> Verdict]

\* A batch is what its own threads have fetched: no placeholder of a thread that
\* is still busy is stored, however the threads, the counter of those that remain
\* and the polling waiter interleave (StreamingData::push, start_save).
SavedIsFetched ==
    [][Store => \A m \in Machines :
                   history'[NewBatch][m] # NoRow => history'[NewBatch][m] = got[m]]_vars

\* The verdicts on the page belong to the batch that was chosen last, not to one
\* that was chosen while threads of an earlier calculation were still running.
VerdictIsOfChosen ==
    \A m \in Machines :
        /\ shown[m] = "no base" => base[m] = NoRow
        /\ shown[m] \in {"more", "less", "same", "no end"} => base[m] # NoRow
        /\ shown[m] = "less" => base[m] > 0

\* Every save comes to its end: the button is enabled again.
SaveEnds == saving ~> ~saving

=============================================================================
