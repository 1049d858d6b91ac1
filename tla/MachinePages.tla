---------------------------- MODULE MachinePages ----------------------------
(***************************************************************************)
(* The GUI's pages that read machines: the detail of one (MachineDetail,   *)
(* AsyncData), the overview of all (Overview, StreamingData) and the list  *)
(* of machines (MachineMgr).  The UI thread draws the page that is open    *)
(* and handles its clicks; each reading is done by a thread of its own,    *)
(* and the two meet in loading_, loaded_ and the data.                     *)
(*                                                                         *)
(* A frame of the detail page asks loading_ and loaded_ one after the      *)
(* other, and resets and starts a fetch in two calls: the threads go on    *)
(* between any two of them.                                                *)
(*                                                                         *)
(* Simplifications: reset() and start() are one step each, since a thread  *)
(* that sets loaded_ or loading_ within them might as well have done it    *)
(* before or after; what a reading says is whose it is; a machine is its   *)
(* id, which is never used again; in which order the overview lists the    *)
(* machines makes no difference.                                           *)
(***************************************************************************)
EXTENDS Integers, Sequences, FiniteSets, FiniteSetsExt, SequencesExt

CONSTANTS
    Ids,      \* bound: machines that are ever added
    Threads,  \* bound: fetches of the detail page at one time
    Overlaps  \* bound: refreshes of the overview at one time

ASSUME MachinePagesAssumption == Ids \subseteq Nat \ {0} /\ Threads # {} /\ Overlaps \subseteq Nat

VARIABLES
    machines,  \* table machines
    added,     \* the last id it has given (AUTOINCREMENT)
    page,      \* AppState.current_page
    selected,  \* AppState.selected_machine_id
    \* MachineDetailVm and its AsyncData
    current, data, loading, loaded, threads,
    \* OverviewVm and its StreamingData: items, remaining_, loading_, and the jthreads
    items, remaining, busy, workers,
    \* the detail page's frame: where it stands, and its machine_id
    frame, drawn,
    \* history: a Refresh has overlapped a fetch that is still to be seen; the last
    \* fetch did not find its machine; a fetch ended between two looks at loading_
    hurried, missed, ended

asyncVars    == <<current, data, loading, loaded, threads, hurried, missed>>
detailVars   == <<asyncVars, frame, drawn, ended>>
overviewVars == <<items, remaining, busy, workers>>
appVars      == <<machines, added, page, selected>>
pagesVars == <<appVars, detailVars, overviewVars>>

\* T{}: neither a machine's data nor an error.
Empty == 0

Idle == [of |-> 0, at |-> "idle"]
Running == {t \in Threads : threads[t] # Idle}

-----------------------------------------------------------------------------
(* AsyncData and MachineDetailVm. *)

\* get_machine finds the machine, unless it was deleted or the database fails.
Found(id) == id \in machines

\* data.reset().
Reset(hurry) ==
    /\ data' = Empty /\ loaded' = FALSE /\ loading' = FALSE
    /\ hurried' = (hurry /\ Running # {})

\* fetch of a machine that is found; start: the flags again, and a thread.
Start(id) ==
    /\ Found(id) /\ ~loading /\ Threads \ Running # {}
    /\ threads' = [threads EXCEPT ![CHOOSE t \in Threads \ Running : TRUE] = [of |-> id, at |-> "fetch"]]
    /\ current' = id
    /\ loaded' = FALSE /\ loading' = TRUE
    /\ missed' = FALSE
    /\ UNCHANGED <<data, hurried>>

\* fetch, and get_machine fails: there is nothing but the reset.
StartNot ==
    /\ missed' = TRUE
    /\ UNCHANGED <<current, data, loaded, loading, threads, hurried>>

\* The thread: CncConnection::fetch has answered or failed, under the lock of data_,
\* which a frame holds while it renders.
Stores(t) ==
    /\ threads[t].at = "fetch" /\ frame # "render"
    /\ data' = threads[t].of
    /\ threads' = [threads EXCEPT ![t].at = "loaded"]
    /\ UNCHANGED <<appVars, overviewVars, current, loading, loaded, frame, drawn, hurried, missed, ended>>

SetsLoaded(t) ==
    /\ threads[t].at = "loaded"
    /\ loaded' = TRUE
    /\ threads' = [threads EXCEPT ![t].at = "loading"]
    /\ UNCHANGED <<appVars, overviewVars, current, data, loading, frame, drawn, hurried, missed, ended>>

\* Mutant: a thread that a Refresh has overtaken leaves loading_ to the other one.
ClearsLoadingLeaving(t) ==
    /\ threads[t].at = "loading"
    /\ loading' = (loading /\ hurried)
    /\ threads' = [threads EXCEPT ![t] = Idle]
    /\ ended' = (ended \/ frame = "loading")
    /\ UNCHANGED <<appVars, overviewVars, current, data, loaded, frame, drawn, hurried, missed>>

ClearsLoading(t) ==
    /\ threads[t].at = "loading"
    /\ loading' = FALSE
    /\ threads' = [threads EXCEPT ![t] = Idle]
    /\ ended' = (ended \/ frame = "loading")
    /\ UNCHANGED <<appVars, overviewVars, current, data, loaded, frame, drawn, hurried, missed>>

Thread(t) == Stores(t) \/ SetsLoaded(t) \/ ClearsLoading(t)

-----------------------------------------------------------------------------
(* The detail page. *)

\* Mutant: the new machine is fetched although another is being read.
FetchesAtOnce(id) == id # current

\* draw: another machine has been selected, and no fetch is under way.
NeedsFetch(id) == id # current /\ ~loading

\* The UI thread is not within a frame of the detail page.
Between == frame = "between"
Ends    == frame' = "between" /\ drawn' = 0 /\ ended' = FALSE

\* A frame begins with the machine that is selected then.
Draw ==
    /\ Between /\ page = "detail" /\ selected # 0
    /\ drawn' = selected /\ frame' = "check"
    /\ UNCHANGED <<appVars, overviewVars, asyncVars, ended>>

\* draw: the fetch of another machine. What comes after a fetch depends on the call.
LooksCurrent ==
    /\ frame = "check"
    /\ IF NeedsFetch(drawn)
       THEN current' = drawn /\ Reset(hurried) /\ frame' = "fetching" /\ UNCHANGED <<threads, missed>>
       ELSE frame' = "loading" /\ UNCHANGED asyncVars
    /\ UNCHANGED <<appVars, overviewVars, drawn, ended>>

Fetch ==
    /\ \/ frame = "refreshing" /\ frame' = "check" /\ UNCHANGED <<drawn, ended>>
       \/ frame = "fetching" /\ frame' = "loading" /\ UNCHANGED <<drawn, ended>>
       \/ frame = "retrying" /\ Ends
    /\ Start(drawn) \/ StartNot
    /\ UNCHANGED <<appVars, overviewVars>>

\* draw: is_loading and is_loaded.
LooksLoading ==
    /\ frame = "loading"
    /\ IF loading THEN Ends ELSE frame' = "loaded" /\ UNCHANGED <<drawn, ended>>
    /\ UNCHANGED <<appVars, overviewVars, asyncVars>>

LooksLoaded ==
    /\ frame = "loaded"
    /\ IF loaded THEN frame' = "render" /\ UNCHANGED <<drawn, ended>> ELSE Ends
    /\ UNCHANGED <<appVars, overviewVars, asyncVars>>

Rendered ==
    /\ frame = "render"
    /\ Ends
    /\ UNCHANGED <<appVars, overviewVars, asyncVars>>

Frame == Draw \/ LooksCurrent \/ Fetch \/ LooksLoading \/ LooksLoaded \/ Rendered

\* The buttons "refresh" at the top, and "connect again" under an error: neither looks
\* whether a fetch is under way.
Refresh ==
    /\ \/ Between /\ page = "detail" /\ selected # 0 /\ drawn' = selected /\ frame' = "refreshing"
       \/ frame = "render" /\ frame' = "retrying" /\ UNCHANGED drawn
    /\ Reset(TRUE)
    /\ UNCHANGED <<appVars, overviewVars, current, threads, missed, ended>>

-----------------------------------------------------------------------------
(* The overview. *)

Item(m) == [machine |-> m, of |-> 0, loading |-> TRUE]

\* Mutant: the button does not look whether a refresh is under way.
MayRefreshAlways == TRUE

\* OverviewPage::draw.
MayRefresh == ~busy

\* OverviewVm::refresh, streaming_fetch_update: placeholders and a thread per machine.
RefreshOverview ==
    /\ Between /\ page = "overview" /\ MayRefresh
    /\ \E round \in Overlaps \ {w.round : w \in workers} :
          LET list == SetToSeq(machines)
          IN  /\ items' = [i \in 1..Len(list) |-> Item(list[i])]
              /\ remaining' = Len(list)
              /\ busy' = (list # <<>>)
              /\ workers' = workers \cup
                    {[index |-> i, machine |-> list[i], round |-> round, at |-> "fetch"] : i \in 1..Len(list)}
    /\ UNCHANGED <<appVars, detailVars>>

\* push: the item, if the list has it.
Push(w) ==
    /\ w \in workers /\ w.at = "fetch"
    /\ IF w.index <= Len(items)
       THEN /\ items' = [items EXCEPT ![w.index] = [machine |-> w.machine, of |-> w.machine, loading |-> FALSE]]
            /\ workers' = (workers \ {w}) \cup {[w EXCEPT !.at = "count"]}
       ELSE workers' = workers \ {w} /\ UNCHANGED items
    /\ UNCHANGED <<appVars, detailVars, remaining, busy>>

\* push: the last one clears loading_.
Count(w) ==
    /\ w \in workers /\ w.at = "count"
    /\ remaining' = remaining - 1
    /\ busy' = (busy /\ remaining > 1)
    /\ workers' = workers \ {w}
    /\ UNCHANGED <<appVars, detailVars, items>>

-----------------------------------------------------------------------------
(* Moving about, and the list of machines. *)

Navigate ==
    /\ Between
    /\ page' \in {"overview", "detail", "machines"}
    /\ UNCHANGED <<machines, added, selected, detailVars, overviewVars>>

\* select_machine: from the combo of the detail page, whose frame goes on with the
\* machine it began with, or a row of the overview, which may be of a machine that has
\* been deleted.
Select(id) ==
    /\ Between
    /\ \/ /\ page = "detail" /\ id \in machines
          /\ IF selected # 0 THEN drawn' = selected /\ frame' = "check" ELSE UNCHANGED <<drawn, frame>>
       \/ /\ page = "overview" /\ \E i \in 1..Len(items) : items[i].machine = id
          /\ UNCHANGED <<drawn, frame>>
    /\ selected' = id /\ page' = "detail"
    /\ UNCHANGED <<machines, added, asyncVars, ended, overviewVars>>

Add ==
    /\ Between /\ page = "machines" /\ added + 1 \in Ids
    /\ added' = added + 1 /\ machines' = machines \cup {added'}
    /\ UNCHANGED <<page, selected, detailVars, overviewVars>>

\* db_delete_machine: the history and the pages keep what they have.
Delete(id) ==
    /\ Between /\ page = "machines" /\ id \in machines
    /\ machines' = machines \ {id}
    /\ UNCHANGED <<added, page, selected, detailVars, overviewVars>>

PagesInit ==
    /\ machines = {} /\ added = 0 /\ page = "overview" /\ selected = 0
    /\ current = 0 /\ data = Empty /\ loading = FALSE /\ loaded = FALSE
    /\ threads = [t \in Threads |-> Idle]
    /\ items = <<>> /\ remaining = 0 /\ busy = FALSE /\ workers = {}
    /\ frame = "between" /\ drawn = 0
    /\ hurried = FALSE /\ missed = FALSE /\ ended = FALSE

Clicks == Navigate \/ Refresh \/ RefreshOverview \/ Add \/ \E id \in Ids : Select(id) \/ Delete(id)

PagesNext ==
    \/ Frame \/ Clicks
    \/ \E t \in Threads : Thread(t)
    \/ \E w \in workers : Push(w) \/ Count(w)

PagesSpec == PagesInit /\ [][PagesNext]_pagesVars

\* Frames are drawn, and every reading ends: FOCAS calls have a timeout.
PagesFairSpec ==
    /\ PagesSpec
    /\ WF_pagesVars(Frame)
    /\ \A t \in Threads : WF_pagesVars(Thread(t))
    /\ WF_pagesVars(\E w \in workers : Push(w) \/ Count(w))

-----------------------------------------------------------------------------
(* Properties. *)

\* What a frame renders, with its machine's name, is that machine's data, whatever
\* machines are selected or deleted while others are read - unless a Refresh came
\* before an earlier fetch had ended, which the first fetch after all have ended puts
\* right, or the fetch of the machine shown before ended while this frame asked for
\* is_loading twice: then it is that machine's.
ShownIsOfMachine ==
    frame = "render" => (hurried \/ data = current) /\ (ended \/ drawn = current)

\* A row of the overview says what its own machine has answered in the last refresh,
\* and the overview is not done before every machine has, though machines are deleted
\* meanwhile.
RowsAreOwn ==
    /\ \A i \in 1..Len(items) : items[i].of \in {0, items[i].machine}
    /\ ~busy => \A i \in 1..Len(items) : ~items[i].loading
    /\ \A w \in workers : w.index <= Len(items) /\ items[w.index].machine = w.machine

\* Whoever opens a machine's page and waits sees data again and again, after a Refresh
\* that overlapped a fetch too, unless the machine could not be found when it was to be
\* read; a refresh of the overview ends.
WaitingShows ==
    /\ <>[](page = "detail" /\ selected # 0 /\ ~missed)
        => []<>(frame = "render" /\ drawn = selected) \/ []<><<Clicks>>_pagesVars
    /\ busy ~> ~busy

=============================================================================
