---------------------------- MODULE StatsAlarms ----------------------------
(***************************************************************************)
(* The alarm history of the statistics database: sync_alarms of            *)
(* src/mtconnect_collect/tools/mtc_stats.cpp over the alarms table of      *)
(* src/mtconnect_collect/src/db/stats_db.cpp, in the SQLite backend.       *)
(*                                                                         *)
(* Every statement commits by itself, and none waits for a lock (db.cpp    *)
(* sets no busy time-out), so while another process uses the file a        *)
(* statement may fail with SQLITE_BUSY and change nothing.  flush wraps    *)
(* the samples in BEGIN .. COMMIT; a COMMIT that is BUSY leaves the        *)
(* transaction open: the statements after it cannot be BUSY, and reach the *)
(* file with a later COMMIT or not at all.                                 *)
(*                                                                         *)
(* Simplifications: an Item stands for a (machine, condition item) pair;   *)
(* state and type columns are left out; rows of samples are not kept.      *)
(***************************************************************************)
EXTENDS Integers, FiniteSets

CONSTANTS
    Items,      \* (machine, condition item) pairs
    Retention,  \* --prune-days, in ticks of the clock
    MaxClock    \* bound: how far the clock goes

ASSUME AlarmAssumption ==
    Retention \in Nat /\ MaxClock \in Nat \ {0}

VARIABLES
    clock,        \* time(nullptr), as the round read it
    raised,       \* items whose condition is active in `states`
    pc,           \* where the collector stands
    todo,         \* items the running phase of sync_alarms has not reached
    activeAlarms, \* the in-memory set of items believed to have an open row
    rows,         \* the alarms table as the collector's connection sees it
    disk,         \* the alarms table as last committed
    inTx,         \* a transaction was left open by a failed COMMIT
    forgotten,    \* history: items whose open row nobody will close, because
                  \* its alarm_clear or the seeding read failed
    missed        \* history: items the running sync could not record

vars == <<clock, raised, pc, todo, activeAlarms, rows, disk, inTx, forgotten, missed>>

None == 0  \* NULL in end_ts

Row == {r \in [item : Items, first : 1..MaxClock, last : 1..MaxClock,
               end : {None} \cup (1..MaxClock), active : BOOLEAN] :
          r.first <= r.last /\ (r.active <=> r.end = None)}

Open(table, i) == {r \in table : r.item = i /\ r.active}

-----------------------------------------------------------------------------
(* The connection. *)

\* A statement that succeeds; outside a transaction it commits by itself.
Write(table) ==
    /\ rows' = table
    /\ disk' = IF inTx THEN disk ELSE table
    /\ UNCHANGED inTx

\* A statement that fails with SQLITE_BUSY.
Busy == ~inTx /\ UNCHANGED <<rows, disk, inTx>>

CommitOk   == inTx' = FALSE /\ disk' = rows /\ UNCHANGED rows
CommitBusy == inTx' = TRUE /\ UNCHANGED <<rows, disk>>

\* Mutant: flush gives up when BEGIN fails because a transaction is open.
FlushUnlessOpen ==
    IF inTx THEN UNCHANGED <<rows, disk, inTx>> ELSE CommitOk \/ CommitBusy

\* flush: BEGIN (an error is ignored), the samples, COMMIT (as well).
Flush == CommitOk \/ CommitBusy

-----------------------------------------------------------------------------
(* The collector. *)

\* Mutant: the open alarms of the last run are not read back.
SeedSkipped == activeAlarms' = {} /\ forgotten' = {}

\* seed_active_alarms: the items with an open row. A read that is BUSY seeds
\* nothing.
Seed ==
    LET open == {i \in Items : Open(rows, i) # {}}
    IN  \/ activeAlarms' = open /\ forgotten' = {}
        \/ activeAlarms' = {} /\ forgotten' = open

\* Process start: the items with an open row are read back; the mandatory
\* snapshot follows, see Round.
StartStream ==
    /\ pc = "down"
    /\ Seed
    /\ pc' = "seeded"
    /\ UNCHANGED <<clock, raised, todo, rows, disk, inTx, missed>>

\* A round that got an answer (or the first snapshot): new states, one reading
\* of the clock, the samples, then sync_alarms starts.
Round ==
    /\ pc \in {"seeded", "idle"}
    /\ clock' \in clock..MaxClock
    /\ raised' \in SUBSET Items
    /\ Flush
    /\ pc' = "raising"
    /\ todo' = raised'
    /\ missed' = {}
    /\ UNCHANGED <<activeAlarms, forgotten>>

\* A failed round whose snapshot succeeds: new states are flushed, alarms are
\* not looked at.
Resnapshot ==
    /\ pc = "idle"
    /\ clock' \in clock..MaxClock
    /\ raised' \in SUBSET Items
    /\ Flush
    /\ UNCHANGED <<pc, todo, activeAlarms, forgotten, missed>>

\* alarm_upsert, its UPDATE: every open row of the item is refreshed.
RefreshRow(i) ==
    /\ Open(rows, i) # {}
    /\ Write({IF r.item = i /\ r.active THEN [r EXCEPT !.last = clock] ELSE r : r \in rows})

NewRow(i) == [item |-> i, first |-> clock, last |-> clock, end |-> None, active |-> TRUE]

\* Mutant: INSERT OR REPLACE, as for the samples.
InsertRowReplacing(i) ==
    \/ Write({r \in rows : ~(r.item = i /\ r.first = clock)} \cup {NewRow(i)})
    \/ Busy

\* alarm_upsert, its INSERT: the key (machine, item_id, first_ts) may be taken.
InsertRow(i) ==
    \/ (\A r \in rows : ~(r.item = i /\ r.first = clock)) /\ Write(rows \cup {NewRow(i)})
    \/ (\E r \in rows : r.item = i /\ r.first = clock) /\ UNCHANGED <<rows, disk, inTx>>
    \/ Busy

\* One item of the first loop of sync_alarms: UPDATE, and INSERT when the UPDATE
\* matched no row or failed.
Upsert(i) ==
    /\ pc = "raising" /\ i \in todo
    /\ \/ RefreshRow(i)
       \/ (Open(rows, i) = {} \/ ~inTx) /\ InsertRow(i)
    /\ todo' = todo \ {i}
    /\ activeAlarms' = activeAlarms \cup {i}
    /\ forgotten' = forgotten \ {i}
    /\ missed' = IF Open(rows', i) = {} THEN missed \cup {i} ELSE missed
    /\ UNCHANGED <<clock, raised, pc>>

RaisingDone ==
    /\ pc = "raising" /\ todo = {}
    /\ pc' = "clearing"
    /\ todo' = activeAlarms \ raised
    /\ UNCHANGED <<clock, raised, activeAlarms, rows, disk, inTx, forgotten, missed>>

\* alarm_clear.
CloseRows(i) ==
    Write({IF r.item = i /\ r.active
           THEN [r EXCEPT !.active = FALSE, !.end = clock, !.last = clock] ELSE r : r \in rows})

\* One item of the second loop of sync_alarms: it is dropped from activeAlarms
\* whether or not alarm_clear succeeded.
Clear(i) ==
    /\ pc = "clearing" /\ i \in todo
    /\ \/ CloseRows(i) /\ UNCHANGED forgotten
       \/ Busy /\ forgotten' = IF Open(rows, i) = {} THEN forgotten ELSE forgotten \cup {i}
    /\ todo' = todo \ {i}
    /\ activeAlarms' = activeAlarms \ {i}
    /\ UNCHANGED <<clock, raised, pc, missed>>

ClearingDone ==
    /\ pc = "clearing" /\ todo = {}
    /\ pc' = "synced"
    /\ UNCHANGED <<clock, raised, todo, activeAlarms, rows, disk, inTx, forgotten, missed>>

\* prune_alarms (hourly in the stream, or `mtc_stats prune` in a process of its
\* own, which cannot write while the collector's transaction is open).
Prune ==
    /\ pc = "synced" \/ ~inTx
    /\ Write({r \in rows : r.active \/ r.end >= clock - Retention})
    /\ UNCHANGED <<clock, raised, pc, todo, activeAlarms, forgotten, missed>>

EndRound ==
    /\ pc = "synced"
    /\ pc' = "idle"
    /\ UNCHANGED <<clock, raised, todo, activeAlarms, rows, disk, inTx, forgotten, missed>>

\* The process is stopped or crashes: an open transaction is rolled back.
StopStream ==
    /\ pc # "down"
    /\ pc' = "down"
    /\ rows' = disk
    /\ inTx' = FALSE
    /\ todo' = {} /\ activeAlarms' = {} /\ forgotten' = {} /\ missed' = {}
    /\ UNCHANGED <<clock, raised, disk>>

-----------------------------------------------------------------------------

Init ==
    /\ clock = 1
    /\ raised = {}
    /\ pc = "down"
    /\ todo = {} /\ activeAlarms = {}
    /\ rows = {} /\ disk = {}
    /\ inTx = FALSE
    /\ forgotten = {} /\ missed = {}

Collector ==
    \/ StartStream
    \/ Round
    \/ Resnapshot
    \/ \E i \in Items : Upsert(i)
    \/ RaisingDone
    \/ \E i \in Items : Clear(i)
    \/ ClearingDone
    \/ EndRound

Next == Collector \/ Prune \/ StopStream

Spec == Init /\ [][Next]_vars

\* The loop goes on, and the processes that read the file do not hold their
\* locks at every COMMIT for ever.
FairSpec ==
    /\ Spec
    /\ WF_vars(Collector)
    /\ SF_vars((Round \/ Resnapshot) /\ CommitOk)

-----------------------------------------------------------------------------
(* Properties. *)

\* Types; a row is active exactly when it has no end (the statements of stats_db.cpp).
TypeOK ==
    /\ clock \in 1..MaxClock
    /\ raised \in SUBSET Items
    /\ pc \in {"down", "seeded", "raising", "clearing", "synced", "idle"}
    /\ todo \in SUBSET Items
    /\ activeAlarms \in SUBSET Items
    /\ rows \in SUBSET Row
    /\ disk \in SUBSET Row
    /\ inTx \in BOOLEAN
    /\ forgotten \in SUBSET Items
    /\ missed \in SUBSET Items

\* After a sync the table says exactly which alarms are active, up to the
\* statements that failed: an open row without an alarm is one whose own clear
\* (or the seeding read of this process) was BUSY, an alarm without an open row
\* one whose INSERT was refused in this very round. In particular a restart
\* closes what ended while the collector was down, and a failed INSERT is made
\* up for by the next round.
SyncIsExact ==
    pc = "synced" =>
        /\ \A i \in Items \ raised : Open(rows, i) # {} => i \in forgotten
        /\ \A i \in raised : Open(rows, i) = {} => i \in missed

\* A closed occurrence that has reached the file is history: no later alarm of
\* the same item, not even one that comes and goes within a second, no retry and
\* no crash changes or removes its row; only retention does.
ClosedRowsAreHistory ==
    [][\A r \in disk : (~r.active /\ r.end >= clock - Retention) => r \in disk']_vars

\* A collector that keeps running does not keep its data in an open
\* transaction: a COMMIT that failed is made up for by the COMMIT of a later
\* round, although the BEGIN of that round fails.
OpenTransactionEnds == []<>(pc = "down" \/ ~inTx)

\* What the file holds is an AlarmLog: whatever fails, its readers see occurrences
\* that begin under a new key, are seen again, end once and stay until retention -
\* several steps at once when a transaction was left open.
Log == INSTANCE AlarmLog WITH now <- clock, log <- disk
ImplementsAlarmLog == Log!Spec

=============================================================================
