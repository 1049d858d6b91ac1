# Verification of cncConnect

TLA+ models of the programs in this repository, the TLC runs that check them,
and theorems about them that TLAPS has proved.

The repository holds two products that watch CNC machines:

* **`mtconnect_collect/`** — SHDR adapters (FANUC, Mazak) feed the MTConnect
  agent; `mtc_stats` collects from the agent over HTTP into SQLite and sends
  webhook notices; a web server and a web page show the statistics; `mtc_ctl`
  starts and stops it all; `genconfig` writes the configuration; simulators
  stand in for the machines.
* **`src/`** — the FOCAS product: a resident sampler (`cnc_sampler`), an ImGui
  desktop program and command line tools, on top of `db_ops` (SQLite) and
  `cnc_ops`/`mazak_ops` (the controllers).

Paths below are relative to the repository; `mtc_stats.cpp` is
`mtconnect_collect/tools/mtc_stats.cpp`.

## 1. Inventory

```
 controller --FOCAS/TCP--> adapter --SHDR--> agent --HTTP--> mtc_stats --SQLite--> web server --> page
                             ^ PING/PONG                       |  \--> webhook
                             |                                 |
                  several agents may connect            mtc_ctl starts, kills

 controller --FOCAS/TCP--> cnc_sampler --SQLite (WAL)--> desktop program (UI thread + detached threads)
                                \--hourly--> archive files
```

| Component | State | Operations | What is hard | What makes it correct |
|---|---|---|---|---|
| stream collector (`mtc_stats stream`, `poll`) | `states`, `seq`, `instanceId`; `samples`, `stream_state` | snapshot, one `/sample` request per round, flush | blocks are applied while the answer is still being read; breaks, time-outs, a moving buffer, agent restarts | behind only by what was lost; writes one cut; converges |
| alarm history (`sync_alarms`) | `activeAlarms`; table `alarms` | seed, upsert, clear, prune | SQLITE_BUSY at any statement, a COMMIT that stays open, kills | the open rows are the active alarms; history is never rewritten |
| alerts (`AlertTracker`) | `offlineSince`, `lastOfflineAlert`, link | `check` after every round | machines that vanish and return, lost notices, several in one second | the maps follow `states`; the operator is told |
| SHDR adapter framework | clients, heartbeats, `mChanged`, `mHasValue` | accept, initial data, read, gather, send changed | clients come and go in mid-pass; initial data go to all | no agent keeps an old value |
| FANUC, Mazak adapters | connection; conditions, `mActiveConditions`; program, comment, time of the next retry | connect, gather, disconnect | a reading that fails in mid-round; alarms that come and go between its calls; a clock that wraps | an outage is reported; a standing alarm is shown and an ended one cleared; a comment is its own program's |
| sampler (`cnc_sampler`) | connection, backoff, `machine_samples`, `machine_latest`, archive files | connect, sample, archive | silent loss of a connection, two writes per sample, kills inside the archiving | rows neither lost nor doubled; old rows leave; latest catches up |
| GUI history | `history` table; `StreamingData` of a save and of a calculation | save, browse, edit, delete, calculate | threads of a fetch, the polling waiter, clicks in between | a batch is what was fetched; verdicts belong to the batch chosen |
| reports, web server, GUI statistics | none (queries over `samples`) | summary, buckets, shifts, products, running times | neighbouring samples, gaps, resets, pruned rows, changes of the program comment | no more than was made; the views of one range add up; a part is in one shift |
| service console (`mtc_ctl`), Windows service | processes | start, stop, poll, web, service main | a snapshot of processes that ages; ignored results of spawn | one collector per database; stop leaves none |
| simulators (`cnc_sim`) | simulated machine | remote commands, automatic cycle | commands in mid-cycle | no motion in an emergency stop; only whole parts are counted |
| GUI detail, overview, machine list | `AsyncData`, `StreamingData`, list of machines | select, fetch, refresh, add, delete | an older thread ends last; machines change under a refresh | data shown are of the machine shown |
| configuration, genconfig, CLI tools, web page, MySQL backend, third-party code | none of their own | — | — | — |

`PROJECT.json` lists every component with its sources and status, and the
hazards of the code at the lines where they bite.

## 2. Modules

| Module | Models | Proofs |
|---|---|---|
| `StatsStream` (+ `MCStatsStream`) | the stream collector against an agent that numbers, buffers, hangs and restarts | `StatsStreamProofs` |
| `StatsAlarms` | `sync_alarms`, `flush`'s transaction, pruning, over SQLite | `StatsAlarmsProofs` |
| `AlarmLog` | abstract: what the `alarms` table promises its readers; implemented by `StatsAlarms` | in `StatsAlarmsProofs` |
| `AlertTracker` | `Notifier`, `AlertTracker::check` | `OperatorProofs` |
| `ShdrAdapter` | `Adapter::startServer`, `Server`, the data, both sources | `AdapterProofs` |
| `FanucConditions` (+ `MCFanucConditions`) | `getCondition`, `mActiveConditions`, `getHeader` with its retry | `FanucConditionsProofs` |
| `CncSampler` | the sampler's loop with `db_add_sample`, `db_upsert_latest`, the archive | `CncSamplerProofs` |
| `RowArchive` | abstract: what `machine_samples` and its archive promise together; implemented by `CncSampler` | in `CncSamplerProofs` |
| `History` | `HistoryVm`, `StreamingData`, the history table, the three pages | `HistoryProofs` |
| `MachinePages` | detail page, overview, machine list, with `AsyncData` and `StreamingData` | `OperatorProofs` |
| `CncSim` (+ `MCCncSim`) | `cnc_sim`: `sim_step`, `auto_cycle_tick`, every command of `cmd_apply` | `AdapterProofs` |
| `ServiceConsole` (+ `MCServiceConsole`) | `mtc_ctl`: start, stop, poll, web, and the Windows service | `OperatorProofs` |
| `Production` | what the web server, the report and the GUI compute from the rows | `ProductionProofs` |

The MC modules only give constants their values (sequences and functions). The modules share no variables. They meet at interfaces that each
one treats as free input: `StatsStream` produces the `states` whose conditions
`StatsAlarms` calls `raised` and whose availability `AlertTracker` calls
`states`; both accept any sequence of them. `StatsStream` takes what the agent
reports as free, which includes everything `ShdrAdapter` lets an agent see;
`FanucConditions` is what lies behind the readings of `ShdrAdapter`'s FANUC
source, and `Production` composes the controls, the adapters' way of losing them
and the collector's rows in one coarse step each.

### StatsStream
`seq`, `instanceId`, `states` are `cmd_stream`'s
locals; `doc` and `lastSeq` are the answer being read and `StreamParser`'s
`lastSeq_`; `rows` is what `flush` wrote last. Actions: `StartStream` and
`TakeSnapshot` (whole or in part: `/current` is cut off without a word),
`SampleAnswered`, `ProcessHeader`, `HandleBlock` (one device's block at a time,
as the parser meets them), then `RoundOk`, `AnswerTimesOut`, `AnswerBreaks` or
`SampleRefused`, `RoundFailed` with its new snapshot or `SnapshotFails`. The
agent (`Observe`, `AgentStalls`, `AgentResumes`, `AgentRestarts`) is outside the
repository and is modelled from how it is used.

`Items` are the data items that `handle_block` knows, each of a `Kind`, for it does not
treat a block that has an item more than once alike. The tags `apply` visits one after
the other (Execution, ControllerMode, Program, ...) keep the last observation;
`partTotal` and `tmMode` are found by name, and the first is taken; `parse_conditions`
goes through the first `<Condition>` section state by state, Normal to Unavailable, so
the worst state wins, whatever came last; the search for EmergencyStop ends at the first
one, takes only TRIGGERED and ARMED, and happens only where there is a section of
conditions. `Taken` says which observation of an item is left in its field, `Looked` and
`Known` what is looked at at all, `PassedOver` which later changes an answer carried that
did not get into `states`. `Columns` are the items of a `samples` row, all but the
conditions.

`gaps` is a history variable: the observations below `seq` that are not in `states`,
since the last snapshot; those no answer brought and those passed over (`Missed`).
What was passed over does not stay so for ever: with nothing new to tell, the agent is
asked for nextSequence + 1, refuses, and the snapshot that follows has the newest value
of every item. This is what `EventuallyInSync` finds.

Two things the model makes visible. The resume number is one too high
(`mtc_stats.cpp:775`, `last_seq()` already is nextSequence): the observation that
gets exactly this number is never asked for, so an agent that produces one
observation per round loses all of them. And that same extra 1 is what lets the
collector recover from agent restarts it does not notice (`instanceId` is stored
and never compared, although `mtconnect_collect/README.md:196` speaks of a
snapshot after a restart): asking beyond the end is what the agent refuses, and
the refusal is what causes the snapshot. The mutant of `EventuallyInSync` is the
obvious correction, `seq = nextSequence`; with it the collector may follow a
restarted agent for ever from a stale baseline.

### StatsAlarms
`rows` is the table as the collector's connection sees it, `disk` as committed.
`Write`/`Busy` are one statement; `db.cpp` sets no busy time-out, so any
statement outside a transaction may be `Busy`. `CommitBusy` leaves the
transaction open (`mtc_stats.cpp:529` does not look at the result): later
statements join it, a kill rolls them back, a later `COMMIT` makes up for it.
An UPDATE that is BUSY changes no row, is taken for "no open row" and followed by
an INSERT, which gives the alarm a second open row; both are refreshed from then
on and one clear ends both, so everything stated here holds with it.
`Seed`, `Upsert`, `Clear` follow `sync_alarms`; an `alarm_clear` that was busy is
dropped from `activeAlarms` all the same (`:566`), which `forgotten` records.

`AlarmLog` is the abstract specification: a set of occurrences, each known by
item and first second, and a single action, a commit, by which occurrences
begin, are seen again, end, or expire, any number at once. `Log` instantiates it
with the file (`disk`) for the log: nothing but a COMMIT or a statement outside a
transaction is a step of the log, and a transaction left open for rounds is one
step, or, after a kill, none.

### AlertTracker
`Round` is one turn of the loop ending in `check()`, with any new `states`, any
result of the request and any elapsed time; times are ages capped at
`EverySec`. `told` is what the last *delivered* notice said. A lost "back
online" is never repeated, and a restart forgets the outages
(`mtconnect_collect/README.md:104` promises the notice), so `OperatorLearnsOfTrouble`
is about trouble only.

### ShdrAdapter
Three data stand for the classes that behave differently: `avail`
(`Availability`, never sets `mHasValue`), `exec` (events, whose `unavailable` is
a `setValue`), `part` (numbers, whose `unavailable` is not). `view[c]` is what
agent `c` was sent last. `Accept`, `Gather` (twice: for initial data and in the
pass), `InitialSend`, `Read`, `SendChanged` are the steps of a pass; agents
connect, close and hang between any two. `FanucReadFails` lets any part of the
data be set before the failing call.

### FanucConditions
A round of readings is `ReadDynamic` (program, comment, alarm word), one
`ReadAlarms` or `AlarmsUnread` per bit of the word, `StatusRead`; any of them may
find the machine gone (`Disconnect`). Alarms, the running program, reachability
and `EW_BUSY` change between any two of them. `ConditionOf` is
`translateAlarmNo`; `Scanned` is the paged directory scan of old controls, whose
next page begins as many *numbers* further on as the page before had programs.
The scan compares with the number cast to a `short` (`fanuc_adapter.cpp:832`), which
`AsShort` is: a program above `MaxShort` finds none or another one's comment
(`Comments` is what a reading of the comment may yield).
`stood` and `met` are history: which alarms stood all through the round, and
which there were at any time of it. One behaviour varies alarms or program
(`varies`), as the two halves of the round meet in `connected` only.

### CncSampler
One thread: `Round(m)` for each machine in order, `Wake`, and the archive in
steps of one statement (`Attach`, `CopyOld`, `DeleteOld`, `CommitMain`,
`CommitArchive`, `SetPrunedBefore`), each of which may fail, and a kill between
any two. `db_ops.h:140-142` calls the move "a single transaction", but the main
file is in WAL mode and the archive is an attached file, and SQLite commits
such a transaction file by file: `torn` holds the rows cut off by a kill between
the two.

`RowArchive` is the abstract specification: samples come in, grow old, leave
`machine_samples` with all old ones at once (`TakeOut`), and are in the archive by
the next change of the two (`PutAway`) or, all of them, nowhere (`Lose`). `Archives`
instantiates it: `old` is the rows above the retention, `leaving` the open
transaction between its two COMMITs. Statements that fail, a `ROLLBACK`, an archive
left attached, the other machines and every kill elsewhere are no steps of it. The
mutant moves a row that is just as old as the retention (`ts <= cutoff`).

### History
The fetch threads (`Fetch`, `Push`, `Count`), the waiter (`Collect`, `Store`) and
the calculating threads (`Calculate`) interleave with clicks, guarded as the
buttons are: the save button by the exchange on `saving`, the calculate button
by `loading`. `Failed` is 0 because a `HistoryEntry` begins with `total = 0` and
`ok` is not stored. `db_save_batch` inserts row by row without a transaction and
looks at no result, so `SaveBatch` stores any part of the rows.

### MachinePages
The UI thread draws the page that is open. A frame of the detail page goes step by step,
as it asks `is_loading` and `is_loaded` one after the other while threads end: `Draw`
takes the machine that is selected, `LooksCurrent` compares it with the one that was
fetched and asks whether a fetch is under way, `Fetch` starts one (or finds no machine),
`LooksLoading`, `LooksLoaded` and `Rendered` are the rest of it; while it renders it
holds the lock that a thread stores under. Clicks (`Refresh`, `RefreshOverview`,
`Select`, `Add`, `Delete`, `Navigate`) come between frames, or in one as the buttons
do. Every reading is a thread, in the detail page with the three writes of
`AsyncData::start` apart (`Stores`, `SetsLoaded`, `ClearsLoading`), in the overview with
the two of `push` (`Push`, `Count`). What a reading says is whose it is. Three history
variables name what the properties except: `hurried`, a Refresh came before an earlier
fetch had ended, after which the thread that ends last wins, until the next fetch after
all have ended; `ended`, a fetch of the machine before ended between this frame's two
looks at `is_loading`, whose data it then draws under the new name; `missed`, the machine
was not found when it was to be read.

### CncSim
The machine is one record, `g_m`; a tick (`Tick`: `auto_cycle_tick`, `sim_step`,
the emission) and a command each run under `g_lock` and are one step. `AutoCycle`
and `SimStep` are operators on that record, as they are functions on `g_m` in the
code; whether a state lasted long enough (`due`), whether the axes arrive at home
(`at`) or at the end of the block (`done`) is free. Every branch of `cmd_apply`
that changes what steers the machine is an action; commands that only change
what is emitted (spindle, overrides, alarm text) count as `Refused`, which takes over
and changes nothing else. A line's length is reckoned from the point its move began at
(`way`), which `setpos` moves: a spindle line (`Still`) that gets a way to go has no feed
to go it with and stands for ever (`Stuck`). `passed`, `taken`, `made`, `chosen` are history.

### ServiceConsole
Actors are the consoles, the service's main thread and its control handler; each
goes through `list`, `grace`, `kill`, then for a start `config` and `spawn`, and
processes exit by themselves at any time. `stop_services` takes its list of
processes once (`TakeList`); what others spawn afterwards is not in it, nor is what does
not lie under the root (`Outside`: an agent with an `agent_dir` elsewhere, `Inside`: the
others that run). The snapshot may fail, and then nothing is stopped (`NoList`); a
process of the list may fail to be opened or ended, which nothing looks at
(`SpareOne`). Commands can be interrupted, the service killed, a spawn can fail, and a
console without administrator rights cannot open the service's processes. Four history
variables name the only circumstances under which a process may survive a stop or run
twice: `quiet` (nobody else has spawned since the list), `spared` (what the actor's stop
could not list or end), `excused` (why a role may run twice), `lost` (the service has
died, or its stop has spared a process). `Pipeline` is what [3/5] and [4/5] start,
in order; `todo` is the positions of it that a start has still to spawn. The module
assumes that no service stands there twice: `adapters.txt` has one line per machine.

### Production
State is the controls (counter, comment, running or not), what the agent has of
each, and the `samples` rows. A comment
may be empty (`NoComment`). Counters count, are reset and get lost
(`Lost`/`Found`, the FANUC way and the Mazak way); rows are missing; `Prune` cuts
old ones. `rows` is a set with the table's primary key (ts, machine): a `Flush` in
the same second replaces rows (`INSERT OR REPLACE`), a clock that stands still is a
lag of 0, and machines are numbers, their places in the order of names that
`ORDER BY ts, key` puts them in. Sums are the community modules' `SumFunction`. The
statistics are operators over the rows: `Summary`,
`MachiningPoints`, `ProductionPoints`, `Products`, `Shifts` of the web server,
`ReportProduced`, `ReportPoints`, `ReportProducts` of `mtc_stats report`,
`GuiProduced`, `GuiProduct`, `QuickNight` of the desktop program. `Shifts` ends after
`MaxDays` days, 512 in the code; `ReportProducts` leaves out the empty comment, whose
parts (`Under`) are in the report's total all the same. The reference
definitions are the parts really made (`made`, history), and `ShiftOf`, the shift
of a moment by the calendar.

## 3. Runs

| Run | Constants | Checks | About |
|---|---|---|---|
| `StatsStream` | a part count, two conditions in two sections, on a second machine an execution state; 2 values, buffer 2, count 2, 3 observations of the first agent instance, 2 of the second | `OnlyGapsAreStale`, `WritesAreOneCut`, `EventuallyInSync` | whatever breaks, stalls or overlaps, the collector is behind only by observations lost or passed over, flushes one cut of the agent's history, and converges |
| `StatsStream_IncrementCatchesUp` | the same | violated: `IncrementCatchesUp` | the finding of section 6 |
| `StatsAlarms` | 2 items, retention 0, clock to 2 | `SyncIsExact`, `ImplementsAlarmLog`, `OpenTransactionEnds` | the table against the alarms, and the file against `AlarmLog`, under BUSY and kills |
| `AlertTracker` | 2 machines, notices repeated after 2 ticks, notices may be lost | `AlertTypeOK`, `TrackerFollowsStates`, `OperatorLearnsOfTrouble` | the maps, and what reaches the operator |
| `ShdrAdapter` | 3 agents, a list of 2, 1 reading, both sources | `TypeOK`, `NoStaleView`, `OutageIsReported` | views of agents under churn, and a full list |
| `FanucConditions` | 4 alarms, 3 of them on one condition and 2 of one bit; programs 0, 4, 7, 28, numbers up to 11 in a `short`, a directory of 6 read in pages of 2; a clock modulo 8, retry after 2, passes of 1 or 2 | `StandingAlarmsAreShown`, `CommentIsOfProgram`, `EndedAlarmsClear`, `CommentIsLearned` | what the FANUC adapter remembers from round to round |
| `CncSampler` | 2 machines, 2 rows, retention 0, backoff cap 60 | `EachRowOnce`, `ImplementsRowArchive`, `OldRowsLeave`, `LatestCatchesUp` | archive, backoff, latest state, and the two files against `RowArchive` |
| `History` | 2 machines, totals 0 and 1, 2 batches | `VerdictIsOfChosen`, `SavedIsFetched`, `SaveEnds` | overlap of save, calculation, edits |
| `MachinePages` | 2 machines, 2 fetches and 2 refreshes at a time | `ShownIsOfMachine`, `RowsAreOwn`, `WaitingShows` | pages that read machines while these are chosen, added, deleted |
| `CncSim` | programs of 4 and 3 lines, of 2 and 1 products, a switch every 2 parts, 4 parts | `EstopIsNeverMachining`, `ProductFollowsCount`, `TakeoverEndsProduction`, `EveryPartIsMade`, `AutoProduces` | commands between any two ticks |
| `ServiceConsole` | a console and the service; one collector, an agent outside the root, the statistics; 2 processes | `TypeOK`, `OnlyOverlapsDouble`, `StoppedServiceLeavesNone`, `StopLeavesNone`, `StopEnds` | starts and stops that overlap, fail, miss processes, are interrupted and killed |
| `Production` | 2 machines, a comment and none, 3 rounds 1 or 3 s apart, 3 other events, gap limit 2, buckets of 2 and 3, at most 5 rows, days of 6 s, shifts of one day, beginning on a Saturday night | `NeverOvercounts`, `ViewsAddUp`, `TimesNest`, `ShiftsCountOnce` | the statistics against what was made, and against each other |

Type invariants not listed with a run are theorems (`Typing`, section 5).

**Why the bounds are enough.** In `StatsStream` `BufferSize` 2 and `SampleCount` 2
are smaller than the log of 3, so the buffer moves on, an answer is only a part
of what is new, and the skipped number is inside the log; one answer can have two
changes of an item, so that a first one or a worse one is taken; 2 instances give one
unnoticed restart; 2 machines are needed for half-applied answers. With an EmergencyStop
as a fifth item it passes as well (2.8 million states). In
`StatsAlarms` two items let one statement fail between two that succeed, and a
clock of 2 lets an alarm close, age and reopen; with a clock of 3 the refinement
passes too, for retention 0 (2.1 million states) and 1 (1.7 million). In
`ShdrAdapter` three agents against a list of two meet the full list while two
others are served; two readings with two agents also pass, and that changes
between readings are never missed either is what `ViewsAreFresh` says for all
sets of readings. In `FanucConditions` three alarms on one condition are the
fewest by which a condition can be entered twice, keep an ended alarm's place and
be overwritten by another bit; the scan of the directory skips numbers; program 4 is in
the directory, 7 is not, and 28, which is, comes out of the cast as 4 and gets that
one's comment where only the scan is there to ask; the clock wraps several times
within a behaviour. In `CncSampler` two rows put one on either side of the
retention limit, and row numbers are reused once a row has left; retention 1
passes as well (0.8 million states). `MaxBackoff` is the real cap, and never
reached. In `History` two batches allow a comparison of two stored ones while a
third save waits for a number. In `MachinePages` two fetches are what overlaps,
and a machine can be deleted and another added while both run. In `CncSim` 4
parts pass the switch of the product twice and `MaxParts` only stops the counting
of a machine that would go on for ever; the two programs differ in length and
number of products, so that a line or a product of the one does not exist in the
other. In `ServiceConsole` a console, the service's thread and its handler are
three actors, enough for a spawn between another's list and its kills; the
roles of the pipeline differ in being optional or outside the root, and there is one of
each kind; two processes are one that runs twice, and a spawn with no number free is a
spawn that fails. `Production` is checked over all histories of 3 rounds (6 rows, one
more than `MaxWebRows`): two neighbouring pairs per machine, with a gap or not,
in one bucket or two, in one shift or two, in a night that goes on when the range
begins and on a Sunday; with lags of 0 and 1, where flushes replace each other's
rows, it passes as well, and so it does beginning on a Saturday's last hour or a
Sunday's second, whose rows reach the Sunday evening that is in no shift. Its range meets two days, so
that `MaxDays` 1 cuts the second; with `MaxDays` 2, where nothing is cut, it passes too.
Sizes: 4,000 states (`AlertTracker`) to 1.3 million (`StatsStream`), each run three
minutes at most.
Bounds on counters (`MaxSeq`, `MaxInstance`, `MaxClock`, `MaxBatch`, `MaxParts`,
`MaxRounds`, `MaxEvents`) and on processes, threads and refreshes at a time
(`Pids`, `Threads`, `Overlaps`) stop the environment, never the program.

`CHECK_DEADLOCK` is off in three runs, where the system may stop: in
`FanucConditions` the adapter ends its process when the axis names cannot be
read; in `Production` the bounded events are over; in `MachinePages` there may
be nobody who clicks.

## 4. Fairness

* `StatsStream`: weak fairness of the collector's loop, which never ends by
  itself and is started again when stopped. Not of the agent: `EventuallyInSync`
  assumes `<>[]up` in its statement.
* `StatsAlarms`: weak fairness of the loop, and strong fairness of rounds whose
  COMMIT succeeds — readers hold their lock for the length of one query and
  cannot meet every COMMIT.
* `AlertTracker`: the loop runs on, time passes, and a webhook that is tried
  again and again delivers in the end.
* `ShdrAdapter`, `FanucConditions`: weak fairness of the loop only; agents and the
  machine are free, and what must be stable about them is a premise of the
  properties.
* `CncSampler`: weak fairness of the loop; strong fairness of a sleep that ends
  in a new hour (time passes). The absence of kills and of trouble is a premise
  (`Calm`) of the properties, not fairness.
* `History`: weak fairness of each thread (FOCAS calls have a time-out, the
  waiter polls); none of the user.
* `MachinePages`: weak fairness of the frame that is drawn, of each fetch thread
  and of the overview's workers; none of clicks (`WaitingShows` is about a user who
  stops clicking).
* `CncSim`: strong fairness of a tick in which a state has lasted long enough
  (time passes), and of a tick that ends a move while the machine runs: every
  tick brings a fed move a fixed way forward. None of commands.
* `ServiceConsole`: weak fairness of every command and of the two service threads;
  none of operators, of processes that end, or of SCM.
* `Production`: safety only.

## 5. Theorems

All are `Spec => []...` (or `Spec => [][...]_vars`, or an implementation) for every
value of the constants within the named assumptions of the modules.

| Module | Theorem | Inductive invariant |
|---|---|---|
| `StatsStreamProofs` | `Typing`, `StaleOnlyInGaps`, `RowsAreOneCut` | `TypeOK`, `CurrentIsLatest` (what /current reports is the last observation), `Instances`, and `CollectorInv`: as long as agent and baseline are of one instance, every item's value is explained by a prefix of the log minus the gaps, and in mid-answer the items of the blocks already applied are explained up to the answer's end minus what was passed over |
| `StatsAlarmsProofs` | `Typing`, `SyncsExactly`, `HistoryIsKept`, `FileIsLog` | `TypeOK`, `Clocked` (no row is of the future), `Tracked` (an open row is of an item in `activeAlarms` or a forgotten one), `Progress` (what the running phase of the sync has done), `FileInv` (outside a transaction disk and rows agree; a transaction never holds back the removal of a closed row still in its retention), and for the refinement `LogInv`: to commit now would be one step of `AlarmLog` |
| `OperatorProofs`, `ServiceConsole` | `ConsoleTyping`, `NothingDoubles`, `StoppedServiceIsGone`, `StopsLeaveNone` | `TypeOK`, `OnlyOverlapsDouble`, `ServiceInv` (the state the service reports against the places of its two threads), `ListInv` (the list of a stop that nobody has spawned beside has every process under the root that it may open and has not spared), `FreshInv` (what a start that nobody has spawned beside will spawn does not run), `ChildrenInv` (the service's own children under the root are on the lists of its threads' stops or spared, and none is alive once these are over unless one was spared) |
| `OperatorProofs`, `MachinePages` | `DetailShowsItsMachine`, `RowsOfTheOverview` | `DetailInv` (unless a Refresh overlapped a fetch: at most one fetch runs, `loading` says so, and both it and what is stored are of `current`), `FrameInv` (what a frame has learned: its machine is `current`, or a fetch is still to be seen, or one has ended since it was), `OverviewInv` (every worker has a row of its own, only rows with a worker that has not pushed are loading, and `remaining` is the number of workers) |
| `OperatorProofs`, `AlertTracker` | `AlertTyping`, `MapsFollowStates` | `AlertTypeOK` |
| `AdapterProofs`, `ShdrAdapter` | `Typing`, `ViewsAreFresh` | `TypeOK`, finiteness of the list, `Owed` (an agent that lacks a datum's value finds it marked as changed, or was sent nothing of it and it has no initial value yet, or initial data are under way), `PassDone` (nothing is marked at the end of a pass) |
| `FanucConditionsProofs` | `StandingShown`, `CommentsMatch` | `AlarmInv`: `stood` is within `met`, and every alarm that stood and whose bit has been looked at has its condition at an alarm of `met`; `ProgramInv`: without a connection the program is no number |
| `CncSamplerProofs` | `Typing`, `RowsOnce`, `FilesAreArchive`, `BackoffStaysShort` | the three parts of `TypeOK`, `BackoffOK` (a backoff is at most 2 s, and 1 s while there is a connection), `EachRowOnce` and `MovingOK` (what the open transaction has copied is in main until the first COMMIT, nowhere until the second); for the refinement `MovingOld` (what is about to be deleted and committed is exactly the old rows) |
| `HistoryProofs` | `Typing`, `BatchIsFetched`, `VerdictsBelong` | `SaveInv`: while the waiter polls, `remaining` is the number of threads that have not counted, and an item is what its thread fetched from its push on; `CalcInv`: a task that still runs is one of the last calculation |
| `AdapterProofs`, `CncSim` | `SimTyping`, `EstopNeverMachines`, `ProductIsOfCount`, `TakeoverEnds`, `PartsAreMade`, `EstopIsStill` | `SimTypeOK`, `EstopIsNeverMachining`, `ProductFollowsCount`, `LinesPassed` (outside of emergency stop and mdi, a machine that is not READY has gone through exactly the lines before its own), `TakenOverOnce` (what a machine without the automatic cycle can still count) |
| `ProductionProofs` | `ProductionInvariant`, `NoPartIsInvented`, `AllViewsAddUp`, `TimesAreParts`, `EveryPartInOneShift` | `ProductionInv`: `ControlsInv` (in sight the agent shows what is, out of sight nothing or something earlier) and `RowsInv` (the rows are of the past, one per machine and second, and each is followed by every later row of its machine, by what is shown and by what is now). *Followed*, `Follows`, says of two readings that the counter has not risen by more than was made in between, and by exactly that unless it was reset |

Why the strengthening is needed: `SyncIsExact`, `NoStaleView`,
`StandingAlarmsAreShown` and `OnlyGapsAreStale` speak of one point of the loop only
and say nothing of the points before it; `EachRowOnce` says nothing of which rows
an open transaction is about to commit, `ImplementsAlarmLog` nothing of what an
open transaction has in store; `SavedIsFetched` rests on a count of threads, which
is why `Machines` must be finite there. `OnlyOverlapsDouble` is kept by a spawn only
because the start's own stop has left nothing of what it will spawn (`FreshInv`), which
in turn holds because the stop's list was complete (`ListInv`) when it ended;
`ShownIsOfMachine` speaks of pages that show something and not of the thread that is
about to store. `NeverOvercounts` compares a sum over neighbouring rows with what was
made between the first and the last of them, which `Follows` says of every pair of
rows. The proofs go action by action; helper
operators (`Explained`, `SetValue`, `Refresh`, `Later`, `SimStep`, `AutoCycle`,
`Judge`, the largest number of a bounded set) have lemmas of their own.

`FileIsLog` is the refinement: `Spec => Log!Spec`, the initial states map to an
empty log, and every step of the collector changes the file by one commit of
`AlarmLog` or not at all. `FilesAreArchive` is the other one: `Spec =>
Archives!Spec`. It needs more than `EachRowOnce`, which a run that moves too many
rows, or too few, keeps as well: `MovingOld` adds that no row comes in and none grows
old between the copy and the COMMIT. `BackoffStaysShort` says what the backoff comes
to: no machine waits longer than two seconds whatever `MAX_BACKOFF_MS` is.

Model-checked only: every liveness property (`EventuallyInSync`,
`OpenTransactionEnds`, `OperatorLearnsOfTrouble`, `OutageIsReported`,
`EndedAlarmsClear`, `CommentIsLearned`, `OldRowsLeave`, `LatestCatchesUp`,
`SaveEnds`, `WaitingShows`, `AutoProduces`, `StopEnds`) — liveness under fairness is
out of the prover's reach. Every safety property and every action property of the
passing runs is stated by a theorem.

The statistics are sums over sets of rows of any size. A fact about all finite
sums would be proved by induction over the set, with a theorem whose
parameter is an operator; none of the provers can use it. `ProductionProofs` does
without: of the subsets of a set of which a fact fails it takes a smallest one
(`Smaller`, the least element of a set of cardinalities), which is not empty, and takes
an element from it. So it gets the sum of a set with one element more, sums in
parts (`SumClasses`, `SumExchange`), sums along a chain of rows (`Telescope`: what
neighbours differ by adds up to what the ends differ by). From there, a summary is
bounded by `Follows` at each pair; the points add up because an interval is the
sum of its overlaps with the buckets it meets (`BucketsShare`); and a pair is in the
window of a shift with both ends exactly when the calendar puts both ends there
(`DivBetween`, `ShiftOfIs`). The products that are listed are a matter of counting
comments in order of their first rows. No assumption ties the readings of two
machines, the length of lags or the number of rows; days, openings and closings need
only be in their order.

The proofs of the console, of the notices and of the pages stand in one module:
each is short, nothing but the operator connects them, and they share the lemma
about the least number of a set. `AdapterProofs` holds those of the adapter and of
the machine that is simulated behind it. In both, the modules share no
variable, so the theorems are those of each alone.

## 6. Findings

One has a run of its own: `mtc_stats.cpp:775` — the resume number skips one
observation; the file's header promises increments without loss
(`StatsStream_IncrementCatchesUp`).

Seen while modelling, and part of the models, without a run of their own:

*Collector.* A receive time-out in the middle of a body is taken for "no new data"
(`mtc_stats.cpp:449-450`), yet the header has already moved the resume number past
the rest (`gaps`). The notice about a failed request goes out even when the
snapshot that follows it succeeds (`:780-782`). An UPDATE refused with BUSY counts
as "no open row", and a second one is opened (`stats_db.cpp:153`;
`stats_db.hpp:35` speaks of one). An answer that has an item twice may leave the older
value: of `partTotal` and `tmMode` the first is taken (`:329-336`), of a condition the
worst (`:216-242`, although `:207` says that what comes overrides item by item), until
the next change or the next snapshot. Only the first `<Condition>` section of a
block is read (`:208`), and in `devices/fanuc.xml` the conditions of the axes belong to
components of their own: no snapshot has their alarms, nor has an answer in which
another section comes before theirs.

*Adapters.* `Availability` never has an initial value (`device_datum.cpp:699`), so
an agent that connects while the machine is up is not told that it is available
(`adapter.cpp:107-108` means all initial data to be sent). Two alarms on one
condition enter it into `mActiveConditions` again in every round, until no alarm is
left; an alarm that ends while another lasts stays FAULT until then. A reconnect
reports all conditions NORMAL for one pass, so an alarm that stands through it
gets a second occurrence. While the program number is 0 the comment is that of the
program before. A comment edited on the control is not noticed until the program
changes. A program number above 32767 is cast to a `short` before it is looked up
(`fanuc_adapter.cpp:832`) and may get another program's comment. A retry that falls between the last pass and the wrap of `GetTickCount` is
put off for 49.7 days (the exception in `CommentIsLearned`; without it TLC finds the
behaviour). Axis names that cannot be read end the process.

*Sampler.* The backoff of failed connects does not grow (`sampler.c:170`; `:8-9`
calls it exponential). "A single transaction" (`db_ops.h:140-142`) is two COMMITs,
see `CncSampler`.

*Desktop program.* A machine that did not answer when a batch was saved counts as 0
in the next comparison and reads as normal (`HistoryVm.cpp:193`; `gui.md:21` says
abnormal). A fetch that does not find its machine leaves the page blank until
Refresh is clicked. Refresh during a fetch lets the older thread's data appear
under the new machine's name (`ShownIsOfMachine` excepts it by `hurried`). So does, for
one frame, a fetch that ends between the two looks at `is_loading`
(`MachineDetailView.cpp:109`, `:115`; `ended`).

*Statistics* (`Production`). The web server loses the parts made while a total is
unknown, the report bridges them. The web server counts an increase under the
comment of its earlier row, the report under that of its later row, although
`mtc_stats.cpp:17` says that both count alike. `MAX - MIN` of the GUI overcounts after
a reset, and counts parts twice when products alternate. A night shift that began
before the range's first day is in no shift. More rows than `max_rows` are cut at
the newest end without a word (`webserver.cpp:200`). Machining points drop the time
in buckets without a sample. Shifts are listed for 512 days and no more
(`webserver.cpp:494`). Parts made under an empty comment are in the report's total and in
none of its products (`mtc_stats.cpp:1021`).

*Console.* `test` returns at once and prints no status, though `mtc_ctl.cpp:11-12`
says it waits 6 s and does. The service reports RUNNING even if nothing could be
spawned (`:612`), and accepts no SHUTDOWN. The last phase of a stop opens processes
by number again (`:272`). An agent with an `agent_dir` outside the root is never listed:
no stop ends it, and every start starts another one. Where the list of processes cannot be taken
(`:213`), a start goes on and spawns beside what runs, and the service reports STOPPED
with its processes alive; and so it is with one that cannot be opened to be ended (`:268`).

*Simulator.* `mdi` makes the machine ACTIVE in an emergency stop, its spindle
included (mode MDI, so it does not read as machining). `auto on` and `resume` run on
under an alarm, and the automatic cycle in MANUAL mode. `parts_until_switch`
(`cnc_sim.c:944`) is one part early. Clients are never removed (`:332`). A `setpos` of X in a spindle line
gives it a way to go and no feed: after `auto on` it never ends, and nothing is produced
any more (`:1311-1317`, `:713-741`; `Stuck` in `AutoProduces`).

## 7. Not modelled

Listed in `PROJECT.json` with reasons. In short: real time (how long a connect
blocks the adapter's PONG or the sampler's round), blocking sends, formatting and
parsing of text, conversions of controller data (`cnc_ops.c`, `mazak_ops.c` call a
vendor library and convert what it returns), the MySQL backend (behind a build
option), Windows service registration, the live page of the web server (it passes
on one answer of the agent), `genconfig`, command line tools, presentation,
vendored code. Further risks noted while reading, outside the models: the tick
counter's wrap in `server.cpp:304`, the terminating 0 after the 128th datum in
`adapter.cpp:62`, library calls with a freed FOCAS handle in the rest of a round
(`fanuc_adapter.cpp:140`), the database closed under detached threads at exit
(`imgui_main.cpp:221`), two desktop programs that save at once and take the same
batch number (`db_ops.c:221`), process numbers that are used again between the list
and the kill (`mtc_ctl.cpp:272`).

## 8. Plan

Done, in this order: `StatsStream` (the path every statistic depends on),
`StatsAlarms`, `AlertTracker`, `ShdrAdapter`, `CncSampler`, `History`; `CncSim`,
`ServiceConsole`, `Production`, `MachinePages`, `FanucConditions`; `AlarmLog` and its
refinement; the proofs of all safety properties, those of `Production` last;
`RowArchive` and its refinement.

Left:

1. In `History`, a second process on the same database.
2. The adapter's time: an agent's heartbeat against a connect of 10 s.

## 9. Running it

    tlc -config <run>.cfg <module>
    tlapm <proof module of section 2>.tla

with the MC module where there is one (`tlc -config CncSim.cfg MCCncSim`).
`PROJECT.json` names the module and configuration of every run, the mutant that
each property catches, the source lines of every definition, and the theorems.
