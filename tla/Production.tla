----------------------------- MODULE Production -----------------------------
(***************************************************************************)
(* Production and running times: what webserver.cpp (/api/stats/...),      *)
(* mtc_stats report and the GUI's statistics page make of the samples.     *)
(*                                                                         *)
(* Part counters count, are reset and are out of sight for a while; the    *)
(* collector writes a row per machine and round, some rounds and rows are  *)
(* missing; old rows are pruned.  The statistics are operators on rows.    *)
(*                                                                         *)
(* Simplifications: execution, mode and tmmode are one flag, active; local *)
(* time has no daylight saving; the rows of the GUI's own sampler are the  *)
(* rows of machines in sight; the seconds the GUI estimates from a number  *)
(* of samples, texts and JSON are left out.                                *)
(***************************************************************************)
EXTENDS Integers, FiniteSetsExt, Functions

CONSTANTS
    Machines,     \* by their place in the order of their names
    Comments,
    NoComment,    \* the comment of a program that has none: it may be one of Comments
    Lags,         \* seconds from one row to the next
    GapMax,       \* g_power_gap_max
    Bucket,       \* bucket of the web server and the report
    GuiBucket,    \* 1800 s of db_get_buckets
    MaxWebRows,   \* g_max_rows
    MaxProducts,  \* 256 of api_products
    DayLength, DayOpen, DayClose, SundayClose,  \* 24:00, 08:30, 20:30, 17:00
    MaxDays,      \* 512 of build_shifts
    Begin,        \* clocks the system may start with
    MaxRounds, MaxEvents  \* bounds: rounds of the collector, other events

Unavailable == "UNAVAILABLE"

ASSUME ProductionAssumption ==
    /\ GapMax \in Nat /\ Bucket \in Nat \ {0} /\ GuiBucket \in Nat \ {0}
    /\ MaxWebRows \in Nat /\ MaxProducts \in Nat /\ DayLength \in Nat
    /\ MaxDays \in Nat \ {0}
    /\ {DayOpen, DayClose, SundayClose} \subseteq Nat
    /\ 0 < DayOpen /\ DayOpen < SundayClose /\ SundayClose < DayClose /\ DayClose < DayLength
    /\ IsFiniteSet(Machines) /\ Machines \subseteq Nat /\ Lags \subseteq Nat /\ Begin \subseteq Nat
    /\ IsFiniteSet(Comments)

VARIABLES
    now,     \* the collector's clock
    cnc,     \* the controls: counter, product, and the parts and resets so far (history)
    shown,   \* what the agent has of each: a reading, its availability
    rows,    \* table samples: a row per ts and machine
    rounds,  \* bounds
    events

vars == <<now, cnc, shown, rows, rounds, events>>

\* parse_ll of UNAVAILABLE is -1.
Nothing == [total |-> -1, comment |-> Unavailable, active |-> FALSE, made |-> 0, resets |-> 0]

Happens == rounds < MaxRounds /\ events < MaxEvents /\ events' = events + 1

-----------------------------------------------------------------------------
(* The machines and the collector. *)

\* The control changes; in sight, so does the agent.
Control(m, c) ==
    /\ Happens
    /\ cnc' = [cnc EXCEPT ![m] = c]
    /\ shown' = [shown EXCEPT ![m] = IF @.power THEN [power |-> TRUE, reading |-> c] ELSE @]
    /\ UNCHANGED <<now, rows, rounds>>

MakePart(m) ==
    /\ cnc[m].active
    /\ Control(m, [cnc[m] EXCEPT !.total = @ + 1, !.made = @ + 1])
ResetCounter(m) == Control(m, [cnc[m] EXCEPT !.total = 0, !.resets = @ + 1])
StartStop(m) == Control(m, [cnc[m] EXCEPT !.active = ~@])
NewProduct(m) == \E c \in Comments \ {cnc[m].comment} : Control(m, [cnc[m] EXCEPT !.comment = c])

\* The machine goes out of sight: a FANUC adapter makes everything UNAVAILABLE, a
\* Mazak adapter the availability only.
Lost(m) ==
    /\ Happens /\ shown[m].power
    /\ \E left \in {Nothing, shown[m].reading} :
           shown' = [shown EXCEPT ![m] = [power |-> FALSE, reading |-> left]]
    /\ UNCHANGED <<now, cnc, rows, rounds>>

Found(m) ==
    /\ Happens /\ ~shown[m].power
    /\ shown' = [shown EXCEPT ![m] = [power |-> TRUE, reading |-> cnc[m]]]
    /\ UNCHANGED <<now, cnc, rows, rounds>>

RowOf(m) ==
    LET x == shown[m].reading
    IN  [ts |-> now, machine |-> m, power |-> shown[m].power, total |-> x.total,
         comment |-> x.comment, active |-> x.active, made |-> x.made, resets |-> x.resets]

\* flush writes a row per machine, in place of one of the same second; a statement that
\* fails leaves its row out, a stopped or locked-out collector leaves rounds out.
Flush(missing) ==
    /\ rounds < MaxRounds /\ rounds' = rounds + 1
    /\ events + Cardinality(missing) <= MaxEvents
    /\ events' = events + Cardinality(missing)
    /\ rows' = {r \in rows : r.ts # now \/ r.machine \in missing}
               \cup {RowOf(m) : m \in Machines \ missing}
    /\ \E lag \in Lags : now' = now + lag
    /\ UNCHANGED <<cnc, shown>>

Times(s) == {r.ts : r \in s}

\* cmd_prune, prune_samples.
Prune ==
    /\ Happens
    /\ \E cutoff \in Times(rows) : rows' = {r \in rows : r.ts >= cutoff}
    /\ UNCHANGED <<now, cnc, shown, rounds>>

Init ==
    /\ now \in Begin
    /\ \E c \in Comments :
           cnc = [m \in Machines |-> [total |-> 0, comment |-> c, active |-> TRUE, made |-> 0, resets |-> 0]]
    /\ shown = [m \in Machines |-> [power |-> TRUE, reading |-> cnc[m]]]
    /\ rows = {} /\ rounds = 0 /\ events = 0

Next ==
    \/ \E m \in Machines :
          \/ MakePart(m) \/ ResetCounter(m) \/ StartStop(m) \/ NewProduct(m)
          \/ Lost(m) \/ Found(m)
    \/ \E missing \in SUBSET Machines : Flush(missing)
    \/ Prune

Spec == Init /\ [][Next]_vars

-----------------------------------------------------------------------------
(* What a sample, and two neighbouring samples, count. *)

\* ORDER BY ts; rows of one second as the primary key has them.
Before(r, q) == r.ts < q.ts \/ (r.ts = q.ts /\ r.machine < q.machine)

\* cmd_report leaves out the rows whose total is unknown.
Known(s) == {r \in s : r.total >= 0}

\* load_samples, and the SELECT of cmd_report, which has no limit.
Select(from, to, of) == {r \in rows : r.ts >= from /\ r.ts <= to /\ r.machine \in of}
Load(from, to, of) ==
    LET all == Select(from, to, of)
    IN  {r \in all : Cardinality({q \in all : Before(q, r)}) < MaxWebRows}

\* Mutant: one prev for all machines.
NeighboursOfAll(s) ==
    {e \in s \X s : /\ Before(e[1], e[2])
                    /\ ~\E q \in s : Before(e[1], q) /\ Before(q, e[2])}

\* Rows that follow each other on one machine: prev, or prevs[s.machine].
Neighbours(s) ==
    {e \in s \X s : /\ e[1].machine = e[2].machine /\ e[1].ts < e[2].ts
                    /\ ~\E q \in s : /\ q.machine = e[1].machine
                                     /\ e[1].ts < q.ts /\ q.ts < e[2].ts}

\* Mutant: a counter that falls counts too.
Distance(e) ==
    IF e[1].total < 0 \/ e[2].total < 0 THEN 0
    ELSE Max({e[2].total - e[1].total, e[1].total - e[2].total})

\* Only what the counter rises by: it may be reset, or unknown.
Increase(e) == IF e[1].total >= 0 /\ e[2].total > e[1].total THEN e[2].total - e[1].total ELSE 0

\* What a row says of the time that follows it.
Powered   == "powered"
Machining == "machining"
Says(r, what) == r.power /\ (what = Machining => r.active)

\* The time to the next row counts unless it is a gap.
Counts(e, what) == e[2].ts - e[1].ts <= GapMax /\ Says(e[1], what)
Lasts(e, what) == IF Counts(e, what) THEN e[2].ts - e[1].ts ELSE 0

Increases(pairs) == SumFunction([e \in pairs |-> Increase(e)])
Durations(pairs, what) == SumFunction([e \in pairs |-> Lasts(e, what)])

Produced(s) == Increases(Neighbours(s))
Seconds(s, what) == Durations(Neighbours(s), what)

-----------------------------------------------------------------------------
(* The web server. *)

\* api_summary, one machine.
Summary(s) ==
    [produced |-> Produced(s), mach |-> Seconds(s, Machining), power |-> Seconds(s, Powered)]

BucketOf(t) == (t \div Bucket) * Bucket
BucketsOf(s) == {BucketOf(t) : t \in Times(s)}

\* Mutant: the interval is not cut at the beginning of the bucket's part.
OverlapUncut(e, b) == Max({0, Min({b + Bucket, e[2].ts}) - b})

\* The part of an interval that lies in a bucket.
Overlap(e, b) == Max({0, Min({b + Bucket, e[2].ts}) - Max({b, e[1].ts})})

BucketSeconds(s, b, what) ==
    SumFunction([e \in Neighbours(s) |-> IF Counts(e, what) THEN Overlap(e, b) ELSE 0])

\* api_machining shows the buckets that have a sample.
MachiningPoints(s, what) == [b \in BucketsOf(s) |-> BucketSeconds(s, b, what)]

\* api_production: an increase belongs to the bucket of its later sample; buckets
\* with a known total are shown.
ProductionPoints(s) ==
    [b \in BucketsOf(Known(s)) |-> Increases({e \in Neighbours(s) : BucketOf(e[2].ts) = b})]

\* api_products: the first MaxProducts comments; an increase belongs to the comment
\* of its earlier sample.
CommentsOf(s) == {r.comment : r \in s}
Listed(s) ==
    LET known(r) == CommentsOf({q \in s : Before(q, r)})
    IN  CommentsOf({r \in s : Cardinality(known(r) \ {r.comment}) < MaxProducts})
Products(s) == [c \in Listed(s) |-> Increases({e \in Neighbours(s) : e[1].comment = c})]

-----------------------------------------------------------------------------
(* Shifts. *)

Day(t) == t \div DayLength
Sunday(d) == d % 7 = 0

\* Mutant: the night ends with the first hour of the day shift.
NightEndsLate(d) == (d + 1) * DayLength + DayOpen + 1

NightEnd(d) == (d + 1) * DayLength + DayOpen

\* build_shifts: the shifts of every day from that of from to that of to, but of the
\* first MaxDays days only.
DayShift(d) ==
    [day |-> d, kind |-> "day", start |-> d * DayLength + DayOpen,
     end |-> d * DayLength + (IF Sunday(d) THEN SundayClose ELSE DayClose)]
NightShift(d) ==
    [day |-> d, kind |-> "night", start |-> d * DayLength + DayClose, end |-> NightEnd(d)]

Clip(w, from, to) == [w EXCEPT !.start = Max({@, from}), !.end = Min({@, to})]

Shifts(from, to) ==
    LET days == Day(from)..Min({Day(to), Day(from) + MaxDays - 1})
        all == {DayShift(d) : d \in days} \cup {NightShift(d) : d \in {e \in days : ~Sunday(e)}}
    IN  {w \in {Clip(v, from, to) : v \in all} : w.start < w.end}

\* shift_aggregate looks at the rows in the window only.
ShiftRows(s, w) == {r \in s : r.ts >= w.start /\ r.ts < w.end}

\* apply_quick_range of the GUI.
QuickNight(t) ==
    LET d == IF t % DayLength < DayOpen THEN Day(t) - 1 ELSE Day(t)
    IN  <<d * DayLength + DayClose, (d + 1) * DayLength + DayOpen>>

-----------------------------------------------------------------------------
(* The report and the GUI. *)

ReportProduced(s) == Produced(Known(s))

\* The buckets of the report, shown if the machine has machined in them.
ReportPoints(s) ==
    LET buckets == {n * Bucket : n \in (Min(Times(s)) \div Bucket)..(Max(Times(s)) \div Bucket)}
    IN  [b \in {c \in buckets : BucketSeconds(s, c, Machining) > 0} |-> BucketSeconds(s, b, Machining)]

\* An increase belongs to the comment of its later row; a product has a comment.
Under(s, c) == Increases({e \in Neighbours(Known(s)) : e[2].comment = c})
ReportProducts(s) == [c \in CommentsOf(Known(s)) \ {NoComment} |-> Under(s, c)]

\* The rows of the GUI's sampler.
Sampled(s) == {r \in s : r.power /\ r.total >= 0}

\* MAX(part_total) - MIN(part_total).
Spread(s) == LET totals == {r.total : r \in s} IN Max(totals) - Min(totals)

\* db_get_buckets and MachiningVm::refresh.
GuiBucketOf(r) == r.ts \div GuiBucket
GuiProduced(s) ==
    SumFunction([b \in {GuiBucketOf(r) : r \in s} |-> Spread({r \in s : GuiBucketOf(r) = b})])

\* db_get_products.
GuiProduct(s, c) == Spread({r \in s : r.comment = c})

-----------------------------------------------------------------------------
(* Properties.  A range ends with the newest row: ranges that end earlier were   *)
(* looked at when their last row was the newest.                                 *)

Froms == Times(rows)

\* The parts made between the readings of the first and the last known row.
Made(s)   == {r.made : r \in s}
Resets(s) == {r.resets : r \in s}
ReallyMade(s) == IF Known(s) = {} THEN 0 ELSE Max(Made(Known(s))) - Min(Made(Known(s)))
Undisturbed(s) == Cardinality(Resets(Known(s))) <= 1

\* No statistic shows more parts than were made, whatever rows are missing and
\* however often the counter is reset or out of sight.  The report, which bridges
\* unknown rows, shows at least what the web server shows, and all parts of a counter
\* that was not reset; the GUI is right in this sense only without a reset.
NeverOvercounts ==
    \A from \in Froms : \A m \in Machines :
        LET s == Select(from, now, {m})
        IN  /\ Produced(Load(from, now, {m})) <= ReportProduced(s)
            /\ ReportProduced(s) <= ReallyMade(s)
            /\ Undisturbed(s) =>
                  /\ ReportProduced(s) = ReallyMade(s)
                  /\ GuiProduced(Sampled(s)) <= ReallyMade(s)
                  /\ \A c \in CommentsOf(Sampled(s)) : GuiProduct(Sampled(s), c) <= ReallyMade(s)

\* The points, the products and the whole plant say what the machines' summaries say:
\* no increase is lost in a bucket that is not shown or counted for a neighbour.  What
\* was made without a comment is in the report's totals and in none of its products.
ViewsAddUp ==
    \A from \in Froms :
        LET all == Load(from, now, Machines)
            each == SumFunction([m \in Machines |-> Produced({r \in all : r.machine = m})])
        IN  /\ SumFunction(ProductionPoints(all)) = each
            /\ SumFunction(Products(all)) <= each
            /\ Listed(all) = CommentsOf(all) => SumFunction(Products(all)) = each
            /\ SumFunction(ReportProducts(Select(from, now, Machines)))
                   + Under(Select(from, now, Machines), NoComment)
               = SumFunction([m \in Machines |-> ReportProduced(Select(from, now, {m}))])

\* A machine has not machined longer than it was on, nor been on longer than the
\* range, and so in each bucket; the points say what the summary says, up to buckets
\* without a sample, and the report's buckets say all of it.
TimesNest ==
    \A from \in Froms : \A m \in Machines :
        LET s == Load(from, now, {m})
            mach == MachiningPoints(s, Machining)
            power == MachiningPoints(s, Powered)
            sum == Summary(s)
        IN  s # {} =>
            /\ sum.mach <= sum.power /\ sum.power <= Max(Times(s)) - Min(Times(s))
            /\ \A b \in BucketsOf(s) : mach[b] <= power[b] /\ power[b] <= Bucket
            /\ SumFunction(ReportPoints(s)) = sum.mach
            /\ SumFunction(power) <= sum.power
            /\ (\A e \in Neighbours(s) : e[2].ts - e[1].ts <= Bucket) => SumFunction(power) = sum.power

\* The shift of a moment, by the calendar.
ShiftOf(t) ==
    LET d == (t - DayOpen) \div DayLength
        hour == (t - DayOpen) % DayLength
    IN  IF hour < (IF Sunday(d) THEN SundayClose ELSE DayClose) - DayOpen THEN <<d, "day">>
        ELSE IF Sunday(d) THEN <<d, "none">> ELSE <<d, "night">>

\* Every part is counted in at most one shift, in the one both of its samples are of;
\* the night that is not over when the range begins is in none, nor is what lies beyond
\* the first MaxDays days.  The GUI's night is the web server's.
ShiftsCountOnce ==
    /\ \A from \in Froms :
          LET s == Load(from, now, Machines)
              shifts == Shifts(from, now)
              counted(e) == /\ ShiftOf(e[1].ts) = ShiftOf(e[2].ts) /\ e[2].ts < now
                            /\ ShiftOf(e[1].ts)[2] # "none" /\ ShiftOf(e[1].ts)[1] >= Day(from)
                            /\ ShiftOf(e[1].ts)[1] < Day(from) + MaxDays
              inOne == {e \in Neighbours(s) : counted(e)}
          IN  /\ SumFunction([w \in shifts |-> Produced(ShiftRows(s, w))]) = Increases(inOne)
              /\ SumFunction([w \in shifts |-> Seconds(ShiftRows(s, w), Powered)])
                 = Durations(inOne, Powered)
    /\ ShiftOf(now)[2] = "night" =>
          LET w == NightShift(ShiftOf(now)[1]) IN QuickNight(now) = <<w.start, w.end>>

=============================================================================
