------------------------------- MODULE History -------------------------------
(***************************************************************************)
(* What the log is read back as: the rows of /history, raw or in buckets,  *)
(* and the roll-up of /summary.                                            *)
(*                                                                         *)
(* Instants are seconds.  A row has a time and two columns that stand for  *)
(* the two kinds there are: value, which buckets average (None when the    *)
(* sensor had none; the roll-up reads it as temperature, pressure or lux), *)
(* and uptime, of which a bucket keeps the last.  Rows are selected by     *)
(* their positions.                                                        *)
(***************************************************************************)
EXTENDS Integers, Sequences, SequencesExt, FiniteSetsExt, Functions

CONSTANT None

HOUR == 3600
DAY  == 24 * HOUR

Error(code) == [status |-> code]

(* The items of s at the positions I, in order. *)
Select(s, I) ==
    LET kept[n \in 0 .. Len(s)] ==
            IF n = 0 THEN << >>
            ELSE IF n \in I THEN Append(kept[n - 1], s[n]) ELSE kept[n - 1]
    IN kept[Len(s)]

Total(values) ==
    LET sum[n \in 0 .. Len(values)] == IF n = 0 THEN 0 ELSE sum[n - 1] + values[n]
    IN sum[Len(values)]

Measured(rows) == {i \in DOMAIN rows : rows[i].value # None}

Values(rows) == Select([i \in DOMAIN rows |-> rows[i].value], Measured(rows))

Mean(values) == IF values = << >> THEN None ELSE Total(values) \div Len(values)

(* db.py: outdoor_readings_in_range *)
InRange(log, from, to) ==
    Select(log, {i \in DOMAIN log : from <= log[i].timestamp /\ log[i].timestamp <= to})

-----------------------------------------------------------------------------
(* routes/history.py: a query is [logging, sensor, from, to, hours, bucket, *)
(* include], its answer an error or the rows.                               *)

_resolve_window(query, now) ==
    IF query.from = None /\ query.to = None
    THEN [from |-> now - query.hours * HOUR, to |-> now, hours |-> query.hours]
    ELSE LET to == IF query.to # None THEN query.to ELSE now
             from == IF query.from # None THEN query.from ELSE to - query.hours * HOUR
         IN [from |-> from, to |-> to, hours |-> Max({1, (to - from) \div HOUR})]

_resolve_bucket(bucket, hours) ==
    CASE bucket = "raw"  -> 0
      [] bucket = "auto" -> IF hours <= 1 THEN 0 ELSE IF hours <= 6 THEN 60
                            ELSE IF hours <= 24 THEN 300
                            ELSE IF hours <= 24 * 7 THEN 1800 ELSE 3600
      [] bucket = "60"   -> 60
      [] bucket = "300"  -> 300
      [] bucket = "900"  -> 900
      [] bucket = "3600" -> 3600

_aggregate_bucket(rows, start) ==
    [timestamp |-> start, value |-> Mean(Values(rows)), uptime |-> Last(rows).uptime]

Starts(rows, seconds) == [i \in DOMAIN rows |-> (rows[i].timestamp \div seconds) * seconds]

(* The loop of _bucket_rows: a bucket collects rows while b_start stays    *)
(* what it was, so its rows at row i are those since the last change; it   *)
(* is closed by the row that differs, the last one by the end.             *)
current_bucket(starts, i) == {k \in 1 .. i : \A m \in k .. i : starts[m] = starts[i]}

Closes(starts) == {i \in DOMAIN starts : i = Len(starts) \/ starts[i + 1] # starts[i]}

Bucketed(rows, starts) ==
    [i \in DOMAIN rows |-> _aggregate_bucket(Select(rows, current_bucket(starts, i)), starts[i])]

(* A slip: the bucket that is open at the end is forgotten. *)
ClosedBuckets(rows, seconds) ==
    IF seconds = 0 THEN rows
    ELSE LET starts == Starts(rows, seconds)
         IN Select(Bucketed(rows, starts), Closes(starts) \ {Len(rows)})

_bucket_rows(rows, seconds) ==
    IF seconds = 0 THEN rows
    ELSE LET starts == Starts(rows, seconds)
         IN Select(Bucketed(rows, starts), Closes(starts))

(* build_history_row: the groups asked for, without the values missing.   *)
HISTORY_GROUPS == [weather |-> "value", device |-> "uptime"]

build_history_row(row, include) ==
    LET asked == {"timestamp"} \cup {HISTORY_GROUPS[g] : g \in include}
    IN [c \in {x \in asked : row[x] # None} |-> row[c]]

Refusal(query) ==
    IF ~query.logging THEN "logging_disabled"
    ELSE IF query.sensor = "unknown" THEN "sensor_not_found"
    ELSE IF query.sensor # "outdoor" THEN "history_not_available"
    ELSE None

get_history(query, log, now) ==
    LET window == _resolve_window(query, now)
        bucket == _resolve_bucket(query.bucket, window.hours)
        rows   == _bucket_rows(InRange(log, window.from, window.to), bucket)
    IN IF Refusal(query) # None THEN Error(Refusal(query))
       ELSE IF ~(query.include \subseteq DOMAIN HISTORY_GROUPS) \/ window.from >= window.to
       THEN Error("bad_request")
       ELSE [status |-> "ok", from |-> window.from, to |-> window.to, bucket |-> bucket,
             rows |-> [i \in DOMAIN rows |-> build_history_row(rows[i], query.include)]]

-----------------------------------------------------------------------------
(* routes/summary.py and derivations/summary.py; zone is the offset of the *)
(* local time from UTC.                                                     *)

DayOf(instant, zone) == (instant + zone) \div DAY

PeriodSeconds == [t24h |-> DAY, t7d |-> 7 * DAY, t30d |-> 30 * DAY]

_summary_window(period, now, zone) ==
    [from |-> IF period = "today" THEN DayOf(now, zone) * DAY - zone
              ELSE now - PeriodSeconds[period],
     to |-> now]

stat(values) ==
    IF values = << >> THEN None
    ELSE [min |-> Min(Range(values)), max |-> Max(Range(values)), avg |-> Mean(values)]

Threshold == 6     \* of the tendency, in the unit of value

(* A slip: the change is taken since the start of the query's window. *)
SinceTheStart(pairs) == Head(pairs)

(* The first row of the last three hours: the last row itself, when the    *)
(* log has a gap of that length before it.                                 *)
ReferenceRow(pairs) ==
    Head(Select(pairs, {i \in DOMAIN pairs :
                           pairs[i].timestamp >= Last(pairs).timestamp - 3 * HOUR}))

pressure_tendency(pairs) ==
    IF Len(pairs) < 2 THEN None
    ELSE LET delta == Last(pairs).value - ReferenceRow(pairs).value
         IN [since |-> ReferenceRow(pairs).timestamp, delta |-> delta,
             trend |-> IF delta > Threshold THEN "rising"
                       ELSE IF delta < -Threshold THEN "falling" ELSE "steady"]

(* The slope's numerator; its denominator is positive when two rows differ *)
(* in time.  Times count from the first row, which shifts no slope.        *)
linear_trend(pairs) ==
    LET t  == [i \in DOMAIN pairs |-> pairs[i].timestamp - pairs[1].timestamp]
        v  == [i \in DOMAIN pairs |-> pairs[i].value]
        tv == [i \in DOMAIN pairs |-> t[i] * v[i]]
    IN IF Len(pairs) < 2 \/ t[Len(pairs)] = 0 THEN None
       ELSE Len(pairs) * Total(tv) - Total(t) * Total(v)

(* Twice the trapezoids under the value. *)
light_integral(pairs) ==
    IF Len(pairs) < 2 THEN None
    ELSE Total([i \in 1 .. Len(pairs) - 1 |->
                  (pairs[i].value + pairs[i + 1].value)
                      * (pairs[i + 1].timestamp - pairs[i].timestamp)])

DegreeBase == 10

(* degree_day_contributions, in half degrees. *)
degree_days(low, high) ==
    [heating |-> Max({0, 2 * DegreeBase - (low + high)}),
     cooling |-> Max({0, (low + high) - 2 * DegreeBase})]

(* by_day of _summarize, its days in the order of their first rows, and    *)
(* _accumulate_daily.                                                       *)
_accumulate_daily(pairs, zone) ==
    LET day     == [i \in DOMAIN pairs |-> DayOf(pairs[i].timestamp, zone)]
        days    == Select(day, {i \in DOMAIN day : \A k \in 1 .. i - 1 : day[k] # day[i]})
        temps   == [d \in DOMAIN days |->
                       stat(Values(Select(pairs, {i \in DOMAIN day : day[i] = days[d]})))]
        degrees == [d \in DOMAIN days |-> degree_days(temps[d].min, temps[d].max)]
    IN [heating |-> Total([d \in DOMAIN days |-> degrees[d].heating]),
        cooling |-> Total([d \in DOMAIN days |-> degrees[d].cooling]),
        days |-> Len(days)]

get_summary(query, log, now, zone) ==
    LET window == _summary_window(query.period, now, zone)
        rows   == InRange(log, window.from, window.to)
        pairs  == Select(rows, Measured(rows))
    IN IF Refusal(query) # None THEN Error(Refusal(query))
       ELSE [status |-> "ok", from |-> window.from, to |-> window.to,
             sample_count |-> Len(rows), stat |-> stat(Values(rows)),
             tendency |-> pressure_tendency(pairs), slope |-> linear_trend(pairs),
             light |-> light_integral(pairs), degree_days |-> _accumulate_daily(pairs, zone)]

-----------------------------------------------------------------------------
(* The answers to [query, log, now, zone]: a log is ordered by time, as    *)
(* outdoor_readings_in_range returns it.                                    *)

Rows == [timestamp : Int, value : Int \cup {None}, uptime : Nat \cup {None}]

Queries ==
    [logging : BOOLEAN, sensor : {"outdoor", "wind", "unknown"},
     from : Int \cup {None}, to : Int \cup {None}, hours : Nat \ {0},
     bucket : {"raw", "auto", "60", "300", "900", "3600"},
     include : SUBSET {"weather", "device", "unknown"}, period : {"today", "t24h", "t7d", "t30d"}]

Ordered(log) == \A i, j \in DOMAIN log : i < j => log[i].timestamp <= log[j].timestamp

Inputs ==
    {in \in [query : Queries, log : Seq(Rows), now : Int, zone : Int] : Ordered(in.log)}

In(row, start, width) == start <= row.timestamp /\ row.timestamp < start + width

(* The logged rows behind row j of the answer: its own, or its bucket's. *)
Covered(answer, rows, j) ==
    IF answer.bucket = 0 THEN <<rows[j]>>
    ELSE Select(rows, {i \in DOMAIN rows : In(rows[i], answer.rows[j].timestamp, answer.bucket)})

(* A row tells nothing that none of the rows behind it did, and of what is *)
(* asked for all there is to tell.                                         *)
Tells(out, covered, include) ==
    /\ covered # << >>
    /\ "value" \in DOMAIN out =>
          /\ stat(Values(covered)).min <= out.value
          /\ out.value <= stat(Values(covered)).max
    /\ "weather" \in include /\ "value" \notin DOMAIN out => Values(covered) = << >>
    /\ "uptime" \in DOMAIN out => out.uptime = Last(covered).uptime
    /\ "device" \in include /\ "uptime" \notin DOMAIN out => Last(covered).uptime = None

(* Each logged row of the window counts in one row of the answer, and      *)
(* those are in order.                                                     *)
RowsAreInTheirBuckets(answer, rows, include) ==
    /\ IF answer.bucket = 0
       THEN /\ Len(answer.rows) = Len(rows)
            /\ \A j \in DOMAIN rows : answer.rows[j].timestamp = rows[j].timestamp
       ELSE /\ \A i \in DOMAIN rows :
                  \E j \in DOMAIN answer.rows :
                     {k \in DOMAIN answer.rows :
                         In(rows[i], answer.rows[k].timestamp, answer.bucket)} = {j}
            /\ \A j, k \in DOMAIN answer.rows :
                  j < k => answer.rows[j].timestamp < answer.rows[k].timestamp
    /\ \A j \in DOMAIN answer.rows : Tells(answer.rows[j], Covered(answer, rows, j), include)

(* No bucket of a window is outside the extremes of a roll-up that covers  *)
(* the window.                                                             *)
RollUpBoundsHistory(answer, summary) ==
    summary.from <= answer.from /\ answer.to <= summary.to =>
        \A i \in DOMAIN answer.rows : "value" \in DOMAIN answer.rows[i] =>
            /\ summary.stat.min <= answer.rows[i].value
            /\ answer.rows[i].value <= summary.stat.max

(* The tendency is that of three hours at most, and of values that only    *)
(* rise neither it nor the slope is a falling one; the degree days of one  *)
(* day do not both heat and cool.                                          *)
RollUpIsTrue(summary, pairs) ==
    /\ summary.tendency # None =>
          Last(pairs).timestamp - summary.tendency.since <= 3 * HOUR
    /\ (\A i, j \in DOMAIN pairs : i < j => pairs[i].value <= pairs[j].value) =>
          /\ summary.tendency # None => summary.tendency.trend # "falling"
          /\ summary.slope # None => summary.slope >= 0
    /\ summary.degree_days.heating > 0 /\ summary.degree_days.cooling > 0 =>
          summary.degree_days.days > 1
    /\ summary.light # None =>
          LET span == 2 * (Last(pairs).timestamp - Head(pairs).timestamp)
          IN summary.stat.min * span <= summary.light /\ summary.light <= summary.stat.max * span

(* What is read back is what was logged: no bucketing and no roll-up adds, *)
(* drops or moves a row (history.py:141-194, summary.py:92-188).           *)
HistoryIsWhatWasLogged(in) ==
    LET answer  == get_history(in.query, in.log, in.now)
        summary == get_summary(in.query, in.log, in.now, in.zone)
        Kept(window) == InRange(in.log, window.from, window.to)
    IN answer.status = "ok" =>
        /\ RowsAreInTheirBuckets(answer, Kept(answer), in.query.include)
        /\ RollUpBoundsHistory(answer, summary)
        /\ RollUpIsTrue(summary, Select(Kept(summary), Measured(Kept(summary))))
=============================================================================
