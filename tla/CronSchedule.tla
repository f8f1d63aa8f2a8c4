---------------------------- MODULE CronSchedule ----------------------------
(***************************************************************************)
(* When a cron entry fires: CronField, CronExpression and the cron branch  *)
(* of ScheduleEntry.should_run in core_runtime/flow_scheduler.py.          *)
(*                                                                         *)
(* The wall clock of the entry's time zone runs minute by minute; ticks of *)
(* the scheduler, six to a minute or fewer when they are late, ask         *)
(* should_run.  The text of a cron field is given as the set of its parts. *)
(***************************************************************************)
EXTENDS Integers

CONSTANTS
  Cron,     \* the five fields of the expression, each a set of parts
  FirstMinute,    \* where the wall clock starts
  Horizon   \* bound: how many minutes are looked at

\* A part is "*", "*/N", "N", "N-M" or "N-M/S".
Wildcard     == [form |-> "any"]
Every(n)     == [form |-> "every", step |-> n]
Value(n)     == [form |-> "value", at |-> n]
Span(n, m)   == [form |-> "span", first |-> n, last |-> m, step |-> 1]
SpanBy(n, m, s) == [form |-> "span", first |-> n, last |-> m, step |-> s]

\* Python's range(first, last + 1, step).
Steps(first, last, step) == {v \in first..last : (v - first) % step = 0}

\* The values of one part in a field that ranges over min..max.
PartValues(part, min, max) ==
  CASE part.form = "any"   -> min..max
    [] part.form = "every" -> Steps(min, max, part.step)
    [] part.form = "value" -> {part.at}
    [] part.form = "span"  -> Steps(part.first, part.last, part.step)

\* CronField.parse: a step must be positive, and every value in range.
FieldValues(parts, min, max) == UNION {PartValues(part, min, max) : part \in parts}

FieldOk(parts, min, max) ==
  /\ \A part \in parts : part.form \in {"every", "span"} => part.step > 0
  /\ FieldValues(parts, min, max) \subseteq min..max

\* Mutants: the weekday is shifted the wrong way; it is shifted below Monday.
WeekdayShifted(v) == (v + 1) % 7
WeekdayUnwrapped(v) == v - 1

\* CronExpression.parse.  A weekday is counted from Sunday in the expression and
\* from Monday by datetime.weekday().
PythonWeekday(v) == (v - 1) % 7

Expression ==
  [minute  |-> FieldValues(Cron.minute, 0, 59),
   hour    |-> FieldValues(Cron.hour, 0, 23),
   day     |-> FieldValues(Cron.day, 1, 31),
   month   |-> FieldValues(Cron.month, 1, 12),
   weekday |-> {PythonWeekday(v) : v \in FieldValues(Cron.weekday, 0, 6)}]

\* A date and time as datetime gives it; weekday counts from Monday.
DateTime == [year : Nat, month : 1..12, day : 1..31, weekday : 0..6, hour : 0..23,
             minute : 0..59]

ASSUME CronAssumption ==
  /\ Horizon \in Nat
  /\ FirstMinute \in DateTime
  /\ FieldOk(Cron.minute, 0, 59)
  /\ FieldOk(Cron.hour, 0, 23)
  /\ FieldOk(Cron.day, 1, 31)
  /\ FieldOk(Cron.month, 1, 12)
  /\ FieldOk(Cron.weekday, 0, 6)

VARIABLES
  now,       \* the wall clock in the entry's time zone
  last,      \* _last_cron_minute
  fires,     \* how often the entry fired in this minute
  judged,    \* whether a tick looked at the entry in this minute
  elapsed    \* minutes since the start

cronVars == <<now, last, fires, judged, elapsed>>

CronInit ==
  /\ now = FirstMinute
  /\ last = -1
  /\ fires = 0
  /\ judged = FALSE
  /\ elapsed = 0

-----------------------------------------------------------------------------
(* The calendar.                                                           *)

Leap(y) == y % 4 = 0 /\ (y % 100 # 0 \/ y % 400 = 0)

DaysIn(y, m) == IF m = 2 THEN IF Leap(y) THEN 29 ELSE 28
                ELSE IF m \in {4, 6, 9, 11} THEN 30 ELSE 31

At(d, h, m) == [year |-> d.year, month |-> d.month, day |-> d.day, weekday |-> d.weekday,
                hour |-> h, minute |-> m]

NextDay(d) ==
  LET monthEnds == d.day >= DaysIn(d.year, d.month)
      yearEnds  == monthEnds /\ d.month = 12 IN
  [year    |-> IF yearEnds THEN d.year + 1 ELSE d.year,
   month   |-> IF yearEnds THEN 1 ELSE IF monthEnds THEN d.month + 1 ELSE d.month,
   day     |-> IF monthEnds THEN 1 ELSE d.day + 1,
   weekday |-> (d.weekday + 1) % 7,
   hour    |-> 0,
   minute  |-> 0]

NextMinute(d) ==
  CASE d.minute < 59                -> At(d, d.hour, d.minute + 1)
    [] d.minute = 59 /\ d.hour < 23 -> At(d, d.hour + 1, 0)
    [] OTHER                        -> NextDay(d)

Advance ==
  /\ elapsed < Horizon
  /\ now' = NextMinute(now)
  /\ fires' = 0
  /\ judged' = FALSE
  /\ elapsed' = elapsed + 1
  /\ UNCHANGED last

-----------------------------------------------------------------------------
(* should_run.                                                             *)

\* CronExpression.matches: all five fields, day and weekday alike.
Matches(d) ==
  /\ d.minute \in Expression.minute
  /\ d.hour \in Expression.hour
  /\ d.day \in Expression.day
  /\ d.month \in Expression.month
  /\ d.weekday \in Expression.weekday

\* Mutant: without the minute.
HourCode(d) == d.year * 525960 + d.month * 43800 + d.day * 1440 + d.hour * 60

\* The number that stands for a minute in _last_cron_minute.
MinuteCode(d) == d.year * 525960 + d.month * 43800 + d.day * 1440 + d.hour * 60 + d.minute

Fires == MinuteCode(now) # last /\ Matches(now)

\* Mutant: the minute is not remembered.
TickForgets ==
  /\ judged' = TRUE
  /\ IF Fires THEN fires' = fires + 1 ELSE UNCHANGED fires
  /\ UNCHANGED <<now, last, elapsed>>

\* A tick asks should_run, which remembers the minute when it says yes.
CronTick ==
  /\ judged' = TRUE
  /\ IF Fires THEN last' = MinuteCode(now) /\ fires' = fires + 1
              ELSE UNCHANGED <<last, fires>>
  /\ UNCHANGED <<now, elapsed>>

CronNext == CronTick \/ Advance

CronSpec == CronInit /\ [][CronNext]_cronVars
-----------------------------------------------------------------------------
(* Properties.                                                             *)

\* Every field of the parsed expression holds only values datetime can have.
ExpressionOk ==
  Expression \in [minute : SUBSET (0..59), hour : SUBSET (0..23), day : SUBSET (1..31),
                  month : SUBSET (1..12), weekday : SUBSET (0..6)]

\* The state has its types, and the parsed expression can match on all its values.
CronTypeOK ==
  /\ ExpressionOk
  /\ now \in DateTime
  /\ last \in Int
  /\ fires \in Nat
  /\ judged \in BOOLEAN
  /\ elapsed \in 0..Horizon

\* However many ticks fall into a minute, the entry fires at most once in it:
\* "not more than once within the same minute".
OncePerMinute == fires <= 1

\* "Cron is accurate to the minute": an entry whose expression matches a minute
\* in which a tick runs has fired in that minute.
MatchingMinuteFires == judged /\ Matches(now) => fires > 0

\* An entry fires only on a weekday that its expression names, counted from
\* Sunday as in cron.
FiresOnNamedDays ==
  fires > 0 => (now.weekday + 1) % 7 \in FieldValues(Cron.weekday, 0, 6)
=============================================================================
