------------------------------- MODULE CronTimes -------------------------------
(***************************************************************************)
(* next_run_at of scheduling/cron.py: the first time strictly after a      *)
(* given one at which a cron expression fires, in a zone whose clock is    *)
(* put forward or back once.                                               *)
(*                                                                         *)
(* The calendar is scaled: an hour has HourMinutes minutes, a day DayHours *)
(* hours, and so on.  An instant is the number of minutes since the start, *)
(* in UTC; a reading is what the clock on the wall shows, in the same      *)
(* unit.  Before the transition both are equal.                            *)
(***************************************************************************)
EXTENDS Integers, FiniteSets

CONSTANTS
  HourMinutes, DayHours, WeekDays, MonthDays,
  MaxDays,      \* bound: _MAX_DAYS, scaled
  Expressions,  \* parsed texts: each field a set of entries
  Transitions,  \* [at : instant, shift : minutes], what the zone does
  Late          \* bound: minutes by which a time is asked for late

\* Of the zones a clock can be put forward in, those are left out where the skipped times
\* end a day, as in America/Nuuk: there next_run_at misses a time, see the README.
ASSUME CronAssumption ==
  /\ {HourMinutes, DayHours, WeekDays, MonthDays, MaxDays} \subseteq Nat \ {0} /\ Late \in Nat
  /\ \A z \in Transitions : z.at \in Nat /\ z.at % HourMinutes = 0 /\ z.shift \in Int
       /\ z.shift > 0 => z.at \div (DayHours * HourMinutes) = (z.at + z.shift) \div (DayHours * HourMinutes)

VARIABLES
  expression,
  zone,
  firesAt      \* next_run_at of the task, or the time at which it was created

cronVars == <<expression, zone, firesAt>>

DayMinutes == DayHours * HourMinutes
Horizon == MaxDays * DayMinutes

CronTypeOK == expression \in Expressions /\ zone \in Transitions /\ firesAt \in 0..(Horizon + DayMinutes)

Earliest(S) == {t \in S : \A s \in S : t <= s}

-----------------------------------------------------------------------------
(***************************************************************************)
(* Fields.  An entry is *, a, a-b, and any of them with a step; a/n stands *)
(* for a-max/n.                                                            *)
(***************************************************************************)
Star == [form |-> "any", step |-> 0]

Expand(entry, lo, hi) ==
  LET start == IF entry.form = "any" THEN lo ELSE entry.from
      end == CASE entry.form = "any" -> hi
               [] entry.form = "range" -> entry.to
               [] OTHER -> IF entry.step > 0 THEN hi ELSE entry.from
  IN {n \in start..end : entry.step > 0 => (n - start) % entry.step = 0}

ParseField(field, lo, hi) == UNION {Expand(entry, lo, hi) : entry \in field}

\* Only the text * is unrestricted; */1 is not.
Restricted(field) == field # {Star}

MinutesOf(e) == ParseField(e.minute, 0, HourMinutes - 1)
HoursOf(e) == ParseField(e.hour, 0, DayHours - 1)

\* The last value of a week stands for its first, Sunday.
WeekdaysOf(e) == {n % WeekDays : n \in ParseField(e.weekday, 0, WeekDays)}

DayMatches(e, day) ==
  LET onDate == (day % MonthDays) + 1 \in ParseField(e.day, 1, MonthDays)
      onWeekday == day % WeekDays \in WeekdaysOf(e)
  IN IF Restricted(e.day) /\ Restricted(e.weekday) THEN onDate \/ onWeekday
     ELSE (Restricted(e.day) => onDate) /\ (Restricted(e.weekday) => onWeekday)

InMonth(e, day) == (day \div MonthDays) + 1 \in ParseField(e.month, 1, (MaxDays \div MonthDays) + 1)

-----------------------------------------------------------------------------
(***************************************************************************)
(* The zone, as zoneinfo reads it: in an hour that is repeated fold tells  *)
(* the readings apart, in one that is skipped fold 0 is the offset before. *)
(***************************************************************************)
Reading(z, t) == IF t < z.at THEN t ELSE t + z.shift
Instant(z, reading, fold) ==
  LET threshold == IF (fold = 0) = (z.shift > 0) THEN z.at + z.shift ELSE z.at
  IN IF reading < threshold THEN reading ELSE reading - z.shift
Offset(z, reading, fold) == reading - Instant(z, reading, fold)

-----------------------------------------------------------------------------
(***************************************************************************)
(* next_run_at.                                                            *)
(***************************************************************************)
HasTransition(z, day) == Offset(z, day * DayMinutes, 0) # Offset(z, (day + 1) * DayMinutes, 0)

ReadingsOn(e, day) ==
  {day * DayMinutes + h * HourMinutes + m : h \in HoursOf(e), m \in MinutesOf(e)}

\* Variant: an expression that fires once an hour fires in both hours of a repeated one.
FoldsAlways(e, z, reading) ==
  IF /\ Offset(z, reading, 0) # Offset(z, reading, 1)
     /\ \A f \in {0, 1} : Reading(z, Instant(z, reading, f)) = reading
  THEN {0, 1} ELSE {0}

\* The second reading counts if both exist and the expression has several minutes.
Folds(e, z, reading) ==
  IF /\ Offset(z, reading, 0) # Offset(z, reading, 1)
     /\ \A f \in {0, 1} : Reading(z, Instant(z, reading, f)) = reading
     /\ Cardinality(MinutesOf(e)) > 1
  THEN {0, 1} ELSE {0}

\* On a day without a transition the readings are compared, else the instants.
NextOnDay(e, z, day, after) ==
  IF ~HasTransition(z, day)
  THEN {Instant(z, r, 0) : r \in Earliest({s \in ReadingsOn(e, day) : s > Reading(z, after)})}
  ELSE Earliest({t \in UNION {{Instant(z, r, f) : f \in Folds(e, z, r)} : r \in ReadingsOn(e, day)} : t > after})

\* The days from that of the reading on, and what the first of them with a match gives.
NextRunAt(e, z, after) ==
  LET today == Reading(z, after) \div DayMinutes
      days == Earliest({d \in today..(MaxDays - 1) :
                          InMonth(e, d) /\ DayMatches(e, d) /\ NextOnDay(e, z, d, after) # {}})
  IN UNION {NextOnDay(e, z, d, after) : d \in days}

-----------------------------------------------------------------------------
CronInit == expression \in Expressions /\ zone \in Transitions /\ firesAt = 0

\* The task fires, perhaps late, and the next time is computed from the time it is then.
Reschedule ==
  /\ \E late \in 0..Late : firesAt' \in NextRunAt(expression, zone, firesAt + late)
  /\ UNCHANGED <<expression, zone>>

CronNext == Reschedule
CronSpec == CronInit /\ [][CronNext]_cronVars

-----------------------------------------------------------------------------
(***************************************************************************)
(* The reference: the instants at which the clock shows a time of the      *)
(* expression, a repeated time counted once unless the expression fires    *)
(* more than once an hour, and a skipped time when the clock would have    *)
(* shown it.                                                               *)
(***************************************************************************)
Matches(e, reading) ==
  /\ InMonth(e, reading \div DayMinutes) /\ DayMatches(e, reading \div DayMinutes)
  /\ (reading \div HourMinutes) % DayHours \in HoursOf(e) /\ reading % HourMinutes \in MinutesOf(e)

Skipped(z) == {r \in 0..(Horizon - 1) : \A t \in 0..(Horizon - 1) : Reading(z, t) # r /\ r >= z.at}

DueTimes(e, z) ==
  {t \in 0..(Horizon - 1) :
     /\ Reading(z, t) < Horizon /\ Matches(e, Reading(z, t))
     /\ (\E s \in 0..(t - 1) : Reading(z, s) = Reading(z, t)) => Cardinality(MinutesOf(e)) > 1}
  \cup {t \in Skipped(z) : Matches(e, t)}

\* Whenever the next time is computed, it is the earliest instant after that at which the
\* schedule is due: none is missed where the clock is put forward or back, and none
\* returned is past.  Only times near the end of the bounded calendar are left out.
CronIsRight ==
  LET due == DueTimes(expression, zone)
  IN \A late \in 0..Late :
       LET after == firesAt + late
       IN Earliest({t \in due : t > after}) \cap (0..(Horizon - DayMinutes))
          = NextRunAt(expression, zone, after) \cap (0..(Horizon - DayMinutes))
=============================================================================
