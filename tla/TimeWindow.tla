----------------------------- MODULE TimeWindow -----------------------------
(***************************************************************************)
(* The windows reports are made over.  Time is in hours since 1970-01-01,  *)
(* a day is its number since then (a YYYY-MM-DD name stands for one and    *)
(* only one), and a window is half open: [from, to).                       *)
(*                                                                         *)
(* The machine's time zone is Offset: how many hours it is ahead of UTC    *)
(* at each local midnight.  Clocks change in the small hours, never at     *)
(* midnight.                                                               *)
(***************************************************************************)
EXTENDS Integers

CONSTANT Offset

(* No zone is further from UTC, and no clock jumps a whole day. *)
ASSUME OffsetAssumption ==
  \A d \in DOMAIN Offset :
    /\ d \in Int /\ Offset[d] \in -12 .. 14
    /\ d + 1 \in DOMAIN Offset => Offset[d + 1] - Offset[d] < 24

Zones == {"local", "utc"}

(* new Date(year, month, day), or Date.UTC of the same. *)
Midnight(d, tz) == 24 * d - (IF tz = "utc" THEN 0 ELSE Offset[d])

DayOf(t, tz) ==
  LET d == t \div 24
  IN  CHOOSE x \in d - 1 .. d + 1 : Midnight(x, tz) <= t /\ t < Midnight(x + 1, tz)

(* getDay() || 7: the first day of all was a Thursday. *)
Weekday(d) == ((d + 3) % 7) + 1

(* January 1st, to the year 2100. *)
YearStart(y) == 365 * (y - 1970) + (y - 1969) \div 4

YearOf(d) ==
  CHOOSE y \in 1970 + d \div 366 .. 1970 + d \div 365 : YearStart(y) <= d /\ d < YearStart(y + 1)

Window(kind, from, to, tz) == [kind |-> kind, from |-> from, to |-> to, tz |-> tz]

(* Mutant: a day is 24 hours. *)
ParseDateAs24Hours(d, tz) == Window("daily", Midnight(d, tz), Midnight(d, tz) + 24, tz)

(* A day is the 23, 24 or 25 hours up to the next midnight. *)
ParseDate(d, tz) == Window("daily", Midnight(d, tz), Midnight(d + 1, tz), tz)

(* A week has the year and the number its Thursday has. *)
Thursday(t, tz) == LET d == DayOf(t, tz) IN d + 4 - Weekday(d)

IsoWeekYear(t, tz) == YearOf(Thursday(t, tz))

(* ceil((milliseconds from January 1st to the Thursday / 86400000 + 1) / 7) *)
IsoWeek(t, tz) ==
  LET thursday == Thursday(t, tz)
      diff     == Midnight(thursday, tz) - Midnight(YearStart(YearOf(thursday)), tz)
  IN  (diff + 24 + 167) \div 168

Week1Monday(y) == LET jan4 == YearStart(y) + 3 IN jan4 - (Weekday(jan4) - 1)

WeekFrom(y, week) == Week1Monday(y) + (week - 1) * 7

(* What parseWeek accepts; it throws on any other. *)
ValidWeek(y, week, tz) ==
  LET from == Midnight(WeekFrom(y, week), tz)
  IN  week \in 1..53 /\ IsoWeek(from, tz) = week /\ IsoWeekYear(from, tz) = y

ParseWeek(y, week, tz) ==
  Window("weekly", Midnight(WeekFrom(y, week), tz), Midnight(WeekFrom(y, week) + 7, tz), tz)

(* todayInTz, thisWeekInTz: what a report is made over by default. *)
Today(now, tz) == ParseDate(DayOf(now, tz), tz)
ThisWeek(now, tz) == ParseWeek(IsoWeekYear(now, tz), IsoWeek(now, tz), tz)

(* --since and --until as hours before now; the report refuses to end at or *)
(* before its beginning.                                                    *)
ValidSince(since, until) == until < since
ParseSince(since, until, now, tz) == Window("since", now - since, now - until, tz)

(* Used on midnights only: no hour of the day is carried over. *)
SubtractCalendarDays(t, days, tz) ==
  LET d == DayOf(t, tz) IN Midnight(d - days, tz) + (t - Midnight(d, tz))

FloorToTzDay(t, tz) == Midnight(DayOf(t, tz), tz)
=============================================================================
