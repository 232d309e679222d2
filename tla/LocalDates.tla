----------------------------- MODULE LocalDates -----------------------------
(***************************************************************************)
(* local-date.util: local dates and the instants they begin and end at.    *)
(*                                                                         *)
(* An instant is a number of hours, a local date the number of its day; a  *)
(* zone has one offset before an instant and another one from then on,     *)
(* which is what a daylight-saving change does to the days around it.      *)
(***************************************************************************)
EXTENDS Integers

Hours == 24

Zone == [before : Int, after : Int, change : Int]

(* getTimezoneOffsetMs.                                                     *)
OffsetAt(zone, t) == IF t < zone.change THEN zone.before ELSE zone.after

(* formatNowInTimezone, formatDateInTimezone and toLocalDateValue.          *)
LocalDate(zone, t) == (t + OffsetAt(zone, t)) \div Hours

\* Fault: the first guess of the offset is not corrected.
ZonedToUtcUncorrected(zone, d) == d * Hours - OffsetAt(zone, d * Hours)
(* zonedDateTimeToUtc, for the midnight that local date d begins with.      *)
ZonedToUtc(zone, d) ==
  LET utcGuess == d * Hours
      offset == OffsetAt(zone, utcGuess)
      result == utcGuess - offset
      correctedOffset == OffsetAt(zone, result)
  IN IF correctedOffset # offset THEN utcGuess - correctedOffset ELSE result

(* buildUtcDayRangeForTimezone.                                             *)
DayRange(zone, d) == [start |-> ZonedToUtc(zone, d), end |-> ZonedToUtc(zone, d + 1)]

(* listEvents: whether an event is between two instants; none is when they  *)
(* are not in order, which is refused.                                      *)
Between(from, to, startsAt, endsAt) == from < to /\ endsAt > from /\ startsAt < to

(* getHome: whether an event of these instants is on the screen of a date.  *)
Shown(range, startsAt, endsAt) == Between(range.start, range.end, startsAt, endsAt)

\* No midnight is skipped or comes twice: the clock shows the same date on
\* both sides of the change, and not its first hours on either.
MidnightsAreClear(zone) ==
  LET a == zone.change + zone.before
      b == zone.change + zone.after
  IN /\ a \div Hours = b \div Hours
     /\ a % Hours > 0 /\ b % Hours > 0
=============================================================================
