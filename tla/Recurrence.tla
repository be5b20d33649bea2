----------------------------- MODULE Recurrence -----------------------------
(***************************************************************************)
(* When a shift occurs, and when two shifts collide: shift-recurrence.util *)
(* and assignment-overlap.util.                                            *)
(*                                                                         *)
(* Time is the natural numbers, cut into days of one zone (no daylight     *)
(* saving); day 0 is the first day of a week.  A shift keeps its first     *)
(* start and end and a rule: kind NONE, DAILY, WEEKLY or CUSTOM_WEEKDAYS,  *)
(* the days of the week, and the end of the series, which may be missing.  *)
(***************************************************************************)
EXTENDS Integers, FiniteSets

CONSTANTS
  DayLength,  \* instants of a day
  Week,       \* days of a week: 7
  Horizon,    \* the days, and the occurrences, an overlap check looks at: 62
  NoEnd       \* recurrenceEndAt is null

ASSUME CalendarAssumption ==
  DayLength \in Nat \ {0} /\ Week \in Nat \ {0} /\ Horizon \in Nat \ {0}
ASSUME NoEndAssumption == NoEnd \notin Nat

Kinds == {"NONE", "DAILY", "WEEKLY", "CUSTOM_WEEKDAYS"}

Rule == [kind : Kinds, days : SUBSET (0 .. Week - 1), until : Nat \cup {NoEnd}]

Day(t) == t \div DayLength

IsRecurring(rule) == rule.kind # "NONE"

MatchingWeekdays(s) ==
  CASE s.rule.kind = "DAILY" -> 0 .. Week - 1
    [] s.rule.days # {} -> s.rule.days
    [] s.rule.kind = "WEEKLY" -> {Day(s.start) % Week}
    [] OTHER -> {}

(* occurrenceOnDate: whether shift s occurs on day d, and from when to when. *)
OccursOn(s, d) ==
  /\ d >= Day(s.start)
  /\ s.rule.until = NoEnd \/ d <= Day(s.rule.until)
  /\ IF IsRecurring(s.rule) THEN d % Week \in MatchingWeekdays(s)
                            ELSE d = Day(s.start)

StartOn(s, d) == (d * DayLength) + (s.start % DayLength)

EndOn(s, d) == StartOn(s, d) + (s.end - s.start)

(* Half-open ranges. *)
RangesOverlap(aStart, aEnd, bStart, bEnd) == aStart < bEnd /\ aEnd > bStart

FirstOf_Default(days) ==           \* slip: the default limit, half of it
  {d \in days : Cardinality({e \in days : e < d}) < Horizon \div 2}

FirstOf(days) ==
  {d \in days : Cardinality({e \in days : e < d}) < Horizon}

(* expandOccurrences: the days of the occurrences from `from` to `to`.     *)
(* The cursor of a recurring shift starts on the day of `from`.            *)
ExpandOccurrences(s, from, to) ==
  LET InWindow(d) == OccursOn(s, d) /\ EndOn(s, d) >= from /\ StartOn(s, d) <= to
  IN  IF IsRecurring(s.rule)
        THEN FirstOf({d \in Day(from) .. Day(to) : InWindow(d)})
        ELSE {d \in {Day(s.start)} : InWindow(d)}

RecurrencesOverlap(s, r, from, to) ==
  \E d \in ExpandOccurrences(s, from, to), e \in ExpandOccurrences(r, from, to) :
    RangesOverlap(StartOn(s, d), EndOn(s, d), StartOn(r, e), EndOn(r, e))

(* What assertNoOverlap asks of the proposed shift and another one. *)
WindowEnd(proposed) ==
  IF proposed.rule.until = NoEnd THEN proposed.start + Horizon * DayLength
                                 ELSE proposed.rule.until

Collides(proposed, other) ==
  IF IsRecurring(proposed.rule) \/ IsRecurring(other.rule)
    THEN RecurrencesOverlap(proposed, other, proposed.start, WindowEnd(proposed))
    ELSE RangesOverlap(other.start, other.end, proposed.start, proposed.end)

-----------------------------------------------------------------------------
(* The meaning of the calculus: shift s is on duty at instant t through an *)
(* occurrence of day d.                                                    *)
OnDuty(s, d, t) == OccursOn(s, d) /\ StartOn(s, d) <= t /\ t < EndOn(s, d)
=============================================================================
