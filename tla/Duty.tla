-------------------------------- MODULE Duty --------------------------------
(***************************************************************************)
(* The days of a zone whose clock may change, the occurrence of a shift an *)
(* officer is on duty for, the attendance rows that come of it, and the    *)
(* hours a report counts: timezone.util, the rest of shift-recurrence.util,*)
(* the times of performClockIn and performClockOut, and attendanceHours of *)
(* reports.service.  Attendance has the rest of what becomes of a row.     *)
(*                                                                         *)
(* One officer with one shift, whose zone is the organisation's.  Time is  *)
(* in ticks; the clock of the zone shows a tick more, or less, from one    *)
(* instant on.  A day, or nothing, is a set of at most one.                *)
(***************************************************************************)
EXTENDS Recurrence, FiniteSetsExt

CONSTANTS
  Zones,    \* records of two offsets and the instant of the change
  Posts,    \* the shifts, as records of first start, first end, rule and site
  Early,    \* how long before its start an occurrence is looked for: 2 hours
  Grace,    \* gracePeriodMinutes
  Break,    \* what the completed breaks of a row take
  Last      \* bound: the last instant

PostRow == [start : Nat, end : Nat, site : {1, 2}, rule : Rule]

(* The offsets of the IANA zones: a day at most, and no change is more.    *)
ASSUME ZonesAssumption ==
  /\ Zones \subseteq [before : -DayLength .. DayLength, after : -DayLength .. DayLength,
                      change : Int]
  /\ \A z \in Zones : z.after - z.before \in -DayLength .. DayLength
(* assertShiftScheduleValid: a shift takes some time.                      *)
ASSUME PostsAssumption ==
  Posts \subseteq PostRow /\ \A s \in Posts : s.start < s.end
(* A shift's grace period is no more than 240 minutes.                     *)
ASSUME MinutesAssumption ==
  Early \in Nat /\ Grace \in Nat /\ Grace < DayLength /\ Break \in Nat /\ Last \in Nat

VARIABLES
  zone,
  post,  \* the shift
  now,
  work   \* the Attendance rows

dutyVars == <<zone, post, now, work>>

-----------------------------------------------------------------------------
(* zonedParts, as the ticks the zone's clock shows since day 0, and the    *)
(* zonedDateKey.                                                           *)
Wall(t) == t + (IF t < zone.change THEN zone.before ELSE zone.after)

DayAt(t) == Day(Wall(t))

(* zonedDateTime: a guess that is corrected four times.                    *)
Corrected(w, guess) == guess + (w - Wall(guess))

ZonedDateTime_Once(w) == Corrected(w, w)   \* slip: corrected once

ZonedDateTime(w) == Corrected(w, Corrected(w, Corrected(w, Corrected(w, w))))

StartOfDay(d) == ZonedDateTime(d * DayLength)

(* Up to and with the last tick. *)
EndOfDay(d) == ZonedDateTime((d * DayLength) + DayLength - 1)

-----------------------------------------------------------------------------
(* The shift as its zone's clock shows it, for OccursOn.                   *)
Shown(s) ==
  [s EXCEPT !.start = Wall(@), !.end = Wall(@),
            !.rule.until = IF @ = NoEnd THEN NoEnd ELSE Wall(@)]

Occurs(s, d) == OccursOn(Shown(s), d)

StartAt(s, d) ==
  IF IsRecurring(s.rule) THEN ZonedDateTime(StartOn(Shown(s), d)) ELSE s.start

EndAt(s, d) == StartAt(s, d) + (s.end - s.start)

Nearby(t) == DayAt(t) - 1 .. DayAt(t) + 1

Or(days, others) == IF days # {} THEN days ELSE others

CurrentOccurrence_NotYesterday(s, t) ==  \* slip: the day before is not looked at
  LET open == {d \in Nearby(t) \ {DayAt(t) - 1} : Occurs(s, d)
                 /\ StartAt(s, d) - Early <= t /\ t <= EndAt(s, d) + Grace}
  IN  {d \in open : \A e \in open : d <= e}

CurrentOccurrence(s, t) ==
  LET open == {d \in Nearby(t) : Occurs(s, d)
                 /\ StartAt(s, d) - Early <= t /\ t <= EndAt(s, d) + Grace}
  IN  {d \in open : \A e \in open : d <= e}

TodayOccurrence(s, t) == {d \in {DayAt(t)} : Occurs(s, d)}

OccurrenceFromClientDate(s, t, client) == {d \in client \cap Nearby(t) : Occurs(s, d)}

Daily(s) == [s EXCEPT !.rule.kind = "DAILY"]

(* The shift that gives the occurrence, and its day. *)
ResolveClockIn(t, client) ==
  LET resolve(s) == Or(OccurrenceFromClientDate(s, t, client),
                       Or(CurrentOccurrence(s, t), TodayOccurrence(s, t)))
      found(s) == {<<s, d>> : d \in resolve(s)}
  IN  Or(found(post), IF IsRecurring(post.rule) THEN {} ELSE found(Daily(post)))

ResolveActiveOrUpcomingToday(t) ==
  LET resolve(s) == Or(CurrentOccurrence(s, t),
                       {d \in TodayOccurrence(s, t) : t <= EndAt(s, d) + Grace})
      found(s) == {<<s, d>> : d \in resolve(s)}
  IN  Or(found(post), IF IsRecurring(post.rule) THEN {} ELSE found(Daily(post)))

-----------------------------------------------------------------------------
Positive(n) == IF n > 0 THEN n ELSE 0

(* calculateTotals of attendance-calculation.service.                      *)
Late(start, in) == Positive(in - (start + Grace))

Totals(in, out, brk, start, end) ==
  [payable |-> Positive((out - in) - brk), late |-> Late(start, in),
   early |-> Positive(end - out), over |-> Positive((out - in) - (end - start))]

DutyInit ==
  /\ zone \in Zones /\ post \in Posts
  /\ now = 0 /\ work = {}

(* performClockIn, with the day the client names or without. *)
ClockIn(client) ==
  \E f \in ResolveClockIn(now, client) :
    LET start == StartAt(f[1], f[2]) IN
      /\ \A r \in work : r.day # f[2]
      /\ start <= now /\ now <= EndAt(f[1], f[2])
      /\ work' = work \cup
           {[day |-> f[2], in |-> now, out |-> NoEnd, brk |-> 0,
             site |-> post.site, totals |-> [late |-> Late(start, now)]]}
      /\ UNCHANGED <<zone, post, now>>

(* occurrenceOnDate, or the shift's own times, give a row's day its start  *)
(* and end.                                                                *)
StartFor(d) == IF Occurs(post, d) THEN StartAt(post, d) ELSE post.start

EndFor(d) == IF Occurs(post, d) THEN EndAt(post, d) ELSE post.end

(* performClockOut, after completed breaks.                                *)
ClockOut(r) ==
  /\ r \in work /\ r.out = NoEnd /\ r.in < now
  /\ work' = (work \ {r}) \cup
       {[r EXCEPT !.out = now, !.brk = Break,
                  !.totals = Totals(r.in, now, Break, StartFor(r.day), EndFor(r.day))]}
  /\ UNCHANGED <<zone, post, now>>

(* ShiftsService.update gives the shift another site, once, between days.   *)
Move ==
  /\ IsRecurring(post.rule) /\ \A r \in work : r.out # NoEnd
  /\ post.site = 1 /\ work # {}
  /\ post' = [post EXCEPT !.site = 2]
  /\ UNCHANGED <<zone, now, work>>

Tick == now < Last /\ now' = now + 1 /\ UNCHANGED <<zone, post, work>>

DutyNext ==
  \/ \E client \in {{}} \cup {{d} : d \in Nearby(now)} : ClockIn(client)
  \/ \E r \in work : ClockOut(r)
  \/ Move
  \/ Tick

DutySpec == DutyInit /\ [][DutyNext]_dutyVars

-----------------------------------------------------------------------------
(* attendanceHours for the days from..to.  A row is in the report by the   *)
(* time of its clock-in or by the day of its occurrence.                   *)
Records(from, to) ==
  {r \in work : r.out # NoEnd
     /\ \/ StartOfDay(from) <= r.in /\ r.in <= EndOfDay(to)
        \/ from <= r.day /\ r.day <= to}

Gross(r) == Positive(r.out - r.in)

Payable(r) == Positive(Gross(r) - r.brk)

DayKey(r) == DayAt(r.in)

Hours(rs) == MapThenSumSet(Payable, rs)

DaysWorked(rs) == Cardinality({DayKey(r) : r \in rs})

Row(rs) == [hours |-> Hours(rs), breaks |-> MapThenSumSet(LAMBDA r : r.brk, rs),
            days |-> DaysWorked(rs), count |-> Cardinality(rs)]

(* buildSummary, buildBySiteRows and buildOfficerAllSitesRows; the other   *)
(* kinds of report group by officer as well, and there is one.             *)
BySite(rs) == [k \in {r.site : r \in rs} |-> Row({r \in rs : r.site = k})]

OfficerAllSites(rs) ==
  LET rows == BySite(rs) IN
    [rows |-> rows, totalDays |-> DaysWorked(rs),
     totalHours |-> MapThenSumSet(LAMBDA k : rows[k].hours, DOMAIN rows)]

(* buildPayrollSummary *)
ScheduledShifts(from, to) ==
  LET f == StartOfDay(from)  t == EndOfDay(to)
      day == IF IsRecurring(post.rule) THEN DayAt(f) .. DayAt(t) ELSE {DayAt(post.start)}
  IN  {d \in day : Occurs(post, d) /\ EndAt(post, d) >= f /\ StartAt(post, d) <= t}

MissedShifts(from, to) ==
  Positive(Cardinality(ScheduledShifts(from, to)) - Cardinality(Records(from, to)))

-----------------------------------------------------------------------------
SomeDays == -1 .. Day(Last) + 1

(* Midnight, and the last tick before it, are shown once by the clock.     *)
Plain ==
  \A w \in UNION {{d * DayLength, (d * DayLength) - 1} : d \in SomeDays \ {-1}} :
    Cardinality({t \in (w - DayLength) .. (w + DayLength) : Wall(t) = w}) = 1

(* An instant is in the range of the day whose date it has, and no other.  *)
DaysTile ==
  \A t \in 0 .. Last : {d \in SomeDays : StartOfDay(d) <= t /\ t <= EndOfDay(d)} = {DayAt(t)}

Between(d, t) == Occurs(post, d) /\ StartAt(post, d) <= t /\ t <= EndAt(post, d)

(* Who is on duty for an occurrence, and has not clocked in for it, is     *)
(* shown it and may clock in to it, with its day named or without; unless  *)
(* the window of the day before is still open.                             *)
DutyFound ==
  \A d \in SomeDays :
    Between(d, now) /\ ~(Occurs(post, d - 1) /\ now <= EndAt(post, d - 1) + Grace) =>
      /\ ResolveActiveOrUpcomingToday(now) = {<<post, d>>}
      /\ \A client \in {{}, {d}} : ResolveClockIn(now, client) = {<<post, d>>}

(* An instant is in the range of the day whose date it has and no other,   *)
(* and in the end the hours of every report add up.  Each finished row is  *)
(* counted by the report of the day it was clocked in, and once more by    *)
(* that of its occurrence's day, if that is another; the reports of the    *)
(* days of a range hold what the report of the range does; no more shifts  *)
(* are missed than no row was finished for; the report pays what the row   *)
(* does, nobody leaves early with overtime, and a row keeps the lateness   *)
(* of its clock-in, except for a day a one-off shift was only repeated on. *)
(* All where the clock does not change at midnight.                        *)
HoursCountedOnce ==
  /\ now = 0 /\ Plain => DaysTile
  /\ now = Last /\ Plain =>
       /\ \A r \in work : r.out # NoEnd =>
            {d \in SomeDays : r \in Records(d, d)} = {DayKey(r), r.day}
       /\ \A from, to \in SomeDays : from <= to =>
            LET rs == Records(from, to)  all == OfficerAllSites(rs) IN
              /\ rs = UNION {Records(d, d) : d \in from .. to}
              /\ all.totalHours = Row(rs).hours
              /\ \A k \in DOMAIN all.rows : all.rows[k].days <= all.totalDays
              /\ MissedShifts(from, to)
                   <= Cardinality({d \in ScheduledShifts(from, to) : \A r \in rs : r.day # d})
       /\ \A r \in work :
            /\ r.out # NoEnd => r.totals.payable = Payable(r)
            /\ Occurs(post, r.day) => r.totals.late = Late(StartAt(post, r.day), r.in)
            /\ r.out # NoEnd /\ r.totals.over > 0 => r.totals.early = 0

-----------------------------------------------------------------------------
(* A shift and what the clock changes by take no more than a day together. *)
WithinADay ==
  /\ (post.end - post.start) + (zone.after - zone.before) <= DayLength
  /\ (post.end - post.start) + (zone.before - zone.after) <= DayLength

(* What the clock shows at the start of a one-off shift it shows once.     *)
StartShownOnce ==
  IsRecurring(post.rule) \/
    \A t \in (post.start - DayLength) .. (post.start + DayLength) :
      Wall(t) = Wall(post.start) => t = post.start

WorkRow == [day : SomeDays, in : 0 .. Last, out : Nat \cup {NoEnd}, brk : Nat, site : {1, 2},
            totals : [late : Nat] \cup [payable : Nat, late : Nat, early : Nat, over : Nat]]

DutyTypeOK ==
  /\ zone \in Zones
  /\ post \in PostRow /\ post.start < post.end
  /\ now \in 0 .. Last
  /\ work \subseteq WorkRow /\ IsFiniteSet(work)

(* The inductive invariant: nobody is clocked in before the start that the *)
(* clock-out will count from, whichever occurrence the row was made for.   *)
RowAgrees(r) ==
  /\ r.in <= now /\ StartFor(r.day) <= r.in
  /\ Occurs(post, r.day) => r.totals.late = Late(StartAt(post, r.day), r.in)
  /\ r.out # NoEnd =>
       /\ r.in < r.out /\ r.totals.payable = Payable(r)
       /\ r.totals.over > 0 => r.totals.early = 0

DutyInv == DutyTypeOK /\ \A r \in work : RowAgrees(r)
=============================================================================
