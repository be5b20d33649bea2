------------------------------ MODULE Schedule ------------------------------
(***************************************************************************)
(* The shifts of an organisation and the officers assigned to them: create,*)
(* createBatch, reassign and updateStatus of assignments.service, update,  *)
(* updateStatus and archive of shifts.service.                             *)
(*                                                                         *)
(* That an officer has one active assignment for a shift, and is in one    *)
(* place at a time, is a matter of reads followed by writes: the database  *)
(* has no constraint for either.  A handler is one action per officer and  *)
(* read, and one for its writes; a refused request goes back to idle.      *)
(* Checks of the site, the officer and the supervisor only refuse, and are *)
(* left out.                                                               *)
(***************************************************************************)
EXTENDS Recurrence, StatusRules

CONSTANTS
  Shifts, Officers,
  Rows,        \* bound: the assignment rows there may be
  NoRow, NoShift, NoOfficer,
  Handlers,    \* the requests being handled at one time
  Times,       \* bound: the starts and ends a shift is given
  Rules,       \* bound: the recurrence rules a shift is given
  Asked,       \* bound: the statuses a shift and its assignments are given
  MaxBatch     \* bound: the officers of one batch

Span == [start : Nat, end : Nat]

ASSUME NoneAssumption ==
  NoRow \notin Rows /\ NoShift \notin Shifts /\ NoOfficer \notin Officers
(* assertShiftScheduleValid; normaliseRecurrence. *)
ASSUME TimesAssumption ==
  Times \in [Shifts -> SUBSET Span] /\ \A s \in Shifts : \A t \in Times[s] : t.start < t.end
ASSUME RulesAssumption ==
  Rules \in [Shifts -> SUBSET Rule]

VARIABLES
  shift,   \* the Shift rows: status, deletedAt, times and rule
  row,     \* the Assignment rows
  job      \* what each handler is doing, and what it has read

vars == <<shift, row, job>>

NoAssignment == [status |-> "ABSENT", shift |-> NoShift, officer |-> NoOfficer,
                 replaces |-> NoRow]

NoPlan == [start |-> 0, end |-> 0,
           rule |-> [kind |-> "NONE", days |-> {}, until |-> NoEnd]]

Idle == [op |-> "idle", step |-> "read", shift |-> NoShift, officers |-> {},
         left |-> {}, officer |-> NoOfficer, row |-> NoRow, plan |-> NoPlan,
         gives |-> {}, next |-> "ABSENT", found |-> {}]

Plan == [start : Nat, end : Nat, rule : Rule]

ShiftRow == [status : ShiftStatuses, deletedAt : {"null", "set"},
             start : Nat, end : Nat, rule : Rule]

AssignmentRow == [status : AssignmentStatuses \cup {"ABSENT"},
                  shift : Shifts \cup {NoShift}, officer : Officers \cup {NoOfficer},
                  replaces : Rows \cup {NoRow}]

Job == [op : {"idle", "create", "reassign", "update", "update_assignment", "update_shift"},
        step : {"read", "load", "duplicate", "overlap", "find", "conflicts", "write"},
        shift : Shifts \cup {NoShift}, officers : SUBSET Officers,
        left : SUBSET Officers, officer : Officers \cup {NoOfficer},
        row : Rows \cup {NoRow}, plan : Plan, gives : SUBSET {"times", "rule"},
        next : AssignmentStatuses \cup ShiftStatuses \cup {"ABSENT"}, found : SUBSET Rows]

TypeOK ==
  /\ shift \in [Shifts -> ShiftRow]
  /\ row \in [Rows -> AssignmentRow]
  /\ job \in [Handlers -> Job]

Planned(status, t, u) ==
  [status |-> status, deletedAt |-> "null", start |-> t.start, end |-> t.end, rule |-> u]

Replanned(p, times, u) == [p EXCEPT !.start = times.start, !.end = times.end, !.rule = u]

InitialPlans(s) ==
  {Planned(status, t, u) :
     status \in {"DRAFT", "SCHEDULED"} \cap Asked[s], t \in Times[s], u \in Rules[s]}

(* shifts.create checks nothing but the times it is given. *)
Init ==
  /\ shift \in [Shifts -> UNION {InitialPlans(s) : s \in Shifts}]
  /\ \A s \in Shifts : shift[s] \in InitialPlans(s)
  /\ row = [r \in Rows |-> NoAssignment]
  /\ job = [h \in Handlers |-> Idle]

-----------------------------------------------------------------------------
At(h, op, step) == job[h].op = op /\ job[h].step = step

Becomes(h, j) == job' = [job EXCEPT ![h] = j]

Ends(h) == Becomes(h, Idle)

Active(r) == row[r].status \in ActiveAssignment

Live(s) == shift[s].deletedAt = "null"

Fresh == {r \in Rows : row[r].status = "ABSENT"}

Assigned(s, o, replaced) ==
  [status |-> "ASSIGNED", shift |-> s, officer |-> o, replaces |-> replaced]

PlanOf(s) == [start |-> shift[s].start, end |-> shift[s].end, rule |-> shift[s].rule]

(***************************************************************************)
(* create and createBatch: in one transaction the shift is loaded, each    *)
(* officer is checked, and then all assignments are inserted.              *)
(***************************************************************************)
CreateRead(h) ==
  /\ job[h].op = "idle"
  /\ \E s \in Shifts, os \in SUBSET Officers \ {{}} :
       /\ Cardinality(os) <= MaxBatch
       /\ Cardinality(os) <= Cardinality(Fresh)
       /\ Live(s) /\ shift[s].status \in {"DRAFT", "SCHEDULED"}
       /\ Becomes(h, [Idle EXCEPT !.op = "create", !.step = "duplicate", !.shift = s,
                                  !.officers = os, !.left = os, !.plan = PlanOf(s)])
  /\ UNCHANGED <<shift, row>>

ReassignRead(h) ==
  /\ job[h].op = "idle"
  /\ Fresh # {}
  /\ \E r \in Rows, o \in Officers :
       /\ row[r].status \in {"ASSIGNED", "CONFIRMED"}
       /\ Becomes(h, [Idle EXCEPT !.op = "reassign", !.step = "load",
                                  !.shift = row[r].shift, !.row = r,
                                  !.officers = {o}, !.left = {o}])
  /\ UNCHANGED <<shift, row>>

(* loadAssignableShift, with allowInProgress. *)
ReassignLoad(h) ==
  /\ At(h, "reassign", "load")
  /\ IF /\ Live(job[h].shift)
        /\ shift[job[h].shift].status \in {"DRAFT", "SCHEDULED", "IN_PROGRESS"}
       THEN Becomes(h, [job[h] EXCEPT !.step = "duplicate", !.plan = PlanOf(job[h].shift)])
       ELSE Ends(h)
  /\ UNCHANGED <<shift, row>>

(* assertNoDuplicate *)
NoDuplicateOf(s, o) ==
  \A r \in Rows : ~(Active(r) /\ row[r].shift = s /\ row[r].officer = o)

FindDuplicate_Overlap(h) ==        \* slip: left to the overlap check
  /\ job[h].step = "duplicate"
  /\ \E o \in job[h].left : Becomes(h, [job[h] EXCEPT !.step = "overlap", !.officer = o])
  /\ UNCHANGED <<shift, row>>

FindDuplicate(h) ==
  /\ job[h].step = "duplicate"
  /\ \E o \in job[h].left :
       IF NoDuplicateOf(job[h].shift, o)
         THEN Becomes(h, [job[h] EXCEPT !.step = "overlap", !.officer = o])
         ELSE Ends(h)
  /\ UNCHANGED <<shift, row>>

(* assertNoOverlap: `ignored` is the assignment that is being replaced. *)
NoOverlapWith(plan, o, ignored) ==
  \A r \in Rows \ {ignored} :
    Active(r) /\ row[r].officer = o /\ Live(row[r].shift)
      => ~Collides(plan, shift[row[r].shift])

FindOverlap(h) ==
  /\ job[h].step = "overlap"
  /\ IF NoOverlapWith(job[h].plan, job[h].officer, job[h].row)
       THEN Becomes(h, [job[h] EXCEPT
              !.left = @ \ {job[h].officer},
              !.step = IF job[h].left = {job[h].officer} THEN "write" ELSE "duplicate"])
       ELSE Ends(h)
  /\ UNCHANGED <<shift, row>>

CreateWrite(h) ==
  /\ At(h, "create", "write")
  /\ \E f \in [job[h].officers -> Fresh] :
       /\ \A o, p \in job[h].officers : f[o] = f[p] => o = p
       /\ row' = [r \in Rows |->
                    IF \E o \in job[h].officers : f[o] = r
                      THEN Assigned(job[h].shift,
                                    CHOOSE o \in job[h].officers : f[o] = r, NoRow)
                      ELSE row[r]]
  /\ Ends(h)
  /\ UNCHANGED shift

ReassignWrite_Kept(h) ==           \* slip: the original stays as it is
  /\ At(h, "reassign", "write")
  /\ \E r \in Fresh, o \in job[h].officers :
       row' = [row EXCEPT ![r] = Assigned(job[h].shift, o, job[h].row)]
  /\ Ends(h)
  /\ UNCHANGED shift

ReassignWrite(h) ==
  /\ At(h, "reassign", "write")
  /\ \E r \in Fresh, o \in job[h].officers :
       row' = [row EXCEPT ![job[h].row].status = "REASSIGNED",
                          ![r] = Assigned(job[h].shift, o, job[h].row)]
  /\ Ends(h)
  /\ UNCHANGED shift

(***************************************************************************)
(* shifts.update: new times, a new rule, or both.  Only new times are      *)
(* checked, and only against the times of the officers' other shifts.      *)
(***************************************************************************)
UpdateRead(h) ==
  /\ job[h].op = "idle"
  /\ \E s \in Shifts, gives \in SUBSET {"times", "rule"} \ {{}} :
       \E t \in Times[s], u \in Rules[s] :
         /\ Live(s) /\ shift[s].status \notin {"COMPLETED", "CANCELLED", "ARCHIVED"}
         /\ shift[s].status = "IN_PROGRESS" => "times" \notin gives
         /\ Becomes(h, [Idle EXCEPT !.op = "update", !.shift = s, !.gives = gives,
              !.plan = [start |-> t.start, end |-> t.end, rule |-> u],
              !.step = IF "times" \in gives THEN "find" ELSE "write"])
  /\ UNCHANGED <<shift, row>>

(* assertNoAssignmentConflictsOnReschedule *)
UpdateFind(h) ==
  /\ At(h, "update", "find")
  /\ LET os == {row[r].officer : r \in {q \in Rows : Active(q) /\ row[q].shift = job[h].shift}}
     IN  Becomes(h, [job[h] EXCEPT !.left = os,
                                   !.step = IF os = {} THEN "write" ELSE "conflicts"])
  /\ UNCHANGED <<shift, row>>

NoConflictWith(s, plan, o) ==
  \A r \in Rows :
    Active(r) /\ row[r].officer = o /\ row[r].shift # s /\ Live(row[r].shift)
      => ~RangesOverlap(shift[row[r].shift].start, shift[row[r].shift].end,
                        plan.start, plan.end)

UpdateConflicts_First(h) ==        \* slip: returns after the first officer
  /\ At(h, "update", "conflicts")
  /\ \E o \in job[h].left :
       IF NoConflictWith(job[h].shift, job[h].plan, o)
         THEN Becomes(h, [job[h] EXCEPT !.step = "write"])
         ELSE Ends(h)
  /\ UNCHANGED <<shift, row>>

UpdateConflicts(h) ==
  /\ At(h, "update", "conflicts")
  /\ \E o \in job[h].left :
       IF NoConflictWith(job[h].shift, job[h].plan, o)
         THEN Becomes(h, [job[h] EXCEPT !.left = @ \ {o},
                            !.step = IF job[h].left = {o} THEN "write" ELSE "conflicts"])
         ELSE Ends(h)
  /\ UNCHANGED <<shift, row>>

UpdateWrite(h) ==
  /\ At(h, "update", "write")
  /\ LET times == IF "times" \in job[h].gives THEN job[h].plan ELSE shift[job[h].shift]
         rules == IF "rule" \in job[h].gives THEN job[h].plan ELSE shift[job[h].shift]
     IN  shift' = [shift EXCEPT ![job[h].shift] =
                     Replanned(shift[job[h].shift], times, rules.rule)]
  /\ Ends(h)
  /\ UNCHANGED row

(***************************************************************************)
(* updateStatus of assignments, and updateStatus and archive of shifts.    *)
(***************************************************************************)
AssignmentRead(h) ==
  /\ job[h].op = "idle"
  /\ \E r \in Rows \ Fresh : \E s \in AssignmentMoves[row[r].status] \cap Asked[row[r].shift] :
       Becomes(h, [Idle EXCEPT !.op = "update_assignment", !.step = "write",
                               !.row = r, !.next = s])
  /\ UNCHANGED <<shift, row>>

AssignmentWrite(h) ==
  /\ At(h, "update_assignment", "write")
  /\ row' = [row EXCEPT ![job[h].row].status = job[h].next]
  /\ Ends(h)
  /\ UNCHANGED shift

ShiftRead(h) ==
  /\ job[h].op = "idle"
  /\ \E s \in Shifts : \E n \in ShiftMoves[shift[s].status] \cap Asked[s] :
       /\ Live(s)
       /\ Becomes(h, [Idle EXCEPT !.op = "update_shift", !.step = "find",
                                  !.shift = s, !.next = n])
  /\ UNCHANGED <<shift, row>>

(* A cancellation looks for the active assignments. *)
ShiftFind(h) ==
  /\ At(h, "update_shift", "find")
  /\ Becomes(h, [job[h] EXCEPT !.step = "write", !.found =
       {r \in Rows : job[h].next = "CANCELLED" /\ Active(r) /\ row[r].shift = job[h].shift}])
  /\ UNCHANGED <<shift, row>>

ShiftWrite(h) ==
  /\ At(h, "update_shift", "write")
  /\ shift' = [shift EXCEPT ![job[h].shift].status = job[h].next,
                            ![job[h].shift].deletedAt =
                              IF job[h].next = "ARCHIVED" THEN "set" ELSE @]
  /\ row' = [r \in Rows |-> IF r \in job[h].found
                              THEN [row[r] EXCEPT !.status = "CANCELLED"] ELSE row[r]]
  /\ Ends(h)

-----------------------------------------------------------------------------
Assign(h) ==
  \/ CreateRead(h) \/ ReassignRead(h) \/ ReassignLoad(h)
  \/ FindDuplicate(h) \/ FindOverlap(h) \/ CreateWrite(h) \/ ReassignWrite(h)

Reschedule(h) ==
  \/ UpdateRead(h) \/ UpdateFind(h) \/ UpdateConflicts(h) \/ UpdateWrite(h)

SetStatus(h) ==
  \/ AssignmentRead(h) \/ AssignmentWrite(h)
  \/ ShiftRead(h) \/ ShiftFind(h) \/ ShiftWrite(h)

Next == \E h \in Handlers : Assign(h) \/ Reschedule(h) \/ SetStatus(h)

Spec == Init /\ [][Next]_vars
-----------------------------------------------------------------------------
OneHandler == \A g, h \in Handlers : g = h

(* With requests handled one at a time, an officer has one active          *)
(* assignment for a shift (assertNoDuplicate; the schema leaves this to    *)
(* the services).                                                          *)
OneActivePerShift ==
  \A q, r \in Rows :
    Active(q) /\ Active(r) /\ row[q].shift = row[r].shift /\ row[q].officer = row[r].officer
      => q = r

OneOff(s) == \A u \in Rules[s] : ~IsRecurring(u)

(* With requests handled one at a time, no officer is booked on two one-off*)
(* shifts whose times overlap, whatever is created, reassigned, rescheduled*)
(* or cancelled, and in which order.                                       *)
NoDoubleBooking ==
  \A q, r \in Rows :
    /\ Active(q) /\ Active(r) /\ q # r /\ row[q].officer = row[r].officer
    /\ \A p \in {q, r} : OneOff(row[p].shift) /\ Live(row[p].shift)
    => ~RangesOverlap(shift[row[q].shift].start, shift[row[q].shift].end,
                      shift[row[r].shift].start, shift[row[r].shift].end)

(* One active assignment for a shift, and for one shift at a time.         *)
BookingsKept == OneActivePerShift /\ NoDoubleBooking

(* A replaced assignment is over, and was replaced once: reassign hands a  *)
(* post over, it never staffs it twice.                                    *)
ReplacedOnce ==
  \A q, r \in Rows :
    row[q].replaces # NoRow
      => /\ row[row[q].replaces].status = "REASSIGNED"
         /\ row[r].replaces = row[q].replaces => q = r

(* The instants a proposed shift is checked for: to the end of its series, *)
(* and no further than the horizon.                                        *)
Checked(p) ==
  {t \in p.start .. (Day(p.start) + Horizon) * DayLength - 1 :
     p.rule.until = NoEnd \/ t <= p.rule.until}

(* Shift s needs the officer of shift p, which starts on or before day d.  *)
(* A recurring shift that runs over midnight is looked at from the day of  *)
(* p's start on: its night before is not seen.                             *)
BusyTwice(p, s, t) ==
  /\ \E d \in Day(p.start) .. Day(t) : OnDuty(p, d, t)
  /\ \E d \in 0 .. Day(t) : OnDuty(s, d, t) /\ (IsRecurring(s.rule) => d >= Day(p.start))

(* An assignment that is created leaves its officer on duty for one shift  *)
(* at a time, in every occurrence of every shift up to the horizon: the    *)
(* check, which expands both series in a window with a cursor and a limit, *)
(* misses nothing but the night before.                                    *)
AcceptedIsFree ==
  [][\A q, r \in Rows :
       /\ q # r /\ row[q].status = "ABSENT" /\ row'[q].status = "ASSIGNED"
       /\ row[r].status \in ActiveAssignment /\ row'[r].status \in ActiveAssignment
       /\ row[r].officer = row'[q].officer /\ Live(row[r].shift)
       => \A t \in Checked(shift[row'[q].shift]) :
            ~BusyTwice(shift[row'[q].shift], shift[row[r].shift], t)]_vars

-----------------------------------------------------------------------------
(* The inductive invariant of one handler: what its request has found so   *)
(* far still holds, for nobody else writes.                                *)
RowsMade ==
  \A r \in Rows :
    IF row[r].status = "ABSENT" THEN row[r].replaces = NoRow
                                ELSE row[r].shift \in Shifts /\ row[r].officer \in Officers

RulesGiven == \A s \in Shifts : shift[s].rule \in Rules[s]

BookingChecked(j) ==
  /\ j.shift \in Shifts /\ j.left \subseteq j.officers
  /\ j.step \in {"duplicate", "overlap", "write"}
  /\ j.plan = PlanOf(j.shift)
  /\ \A o \in j.officers \ j.left : NoDuplicateOf(j.shift, o) /\ NoOverlapWith(j.plan, o, j.row)
  /\ j.step = "overlap" => j.officer \in j.left /\ NoDuplicateOf(j.shift, j.officer)
  /\ j.step = "write" => j.left = {}

ReplacementKnown(j) ==
  /\ j.row \in Rows /\ j.shift \in Shifts
  /\ row[j.row].status \in {"ASSIGNED", "CONFIRMED"} /\ row[j.row].shift = j.shift
  /\ \E o \in Officers : j.officers = {o} /\ j.left \subseteq {o}

TimesChecked(j) ==
  /\ j.shift \in Shifts /\ j.plan.rule \in Rules[j.shift]
  /\ j.step \in {"find", "conflicts", "write"}
  /\ "times" \in j.gives /\ j.step # "find" =>
       \A r \in Rows :
         Active(r) /\ row[r].shift = j.shift /\ row[r].officer \notin j.left
           => NoConflictWith(j.shift, j.plan, row[r].officer)
  /\ j.step = "write" => j.left = {}

StatusKnown(j) ==
  IF j.op = "update_assignment"
    THEN /\ j.row \in Rows /\ row[j.row].status # "ABSENT"
         /\ j.next \in AssignmentMoves[row[j.row].status]
    ELSE /\ j.shift \in Shifts /\ j.next \in ShiftMoves[shift[j.shift].status]
         /\ \A r \in j.found : Active(r)

JobKnown(j) ==
  /\ j.op = "create" => BookingChecked(j) /\ j.row = NoRow
  /\ j.op = "reassign" =>
       /\ ReplacementKnown(j)
       /\ IF j.step = "load" THEN j.left = j.officers ELSE BookingChecked(j)
  /\ j.op = "update" => TimesChecked(j)
  /\ j.op \in {"update_assignment", "update_shift"} => StatusKnown(j)
  /\ j.op \in {"idle", "update_assignment", "update_shift"} =>
       j.step \notin {"duplicate", "overlap"}

IInv ==
  /\ TypeOK /\ RowsMade /\ RulesGiven
  /\ OneActivePerShift /\ NoDoubleBooking /\ ReplacedOnce
  /\ \A h \in Handlers : JobKnown(job[h])
=============================================================================
