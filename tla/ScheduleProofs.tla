--------------------------- MODULE ScheduleProofs ---------------------------
(***************************************************************************)
(* Proofs about Schedule with one handler, and about Duty.                 *)
(*                                                                         *)
(* A step of Schedule either only reads, so that its job is all that       *)
(* changes (ReadStep), or writes and goes back to idle, so that no job has *)
(* read anything (WriteStep).  What the overlap check finds is a matter of *)
(* days and windows, and needs no state.                                   *)
(*                                                                         *)
(* Of Duty there is the clock, which shows an instant with one of two      *)
(* offsets; the occurrences, which start at the time of day of the shift,  *)
(* give or take a change of the clock; the rows, which keep what they were *)
(* made with; and the sums and days of the reports.                        *)
(***************************************************************************)
EXTENDS Schedule, Duty, FiniteSetTheorems, TLAPS

USE NoneAssumption, TimesAssumption, RulesAssumption

LEMMA Statuses ==
  /\ AssignmentStatuses = {"ASSIGNED", "CONFIRMED", "IN_PROGRESS", "COMPLETED",
       "CANCELLED", "REASSIGNED", "MISSED"}
  /\ ShiftStatuses = {"DRAFT", "SCHEDULED", "IN_PROGRESS", "COMPLETED",
       "CANCELLED", "ARCHIVED"}
  BY DEF AssignmentStatuses, AssignmentMoves, ShiftStatuses, ShiftMoves

(* Tables lead to statuses; the end of an assignment is final. *)
LEMMA Moves ==
  /\ \A s \in AssignmentStatuses : AssignmentMoves[s] \subseteq AssignmentStatuses
  /\ \A s \in AssignmentStatuses : AssignmentMoves[s] # {} => s \in ActiveAssignment
  /\ \A s \in ShiftStatuses : ShiftMoves[s] \subseteq ShiftStatuses
<1>1. \A s \in AssignmentStatuses : AssignmentMoves[s] \subseteq AssignmentStatuses
  BY Statuses DEF AssignmentMoves
<1>2. \A s \in AssignmentStatuses : AssignmentMoves[s] # {} => s \in ActiveAssignment
  BY Statuses DEF AssignmentMoves, ActiveAssignment
<1>3. \A s \in ShiftStatuses : ShiftMoves[s] \subseteq ShiftStatuses
  BY Statuses DEF ShiftMoves
<1> QED BY <1>1, <1>2, <1>3

LEMMA IdleJob == Idle \in Job /\ JobKnown(Idle) /\ JobKnown(Idle)'
<1>1. NoPlan \in Plan
  BY DEF NoPlan, Plan, Rule, Kinds
<1> QED BY <1>1 DEF Idle, Job, JobKnown

LEMMA PlanType == ASSUME TypeOK, NEW s \in Shifts PROVE PlanOf(s) \in Plan
  BY DEF TypeOK, ShiftRow, PlanOf, Plan

LEMMA ReadStep ==
  ASSUME OneHandler, IInv, NEW h \in Handlers, NEW j \in Job, JobKnown(j),
         Becomes(h, j), UNCHANGED <<shift, row>>
  PROVE  IInv'
<1>1. job' \in [Handlers -> Job] /\ \A g \in Handlers : job'[g] = j
  BY DEF OneHandler, Becomes, IInv, TypeOK
<1>2. TypeOK'
  BY <1>1 DEF IInv, TypeOK
<1>3. RowsMade' /\ RulesGiven'
  BY DEF IInv, RowsMade, RulesGiven
<1>4. OneActivePerShift' /\ ReplacedOnce'
  BY DEF IInv, OneActivePerShift, ReplacedOnce, Active
<1>5. NoDoubleBooking'
  BY DEF IInv, NoDoubleBooking, Active, Live
<1>6. JobKnown(j)'
  BY DEF JobKnown, BookingChecked, ReplacementKnown, TimesChecked, StatusKnown,
         NoDuplicateOf, NoOverlapWith, NoConflictWith, PlanOf, Active, Live
<1>7. \A g \in Handlers : JobKnown(job[g])'
  BY <1>1, <1>6 DEF JobKnown, BookingChecked, ReplacementKnown, TimesChecked,
     StatusKnown, NoDuplicateOf, NoOverlapWith, NoConflictWith, PlanOf, Active, Live
<1> QED BY <1>2, <1>3, <1>4, <1>5, <1>7 DEF IInv

LEMMA WriteStep ==
  ASSUME OneHandler, IInv, NEW h \in Handlers, Ends(h),
         shift' \in [Shifts -> ShiftRow], row' \in [Rows -> AssignmentRow],
         RowsMade', RulesGiven', OneActivePerShift', NoDoubleBooking', ReplacedOnce'
  PROVE  IInv'
<1>1. job' \in [Handlers -> Job] /\ \A g \in Handlers : job'[g] = Idle
  BY IdleJob DEF OneHandler, Ends, Becomes, IInv, TypeOK
<1>2. TypeOK'
  BY <1>1 DEF TypeOK
<1>3. \A g \in Handlers : JobKnown(job[g])'
  BY <1>1, IdleJob DEF JobKnown, Idle
<1> QED BY <1>2, <1>3 DEF IInv

-----------------------------------------------------------------------------
(* The steps that read. *)

LEMMA BookingReads ==
  ASSUME OneHandler, IInv, NEW h \in Handlers,
         CreateRead(h) \/ ReassignRead(h) \/ ReassignLoad(h)
  PROVE  IInv'
<1>1. CASE CreateRead(h)
  <2>1. PICK s \in Shifts, os \in SUBSET Officers \ {{}} :
          Becomes(h, [Idle EXCEPT !.op = "create", !.step = "duplicate", !.shift = s,
                                  !.officers = os, !.left = os, !.plan = PlanOf(s)])
    BY <1>1 DEF CreateRead
  <2> DEFINE j == [Idle EXCEPT !.op = "create", !.step = "duplicate", !.shift = s,
                               !.officers = os, !.left = os, !.plan = PlanOf(s)]
  <2>2. j \in Job
    BY IdleJob, PlanType DEF IInv, Idle, Job
  <2>3. JobKnown(j)
    BY DEF JobKnown, BookingChecked, Idle
  <2> QED BY <1>1, <2>1, <2>2, <2>3, ReadStep DEF CreateRead
<1>2. CASE ReassignRead(h)
  <2>1. PICK r \in Rows, o \in Officers :
          /\ row[r].status \in {"ASSIGNED", "CONFIRMED"}
          /\ Becomes(h, [Idle EXCEPT !.op = "reassign", !.step = "load",
                                     !.shift = row[r].shift, !.row = r,
                                     !.officers = {o}, !.left = {o}])
    BY <1>2 DEF ReassignRead
  <2> DEFINE j == [Idle EXCEPT !.op = "reassign", !.step = "load",
                               !.shift = row[r].shift, !.row = r,
                               !.officers = {o}, !.left = {o}]
  <2>2. row[r].shift \in Shifts
    BY <2>1 DEF IInv, RowsMade
  <2>3. j \in Job
    BY <2>2, IdleJob DEF Idle, Job
  <2>4. JobKnown(j)
    BY <2>1, <2>2 DEF JobKnown, ReplacementKnown, Idle
  <2> QED BY <1>2, <2>1, <2>3, <2>4, ReadStep DEF ReassignRead
<1>3. CASE ReassignLoad(h)
  <2> DEFINE j == [job[h] EXCEPT !.step = "duplicate", !.plan = PlanOf(job[h].shift)]
  <2>1. job[h] \in Job /\ JobKnown(job[h]) /\ job[h].op = "reassign"
    BY <1>3 DEF IInv, TypeOK, ReassignLoad, At
  <2>2. job[h].step = "load"
    BY <1>3 DEF ReassignLoad, At
  <2>3. ReplacementKnown(job[h])
    BY <2>1 DEF JobKnown
  <2>4. CASE Becomes(h, Idle)
    BY <1>3, <2>4, IdleJob, ReadStep DEF ReassignLoad
  <2>5. CASE Becomes(h, j)
    <3>1. job[h].shift \in Shifts
      BY <2>3 DEF ReplacementKnown
    <3>2. j \in Job
      BY <2>1, <3>1, PlanType DEF IInv, Job
    <3>3. ReplacementKnown(j)
      BY <2>1, <2>3 DEF ReplacementKnown, Job
    <3>4. job[h].left = job[h].officers
      BY <2>1, <2>2 DEF JobKnown, BookingChecked
    <3>5. BookingChecked(j)
      BY <2>1, <3>1, <3>4 DEF BookingChecked, Job
    <3>6. JobKnown(j)
      BY <2>1, <3>3, <3>5 DEF JobKnown, Job
    <3> QED BY <1>3, <2>5, <3>2, <3>6, ReadStep DEF ReassignLoad
  <2> QED BY <1>3, <2>4, <2>5 DEF ReassignLoad, Ends
<1> QED BY <1>1, <1>2, <1>3

LEMMA Checking ==
  ASSUME IInv, NEW h \in Handlers, job[h].step \in {"duplicate", "overlap"}
  PROVE  /\ job[h] \in Job /\ job[h].op \in {"create", "reassign"}
         /\ BookingChecked(job[h])
         /\ job[h].op = "create" => job[h].row = NoRow
         /\ job[h].op = "reassign" => ReplacementKnown(job[h])
<1>1. job[h] \in Job /\ JobKnown(job[h])
  BY DEF IInv, TypeOK
<1>2. job[h].op \in {"create", "reassign"}
  BY <1>1 DEF Job, JobKnown, TimesChecked
<1> QED BY <1>1, <1>2 DEF JobKnown

LEMMA CheckReads ==
  ASSUME OneHandler, IInv, NEW h \in Handlers, FindDuplicate(h) \/ FindOverlap(h)
  PROVE  IInv'
<1>1. /\ job[h] \in Job /\ job[h].op \in {"create", "reassign"}
      /\ BookingChecked(job[h])
      /\ job[h].op = "create" => job[h].row = NoRow
      /\ job[h].op = "reassign" => ReplacementKnown(job[h])
  BY Checking DEF FindDuplicate, FindOverlap
<1>2. CASE Becomes(h, Idle)
  BY <1>2, IdleJob, ReadStep DEF FindDuplicate, FindOverlap
<1>3. CASE FindDuplicate(h) /\ ~Becomes(h, Idle)
  <2>1. PICK o \in job[h].left :
          /\ NoDuplicateOf(job[h].shift, o)
          /\ Becomes(h, [job[h] EXCEPT !.step = "overlap", !.officer = o])
    BY <1>3 DEF FindDuplicate, Ends
  <2> DEFINE j == [job[h] EXCEPT !.step = "overlap", !.officer = o]
  <2>2. j \in Job
    BY <1>1 DEF Job
  <2>3. BookingChecked(j)
    BY <1>1, <2>1 DEF BookingChecked, Job
  <2>4. job[h].op = "reassign" => ReplacementKnown(j)
    BY <1>1 DEF ReplacementKnown, Job
  <2>5. JobKnown(j)
    BY <1>1, <2>3, <2>4 DEF JobKnown, Job
  <2> QED BY <1>3, <2>1, <2>2, <2>5, ReadStep DEF FindDuplicate
<1>4. CASE FindOverlap(h) /\ ~Becomes(h, Idle)
  <2> DEFINE left == job[h].left \ {job[h].officer}
             step == IF job[h].left = {job[h].officer} THEN "write" ELSE "duplicate"
             j == [job[h] EXCEPT !.left = left, !.step = step]
  <2>1. Becomes(h, j) /\ NoOverlapWith(job[h].plan, job[h].officer, job[h].row)
    BY <1>1, <1>4 DEF FindOverlap, Ends, Job
  <2>2. j \in Job
    BY <1>1 DEF Job
  <2>3. NoDuplicateOf(job[h].shift, job[h].officer)
    BY <1>4 , <1>1 DEF BookingChecked, FindOverlap
  <2>4. BookingChecked(j)
    BY <1>1, <2>1, <2>3 DEF BookingChecked, Job
  <2>5. job[h].op = "reassign" => ReplacementKnown(j)
    BY <1>1 DEF ReplacementKnown, Job
  <2>6. JobKnown(j)
    BY <1>1, <2>4, <2>5 DEF JobKnown, Job
  <2> QED BY <1>4, <2>1, <2>2, <2>6, ReadStep DEF FindOverlap
<1> QED BY <1>2, <1>3, <1>4

LEMMA UpdateReads ==
  ASSUME OneHandler, IInv, NEW h \in Handlers,
         UpdateRead(h) \/ UpdateFind(h) \/ UpdateConflicts(h)
  PROVE  IInv'
<1>1. job[h] \in Job /\ JobKnown(job[h])
  BY DEF IInv, TypeOK
<1>2. CASE UpdateRead(h)
  <2>5. PICK s \in Shifts, gives \in SUBSET {"times", "rule"} :
          \E t \in Times[s], u \in Rules[s] :
            Becomes(h, [Idle EXCEPT !.op = "update", !.shift = s, !.gives = gives,
              !.plan = [start |-> t.start, end |-> t.end, rule |-> u],
              !.step = IF "times" \in gives THEN "find" ELSE "write"])
    BY <1>2 DEF UpdateRead
  <2>1. PICK t \in Times[s], u \in Rules[s] :
          Becomes(h, [Idle EXCEPT !.op = "update", !.shift = s, !.gives = gives,
            !.plan = [start |-> t.start, end |-> t.end, rule |-> u],
            !.step = IF "times" \in gives THEN "find" ELSE "write"])
    BY <2>5
  <2> DEFINE step == IF "times" \in gives THEN "find" ELSE "write"
             plan == [start |-> t.start, end |-> t.end, rule |-> u]
             j == [Idle EXCEPT !.op = "update", !.shift = s, !.gives = gives,
                               !.plan = plan, !.step = step]
  <2>2. plan \in Plan
    BY DEF Plan, Span
  <2>3. j \in Job
    BY <2>2, IdleJob DEF Idle, Job
  <2>4. JobKnown(j)
    BY DEF JobKnown, TimesChecked, Idle
  <2> QED BY <1>2, <2>1, <2>3, <2>4, ReadStep DEF UpdateRead
<1>3. CASE UpdateFind(h)
  <2> DEFINE os == {row[r].officer : r \in {q \in Rows : Active(q) /\ row[q].shift = job[h].shift}}
             step == IF os = {} THEN "write" ELSE "conflicts"
             j == [job[h] EXCEPT !.left = os, !.step = step]
  <2>1. Becomes(h, j)
    BY <1>3 DEF UpdateFind
  <2>2. os \subseteq Officers
    BY DEF IInv, RowsMade, Active, ActiveAssignment
  <2>3. j \in Job
    BY <1>1, <2>2 DEF Job
  <2>4. TimesChecked(j)
    BY <1>1, <1>3 DEF UpdateFind, At, JobKnown, TimesChecked, Job
  <2>5. JobKnown(j)
    BY <1>1, <1>3, <2>4 DEF UpdateFind, At, JobKnown, Job
  <2> QED BY <1>3, <2>1, <2>3, <2>5, ReadStep DEF UpdateFind
<1>4. CASE UpdateConflicts(h)
  <2>1. PICK o \in job[h].left :
          IF NoConflictWith(job[h].shift, job[h].plan, o)
            THEN Becomes(h, [job[h] EXCEPT !.left = @ \ {o},
                   !.step = IF job[h].left = {o} THEN "write" ELSE "conflicts"])
            ELSE Ends(h)
    BY <1>4 DEF UpdateConflicts
  <2>2. CASE Ends(h)
    BY <1>4, <2>2, IdleJob, ReadStep DEF UpdateConflicts, Ends
  <2> DEFINE left == job[h].left \ {o}
             step == IF job[h].left = {o} THEN "write" ELSE "conflicts"
             j == [job[h] EXCEPT !.left = left, !.step = step]
  <2>3. CASE NoConflictWith(job[h].shift, job[h].plan, o) /\ ~Ends(h)
    <3>1. Becomes(h, j)
      BY <1>1, <2>1, <2>3 DEF Job
    <3>2. j \in Job
      BY <1>1 DEF Job
    <3>3. TimesChecked(job[h]) /\ job[h].step = "conflicts" /\ job[h].op = "update"
      BY <1>1, <1>4 DEF UpdateConflicts, At, JobKnown
    <3>4. TimesChecked(j)
      BY <1>1, <2>3, <3>3 DEF TimesChecked, Job
    <3>5. JobKnown(j)
      BY <1>1, <3>3, <3>4 DEF JobKnown, Job
    <3> QED BY <1>4, <3>1, <3>2, <3>5, ReadStep DEF UpdateConflicts
  <2> QED BY <2>1, <2>2, <2>3
<1> QED BY <1>2, <1>3, <1>4

LEMMA StatusReads ==
  ASSUME OneHandler, IInv, NEW h \in Handlers,
         AssignmentRead(h) \/ ShiftRead(h) \/ ShiftFind(h)
  PROVE  IInv'
<1>1. job[h] \in Job /\ JobKnown(job[h])
  BY DEF IInv, TypeOK
<1>2. CASE AssignmentRead(h)
  <2>1. PICK r \in Rows \ Fresh : \E s \in AssignmentMoves[row[r].status] :
          Becomes(h, [Idle EXCEPT !.op = "update_assignment", !.step = "write",
                                  !.row = r, !.next = s])
    BY <1>2 DEF AssignmentRead
  <2>2. PICK s \in AssignmentMoves[row[r].status] :
          Becomes(h, [Idle EXCEPT !.op = "update_assignment", !.step = "write",
                                  !.row = r, !.next = s])
    BY <2>1
  <2> DEFINE j == [Idle EXCEPT !.op = "update_assignment", !.step = "write",
                               !.row = r, !.next = s]
  <2>3. row[r].status # "ABSENT" /\ row[r].status \in AssignmentStatuses
    BY DEF Fresh, IInv, TypeOK, AssignmentRow
  <2>4. j \in Job
    BY <2>3, Moves, IdleJob DEF Idle, Job
  <2>5. JobKnown(j)
    BY <2>3 DEF JobKnown, StatusKnown, Idle
  <2> QED BY <1>2, <2>2, <2>4, <2>5, ReadStep DEF AssignmentRead
<1>3. CASE ShiftRead(h)
  <2>1. PICK s \in Shifts : \E n \in ShiftMoves[shift[s].status] :
          Becomes(h, [Idle EXCEPT !.op = "update_shift", !.step = "find",
                                  !.shift = s, !.next = n])
    BY <1>3 DEF ShiftRead
  <2>2. PICK n \in ShiftMoves[shift[s].status] :
          Becomes(h, [Idle EXCEPT !.op = "update_shift", !.step = "find",
                                  !.shift = s, !.next = n])
    BY <2>1
  <2> DEFINE j == [Idle EXCEPT !.op = "update_shift", !.step = "find",
                               !.shift = s, !.next = n]
  <2>3. shift[s].status \in ShiftStatuses
    BY DEF IInv, TypeOK, ShiftRow
  <2>4. j \in Job
    BY <2>3, Moves, IdleJob DEF Idle, Job
  <2>5. JobKnown(j)
    BY DEF JobKnown, StatusKnown, Idle
  <2> QED BY <1>3, <2>2, <2>4, <2>5, ReadStep DEF ShiftRead
<1>4. CASE ShiftFind(h)
  <2> DEFINE found == {r \in Rows : job[h].next = "CANCELLED" /\ Active(r)
                                      /\ row[r].shift = job[h].shift}
             j == [job[h] EXCEPT !.step = "write", !.found = found]
  <2>1. Becomes(h, j) /\ job[h].op = "update_shift"
    BY <1>4 DEF ShiftFind, At
  <2>2. j \in Job
    BY <1>1 DEF Job
  <2>3. StatusKnown(j)
    BY <1>1, <2>1 DEF JobKnown, StatusKnown, Job
  <2>4. JobKnown(j)
    BY <1>1, <2>1, <2>3 DEF JobKnown, Job
  <2> QED BY <1>4, <2>1, <2>2, <2>4, ReadStep DEF ShiftFind
<1> QED BY <1>2, <1>3, <1>4

-----------------------------------------------------------------------------
(* The steps that write. *)

(* For one-off shifts the check is the overlap of their times, either way. *)
LEMMA OneOffCollision ==
  ASSUME IInv, NEW s \in Shifts, NEW p \in Shifts, OneOff(s), OneOff(p),
         ~Collides(PlanOf(s), shift[p])
  PROVE  /\ ~RangesOverlap(shift[s].start, shift[s].end, shift[p].start, shift[p].end)
         /\ ~RangesOverlap(shift[p].start, shift[p].end, shift[s].start, shift[s].end)
<1>1. ~IsRecurring(shift[s].rule) /\ ~IsRecurring(shift[p].rule)
  BY DEF IInv, RulesGiven, OneOff
<1>2. ~RangesOverlap(shift[p].start, shift[p].end, shift[s].start, shift[s].end)
  BY <1>1 DEF Collides, PlanOf
<1>3. /\ shift[s].start \in Nat /\ shift[s].end \in Nat
      /\ shift[p].start \in Nat /\ shift[p].end \in Nat
  BY DEF IInv, TypeOK, ShiftRow
<1> QED BY <1>2, <1>3 DEF RangesOverlap

(* New assignments of shift s to officers for whom s was checked, made     *)
(* while one assignment may end, break neither exclusion.                  *)
LEMMA Booked ==
  ASSUME IInv, NEW s \in Shifts, NEW os \in SUBSET Officers, NEW ignored,
         NEW new \in SUBSET Rows, shift' = shift,
         \A o \in os : NoDuplicateOf(s, o) /\ NoOverlapWith(PlanOf(s), o, ignored),
         \A r \in new : row'[r].shift = s /\ row'[r].officer \in os,
         \A q, r \in new : row'[q].officer = row'[r].officer => q = r,
         \A r \in Rows \ new :
           /\ row'[r].shift = row[r].shift /\ row'[r].officer = row[r].officer
           /\ row'[r].status \in ActiveAssignment => Active(r) /\ r # ignored
  PROVE  OneActivePerShift' /\ NoDoubleBooking'
<1>1. ASSUME NEW q \in new, NEW r \in Rows \ new, row'[r].status \in ActiveAssignment,
             row'[q].officer = row'[r].officer
      PROVE  /\ row'[r].shift # s
             /\ Live(row[r].shift) => ~Collides(PlanOf(s), shift[row[r].shift])
  BY <1>1 DEF NoDuplicateOf, NoOverlapWith
<1>2. OneActivePerShift'
  <2>1. SUFFICES ASSUME NEW q \in Rows, NEW r \in Rows, row'[q].status \in ActiveAssignment,
                        row'[r].status \in ActiveAssignment, row'[q].shift = row'[r].shift,
                        row'[q].officer = row'[r].officer
                 PROVE  q = r
    BY DEF OneActivePerShift, Active
  <2>2. CASE q \in new /\ r \in new
    BY <2>1, <2>2
  <2>3. CASE q \in new /\ r \notin new
    BY <1>1, <2>1, <2>3
  <2>4. CASE q \notin new /\ r \in new
    BY <1>1, <2>1, <2>4
  <2>5. CASE q \notin new /\ r \notin new
    BY <2>1, <2>5 DEF IInv, OneActivePerShift
  <2> QED BY <2>2, <2>3, <2>4, <2>5
<1>3. NoDoubleBooking'
  <2>1. SUFFICES ASSUME NEW q \in Rows, NEW r \in Rows, row'[q].status \in ActiveAssignment,
                        row'[r].status \in ActiveAssignment, q # r,
                        row'[q].officer = row'[r].officer,
                        OneOff(row'[q].shift), Live(row'[q].shift),
                        OneOff(row'[r].shift), Live(row'[r].shift)
                 PROVE  ~RangesOverlap(shift[row'[q].shift].start, shift[row'[q].shift].end,
                                       shift[row'[r].shift].start, shift[row'[r].shift].end)
    BY DEF NoDoubleBooking, Active, Live, OneOff
  <2>2. CASE q \in new /\ r \in new
    BY <2>1, <2>2
  <2>3. CASE q \in new /\ r \notin new
    <3>1. row[r].shift \in Shifts /\ ~Collides(PlanOf(s), shift[row[r].shift])
      BY <1>1, <2>1, <2>3 DEF IInv, RowsMade, Active, ActiveAssignment
    <3> QED BY <2>1, <2>3, <3>1, OneOffCollision
  <2>4. CASE q \notin new /\ r \in new
    <3>1. row[q].shift \in Shifts /\ ~Collides(PlanOf(s), shift[row[q].shift])
      BY <1>1, <2>1, <2>4 DEF IInv, RowsMade, Active, ActiveAssignment
    <3> QED BY <2>1, <2>4, <3>1, OneOffCollision
  <2>5. CASE q \notin new /\ r \notin new
    BY <2>1, <2>5 DEF IInv, NoDoubleBooking
  <2> QED BY <2>2, <2>3, <2>4, <2>5
<1> QED BY <1>2, <1>3

LEMMA CreateWrites ==
  ASSUME OneHandler, IInv, NEW h \in Handlers, CreateWrite(h)
  PROVE  IInv'
<1> DEFINE s == job[h].shift
           os == job[h].officers
<1>1. /\ shift' = shift /\ Ends(h)
      /\ job[h] \in Job /\ JobKnown(job[h]) /\ job[h].op = "create" /\ job[h].step = "write"
  BY DEF CreateWrite, At, IInv, TypeOK
<1>2. /\ s \in Shifts /\ os \subseteq Officers
      /\ \A o \in os : NoDuplicateOf(s, o) /\ NoOverlapWith(PlanOf(s), o, NoRow)
  BY <1>1 DEF JobKnown, BookingChecked, Job
<1>3. PICK f \in [os -> Fresh] :
        /\ \A o, p \in os : f[o] = f[p] => o = p
        /\ row' = [r \in Rows |->
                     IF \E o \in os : f[o] = r
                       THEN Assigned(s, CHOOSE o \in os : f[o] = r, NoRow) ELSE row[r]]
  BY DEF CreateWrite
<1> DEFINE new == {r \in Rows : \E o \in os : f[o] = r}
<1>4. ASSUME NEW r \in new
      PROVE  /\ row[r].status = "ABSENT"
             /\ \E o \in os : f[o] = r /\ row'[r] = Assigned(s, o, NoRow)
  BY <1>3 DEF Fresh
<1>5. \A r \in Rows \ new : row'[r] = row[r]
  BY <1>3
<1> HIDE DEF new, s, os
<1>6. new \in SUBSET Rows
  BY DEF new
<1>7. ASSUME NEW r \in new
      PROVE  /\ row'[r].shift = s /\ row'[r].officer \in os /\ f[row'[r].officer] = r
             /\ row'[r].status = "ASSIGNED" /\ row'[r].replaces = NoRow
             /\ row'[r] \in AssignmentRow
  <2>1. PICK o \in os : f[o] = r /\ row'[r] = Assigned(s, o, NoRow)
    BY <1>4
  <2>2. Assigned(s, o, NoRow) \in AssignmentRow
    BY <1>2, Statuses DEF Assigned, AssignmentRow
  <2> QED BY <2>1, <2>2 DEF Assigned
<1>8. row' \in [Rows -> AssignmentRow]
  <2>1. \A r \in Rows : row'[r] \in AssignmentRow
    BY <1>5, <1>7 DEF IInv, TypeOK
  <2> QED BY <1>3, <2>1
<1>9. OneActivePerShift' /\ NoDoubleBooking'
  <2>1. \A q, r \in new : row'[q].officer = row'[r].officer => q = r
    BY <1>7
  <2>2. \A r \in Rows \ new :
          /\ row'[r].shift = row[r].shift /\ row'[r].officer = row[r].officer
          /\ row'[r].status \in ActiveAssignment => Active(r) /\ r # NoRow
    BY <1>5 DEF Active
  <2>3. os \in SUBSET Officers /\ shift' = shift
    BY <1>1, <1>2
  <2>4. \A r \in new : row'[r].shift = s /\ row'[r].officer \in os
    BY <1>7
  <2> QED BY <1>2, <1>6, <2>1, <2>2, <2>3, <2>4, Booked
<1>10. RowsMade' /\ RulesGiven'
  BY <1>1, <1>2, <1>5, <1>7 DEF IInv, RowsMade, RulesGiven
<1>11. ReplacedOnce'
  <2>1. SUFFICES ASSUME NEW q \in Rows, NEW r \in Rows, row'[q].replaces # NoRow
                 PROVE  /\ row'[row'[q].replaces].status = "REASSIGNED"
                        /\ row'[r].replaces = row'[q].replaces => q = r
    BY DEF ReplacedOnce
  <2>2. q \notin new /\ row'[q] = row[q]
    BY <1>5, <1>7, <2>1
  <2>3. row[row[q].replaces].status = "REASSIGNED" /\ row[q].replaces \in Rows
    BY <2>1, <2>2 DEF IInv, ReplacedOnce, TypeOK, AssignmentRow
  <2>4. row[q].replaces \notin new
    BY <1>4, <2>3
  <2>5. row'[r].replaces = row'[q].replaces => r \notin new
    BY <1>7, <2>1
  <2> QED BY <1>5, <2>1, <2>2, <2>3, <2>4, <2>5 DEF IInv, ReplacedOnce
<1>12. shift' \in [Shifts -> ShiftRow]
  BY <1>1 DEF IInv, TypeOK
<1> QED BY <1>1, <1>8, <1>9, <1>10, <1>11, <1>12, WriteStep

LEMMA ReassignWrites ==
  ASSUME OneHandler, IInv, NEW h \in Handlers, ReassignWrite(h)
  PROVE  IInv'
<1> DEFINE s == job[h].shift
           k == job[h].row
           os == job[h].officers
<1>1. /\ shift' = shift /\ Ends(h)
      /\ job[h] \in Job /\ JobKnown(job[h]) /\ job[h].op = "reassign" /\ job[h].step = "write"
  BY DEF ReassignWrite, At, IInv, TypeOK
<1>2. /\ s \in Shifts /\ os \in SUBSET Officers
      /\ \A o \in os : NoDuplicateOf(s, o) /\ NoOverlapWith(PlanOf(s), o, k)
      /\ k \in Rows /\ row[k].status \in {"ASSIGNED", "CONFIRMED"}
  BY <1>1 DEF JobKnown, BookingChecked, ReplacementKnown, Job
<1>3. PICK n \in Fresh, o \in os :
        row' = [row EXCEPT ![k].status = "REASSIGNED", ![n] = Assigned(s, o, k)]
  BY DEF ReassignWrite
<1> HIDE DEF s, k, os
<1>4. n \in Rows /\ row[n].status = "ABSENT" /\ n # k
  BY <1>2 DEF Fresh
<1>5. /\ row'[n] = Assigned(s, o, k)
      /\ row'[k] = [row[k] EXCEPT !.status = "REASSIGNED"]
      /\ \A r \in Rows \ {n, k} : row'[r] = row[r]
  BY <1>2, <1>3, <1>4 DEF IInv, TypeOK
<1>6. row[k] \in AssignmentRow
  BY <1>2 DEF IInv, TypeOK
<1>7. row' \in [Rows -> AssignmentRow]
  <2>1. Assigned(s, o, k) \in AssignmentRow
    BY <1>2, Statuses DEF Assigned, AssignmentRow
  <2>2. [row[k] EXCEPT !.status = "REASSIGNED"] \in AssignmentRow
    BY <1>6, Statuses DEF AssignmentRow
  <2>3. \A r \in Rows : row'[r] \in AssignmentRow
    BY <1>5, <2>1, <2>2 DEF IInv, TypeOK
  <2> QED BY <1>3, <2>3 DEF IInv, TypeOK
<1>8. /\ row'[k].status = "REASSIGNED" /\ row'[k].shift = row[k].shift
      /\ row'[k].officer = row[k].officer /\ row'[k].replaces = row[k].replaces
      /\ row'[n].status = "ASSIGNED" /\ row'[n].shift = s /\ row'[n].officer = o
      /\ row'[n].replaces = k
  BY <1>5, <1>6 DEF Assigned, AssignmentRow
<1>9. OneActivePerShift' /\ NoDoubleBooking'
  <2>1. \A r \in Rows \ {n} :
          /\ row'[r].shift = row[r].shift /\ row'[r].officer = row[r].officer
          /\ row'[r].status \in ActiveAssignment => Active(r) /\ r # k
    BY <1>5, <1>8 DEF Active, ActiveAssignment
  <2>2. \A r \in {n} : row'[r].shift = s /\ row'[r].officer \in os
    BY <1>8
  <2>3. {n} \in SUBSET Rows /\ \A q, r \in {n} : row'[q].officer = row'[r].officer => q = r
    BY <1>4
  <2> QED BY <1>1, <1>2, <2>1, <2>2, <2>3, Booked
<1>10. RowsMade' /\ RulesGiven'
  <2>1. \A r \in Rows \ {n, k} :
          IF row'[r].status = "ABSENT" THEN row'[r].replaces = NoRow
            ELSE row'[r].shift \in Shifts /\ row'[r].officer \in Officers
    BY <1>5 DEF IInv, RowsMade
  <2>2. row[k].shift \in Shifts /\ row[k].officer \in Officers
    BY <1>2 DEF IInv, RowsMade
  <2> QED BY <1>1, <1>2, <1>8, <2>1, <2>2 DEF IInv, RowsMade, RulesGiven
<1>11. ReplacedOnce'
  <2>1. ASSUME NEW q \in Rows, row[q].replaces # NoRow
        PROVE  /\ row[q].replaces \in Rows \ {n, k} /\ q # n
               /\ row'[row[q].replaces].status = "REASSIGNED"
    <3>1. row[q].replaces \in Rows /\ row[row[q].replaces].status = "REASSIGNED"
      BY <2>1 DEF IInv, ReplacedOnce, TypeOK, AssignmentRow
    <3>2. row[n].replaces = NoRow
      BY <1>4 DEF IInv, RowsMade
    <3> QED BY <1>2, <1>4, <1>5, <2>1, <3>1, <3>2
  <2>2. \A q \in Rows \ {n} : row'[q].replaces = row[q].replaces
    BY <1>5, <1>8
  <2>3. \A q, r \in Rows : row[q].replaces # NoRow /\ row[r].replaces = row[q].replaces => q = r
    BY DEF IInv, ReplacedOnce
  <2> QED BY <1>2, <1>8, <2>1, <2>2, <2>3 DEF ReplacedOnce
<1>12. shift' \in [Shifts -> ShiftRow]
  BY <1>1 DEF IInv, TypeOK
<1> QED BY <1>1, <1>7, <1>9, <1>10, <1>11, <1>12, WriteStep

LEMMA UpdateWrites ==
  ASSUME OneHandler, IInv, NEW h \in Handlers, UpdateWrite(h)
  PROVE  IInv'
<1> DEFINE s == job[h].shift
           plan == job[h].plan
           times == IF "times" \in job[h].gives THEN plan ELSE shift[s]
           rules == IF "rule" \in job[h].gives THEN plan ELSE shift[s]
<1>1. /\ row' = row /\ Ends(h) /\ job[h] \in Job /\ TimesChecked(job[h])
      /\ job[h].step = "write"
      /\ shift' = [shift EXCEPT ![s] = Replanned(shift[s], times, rules.rule)]
  BY DEF UpdateWrite, At, IInv, TypeOK, JobKnown
<1>2. s \in Shifts /\ plan \in Plan /\ plan.rule \in Rules[s] /\ shift[s] \in ShiftRow
  BY <1>1 DEF TimesChecked, Job, IInv, TypeOK
<1>3. "times" \in job[h].gives =>
        \A r \in Rows : Active(r) /\ row[r].shift = s => NoConflictWith(s, plan, row[r].officer)
  BY <1>1 DEF TimesChecked
<1>4. /\ shift'[s].deletedAt = shift[s].deletedAt /\ shift'[s].rule \in Rules[s]
      /\ shift'[s].start = times.start /\ shift'[s].end = times.end
      /\ times.start \in Nat /\ times.end \in Nat
      /\ \A p \in Shifts \ {s} : shift'[p] = shift[p]
  BY <1>1, <1>2 DEF Replanned, Plan, ShiftRow, IInv, TypeOK, RulesGiven
<1>5. shift' \in [Shifts -> ShiftRow]
  <2>1. Replanned(shift[s], times, rules.rule) \in ShiftRow
    BY <1>2 DEF Replanned, Plan, ShiftRow
  <2> QED BY <1>1, <2>1 DEF IInv, TypeOK
<1> HIDE DEF times, rules
<1>6. RowsMade' /\ RulesGiven' /\ OneActivePerShift' /\ ReplacedOnce'
  BY <1>1, <1>4 DEF IInv, RowsMade, RulesGiven, OneActivePerShift, ReplacedOnce, Active
<1>7. ASSUME NEW q \in Rows, NEW r \in Rows, Active(q), Active(r), q # r,
             row[q].officer = row[r].officer, row[q].shift = s,
             OneOff(s), Live(s), OneOff(row[r].shift), Live(row[r].shift)
      PROVE  /\ row[r].shift \in Shifts \ {s}
             /\ ~RangesOverlap(shift'[s].start, shift'[s].end,
                               shift[row[r].shift].start, shift[row[r].shift].end)
             /\ ~RangesOverlap(shift[row[r].shift].start, shift[row[r].shift].end,
                               shift'[s].start, shift'[s].end)
  <2> DEFINE p == row[r].shift
  <2>1. p \in Shifts \ {s}
    BY <1>7 DEF IInv, RowsMade, OneActivePerShift, Active, ActiveAssignment
  <2>2. /\ shift[p].start \in Nat /\ shift[p].end \in Nat
        /\ shift[s].start \in Nat /\ shift[s].end \in Nat
    BY <1>2, <2>1 DEF IInv, TypeOK, ShiftRow
  <2>3. CASE "times" \in job[h].gives
    <3>1. ~RangesOverlap(shift[p].start, shift[p].end, plan.start, plan.end)
      BY <1>3, <1>7, <2>1, <2>3 DEF NoConflictWith
    <3>2. shift'[s].start = plan.start /\ shift'[s].end = plan.end
      BY <1>4, <2>3 DEF times
    <3> QED BY <1>4, <2>1, <2>2, <3>1, <3>2 DEF RangesOverlap
  <2>4. CASE "times" \notin job[h].gives
    <3>1. shift'[s].start = shift[s].start /\ shift'[s].end = shift[s].end
      BY <1>4, <2>4 DEF times
    <3>2. ~RangesOverlap(shift[s].start, shift[s].end, shift[p].start, shift[p].end)
      BY <1>7 DEF IInv, NoDoubleBooking
    <3> QED BY <2>1, <2>2, <3>1, <3>2 DEF RangesOverlap
  <2> QED BY <2>3, <2>4
<1>8. NoDoubleBooking'
  <2>1. SUFFICES ASSUME NEW q \in Rows, NEW r \in Rows, Active(q), Active(r), q # r,
                        row[q].officer = row[r].officer,
                        OneOff(row[q].shift), Live(row[q].shift)',
                        OneOff(row[r].shift), Live(row[r].shift)'
                 PROVE  ~RangesOverlap(shift'[row[q].shift].start, shift'[row[q].shift].end,
                                       shift'[row[r].shift].start, shift'[row[r].shift].end)
    BY <1>1 DEF NoDoubleBooking, Active, OneOff, Live
  <2>2. row[q].shift \in Shifts /\ row[r].shift \in Shifts
    BY <2>1 DEF IInv, RowsMade, Active, ActiveAssignment
  <2>3. Live(row[q].shift) /\ Live(row[r].shift)
    BY <1>1, <1>4, <2>1, <2>2 DEF Live
  <2>4. CASE row[q].shift = s
    BY <1>4, <1>7, <2>1, <2>3, <2>4
  <2>5. CASE row[r].shift = s
    BY <1>4, <1>7, <2>1, <2>3, <2>5
  <2>6. CASE row[q].shift # s /\ row[r].shift # s
    BY <1>4, <2>1, <2>2, <2>3, <2>6 DEF IInv, NoDoubleBooking
  <2> QED BY <2>4, <2>5, <2>6
<1>9. row' \in [Rows -> AssignmentRow]
  BY <1>1 DEF IInv, TypeOK
<1> QED BY <1>1, <1>5, <1>6, <1>8, <1>9, WriteStep

(* A write of statuses that ends assignments or shifts, and begins none. *)
LEMMA StatusWrites ==
  ASSUME OneHandler, IInv, NEW h \in Handlers, AssignmentWrite(h) \/ ShiftWrite(h)
  PROVE  IInv'
<1>1. Ends(h) /\ job[h] \in Job /\ StatusKnown(job[h])
  BY DEF AssignmentWrite, ShiftWrite, At, IInv, TypeOK, JobKnown
<1>2. /\ row' \in [Rows -> AssignmentRow]
      /\ \A r \in Rows :
           \/ row'[r] = row[r]
           \/ /\ Active(r) /\ row'[r].status \in AssignmentStatuses
              /\ row'[r].shift = row[r].shift /\ row'[r].officer = row[r].officer
              /\ row'[r].replaces = row[r].replaces
  <2>1. CASE AssignmentWrite(h)
    <3> DEFINE k == job[h].row
    <3>1. /\ k \in Rows /\ row[k].status # "ABSENT"
          /\ job[h].next \in AssignmentMoves[row[k].status]
          /\ row' = [row EXCEPT ![k].status = job[h].next]
      BY <1>1, <2>1 DEF AssignmentWrite, At, StatusKnown
    <3>2. row[k] \in AssignmentRow /\ row[k].status \in AssignmentStatuses
      BY <3>1 DEF IInv, TypeOK, AssignmentRow
    <3>3. job[h].next \in AssignmentStatuses /\ Active(k)
      BY <3>1, <3>2, Moves DEF Active
    <3> QED BY <3>1, <3>2, <3>3 DEF IInv, TypeOK, AssignmentRow
  <2>2. CASE ShiftWrite(h)
    <3>1. /\ \A r \in job[h].found : Active(r)
          /\ row' = [r \in Rows |-> IF r \in job[h].found
                       THEN [row[r] EXCEPT !.status = "CANCELLED"] ELSE row[r]]
      BY <1>1, <2>2 DEF ShiftWrite, At, StatusKnown
    <3>2. \A r \in Rows : row[r] \in AssignmentRow
      BY DEF IInv, TypeOK
    <3> QED BY <3>1, <3>2, Statuses DEF AssignmentRow
  <2> QED BY <2>1, <2>2
<1>3. /\ shift' \in [Shifts -> ShiftRow]
      /\ \A s \in Shifts :
           /\ shift'[s].start = shift[s].start /\ shift'[s].end = shift[s].end
           /\ shift'[s].rule = shift[s].rule
           /\ shift[s].deletedAt = "set" => shift'[s].deletedAt = "set"
  <2>1. CASE AssignmentWrite(h)
    BY <2>1 DEF AssignmentWrite, IInv, TypeOK
  <2>2. CASE ShiftWrite(h)
    <3> DEFINE k == job[h].shift
    <3>1. /\ k \in Shifts /\ job[h].next \in ShiftMoves[shift[k].status]
          /\ shift' = [shift EXCEPT ![k].status = job[h].next,
                        ![k].deletedAt = IF job[h].next = "ARCHIVED" THEN "set" ELSE @]
      BY <1>1, <2>2 DEF ShiftWrite, At, StatusKnown
    <3>2. shift[k] \in ShiftRow /\ shift[k].status \in ShiftStatuses
      BY <3>1 DEF IInv, TypeOK, ShiftRow
    <3>3. job[h].next \in ShiftStatuses
      BY <3>1, <3>2, Moves
    <3> QED BY <3>1, <3>2, <3>3 DEF IInv, TypeOK, ShiftRow
  <2> QED BY <2>1, <2>2
<1>4. \A r \in Rows :
        /\ row'[r].shift = row[r].shift /\ row'[r].officer = row[r].officer
        /\ row'[r].replaces = row[r].replaces
        /\ row'[r].status \in ActiveAssignment => Active(r)
        /\ row'[r].status = "ABSENT" <=> row[r].status = "ABSENT"
        /\ row[r].status = "REASSIGNED" => row'[r].status = "REASSIGNED"
  BY <1>2, Statuses DEF Active, ActiveAssignment
<1>5. RowsMade' /\ RulesGiven' /\ OneActivePerShift'
  BY <1>3, <1>4 DEF IInv, RowsMade, RulesGiven, OneActivePerShift, Active
<1>6. ReplacedOnce'
  <2>1. \A q \in Rows : row[q].replaces # NoRow => row[q].replaces \in Rows
    BY DEF IInv, TypeOK, AssignmentRow
  <2> QED BY <1>4, <2>1 DEF IInv, ReplacedOnce
<1>7. NoDoubleBooking'
  <2>1. SUFFICES ASSUME NEW q \in Rows, NEW r \in Rows, Active(q), Active(r), q # r,
                        row[q].officer = row[r].officer,
                        OneOff(row[q].shift), Live(row[q].shift)',
                        OneOff(row[r].shift), Live(row[r].shift)'
                 PROVE  ~RangesOverlap(shift[row[q].shift].start, shift[row[q].shift].end,
                                       shift[row[r].shift].start, shift[row[r].shift].end)
    <3>1. \A r \in Rows : Active(r) => row[r].shift \in Shifts
      BY DEF IInv, RowsMade, Active, ActiveAssignment
    <3> QED BY <1>3, <1>4, <3>1 DEF NoDoubleBooking, Active, OneOff, Live
  <2>2. row[q].shift \in Shifts /\ row[r].shift \in Shifts
    BY <2>1 DEF IInv, RowsMade, Active, ActiveAssignment
  <2>3. Live(row[q].shift) /\ Live(row[r].shift)
    BY <1>3, <1>4, <2>1, <2>2 DEF Live, IInv, TypeOK, ShiftRow
  <2> QED BY <2>1, <2>3 DEF IInv, NoDoubleBooking
<1> QED BY <1>1, <1>2, <1>3, <1>5, <1>6, <1>7, WriteStep

-----------------------------------------------------------------------------
LEMMA Initially == Init => IInv
<1> SUFFICES ASSUME Init PROVE IInv
  OBVIOUS
<1>1. \A s \in Shifts : shift[s] \in ShiftRow /\ shift[s].rule \in Rules[s]
  <2> TAKE s \in Shifts
  <2>1. PICK status \in {"DRAFT", "SCHEDULED"}, t \in Times[s], u \in Rules[s] :
          shift[s] = Planned(status, t, u)
    BY DEF Init, InitialPlans
  <2> QED BY <2>1, Statuses DEF Planned, ShiftRow, Span
<1>2. shift \in [Shifts -> ShiftRow]
  BY <1>1 DEF Init
<1>3. \A r \in Rows : row[r] = NoAssignment
  BY DEF Init
<1>4. NoAssignment \in AssignmentRow
  BY DEF NoAssignment, AssignmentRow
<1>5. TypeOK
  BY <1>2, <1>4, IdleJob DEF Init, TypeOK
<1>6. \A r \in Rows : row[r].status = "ABSENT" /\ row[r].replaces = NoRow
  BY <1>3 DEF NoAssignment
<1>7. RowsMade /\ RulesGiven /\ OneActivePerShift /\ NoDoubleBooking /\ ReplacedOnce
  BY <1>1, <1>6 DEF RowsMade, RulesGiven, OneActivePerShift, NoDoubleBooking,
                    ReplacedOnce, Active, ActiveAssignment
<1>8. \A h \in Handlers : JobKnown(job[h])
  BY IdleJob DEF Init
<1> QED BY <1>5, <1>7, <1>8 DEF IInv

LEMMA Preserved ==
  ASSUME OneHandler, IInv, [Next]_vars
  PROVE  IInv'
<1>1. ASSUME NEW h \in Handlers, Assign(h) PROVE IInv'
  BY <1>1, BookingReads, CheckReads, CreateWrites, ReassignWrites DEF Assign
<1>2. ASSUME NEW h \in Handlers, Reschedule(h) PROVE IInv'
  BY <1>2, UpdateReads, UpdateWrites DEF Reschedule
<1>3. ASSUME NEW h \in Handlers, SetStatus(h) PROVE IInv'
  BY <1>3, StatusReads, StatusWrites DEF SetStatus
<1>4. CASE UNCHANGED vars
  BY <1>4 DEF vars, IInv, TypeOK, RowsMade, RulesGiven, OneActivePerShift,
     NoDoubleBooking, ReplacedOnce, JobKnown, BookingChecked, ReplacementKnown,
     TimesChecked, StatusKnown, NoDuplicateOf, NoOverlapWith, NoConflictWith,
     PlanOf, Active, Live
<1> QED BY <1>1, <1>2, <1>3, <1>4 DEF Next

(* Requests handled one at a time keep the invariant, whatever shifts,     *)
(* officers, times, rules and batches there are.                           *)
THEOREM Inductive ==
  ASSUME OneHandler
  PROVE  Spec => []IInv
<1>1. IInv /\ [Next]_vars => IInv'
  BY Preserved
<1> QED BY <1>1, Initially, PTL DEF Spec

(* assertNoOverlap and assertNoAssignmentConflictsOnReschedule together    *)
(* keep an officer from being booked on two one-off shifts at once.        *)
THEOREM NotDoubleBooked ==
  ASSUME OneHandler
  PROVE  Spec => []NoDoubleBooking
<1>1. IInv => NoDoubleBooking
  BY DEF IInv
<1> QED BY <1>1, Inductive, PTL

(* assertNoDuplicate keeps an officer's active assignment for a shift      *)
(* unique, which the database does not.                                    *)
THEOREM OneActive ==
  ASSUME OneHandler
  PROVE  Spec => []OneActivePerShift
<1>1. IInv => OneActivePerShift
  BY DEF IInv
<1> QED BY <1>1, Inductive, PTL

(* reassign hands a post over once, and the assignment it replaces stays   *)
(* over.                                                                   *)
THEOREM HandedOverOnce ==
  ASSUME OneHandler
  PROVE  Spec => []ReplacedOnce
<1>1. IInv => ReplacedOnce
  BY DEF IInv
<1> QED BY <1>1, Inductive, PTL

(* With one request at a time, bookings are neither doubled nor overlap.   *)
THEOREM BookedOnce ==
  ASSUME OneHandler
  PROVE  Spec => []BookingsKept
<1>1. IInv => BookingsKept
  BY DEF IInv, BookingsKept
<1> QED BY <1>1, Inductive, PTL
-----------------------------------------------------------------------------
(***************************************************************************)
(* Days, windows and what the overlap check finds.                         *)
(***************************************************************************)
(* Division with a rest, and products in their order. *)
LEMMA Division ==
  ASSUME NEW t \in Int, NEW n \in Nat \ {0}
  PROVE  /\ t \div n \in Int /\ t % n \in 0 .. n - 1
         /\ t = (n * (t \div n)) + (t % n)
<1>1. t \div n \in Int /\ t % n \in Int
  OBVIOUS
<1>2. 0 <= t % n /\ t % n < n
  OBVIOUS
<1>3. t = n * (t \div n) + (t % n)
  OBVIOUS
<1> QED BY <1>1, <1>2, <1>3

LEMMA Multiples ==
  ASSUME NEW a \in Int, NEW b \in Int, NEW n \in Nat \ {0}
  PROVE  /\ n * a < (n * b) + n => a <= b
         /\ a <= b => n * a <= n * b
<1>1. ASSUME n * a < (n * b) + n PROVE a < b + 1
  BY <1>1
<1>2. ASSUME a <= b PROVE n * a <= n * b
  BY <1>2
<1> QED BY <1>1, <1>2

(* The day of an instant, and no other, has it. *)
LEMMA DayHas ==
  ASSUME NEW t \in Int
  PROVE  /\ Day(t) \in Int
         /\ DayLength * Day(t) <= t /\ t < (DayLength * Day(t)) + DayLength
         /\ \A d \in Int :
              /\ DayLength * d <= t => d <= Day(t)
              /\ t < (DayLength * d) + DayLength => Day(t) <= d
<1>1. Day(t) \in Int /\ t % DayLength \in 0 .. DayLength - 1
      /\ t = (DayLength * Day(t)) + (t % DayLength)
  BY Division, CalendarAssumption DEF Day
<1>2. DayLength * Day(t) \in Int /\ DayLength \in Int
  BY <1>1, CalendarAssumption
<1>3. DayLength * Day(t) <= t /\ t < (DayLength * Day(t)) + DayLength
  BY <1>1, <1>2
<1>4. ASSUME NEW d \in Int
      PROVE  /\ DayLength * d <= t => d <= Day(t)
             /\ t < (DayLength * d) + DayLength => Day(t) <= d
  <2> DEFINE a == DayLength * Day(t)  b == DayLength * d
  <2>1. a \in Int /\ b \in Int
    BY <1>1, CalendarAssumption
  <2>2. /\ a < b + DayLength => Day(t) <= d
        /\ b < a + DayLength => d <= Day(t)
    BY <1>1, Multiples, CalendarAssumption
  <2> HIDE DEF a, b
  <2>3. a <= t /\ t < a + DayLength
    BY <1>3 DEF a
  <2>4. /\ b <= t => b < a + DayLength
        /\ t < b + DayLength => a < b + DayLength
    BY <2>1, <2>3, <1>2
  <2> QED BY <2>2, <2>4 DEF b
<1> QED BY <1>1, <1>3, <1>4

LEMMA DayMonotone ==
  ASSUME NEW t \in Int, NEW u \in Int, t <= u
  PROVE  Day(t) <= Day(u)
<1>1. DayLength * Day(t) \in Int
  BY DayHas, CalendarAssumption
<1>2. DayLength * Day(t) <= u
  BY <1>1, DayHas
<1> QED BY <1>2, DayHas

(* A shift has times and a rule. *)
Scheduled(s) ==
  /\ s.start \in Nat /\ s.end \in Nat
  /\ s.rule.until \in Nat \cup {NoEnd}

LEMMA OnTimes ==
  ASSUME NEW s, Scheduled(s), NEW d \in Int
  PROVE  /\ StartOn(s, d) \in Int /\ EndOn(s, d) \in Int
         /\ DayLength * d \in Int /\ DayLength * d <= StartOn(s, d)
         /\ StartOn(s, d) = (DayLength * d) + (s.start % DayLength)
<1>1. s.start \in Int /\ s.start % DayLength \in 0 .. DayLength - 1
  <2>1. s.start \in Int /\ DayLength \in Nat \ {0}
    BY CalendarAssumption DEF Scheduled
  <2> QED BY <2>1, Division
<1>2. d * DayLength \in Int /\ DayLength * d = d * DayLength /\ DayLength \in Int
  BY CalendarAssumption
<1>3. StartOn(s, d) = (DayLength * d) + (s.start % DayLength)
  BY <1>2 DEF StartOn
<1>4. StartOn(s, d) \in Int /\ DayLength * d <= StartOn(s, d)
  BY <1>1, <1>2, <1>3
<1> QED BY <1>2, <1>3, <1>4 DEF EndOn, Scheduled

(* The days of a window of the horizon are not too many for the limit.     *)
LEMMA WithinLimit ==
  ASSUME NEW a \in Int, NEW days, \A d \in days : d \in Int /\ a <= d,
         NEW d \in days, d < a + Horizon
  PROVE  d \in FirstOf(days)
<1> DEFINE before == {e \in days : e < d}
<1>1. before \in SUBSET (a .. d - 1)
  OBVIOUS
<1>2. IsFiniteSet(a .. d - 1) /\ Cardinality(a .. d - 1) = d - a
  BY FS_Interval
<1>3. Cardinality(before) \in Nat /\ Cardinality(before) <= d - a
  BY <1>1, <1>2, FS_Subset, FS_CardinalityType
<1>4. Cardinality(before) < Horizon
  BY <1>3, CalendarAssumption
<1> QED BY <1>4 DEF FirstOf

(* What is on duty within the window is expanded. *)
LEMMA Expanded ==
  ASSUME NEW s, Scheduled(s), NEW from \in Int, NEW to \in Int, NEW d \in Int,
         NEW t \in Int, from <= t, t <= to, OnDuty(s, d, t),
         IsRecurring(s.rule) => Day(from) <= d /\ d < Day(from) + Horizon
  PROVE  d \in ExpandOccurrences(s, from, to)
<1>1. StartOn(s, d) \in Int /\ EndOn(s, d) \in Int
  BY OnTimes
<1>2. OccursOn(s, d) /\ EndOn(s, d) >= from /\ StartOn(s, d) <= to
  BY <1>1 DEF OnDuty
<1>3. CASE IsRecurring(s.rule)
  <2> DEFINE days == {e \in Day(from) .. Day(to) :
                        OccursOn(s, e) /\ EndOn(s, e) >= from /\ StartOn(s, e) <= to}
  <2>1. Day(from) \in Int /\ Day(to) \in Int
    BY DayHas
  <2>2. d <= Day(to)
    <3>1. DayLength * d <= to
      BY <1>1, <1>2, OnTimes
    <3> QED BY <3>1, DayHas
  <2>3. d \in days
    BY <1>2, <1>3, <2>1, <2>2
  <2>4. \A e \in days : e \in Int /\ Day(from) <= e
    BY <2>1
  <2>5. d \in FirstOf(days)
    <3> HIDE DEF days
    <3> QED BY <1>3, <2>1, <2>3, <2>4, WithinLimit
  <2> QED BY <1>3, <2>5 DEF ExpandOccurrences
<1>4. CASE ~IsRecurring(s.rule)
  <2>1. d = Day(s.start)
    BY <1>2, <1>4 DEF OccursOn
  <2> QED BY <1>2, <1>4, <2>1 DEF ExpandOccurrences
<1> QED BY <1>3, <1>4

(* The occurrence of a one-off shift is the shift. *)
LEMMA OneOffTimes ==
  ASSUME NEW s, Scheduled(s), ~IsRecurring(s.rule), NEW d \in Int, OccursOn(s, d)
  PROVE  StartOn(s, d) = s.start /\ EndOn(s, d) = s.end
<1>1. d = Day(s.start)
  BY DEF OccursOn
<1>2. s.start \in Int /\ DayLength \in Nat \ {0}
  BY CalendarAssumption DEF Scheduled
<1>3. s.start = (DayLength * d) + (s.start % DayLength)
  BY <1>1, <1>2, Division DEF Day
<1>4. StartOn(s, d) = s.start
  BY <1>3, OnTimes
<1> QED BY <1>4 DEF EndOn, Scheduled

(* The check misses no instant it is meant for but the night before: the   *)
(* two cursors, the inclusive window and the limit reach every occurrence. *)
LEMMA CollisionFound ==
  ASSUME NEW p, NEW s, Scheduled(p), Scheduled(s), NEW t \in Checked(p), BusyTwice(p, s, t)
  PROVE  Collides(p, s)
<1> DEFINE from == p.start  to == WindowEnd(p)
<1>0. Horizon * DayLength \in Nat /\ DayLength * Horizon = Horizon * DayLength
  BY CalendarAssumption
<1>1. /\ from \in Nat /\ to \in Nat /\ Day(from) \in Int
      /\ (Day(from) + Horizon) * DayLength = (DayLength * Day(from)) + (Horizon * DayLength)
      /\ DayLength * Day(from) \in Int
  <2>1. Day(from) \in Int
    BY DayHas DEF Scheduled
  <2> QED BY <1>0, <2>1, CalendarAssumption DEF WindowEnd, Scheduled
<1>2. t \in Int /\ from <= t /\ t < (Day(from) + Horizon) * DayLength
  BY <1>1, <1>0 DEF Checked
<1>3. t <= to
  <2>1. CASE p.rule.until = NoEnd
    <3>1. t < from + (Horizon * DayLength)
      BY <1>0, <1>1, <1>2, DayHas
    <3> QED BY <2>1, <3>1, <1>0, <1>1, <1>2 DEF WindowEnd
  <2>2. CASE p.rule.until # NoEnd
    BY <2>2 DEF WindowEnd, Checked
  <2> QED BY <2>1, <2>2
<1>4. PICK d \in Day(p.start) .. Day(t) : OnDuty(p, d, t)
  BY DEF BusyTwice
<1>5. PICK e \in 0 .. Day(t) : OnDuty(s, e, t) /\ (IsRecurring(s.rule) => e >= Day(p.start))
  BY DEF BusyTwice
<1>6. Day(t) \in Int /\ Day(t) < Day(from) + Horizon
  <2>1. DayLength * (Day(from) + Horizon) = (Day(from) + Horizon) * DayLength
    BY <1>1, CalendarAssumption
  <2>2. Day(from) + Horizon - 1 \in Int
    BY <1>1, CalendarAssumption
  <2>3. (DayLength * (Day(from) + Horizon - 1)) + DayLength = DayLength * (Day(from) + Horizon)
    BY <1>1, CalendarAssumption
  <2>4. Day(t) <= Day(from) + Horizon - 1
    BY <1>2, <2>1, <2>2, <2>3, DayHas
  <2> QED BY <1>1, <1>2, <2>4, DayHas, CalendarAssumption
<1>7. /\ d \in Int /\ Day(from) <= d /\ d < Day(from) + Horizon
      /\ e \in Int /\ e < Day(from) + Horizon
  BY <1>1, <1>4, <1>5, <1>6, CalendarAssumption
<1>8. /\ StartOn(p, d) \in Int /\ EndOn(p, d) \in Int
      /\ StartOn(s, e) \in Int /\ EndOn(s, e) \in Int
  BY <1>7, OnTimes
<1>9. RangesOverlap(StartOn(p, d), EndOn(p, d), StartOn(s, e), EndOn(s, e))
  BY <1>2, <1>4, <1>5, <1>8 DEF OnDuty, RangesOverlap
<1>10. CASE IsRecurring(p.rule) \/ IsRecurring(s.rule)
  <2> HIDE DEF from, to
  <2>1. d \in ExpandOccurrences(p, from, to)
    BY <1>1, <1>2, <1>3, <1>4, <1>7, Expanded
  <2>2. e \in ExpandOccurrences(s, from, to)
    BY <1>1, <1>2, <1>3, <1>5, <1>7, Expanded DEF from
  <2> QED BY <1>9, <1>10, <2>1, <2>2 DEF Collides, RecurrencesOverlap, from, to
<1>11. CASE ~(IsRecurring(p.rule) \/ IsRecurring(s.rule))
  <2>1. /\ StartOn(p, d) = p.start /\ EndOn(p, d) = p.end
        /\ StartOn(s, e) = s.start /\ EndOn(s, e) = s.end
    BY <1>4, <1>5, <1>7, <1>11, OneOffTimes DEF OnDuty
  <2> QED BY <1>9, <1>11, <2>1, <1>8 DEF Collides, RangesOverlap
<1> QED BY <1>10, <1>11
-----------------------------------------------------------------------------
(* A plan stands for its shift, and every shift has times and a rule.      *)
LEMMA PlanIsShift ==
  ASSUME TypeOK, NEW x \in Shifts
  PROVE  /\ Scheduled(PlanOf(x)) /\ Scheduled(shift[x])
         /\ Checked(PlanOf(x)) = Checked(shift[x])
         /\ \A s, t : BusyTwice(shift[x], s, t) => BusyTwice(PlanOf(x), s, t)
<1> DEFINE p == PlanOf(x)
<1>1. p.start = shift[x].start /\ p.end = shift[x].end /\ p.rule = shift[x].rule
  BY DEF PlanOf
<1>2. shift[x] \in ShiftRow /\ shift[x].rule \in Rule
  BY DEF TypeOK, ShiftRow
<1>3. shift[x].start \in Nat /\ shift[x].end \in Nat /\ shift[x].rule.until \in Nat \cup {NoEnd}
  BY <1>2 DEF ShiftRow, Rule
<1>4. Scheduled(p) /\ Scheduled(shift[x])
  BY <1>1, <1>3 DEF Scheduled
<1> HIDE DEF p
<1>5. Checked(p) = Checked(shift[x])
  BY <1>1 DEF Checked
<1>6. MatchingWeekdays(p) = MatchingWeekdays(shift[x])
  BY <1>1 DEF MatchingWeekdays
<1>7. \A d : /\ OccursOn(shift[x], d) => OccursOn(p, d)
             /\ StartOn(shift[x], d) = StartOn(p, d)
  BY <1>1, <1>6 DEF OccursOn, StartOn
<1>8. \A d : EndOn(shift[x], d) = EndOn(p, d)
  BY <1>1, <1>7 DEF EndOn
<1>9. \A s, t : BusyTwice(shift[x], s, t) => BusyTwice(p, s, t)
  BY <1>1, <1>7, <1>8 DEF BusyTwice, OnDuty
<1> QED BY <1>4, <1>5, <1>9 DEF p

(* The assignments a request makes are for officers it has checked.        *)
LEMMA MadeIsChecked ==
  ASSUME IInv, NEW h \in Handlers, CreateWrite(h) \/ ReassignWrite(h),
         NEW q \in Rows, NEW r \in Rows, q # r,
         row[q].status = "ABSENT", row'[q].status = "ASSIGNED",
         row[r].status \in ActiveAssignment, row'[r].status \in ActiveAssignment,
         row[r].officer = row'[q].officer, Live(row[r].shift)
  PROVE  /\ row'[q].shift \in Shifts /\ row[r].shift \in Shifts
         /\ ~Collides(PlanOf(row'[q].shift), shift[row[r].shift])
<1> DEFINE j == job[h]
<1>1. row[r].shift \in Shifts
  BY DEF IInv, RowsMade, ActiveAssignment
<1>2. /\ j \in Job /\ j.step = "write"
      /\ BookingChecked(j) /\ j.shift \in Shifts /\ j.plan = PlanOf(j.shift)
      /\ j.op = "create" => j.row = NoRow
      /\ j.op = "reassign" => ReplacementKnown(j)
  BY DEF IInv, TypeOK, CreateWrite, ReassignWrite, At, JobKnown, BookingChecked
<1>3. \A o \in j.officers : NoOverlapWith(j.plan, o, j.row)
  BY <1>2 DEF BookingChecked
<1>4. row'[q].shift = j.shift /\ row'[q].officer \in j.officers /\ r # j.row
  <2>1. CASE CreateWrite(h)
    <3>1. PICK f \in [j.officers -> Fresh] :
            row' = [x \in Rows |->
                      IF \E o \in j.officers : f[o] = x
                        THEN Assigned(j.shift, CHOOSE o \in j.officers : f[o] = x, NoRow)
                        ELSE row[x]]
      BY <2>1 DEF CreateWrite
    <3>2. \E o \in j.officers : f[o] = q
      BY <3>1
    <3>3. row'[q] = Assigned(j.shift, CHOOSE o \in j.officers : f[o] = q, NoRow)
      BY <3>1, <3>2
    <3>4. j.op = "create"
      BY <2>1 DEF CreateWrite, At
    <3> QED BY <1>2, <3>2, <3>3, <3>4 DEF Assigned
  <2>2. CASE ReassignWrite(h)
    <3>1. PICK x \in Fresh, o \in j.officers :
            row' = [row EXCEPT ![j.row].status = "REASSIGNED", ![x] = Assigned(j.shift, o, j.row)]
      BY <2>2 DEF ReassignWrite
    <3>2. j.op = "reassign" /\ ReplacementKnown(j)
      BY <1>2, <2>2 DEF ReassignWrite, At
    <3>3. j.row \in Rows /\ row \in [Rows -> AssignmentRow] /\ x \in Rows /\ x # j.row
      BY <3>1, <3>2 DEF IInv, TypeOK, ReplacementKnown, Fresh
    <3>4. row[j.row] \in AssignmentRow
      BY <3>3
    <3>5. row'[j.row].status = "REASSIGNED"
      BY <3>1, <3>3, <3>4 DEF AssignmentRow
    <3>6. \A y \in Rows \ {x, j.row} : row'[y] = row[y]
      BY <3>1, <3>3
    <3>7. q = x
      BY <3>5, <3>6
    <3>8. row'[q] = Assigned(j.shift, o, j.row)
      BY <3>1, <3>3, <3>7
    <3>9. row'[q].shift = j.shift /\ row'[q].officer = o
      BY <3>8 DEF Assigned
    <3>10. r # j.row
      BY <3>5 DEF ActiveAssignment
    <3> QED BY <3>9, <3>10
  <2> QED BY <2>1, <2>2
<1>5. NoOverlapWith(j.plan, row[r].officer, j.row)
  BY <1>3, <1>4
<1>6. ~Collides(j.plan, shift[row[r].shift])
  BY <1>4, <1>5 DEF NoOverlapWith, Active
<1> QED BY <1>1, <1>2, <1>4, <1>6

(* The other requests make no assignments. *)
LEMMA OthersMakeNone ==
  ASSUME IInv, [Next]_vars, ~\E h \in Handlers : CreateWrite(h) \/ ReassignWrite(h),
         NEW q \in Rows, row[q].status = "ABSENT"
  PROVE  row'[q].status # "ASSIGNED"
<1>1. CASE UNCHANGED row
  BY <1>1
<1>2. CASE row' # row
  <2>1. PICK h \in Handlers : AssignmentWrite(h) \/ ShiftWrite(h)
    BY <1>2 DEF Next, vars, Assign, Reschedule, SetStatus, CreateRead, ReassignRead,
       ReassignLoad, FindDuplicate, FindOverlap, UpdateRead, UpdateFind,
       UpdateConflicts, UpdateWrite, AssignmentRead, ShiftRead, ShiftFind
  <2>2. CASE AssignmentWrite(h)
    <3>1. job[h].row # q
      BY <2>2 DEF IInv, JobKnown, StatusKnown, AssignmentWrite, At
    <3> QED BY <2>2, <3>1 DEF AssignmentWrite, IInv, TypeOK
  <2>3. CASE ShiftWrite(h)
    <3>1. q \notin job[h].found
      BY <2>3 DEF IInv, JobKnown, StatusKnown, ShiftWrite, At, Active, ActiveAssignment
    <3> QED BY <2>3, <3>1 DEF ShiftWrite
  <2> QED BY <2>1, <2>2, <2>3
<1> QED BY <1>1, <1>2

(* With requests handled one at a time, a new assignment leaves its officer*)
(* on duty for one shift at a time up to the horizon, whatever the two     *)
(* series are: assertNoOverlap's window, cursor and limit miss nothing but *)
(* the night before.                                                       *)
THEOREM AcceptedAreFree ==
  ASSUME OneHandler
  PROVE  Spec => AcceptedIsFree
<1> DEFINE Free ==
      \A q, r \in Rows :
       /\ q # r /\ row[q].status = "ABSENT" /\ row'[q].status = "ASSIGNED"
       /\ row[r].status \in ActiveAssignment /\ row'[r].status \in ActiveAssignment
       /\ row[r].officer = row'[q].officer /\ Live(row[r].shift)
       => \A t \in Checked(shift[row'[q].shift]) :
            ~BusyTwice(shift[row'[q].shift], shift[row[r].shift], t)
<1>1. ASSUME IInv, [Next]_vars PROVE Free
  <2>1. SUFFICES ASSUME NEW q \in Rows, NEW r \in Rows, q # r,
                   row[q].status = "ABSENT", row'[q].status = "ASSIGNED",
                   row[r].status \in ActiveAssignment, row'[r].status \in ActiveAssignment,
                   row[r].officer = row'[q].officer, Live(row[r].shift),
                   NEW t \in Checked(shift[row'[q].shift]),
                   BusyTwice(shift[row'[q].shift], shift[row[r].shift], t)
                 PROVE  FALSE
    OBVIOUS
  <2>2. PICK h \in Handlers : CreateWrite(h) \/ ReassignWrite(h)
    BY <1>1, <2>1, OthersMakeNone
  <2> DEFINE x == row'[q].shift  s == shift[row[r].shift]
  <2>3. x \in Shifts /\ row[r].shift \in Shifts /\ ~Collides(PlanOf(x), s)
    BY <1>1, <2>1, <2>2, MadeIsChecked
  <2> HIDE DEF x
  <2>4. TypeOK
    BY <1>1 DEF IInv
  <2>5. /\ Scheduled(PlanOf(x)) /\ Scheduled(s) /\ t \in Checked(PlanOf(x))
        /\ BusyTwice(PlanOf(x), s, t)
    BY <2>1, <2>3, <2>4, PlanIsShift DEF x
  <2> HIDE DEF s
  <2> QED BY <2>3, <2>5, CollisionFound
<1>2. IInv /\ [Next]_vars => [Free]_vars
  BY <1>1
<1> QED BY <1>2, Inductive, PTL DEF Spec, AcceptedIsFree

-----------------------------------------------------------------------------
(***************************************************************************)
(* The clock.  It shows an instant with one of two offsets, and a guess    *)
(* that was corrected has one of them too.                                 *)
(***************************************************************************)
Lengths ==
  /\ DayLength \in Nat \ {0} /\ zone.change \in Int
  /\ zone.before \in -DayLength .. DayLength /\ zone.after \in -DayLength .. DayLength
  /\ zone.after - zone.before \in -DayLength .. DayLength

LEMMA ZoneLengths == ASSUME zone \in Zones PROVE Lengths
  BY ZonesAssumption, CalendarAssumption DEF Lengths

LEMMA Clock ==
  ASSUME Lengths, NEW t \in Int
  PROVE  /\ Wall(t) = t + (IF t < zone.change THEN zone.before ELSE zone.after)
         /\ Wall(t) \in Int
         /\ t - DayLength <= Wall(t) /\ Wall(t) <= t + DayLength
  BY DEF Lengths, Wall

LEMMA Correction ==
  ASSUME Lengths, NEW w \in Int, NEW g \in Int
  PROVE  /\ Corrected(w, g) = w - (IF g < zone.change THEN zone.before ELSE zone.after)
         /\ Corrected(w, g) \in Int
  BY DEF Lengths, Wall, Corrected

LEMMA Instant ==
  ASSUME Lengths, NEW w \in Int
  PROVE  /\ ZonedDateTime(w) \in Int
         /\ ZonedDateTime(w) \in {w - zone.before, w - zone.after}
         /\ \E g \in {w - zone.before, w - zone.after} :
              ZonedDateTime(w) = w - (IF g < zone.change THEN zone.before ELSE zone.after)
<1> DEFINE g1 == Corrected(w, w)  g2 == Corrected(w, g1)  g3 == Corrected(w, g2)
           g4 == Corrected(w, g3)
<1>1. g1 \in Int
  BY Correction
<1>2. g2 \in Int
  <2> HIDE DEF g1
  <2> QED BY <1>1, Correction
<1>3. g3 \in Int /\ g3 \in {w - zone.before, w - zone.after}
  <2> HIDE DEF g2
  <2> QED BY <1>2, Correction
<1>4. /\ g4 = w - (IF g3 < zone.change THEN zone.before ELSE zone.after)
      /\ g4 \in Int
  <2> HIDE DEF g3
  <2> QED BY <1>3, Correction
<1>5. ZonedDateTime(w) = g4
  BY DEF ZonedDateTime
<1> HIDE DEF g3, g4
<1> QED BY <1>3, <1>4, <1>5

(* What the clock shows once is an instant that divides those before from  *)
(* those after, and zonedDateTime finds it.                                *)
ShownOnce(w) ==
  /\ \E t \in (w - DayLength) .. (w + DayLength) : Wall(t) = w
  /\ \A t, u \in (w - DayLength) .. (w + DayLength) : Wall(t) = w /\ Wall(u) = w => t = u

LEMMA OneSide ==
  ASSUME Lengths, NEW w \in Int, ShownOnce(w)
  PROVE  \/ w - zone.before < zone.change /\ w - zone.after < zone.change
         \/ w - zone.before >= zone.change /\ w - zone.after >= zone.change
<1> DEFINE b == w - zone.before  a == w - zone.after
<1>1. /\ b \in Int /\ a \in Int /\ zone.change \in Int
      /\ b \in (w - DayLength) .. (w + DayLength) /\ a \in (w - DayLength) .. (w + DayLength)
  BY DEF Lengths
<1>2. b < zone.change => Wall(b) = w
  BY <1>1 DEF Wall, Lengths
<1>3. a >= zone.change => Wall(a) = w
  BY <1>1 DEF Wall, Lengths
<1>4. CASE b < zone.change /\ a >= zone.change
  <2>1. a = b
    BY <1>1, <1>2, <1>3, <1>4 DEF ShownOnce
  <2> QED BY <1>1, <1>4, <2>1
<1>5. CASE b >= zone.change /\ a < zone.change
  <2>1. PICK t \in (w - DayLength) .. (w + DayLength) : Wall(t) = w
    BY DEF ShownOnce
  <2>2. t \in Int
    BY <2>1 DEF Lengths
  <2> QED BY <1>5, <2>1, <2>2 DEF Wall, Lengths
<1> QED BY <1>1, <1>4, <1>5

LEMMA Divides ==
  ASSUME Lengths, NEW w \in Int, ShownOnce(w)
  PROVE  /\ Wall(ZonedDateTime(w)) = w
         /\ \A t \in Int : /\ Wall(t) < w <=> t < ZonedDateTime(w)
                           /\ w < Wall(t) <=> ZonedDateTime(w) < t
<1> DEFINE z == ZonedDateTime(w)
<1>1. z \in Int
  BY Instant
<1>2. CASE w - zone.before < zone.change /\ w - zone.after < zone.change
  <2>1. z = w - zone.before
    BY <1>2, Instant
  <2> HIDE DEF z
  <2> QED BY <1>1, <1>2, <2>1 DEF Wall, Lengths, z
<1>3. CASE w - zone.before >= zone.change /\ w - zone.after >= zone.change
  <2>1. z = w - zone.after
    BY <1>3, Instant DEF Lengths
  <2> HIDE DEF z
  <2> QED BY <1>1, <1>3, <2>1 DEF Wall, Lengths, z
<1> QED BY <1>2, <1>3, OneSide

-----------------------------------------------------------------------------
(***************************************************************************)
(* The occurrences of a shift.  Each starts at the time its zone's clock   *)
(* showed at the first start, give or take a change of the clock.          *)
(***************************************************************************)
TimeOn(s, d) == (DayLength * d) + (Wall(s.start) % DayLength)

LEMMA TimesOfDays ==
  ASSUME Lengths, NEW s \in PostRow, NEW d \in Int
  PROVE  /\ TimeOn(s, d) \in Int /\ DayLength * d \in Int
         /\ DayLength * d <= TimeOn(s, d) /\ TimeOn(s, d) < (DayLength * d) + DayLength
         /\ \A e \in Int : e < d => TimeOn(s, e) + DayLength <= TimeOn(s, d)
         /\ \A e \in Int : e < d - 1 => TimeOn(s, e) + (2 * DayLength) <= TimeOn(s, d)
         /\ d = Day(Wall(s.start)) => TimeOn(s, d) = Wall(s.start)
<1> DEFINE time == Wall(s.start) % DayLength
<1>1. DayLength \in Nat \ {0} /\ s.start \in Int
  BY DEF Lengths, PostRow
<1>2. Wall(s.start) \in Int
  BY <1>1, Clock
<1>3. time \in Int /\ 0 <= time /\ time < DayLength
  BY <1>1, <1>2, Division
<1>4. Wall(s.start) = (DayLength * Day(Wall(s.start))) + time
  BY <1>1, <1>2, Division DEF Day
<1>5. \A e \in Int : DayLength * e \in Int /\ TimeOn(s, e) = (DayLength * e) + time
  BY <1>1 DEF TimeOn
<1> HIDE DEF time
<1>6. ASSUME NEW e \in Int, e < d
      PROVE  TimeOn(s, e) + DayLength <= TimeOn(s, d)
  <2>1. DayLength * (e + 1) <= DayLength * d
    BY <1>1, <1>6, Multiples
  <2>2. DayLength * (e + 1) = (DayLength * e) + DayLength
    BY <1>1
  <2> DEFINE a == DayLength * e  b == DayLength * d
  <2>3. /\ a \in Int /\ b \in Int /\ a + DayLength <= b
        /\ TimeOn(s, e) = a + time /\ TimeOn(s, d) = b + time
    BY <1>5, <2>1, <2>2
  <2> HIDE DEF a, b
  <2> QED BY <1>1, <1>3, <2>3
<1>7. ASSUME NEW e \in Int, e < d - 1
      PROVE  TimeOn(s, e) + (2 * DayLength) <= TimeOn(s, d)
  <2>1. DayLength * (e + 2) <= DayLength * d
    BY <1>1, <1>7, Multiples
  <2>2. DayLength * (e + 2) = (DayLength * e) + (2 * DayLength)
    BY <1>1
  <2> DEFINE a == DayLength * e  b == DayLength * d
  <2>3. /\ a \in Int /\ b \in Int /\ a + (2 * DayLength) <= b
        /\ TimeOn(s, e) = a + time /\ TimeOn(s, d) = b + time
    BY <1>5, <2>1, <2>2
  <2> HIDE DEF a, b
  <2> QED BY <1>1, <1>3, <2>3
<1> QED BY <1>1, <1>3, <1>4, <1>5, <1>6, <1>7

LEMMA ShownAs ==
  ASSUME NEW s \in PostRow
  PROVE  /\ Shown(s).start = Wall(s.start)
         /\ Shown(s).rule.kind = s.rule.kind
         /\ IsRecurring(Shown(s).rule) <=> IsRecurring(s.rule)
  BY DEF Shown, PostRow, Rule, IsRecurring

LEMMA Starts ==
  ASSUME Lengths, NEW s \in PostRow, NEW d \in Int, Occurs(s, d)
  PROVE  /\ StartAt(s, d) \in Int /\ EndAt(s, d) = StartAt(s, d) + (s.end - s.start)
         /\ StartAt(s, d) \in {TimeOn(s, d) - zone.before, TimeOn(s, d) - zone.after}
         /\ Day(Wall(s.start)) <= d
         /\ IsRecurring(s.rule) => StartAt(s, d) = ZonedDateTime(TimeOn(s, d))
         /\ ~IsRecurring(s.rule) => d = Day(Wall(s.start)) /\ StartAt(s, d) = s.start
<1>1. Day(Wall(s.start)) <= d /\ (~IsRecurring(s.rule) => d = Day(Wall(s.start)))
  <2>1. s.start \in Int /\ Wall(s.start) \in Int
    BY Clock DEF PostRow
  <2>2. Day(Wall(s.start)) \in Int
    BY <2>1, DayHas
  <2>3. d >= Day(Wall(s.start)) /\ (~IsRecurring(s.rule) => d = Day(Wall(s.start)))
    BY ShownAs DEF Occurs, OccursOn
  <2> QED BY <2>2, <2>3
<1>2. CASE IsRecurring(s.rule)
  <2>1. StartAt(s, d) = ZonedDateTime((d * DayLength) + (Wall(s.start) % DayLength))
    BY <1>2, ShownAs DEF StartAt, StartOn
  <2>2. d * DayLength = DayLength * d
    BY DEF Lengths
  <2>3. StartAt(s, d) = ZonedDateTime(TimeOn(s, d))
    BY <2>1, <2>2 DEF TimeOn
  <2> QED BY <1>1, <1>2, <2>3, TimesOfDays, Instant DEF EndAt
<1>3. CASE ~IsRecurring(s.rule)
  <2>1. StartAt(s, d) = s.start /\ s.start \in Int
    BY <1>3 DEF StartAt, PostRow
  <2>2. TimeOn(s, d) = Wall(s.start)
    BY <1>1, <1>3, TimesOfDays
  <2>3. s.start \in {Wall(s.start) - zone.before, Wall(s.start) - zone.after}
    BY <2>1 DEF Wall, Lengths
  <2> QED BY <1>1, <1>3, <2>1, <2>2, <2>3 DEF EndAt
<1> QED BY <1>2, <1>3

(* Nobody is on duty for an occurrence of a day that is not near, and two  *)
(* days apart are never open together.                                     *)
LEMMA FoundAmongNearby ==
  ASSUME DutyTypeOK, WithinADay, NEW d \in Int, Between(d, now),
         ~(Occurs(post, d - 1) /\ now <= EndAt(post, d - 1) + Grace)
  PROVE  d \in Nearby(now) /\ CurrentOccurrence(post, now) = {d}
<1> DEFINE b == zone.before  a == zone.after  len == post.end - post.start
           wall == Wall(now)  w == TimeOn(post, d)  start == StartAt(post, d)
<1>1. Lengths /\ post \in PostRow
  BY ZoneLengths DEF DutyTypeOK
<1>2. /\ a \in Int /\ b \in Int /\ len \in Nat /\ now \in Int /\ DayLength \in Nat \ {0}
      /\ len + (a - b) <= DayLength /\ len + (b - a) <= DayLength
      /\ Grace \in Nat /\ Grace < DayLength /\ Early \in Nat
  BY <1>1, MinutesAssumption DEF DutyTypeOK, WithinADay, Lengths, PostRow
<1>3. /\ start \in Int /\ start \in {w - b, w - a}
      /\ Occurs(post, d) /\ start <= now /\ now <= start + len
  BY <1>1, Starts DEF Between
<1>4. /\ w \in Int /\ DayLength * d \in Int
      /\ DayLength * d <= w /\ w < (DayLength * d) + DayLength
  BY <1>1, TimesOfDays
<1>5. wall \in Int /\ wall \in {now + b, now + a}
  BY <1>1, <1>2, Clock
<1>6. d \in Nearby(now)
  <2>1. /\ DayLength * (d - 1) = (DayLength * d) - DayLength
        /\ DayLength * (d + 1) = (DayLength * d) + DayLength
    BY <1>2
  <2> HIDE DEF a, b, len, wall, w, start
  <2>2. (DayLength * d) - DayLength <= wall
    BY <1>2, <1>3, <1>4, <1>5
  <2>3. wall < (DayLength * d) + DayLength + DayLength
    BY <1>2, <1>3, <1>4, <1>5
  <2>4. d - 1 <= Day(wall) /\ Day(wall) <= d + 1 /\ Day(wall) \in Int
    BY <1>5, <2>1, <2>2, <2>3, DayHas
  <2> QED BY <2>4 DEF Nearby, DayAt, wall
<1>7. ASSUME NEW e \in Nearby(now), Occurs(post, e), now <= EndAt(post, e) + Grace, e < d
      PROVE  FALSE
  <2>1. e \in Int
    BY <1>5, DayHas DEF Nearby, DayAt
  <2>2. e # d - 1
    BY <1>7
  <2>3. e < d - 1
    BY <1>7, <2>1, <2>2
  <2> DEFINE v == TimeOn(post, e)  from == StartAt(post, e)
  <2>4. v \in Int /\ v + (2 * DayLength) <= w
    BY <1>1, <2>1, <2>3, TimesOfDays
  <2>5. from \in Int /\ from \in {v - b, v - a} /\ now <= from + len + Grace
    BY <1>1, <1>2, <1>7, <2>1, Starts
  <2> HIDE DEF a, b, len, w, v, start, from
  <2> QED BY <1>2, <1>3, <1>4, <2>4, <2>5
<1>8. CurrentOccurrence(post, now) = {d}
  <2> DEFINE open == {e \in Nearby(now) : Occurs(post, e)
                        /\ StartAt(post, e) - Early <= now /\ now <= EndAt(post, e) + Grace}
  <2>1. d \in open
    <3>1. start - Early <= now /\ now <= (start + len) + Grace
      <4> HIDE DEF start, len
      <4> QED BY <1>2, <1>3
    <3>2. EndAt(post, d) = start + len
      BY DEF EndAt
    <3> QED BY <1>3, <1>6, <3>1, <3>2
  <2>2. \A e \in open : d <= e
    <3> TAKE e \in open
    <3>1. e \in Int
      BY <1>5, DayHas DEF Nearby, DayAt
    <3>2. ~(e < d)
      BY <1>7
    <3> QED BY <3>1, <3>2
  <2>3. open \subseteq Int
    BY <1>5, DayHas DEF Nearby, DayAt
  <2>4. CurrentOccurrence(post, now) = {e \in open : \A f \in open : e <= f}
    BY DEF CurrentOccurrence
  <2> HIDE DEF open
  <2>5. ASSUME NEW e \in open, e <= d PROVE e = d
    BY <2>2, <2>3, <2>5
  <2>6. {e \in open : \A f \in open : e <= f} = {d}
    BY <2>1, <2>2, <2>5
  <2> QED BY <2>4, <2>6
<1> QED BY <1>6, <1>8

LEMMA Found == ASSUME DutyTypeOK, WithinADay PROVE DutyFound
<1> SUFFICES ASSUME NEW d \in SomeDays, Between(d, now),
                    ~(Occurs(post, d - 1) /\ now <= EndAt(post, d - 1) + Grace)
             PROVE  /\ ResolveActiveOrUpcomingToday(now) = {<<post, d>>}
                    /\ \A client \in {{}, {d}} : ResolveClockIn(now, client) = {<<post, d>>}
  BY DEF DutyFound
<1>1. d \in Int
  <2>1. Last \in Int
    BY MinutesAssumption
  <2> QED BY <2>1, DayHas DEF SomeDays
<1>2. d \in Nearby(now) /\ CurrentOccurrence(post, now) = {d} /\ Occurs(post, d)
  BY <1>1, FoundAmongNearby DEF Between
<1>3. ResolveActiveOrUpcomingToday(now) = {<<post, d>>}
  BY <1>2 DEF ResolveActiveOrUpcomingToday, Or
<1>4. OccurrenceFromClientDate(post, now, {}) = {}
      /\ OccurrenceFromClientDate(post, now, {d}) = {d}
  BY <1>2 DEF OccurrenceFromClientDate
<1>5. ASSUME NEW client \in {{}, {d}} PROVE ResolveClockIn(now, client) = {<<post, d>>}
  BY <1>2, <1>4 DEF ResolveClockIn, Or
<1> QED BY <1>3, <1>5

-----------------------------------------------------------------------------
(***************************************************************************)
(* The rows keep what they were made with.                                 *)
(***************************************************************************)
LEMMA OncePerStart ==
  ASSUME Lengths, post \in PostRow, StartShownOnce, ~IsRecurring(post.rule)
  PROVE  ZonedDateTime(Wall(post.start)) = post.start
<1> DEFINE w == Wall(post.start)
<1>1. post.start \in Int /\ w \in Int
  BY Clock DEF PostRow
<1>2. \A t \in Int : Wall(t) = w => t = post.start
  <2>1. ASSUME NEW t \in Int, Wall(t) = w
        PROVE  t \in (post.start - DayLength) .. (post.start + DayLength)
    BY <1>1, <2>1 DEF Wall, Lengths
  <2> QED BY <2>1 DEF StartShownOnce
<1>3. post.start \in (w - DayLength) .. (w + DayLength)
  BY <1>1, Clock DEF Lengths
<1> HIDE DEF w
<1>4. ShownOnce(w)
  <2>1. Wall(post.start) = w
    BY DEF w
  <2>2. \A t \in (w - DayLength) .. (w + DayLength) : t \in Int
    BY <1>1 DEF Lengths
  <2> QED BY <1>2, <1>3, <2>1, <2>2 DEF ShownOnce
<1>5. Wall(ZonedDateTime(w)) = w /\ ZonedDateTime(w) \in Int
  BY <1>1, <1>4, Divides, Instant
<1> QED BY <1>2, <1>5 DEF w

LEMMA Repeated ==
  ASSUME post \in PostRow
  PROVE  /\ Daily(post) \in PostRow /\ IsRecurring(Daily(post).rule)
         /\ Daily(post).start = post.start /\ Daily(post).end = post.end
         /\ Daily(post).rule.until = post.rule.until
  BY DEF Daily, PostRow, Rule, Kinds, IsRecurring

(* Which shift and day a clock-in can be for. *)
LEMMA Resolved ==
  ASSUME Lengths, NEW t \in Int, NEW client, NEW f \in ResolveClockIn(t, client)
  PROVE  /\ f[1] = post \/ (~IsRecurring(post.rule) /\ f[1] = Daily(post))
         /\ f[2] \in Int /\ Occurs(f[1], f[2])
<1>1. DayAt(t) \in Int /\ Nearby(t) \subseteq Int /\ DayAt(t) \in Nearby(t)
  BY Clock, DayHas DEF DayAt, Nearby
<1> DEFINE resolve(s) == Or(OccurrenceFromClientDate(s, t, client),
                            Or(CurrentOccurrence(s, t), TodayOccurrence(s, t)))
<1>2. ASSUME NEW s, NEW d \in resolve(s) PROVE d \in Int /\ Occurs(s, d)
  BY <1>1, <1>2 DEF Or, OccurrenceFromClientDate, CurrentOccurrence, TodayOccurrence
<1>3. PICK s \in {post, Daily(post)} :
        /\ f \in {<<s, d>> : d \in resolve(s)}
        /\ s = post \/ (~IsRecurring(post.rule) /\ s = Daily(post))
  BY DEF ResolveClockIn, Or
<1> HIDE DEF resolve
<1>4. PICK d \in resolve(s) : f = <<s, d>>
  BY <1>3
<1> QED BY <1>2, <1>3, <1>4

LEMMA DayIsSome ==
  ASSUME Lengths, NEW s \in PostRow, NEW d \in Int, Occurs(s, d), StartAt(s, d) <= Last
  PROVE  d \in SomeDays
<1>1. Last \in Nat /\ s.start \in Nat /\ Wall(s.start) \in Int /\ DayLength \in Nat \ {0}
      /\ -DayLength <= Wall(s.start)
  BY MinutesAssumption, Clock DEF PostRow, Lengths
<1>2. Day(Last) \in Int /\ Last < (DayLength * Day(Last)) + DayLength
      /\ DayLength * Day(Last) \in Int
  BY <1>1, DayHas
<1>3. -1 <= d
  <2>1. DayLength * (-1) = -DayLength /\ -1 \in Int
    BY <1>1
  <2>2. -1 <= Day(Wall(s.start)) /\ Day(Wall(s.start)) \in Int
    BY <1>1, <2>1, DayHas
  <2> QED BY <2>2, Starts
<1>4. d <= Day(Last) + 1
  <2> DEFINE w == TimeOn(s, d)
  <2>1. /\ w \in Int /\ DayLength * d \in Int /\ DayLength * d <= w
        /\ w - DayLength <= Last
    <3>1. w \in Int /\ DayLength * d \in Int /\ DayLength * d <= w
      BY TimesOfDays
    <3>2. StartAt(s, d) \in {w - zone.before, w - zone.after}
      BY Starts
    <3> HIDE DEF w
    <3> QED BY <1>1, <3>1, <3>2 DEF Lengths
  <2> HIDE DEF w
  <2>2. DayLength * (Day(Last) + 1) = (DayLength * Day(Last)) + DayLength
    BY <1>1, <1>2
  <2>3. DayLength * d < (DayLength * (Day(Last) + 1)) + DayLength
    BY <1>1, <1>2, <2>1, <2>2
  <2>4. Day(Last) + 1 \in Int
    BY <1>2
  <2> QED BY <1>1, <2>3, <2>4, Multiples
<1> QED BY <1>2, <1>3, <1>4 DEF SomeDays

(* Whichever occurrence a clock-in is for, it is no earlier than the start *)
(* that the clock-out counts from.                                         *)
LEMMA StartKnown ==
  ASSUME DutyTypeOK, StartShownOnce, NEW client, NEW f \in ResolveClockIn(now, client),
         StartAt(f[1], f[2]) <= now
  PROVE  /\ StartFor(f[2]) <= now
         /\ Occurs(post, f[2]) => StartAt(post, f[2]) = StartAt(f[1], f[2])
<1> DEFINE d == f[2]  s == Daily(post)
<1>1. Lengths /\ post \in PostRow /\ now \in Int
  BY ZoneLengths, MinutesAssumption DEF DutyTypeOK
<1>2. /\ f[1] = post \/ (~IsRecurring(post.rule) /\ f[1] = s)
      /\ d \in Int /\ Occurs(f[1], d)
  BY <1>1, Resolved
<1>3. CASE f[1] = post
  BY <1>2, <1>3 DEF StartFor
<1>4. CASE ~IsRecurring(post.rule) /\ f[1] = s
  <2>1. s \in PostRow /\ IsRecurring(s.rule) /\ s.start = post.start
    BY <1>1, Repeated
  <2>2. /\ StartAt(s, d) = ZonedDateTime(TimeOn(s, d)) /\ StartAt(s, d) \in Int
        /\ StartAt(s, d) \in {TimeOn(s, d) - zone.before, TimeOn(s, d) - zone.after}
        /\ Day(Wall(post.start)) <= d
    BY <1>1, <1>2, <1>4, <2>1, Starts
  <2>3. post.start \in Int /\ Wall(post.start) \in Int /\ Day(Wall(post.start)) \in Int
    BY <1>1, Clock, DayHas DEF PostRow
  <2>4. CASE Occurs(post, d)
    <3>1. d = Day(Wall(post.start)) /\ StartAt(post, d) = post.start
      BY <1>1, <1>2, <1>4, <2>4, Starts
    <3>2. TimeOn(s, d) = Wall(post.start)
      BY <1>1, <1>2, <2>1, <3>1, TimesOfDays
    <3>3. StartAt(s, d) = post.start
      BY <1>1, <1>4, <2>2, <3>2, OncePerStart
    <3> QED BY <1>4, <2>4, <3>1, <3>3 DEF StartFor
  <2>5. CASE ~Occurs(post, d)
    <3>1. d # Day(Wall(post.start))
      <4>1. /\ Shown(s).start = Shown(post).start
            /\ Shown(s).rule.until = Shown(post).rule.until
        BY <1>1, Repeated DEF Shown, PostRow, Rule
      <4> QED BY <1>1, <1>2, <1>4, <2>5, <2>3, <4>1, ShownAs DEF Occurs, OccursOn
    <3>2. Day(Wall(post.start)) < d
      BY <1>2, <2>2, <2>3, <3>1
    <3> DEFINE w == Wall(post.start)  v == TimeOn(s, d)
    <3>3. TimeOn(s, Day(w)) = w
      BY <1>1, <2>1, <2>3, TimesOfDays
    <3>4. w + DayLength <= v /\ v \in Int
      BY <1>1, <1>2, <2>1, <2>3, <3>2, <3>3, TimesOfDays
    <3>5. post.start \in {w - zone.before, w - zone.after}
      BY <1>1, <2>3 DEF Wall, Lengths
    <3> HIDE DEF w, v
    <3>6. post.start <= StartAt(s, d)
      BY <1>1, <2>2, <2>3, <3>4, <3>5 DEF Lengths, w, v
    <3> QED BY <1>1, <1>4, <2>2, <2>3, <2>5, <3>6 DEF StartFor
  <2> QED BY <2>4, <2>5
<1> QED BY <1>2, <1>3, <1>4

(* Where the shift is does not matter to its times. *)
LEMMA SameTimes ==
  ASSUME post \in PostRow, zone' = zone,
         post' = post \/ post' = [post EXCEPT !.site = 2], NEW d
  PROVE  /\ Occurs(post, d)' <=> Occurs(post, d)
         /\ StartAt(post, d)' = StartAt(post, d)
         /\ StartFor(d)' = StartFor(d)
<1>1. post'.start = post.start /\ post'.end = post.end /\ post'.rule = post.rule
  BY DEF PostRow
<1>2. \A t : Wall(t)' = Wall(t)
  BY DEF Wall
<1>3. \A w : ZonedDateTime(w)' = ZonedDateTime(w)
  BY <1>2 DEF ZonedDateTime, Corrected, Wall
<1>4. /\ Shown(post)'.start = Shown(post).start /\ Shown(post)'.rule = Shown(post).rule
  BY <1>1, <1>2 DEF Shown, PostRow, Rule
<1>5. MatchingWeekdays(Shown(post))' = MatchingWeekdays(Shown(post))
  BY <1>4 DEF MatchingWeekdays
<1>6. Occurs(post, d)' <=> Occurs(post, d)
  BY <1>4, <1>5 DEF Occurs, OccursOn
<1>7. StartOn(Shown(post), d)' = StartOn(Shown(post), d)
  BY <1>4 DEF StartOn
<1>8. StartAt(post, d)' = StartAt(post, d)
  BY <1>1, <1>3, <1>7 DEF StartAt
<1> QED BY <1>1, <1>6, <1>8 DEF StartFor

LEMMA PositiveIsNat == ASSUME NEW n \in Int PROVE Positive(n) \in Nat
  BY DEF Positive

LEMMA RowStays ==
  ASSUME post \in PostRow, zone' = zone,
         post' = post \/ post' = [post EXCEPT !.site = 2],
         now \in Int, now' \in Int, now <= now', NEW r \in WorkRow, RowAgrees(r)
  PROVE  RowAgrees(r)'
<1>1. /\ Occurs(post, r.day)' <=> Occurs(post, r.day)
      /\ StartAt(post, r.day)' = StartAt(post, r.day)
      /\ StartFor(r.day)' = StartFor(r.day)
  BY SameTimes
<1>2. r.in \in Int
  BY MinutesAssumption DEF WorkRow
<1> QED BY <1>1, <1>2 DEF RowAgrees

LEMMA StartForIsInt ==
  ASSUME Lengths, post \in PostRow, NEW d \in Int
  PROVE  /\ StartFor(d) \in Int
         /\ EndFor(d) = StartFor(d) + (post.end - post.start)
<1>1. post.start \in Int /\ post.end \in Int
  BY DEF PostRow
<1> QED BY <1>1, Starts DEF StartFor, EndFor

LEMMA ClockInKeeps ==
  ASSUME DutyTypeOK, NEW client, ClockIn(client)
  PROVE  /\ DutyTypeOK'
         /\ DutyInv /\ StartShownOnce => DutyInv'
<1>1. PICK f \in ResolveClockIn(now, client) :
        /\ StartAt(f[1], f[2]) <= now
        /\ work' = work \cup
             {[day |-> f[2], in |-> now, out |-> NoEnd, brk |-> 0,
               site |-> post.site, totals |-> [late |-> Late(StartAt(f[1], f[2]), now)]]}
        /\ UNCHANGED <<zone, post, now>>
  BY DEF ClockIn
<1> DEFINE start == StartAt(f[1], f[2])
           r == [day |-> f[2], in |-> now, out |-> NoEnd, brk |-> 0,
                 site |-> post.site, totals |-> [late |-> Late(start, now)]]
<1>2. Lengths /\ post \in PostRow /\ now \in 0 .. Last /\ Last \in Nat
  BY ZoneLengths, MinutesAssumption DEF DutyTypeOK
<1>3. /\ f[1] \in PostRow /\ f[2] \in Int /\ Occurs(f[1], f[2])
  BY <1>2, Resolved, Repeated
<1>4. start \in Int /\ f[2] \in SomeDays
  BY <1>1, <1>2, <1>3, Starts, DayIsSome
<1>5. Late(start, now) \in Nat
  BY <1>2, <1>4, PositiveIsNat, MinutesAssumption DEF Late
<1> HIDE DEF start
<1>6. r \in WorkRow
  BY <1>2, <1>4, <1>5 DEF WorkRow, PostRow
<1>7. IsFiniteSet(work \cup {r})
  BY FS_AddElement DEF DutyTypeOK
<1>8. DutyTypeOK'
  BY <1>1, <1>6, <1>7 DEF DutyTypeOK, start
<1>9. ASSUME DutyInv, StartShownOnce PROVE DutyInv'
  <2>1. /\ StartFor(f[2]) <= now
        /\ Occurs(post, f[2]) => StartAt(post, f[2]) = start
    BY <1>1, <1>9, StartKnown DEF start
  <2>2. RowAgrees(r)
    BY <1>2, <2>1 DEF RowAgrees
  <2>3. \A q \in work' : q \in WorkRow /\ RowAgrees(q)
    BY <1>1, <1>6, <1>9, <2>2 DEF DutyInv, DutyTypeOK, start
  <2>4. \A q \in work' : RowAgrees(q)'
    BY <1>1, <1>2, <2>3, RowStays
  <2> QED BY <1>8, <2>4 DEF DutyInv
<1> QED BY <1>8, <1>9

LEMMA ClockOutKeeps ==
  ASSUME DutyTypeOK, NEW r \in work, ClockOut(r)
  PROVE  /\ DutyTypeOK'
         /\ DutyInv => DutyInv'
<1> DEFINE start == StartFor(r.day)  end == EndFor(r.day)
           totals == Totals(r.in, now, Break, start, end)
           q == [r EXCEPT !.out = now, !.brk = Break, !.totals = totals]
<1>1. /\ r.in < now /\ work' = (work \ {r}) \cup {q}
      /\ UNCHANGED <<zone, post, now>>
  BY DEF ClockOut
<1>2. /\ Lengths /\ post \in PostRow /\ now \in 0 .. Last /\ Last \in Nat
      /\ Break \in Nat /\ Grace \in Nat /\ r \in WorkRow
  BY ZoneLengths, MinutesAssumption DEF DutyTypeOK
<1>3. r.day \in Int /\ r.in \in Int
  BY <1>2, DayHas DEF WorkRow, SomeDays
<1>4. start \in Int /\ end \in Int /\ end = start + (post.end - post.start)
  BY <1>2, <1>3, StartForIsInt DEF PostRow
<1> HIDE DEF start, end
<1>5. totals \in [payable : Nat, late : Nat, early : Nat, over : Nat]
  BY <1>2, <1>3, <1>4, PositiveIsNat DEF Totals, Late
<1>6. /\ totals.payable = Positive((now - r.in) - Break)
      /\ totals.late = Late(start, r.in) /\ totals.early = Positive(end - now)
      /\ totals.over = Positive((now - r.in) - (end - start))
  BY DEF Totals
<1> HIDE DEF totals
<1>7. /\ q \in WorkRow /\ q.day = r.day /\ q.in = r.in /\ q.out = now /\ q.brk = Break
      /\ q.totals = totals
  <2> DEFINE made == [late : Nat] \cup [payable : Nat, late : Nat, early : Nat, over : Nat]
  <2>1. totals \in made /\ now \in Nat \cup {NoEnd}
    BY <1>2, <1>5
  <2> HIDE DEF made
  <2>2. WorkRow = [day : SomeDays, in : 0 .. Last, out : Nat \cup {NoEnd}, brk : Nat,
                   site : {1, 2}, totals : made]
    BY DEF WorkRow, made
  <2> QED BY <1>2, <2>1, <2>2
<1> HIDE DEF q
<1>8. DutyTypeOK'
  <2>1. IsFiniteSet((work \ {r}) \cup {q})
    BY FS_AddElement, FS_Subset DEF DutyTypeOK
  <2>2. (work \ {r}) \cup {q} \subseteq WorkRow
    BY <1>7 DEF DutyTypeOK
  <2> QED BY <1>1, <2>1, <2>2 DEF DutyTypeOK
<1>9. ASSUME DutyInv PROVE DutyInv'
  <2>1. RowAgrees(r)
    BY <1>9 DEF DutyInv
  <2>2. q.totals.payable = Payable(q)
    BY <1>1, <1>2, <1>3, <1>6, <1>7 DEF Payable, Gross, Positive
  <2>3. q.totals.over > 0 => q.totals.early = 0
    BY <1>2, <1>3, <1>4, <1>6, <1>7, <2>1 DEF RowAgrees, Positive, start
  <2>4. Occurs(post, q.day) => q.totals.late = Late(StartAt(post, q.day), q.in)
    BY <1>6, <1>7 DEF StartFor, start
  <2>5. RowAgrees(q)
    BY <1>1, <1>2, <1>3, <1>7, <2>1, <2>2, <2>3, <2>4 DEF RowAgrees
  <2>6. \A p \in work' : p \in WorkRow /\ RowAgrees(p)
    BY <1>1, <1>7, <1>9, <2>5 DEF DutyInv, DutyTypeOK
  <2>7. \A p \in work' : RowAgrees(p)'
    BY <1>1, <1>2, <2>6, RowStays
  <2> QED BY <1>8, <2>7 DEF DutyInv
<1> QED BY <1>8, <1>9

LEMMA OthersKeep ==
  ASSUME DutyTypeOK, Move \/ Tick \/ UNCHANGED dutyVars
  PROVE  /\ DutyTypeOK'
         /\ DutyInv => DutyInv'
<1>1. /\ zone' = zone /\ work' = work
      /\ post' = post \/ post' = [post EXCEPT !.site = 2]
      /\ now' = now \/ (now < Last /\ now' = now + 1)
  BY DEF Move, Tick, dutyVars
<1>2. post \in PostRow /\ now \in 0 .. Last /\ Last \in Nat
  BY MinutesAssumption DEF DutyTypeOK
<1>3. /\ post' \in PostRow /\ post'.start = post.start /\ post'.end = post.end
  BY <1>1, <1>2 DEF PostRow
<1>4. now' \in 0 .. Last /\ now <= now'
  BY <1>1, <1>2
<1>5. DutyTypeOK'
  BY <1>1, <1>3, <1>4 DEF DutyTypeOK
<1>6. ASSUME DutyInv PROVE DutyInv'
  <2>1. \A r \in work : RowAgrees(r)'
    BY <1>1, <1>2, <1>4, <1>6, RowStays DEF DutyInv, DutyTypeOK
  <2> QED BY <1>1, <1>5, <2>1 DEF DutyInv
<1> QED BY <1>5, <1>6

LEMMA DutyStarts == DutyInit => DutyInv
<1> SUFFICES ASSUME DutyInit PROVE DutyInv
  OBVIOUS
<1>1. zone \in Zones /\ post \in Posts /\ now = 0 /\ work = {}
  BY DEF DutyInit
<1>2. 0 \in 0 .. Last
  BY MinutesAssumption
<1> QED BY <1>1, <1>2, PostsAssumption, FS_EmptySet DEF DutyInv, DutyTypeOK

LEMMA DutyStep ==
  ASSUME DutyTypeOK, [DutyNext]_dutyVars
  PROVE  /\ DutyTypeOK'
         /\ DutyInv /\ StartShownOnce => DutyInv'
<1>1. CASE \E client \in {{}} \cup {{d} : d \in Nearby(now)} : ClockIn(client)
  BY <1>1, ClockInKeeps
<1>2. CASE \E r \in work : ClockOut(r)
  BY <1>2, ClockOutKeeps
<1>3. CASE Move \/ Tick \/ UNCHANGED dutyVars
  BY <1>3, OthersKeep
<1> QED BY <1>1, <1>2, <1>3 DEF DutyNext

(* The types of a zone, a shift and its rows, for any of them.             *)
THEOREM DutyTyped == DutySpec => []DutyTypeOK
<1>1. DutyInit => DutyTypeOK
  BY DutyStarts DEF DutyInv
<1>2. DutyTypeOK /\ [DutyNext]_dutyVars => DutyTypeOK'
  BY DutyStep
<1> QED BY <1>1, <1>2, PTL DEF DutySpec

(* A row is counted from a start that lies before its clock-in, however its*)
(* occurrence was chosen, and what it is paid is what was worked.          *)
THEOREM DutyInductive == DutySpec /\ []StartShownOnce => []DutyInv
<1>1. DutyInv /\ StartShownOnce /\ [DutyNext]_dutyVars => DutyInv'
  BY DutyStep DEF DutyInv
<1> QED BY <1>1, DutyStarts, PTL DEF DutySpec

(* Who is on duty for an occurrence is shown it and may clock in to it.    *)
THEOREM DutyIsFound == DutySpec /\ []WithinADay => []DutyFound
<1>1. DutyTypeOK /\ WithinADay => DutyFound
  BY Found
<1> QED BY <1>1, DutyTyped, PTL

-----------------------------------------------------------------------------
(***************************************************************************)
(* Sums over a finite set, as MapThenSumSet has them: the elements come in *)
(* the order of CHOOSE, which does not matter, for a sum is the number of  *)
(* the units its elements are made of.                                     *)
(***************************************************************************)
First(S) == CHOOSE e \in S : TRUE

Units(w, S) == UNION {{e} \X (1 .. w[e]) : e \in S}

Total(w, S) == Cardinality(Units(w, S))

LEMMA ImageOf ==
  ASSUME NEW S, IsFiniteSet(S), NEW f, DOMAIN f = S, NEW T, T = {f[x] : x \in S}
  PROVE  IsFiniteSet(T) /\ Cardinality(T) <= Cardinality(S)
<1> DEFINE g == [x \in S |-> f[x]]
<1>1. g \in Surjection(S, T)
  BY DEF Surjection
<1> QED BY <1>1, FS_Surjection

LEMMA UpTo ==
  ASSUME NEW e, NEW n \in Nat
  PROVE  IsFiniteSet({e} \X (1 .. n)) /\ Cardinality({e} \X (1 .. n)) = n
<1> DEFINE I == 1 .. n
<1>1. IsFiniteSet(I) /\ Cardinality(I) = n
  BY FS_Interval
<1>2. IsFiniteSet({e}) /\ Cardinality({e}) = 1
  BY FS_Singleton
<1> HIDE DEF I
<1>3. IsFiniteSet({e} \X I) /\ Cardinality({e} \X I) = 1 * n
  BY <1>1, <1>2, FS_Product
<1> QED BY <1>3 DEF I

LEMMA UnitsFinite ==
  ASSUME NEW S, IsFiniteSet(S), NEW w, \A e \in S : w[e] \in Nat
  PROVE  IsFiniteSet(Units(w, S)) /\ Total(w, S) \in Nat
<1> DEFINE f == [e \in S |-> {e} \X (1 .. w[e])]
           T == {f[e] : e \in S}
<1>1. IsFiniteSet(T)
  <2>1. DOMAIN f = S
    OBVIOUS
  <2> HIDE DEF f
  <2> QED BY <2>1, ImageOf
<1>2. \A e \in S : IsFiniteSet({e} \X (1 .. w[e]))
  BY UpTo
<1>3. \A U \in T : IsFiniteSet(U)
  BY <1>2
<1>4. Units(w, S) = UNION T
  BY DEF Units
<1> HIDE DEF T
<1>5. IsFiniteSet(Units(w, S))
  BY <1>1, <1>3, <1>4, FS_UNION
<1> QED BY <1>5, FS_CardinalityType DEF Total

LEMMA TotalOf ==
  ASSUME NEW w
  PROVE  /\ Total(w, {}) = 0
         /\ \A e : w[e] \in Nat => Total(w, {e}) = w[e]
<1>1. Total(w, {}) = 0
  <2>1. Units(w, {}) = {}
    BY DEF Units
  <2> QED BY <2>1, FS_EmptySet DEF Total
<1>2. ASSUME NEW e, w[e] \in Nat PROVE Total(w, {e}) = w[e]
  <2>1. Units(w, {e}) = {e} \X (1 .. w[e])
    BY DEF Units
  <2> QED BY <1>2, <2>1, UpTo DEF Total
<1> QED BY <1>1, <1>2

LEMMA TotalsAdd ==
  ASSUME NEW A, NEW B, IsFiniteSet(A), IsFiniteSet(B), A \cap B = {},
         NEW w, \A e \in A \cup B : w[e] \in Nat
  PROVE  Total(w, A \cup B) = Total(w, A) + Total(w, B)
<1>1. /\ IsFiniteSet(Units(w, A)) /\ Total(w, A) \in Nat
      /\ IsFiniteSet(Units(w, B)) /\ Total(w, B) \in Nat
  BY UnitsFinite
<1>2. Units(w, A \cup B) = Units(w, A) \cup Units(w, B)
  BY DEF Units
<1>3. Units(w, A) \cap Units(w, B) = {}
  <2>1. ASSUME NEW p \in Units(w, A), p \in Units(w, B) PROVE FALSE
    <3>1. PICK a \in A : p \in {a} \X (1 .. w[a])
      BY DEF Units
    <3>2. PICK b \in B : p \in {b} \X (1 .. w[b])
      BY <2>1 DEF Units
    <3>3. p[1] = a /\ p[1] = b
      BY <3>1, <3>2
    <3> QED BY <3>3
  <2> QED BY <2>1
<1>4. Cardinality(Units(w, A) \cap Units(w, B)) = 0
  BY <1>3, FS_EmptySet
<1>5. Total(w, A \cup B) = Total(w, A) + Total(w, B) - 0
  BY <1>1, <1>2, <1>4, FS_Union DEF Total
<1> QED BY <1>1, <1>5

LEMMA TotalOfRest ==
  ASSUME NEW S, IsFiniteSet(S), S # {}, NEW w, \A e \in S : w[e] \in Nat
  PROVE  /\ First(S) \in S
         /\ Total(w, S) = w[First(S)] + Total(w, S \ {First(S)})
<1> DEFINE e == First(S)
<1>1. e \in S
  BY DEF First
<1> HIDE DEF e
<1>2. IsFiniteSet({e}) /\ IsFiniteSet(S \ {e}) /\ {e} \cup (S \ {e}) = S
  BY <1>1, FS_Singleton, FS_Subset
<1>3. Total(w, S) = Total(w, {e}) + Total(w, S \ {e})
  <2> DEFINE R == S \ {e}
  <2>1. {e} \cap R = {} /\ \A x \in {e} \cup R : w[x] \in Nat
    BY <1>1
  <2>2. Total(w, {e} \cup R) = Total(w, {e}) + Total(w, R)
    BY <1>2, <2>1, TotalsAdd
  <2> QED BY <1>2, <2>2
<1>4. Total(w, {e}) = w[e]
  BY <1>1, TotalOf
<1> QED BY <1>1, <1>3, <1>4 DEF e

(* A set of sets that is not empty has a smallest one. *)
LEMMA SmallestOf ==
  ASSUME NEW F, IsFiniteSet(F), NEW T, T \subseteq SUBSET F, T # {}
  PROVE  \E U \in T : \A V \in T : ~(V \subseteq U /\ V # U)
<1>1. IsWellFoundedOn(StrictSubsetOrdering(F), FiniteSubsetsOf(F))
  BY FS_StrictSubsetOrderingWellFounded
<1>2. T \subseteq FiniteSubsetsOf(F)
  BY FS_Subset DEF FiniteSubsetsOf
<1>3. PICK U \in T : \A V \in T : <<V, U>> \notin StrictSubsetOrdering(F)
  BY <1>1, <1>2, WFMin
<1> QED BY <1>3 DEF StrictSubsetOrdering

SumsUp(h, w, F) ==
  h = [S \in SUBSET F |-> IF S = {} THEN 0 ELSE w[First(S)] + h[S \ {First(S)}]]

LEMMA TotalSumsUp ==
  ASSUME NEW F, IsFiniteSet(F), NEW w, \A e \in F : w[e] \in Nat
  PROVE  SumsUp([S \in SUBSET F |-> Total(w, S)], w, F)
<1> DEFINE t == [S \in SUBSET F |-> Total(w, S)]
<1>1. ASSUME NEW S \in SUBSET F
      PROVE  t[S] = IF S = {} THEN 0 ELSE w[First(S)] + t[S \ {First(S)}]
  <2>1. IsFiniteSet(S) /\ \A e \in S : w[e] \in Nat
    BY FS_Subset
  <2>2. CASE S = {}
    BY <2>2, TotalOf
  <2>3. CASE S # {}
    BY <2>1, <2>3, TotalOfRest
  <2> QED BY <2>2, <2>3
<1>2. t = [S \in SUBSET F |-> IF S = {} THEN 0 ELSE w[First(S)] + t[S \ {First(S)}]]
  BY <1>1
<1> QED BY <1>2 DEF SumsUp

LEMMA SumIsTotal ==
  ASSUME NEW F, IsFiniteSet(F), NEW w, \A e \in F : w[e] \in Nat, NEW h, SumsUp(h, w, F)
  PROVE  h[F] = Total(w, F)
<1> DEFINE Bad == {S \in SUBSET F : h[S] # Total(w, S)}
<1>1. ASSUME Bad # {} PROVE FALSE
  <2>1. PICK U \in Bad : \A V \in Bad : ~(V \subseteq U /\ V # U)
    <3>1. Bad \subseteq SUBSET F
      OBVIOUS
    <3> HIDE DEF Bad
    <3> QED BY <1>1, <3>1, SmallestOf
  <2>2. U \in SUBSET F /\ h[U] # Total(w, U)
    OBVIOUS
  <2>3. IsFiniteSet(U) /\ \A e \in U : w[e] \in Nat
    BY <2>2, FS_Subset
  <2>4. U # {}
    BY <2>2, TotalOf DEF SumsUp
  <2>5. First(U) \in U /\ Total(w, U) = w[First(U)] + Total(w, U \ {First(U)})
    BY <2>3, <2>4, TotalOfRest
  <2>6. h[U] = w[First(U)] + h[U \ {First(U)}]
    BY <2>2, <2>4 DEF SumsUp
  <2>7. U \ {First(U)} \notin Bad
    BY <2>1, <2>5
  <2> QED BY <2>2, <2>5, <2>6, <2>7
<1> QED BY <1>1

(***************************************************************************)
(* The hours of finished rows, and of the lines of a report.               *)
(***************************************************************************)
Finished == {r \in work : r.out # NoEnd}

Pays == [r \in Finished |-> Payable(r)]

LEMMA FinishedPay ==
  ASSUME DutyTypeOK
  PROVE  /\ IsFiniteSet(Finished)
         /\ \A r \in Finished : /\ Pays[r] \in Nat /\ Pays[r] = Payable(r)
                                /\ r \in WorkRow /\ r.in \in 0 .. Last
<1>1. IsFiniteSet(Finished)
  BY FS_Subset DEF DutyTypeOK, Finished
<1>2. ASSUME NEW r \in Finished
      PROVE  /\ Pays[r] \in Nat /\ Pays[r] = Payable(r)
             /\ r \in WorkRow /\ r.in \in 0 .. Last
  <2>1. r \in WorkRow /\ r.out # NoEnd
    BY DEF Finished, DutyTypeOK
  <2>2. r.in \in 0 .. Last /\ r.in \in Int /\ r.brk \in Nat /\ r.out \in Nat
    BY <2>1, MinutesAssumption DEF WorkRow
  <2>3. Positive(r.out - r.in) \in Nat
    BY <2>2, PositiveIsNat
  <2>4. Payable(r) \in Nat
    BY <2>2, <2>3, PositiveIsNat DEF Payable, Gross
  <2> QED BY <2>1, <2>2, <2>4 DEF Pays
<1> QED BY <1>1, <1>2

LEMMA HoursAreTotals ==
  ASSUME DutyTypeOK, NEW S \in SUBSET Finished
  PROVE  Hours(S) = Total(Pays, S) /\ Hours(S) \in Nat
<1>1. IsFiniteSet(S) /\ \A r \in S : Pays[r] \in Nat /\ Pays[r] = Payable(r)
  BY FinishedPay, FS_Subset
<1> DEFINE Sum(h) == h = [U \in SUBSET S |-> IF U = {} THEN 0
                                     ELSE Payable(First(U)) + h[U \ {First(U)}]]
           t == [U \in SUBSET S |-> Total(Pays, U)]
           it == CHOOSE h : Sum(h)
<1>2. \A U \in SUBSET S : U # {} => First(U) \in S
  BY DEF First
<1>3. ASSUME NEW h PROVE Sum(h) <=> SumsUp(h, Pays, S)
  BY <1>1, <1>2 DEF SumsUp
<1>4. SumsUp(t, Pays, S)
  BY <1>1, TotalSumsUp
<1>5. Sum(it)
  <2>1. Sum(t)
    BY <1>3, <1>4
  <2> HIDE DEF Sum, t
  <2> QED BY <2>1
<1>6. Hours(S) = it[S]
  BY DEF Hours, MapThenSumSet, MapThenFoldSet, First
<1> HIDE DEF it, t, Sum
<1>7. it[S] = Total(Pays, S)
  BY <1>1, <1>3, <1>5, SumIsTotal
<1> QED BY <1>1, <1>6, <1>7, UnitsFinite

LEMMA LinesAreTotals ==
  ASSUME NEW K, IsFiniteSet(K), NEW rows, NEW w, \A k \in K : w[k] = rows[k].hours,
         \A k \in K : w[k] \in Nat
  PROVE  MapThenSumSet(LAMBDA k : rows[k].hours, K) = Total(w, K)
<1> DEFINE Sum(h) == h = [U \in SUBSET K |-> IF U = {} THEN 0
                                     ELSE rows[First(U)].hours + h[U \ {First(U)}]]
           t == [U \in SUBSET K |-> Total(w, U)]
           it == CHOOSE h : Sum(h)
<1>2. \A U \in SUBSET K : U # {} => First(U) \in K
  BY DEF First
<1>3. ASSUME NEW h PROVE Sum(h) <=> SumsUp(h, w, K)
  BY <1>2 DEF SumsUp
<1>4. SumsUp(t, w, K)
  BY TotalSumsUp
<1>5. Sum(it)
  <2>1. Sum(t)
    BY <1>3, <1>4
  <2> HIDE DEF Sum, t
  <2> QED BY <2>1
<1>6. MapThenSumSet(LAMBDA k : rows[k].hours, K) = it[K]
  BY DEF MapThenSumSet, MapThenFoldSet, First
<1> HIDE DEF it, t, Sum
<1>7. it[K] = Total(w, K)
  BY <1>3, <1>5, SumIsTotal
<1> QED BY <1>6, <1>7

(* The lines of the sites have the hours of all rows.                      *)
LEMMA SitesAddUp ==
  ASSUME DutyTypeOK, NEW rs \in SUBSET Finished
  PROVE  OfficerAllSites(rs).totalHours = Row(rs).hours
<1> DEFINE OfSite(k) == {r \in rs : r.site = k}  rows == BySite(rs)  K == DOMAIN rows
           w == [k \in K |-> Hours(OfSite(k))]
<1>1. \A r \in rs : r.site \in {1, 2}
  BY FinishedPay DEF WorkRow
<1>2. K = {r.site : r \in rs} /\ K \subseteq {1, 2}
  BY <1>1 DEF BySite
<1>3. \A k \in K : rows[k].hours = Hours(OfSite(k))
  BY DEF BySite, Row
<1>4. \A k : Hours(OfSite(k)) \in Nat
  BY HoursAreTotals
<1>5. IsFiniteSet(K)
  <2>1. IsFiniteSet({1} \cup {2}) /\ {1} \cup {2} = {1, 2}
    BY FS_Singleton, FS_AddElement
  <2>2. K \in SUBSET {1, 2}
    BY <1>2
  <2> HIDE DEF K
  <2> QED BY <2>1, <2>2, FS_Subset
<1>6. OfficerAllSites(rs).totalHours = MapThenSumSet(LAMBDA k : rows[k].hours, K)
  BY DEF OfficerAllSites
<1>7. \A k \in K : w[k] = rows[k].hours /\ w[k] \in Nat
  BY <1>3, <1>4
<1>8. OfficerAllSites(rs).totalHours = Total(w, K)
  <2> HIDE DEF rows, K, w, OfSite
  <2> QED BY <1>5, <1>6, <1>7, LinesAreTotals
<1>9. ASSUME NEW k \in {1, 2} PROVE Total(w, K \cap {k}) = Hours(OfSite(k))
  <2>1. CASE k \in K
    <3>1. K \cap {k} = {k} /\ w[k] = Hours(OfSite(k)) /\ w[k] \in Nat
      BY <1>4, <2>1
    <3> QED BY <3>1, TotalOf
  <2>2. CASE k \notin K
    <3>1. K \cap {k} = {} /\ OfSite(k) = {}
      BY <1>2, <2>2
    <3>2. Hours({}) = 0
      BY HoursAreTotals, TotalOf
    <3> QED BY <3>1, <3>2, TotalOf
  <2> QED BY <2>1, <2>2
<1>10. Total(w, K) = Hours(OfSite(1)) + Hours(OfSite(2))
  <2> DEFINE A == K \cap {1}  B == K \cap {2}
  <2>1. A \cup B = K /\ A \cap B = {} /\ IsFiniteSet(A) /\ IsFiniteSet(B)
    BY <1>2, <1>5, FS_Subset
  <2>2. \A k \in A \cup B : w[k] \in Nat
    BY <1>7
  <2>3. Total(w, A \cup B) = Total(w, A) + Total(w, B)
    <3> HIDE DEF A, B, w
    <3> QED BY <2>1, <2>2, TotalsAdd
  <2> QED BY <1>9, <2>1, <2>3
<1>11. Hours(rs) = Hours(OfSite(1)) + Hours(OfSite(2))
  <2> DEFINE A == OfSite(1)  B == OfSite(2)
  <2>1. A \cup B = rs /\ A \cap B = {} /\ A \in SUBSET Finished /\ B \in SUBSET Finished
    BY <1>1
  <2>2. IsFiniteSet(A) /\ IsFiniteSet(B) /\ \A r \in A \cup B : Pays[r] \in Nat
    BY <2>1, FinishedPay, FS_Subset
  <2>3. Total(Pays, A \cup B) = Total(Pays, A) + Total(Pays, B)
    <3> HIDE DEF A, B
    <3> QED BY <2>1, <2>2, TotalsAdd
  <2> QED BY <2>1, <2>3, HoursAreTotals
<1>12. Row(rs).hours = Hours(rs)
  BY DEF Row
<1> QED BY <1>8, <1>10, <1>11, <1>12

(* No site has more days than there are.                                   *)
LEMMA DaysOfSites ==
  ASSUME DutyTypeOK, NEW rs \in SUBSET Finished, NEW k \in DOMAIN OfficerAllSites(rs).rows
  PROVE  OfficerAllSites(rs).rows[k].days <= OfficerAllSites(rs).totalDays
<1> DEFINE mine == {r \in rs : r.site = k}
           days(S) == {DayKey(r) : r \in S}
<1>1. IsFiniteSet(rs)
  BY FinishedPay, FS_Subset
<1>2. IsFiniteSet(days(rs))
  <2> DEFINE f == [r \in rs |-> DayKey(r)]
  <2>1. DOMAIN f = rs /\ days(rs) = {f[r] : r \in rs}
    OBVIOUS
  <2> HIDE DEF f, days
  <2> QED BY <1>1, <2>1, ImageOf
<1>3. days(mine) \in SUBSET days(rs)
  OBVIOUS
<1>4. Cardinality(days(mine)) <= Cardinality(days(rs))
  <2> HIDE DEF days, mine
  <2> QED BY <1>2, <1>3, FS_Subset
<1>5. /\ OfficerAllSites(rs).rows[k].days = Cardinality(days(mine))
      /\ OfficerAllSites(rs).totalDays = Cardinality(days(rs))
  BY DEF OfficerAllSites, BySite, Row, DaysWorked
<1> QED BY <1>4, <1>5

-----------------------------------------------------------------------------
(***************************************************************************)
(* The days of a report, where no midnight is shown twice or never.        *)
(***************************************************************************)
LEMMA OneIsShownOnce ==
  ASSUME Lengths, NEW w \in Int,
         Cardinality({t \in (w - DayLength) .. (w + DayLength) : Wall(t) = w}) = 1
  PROVE  ShownOnce(w)
<1> DEFINE S == {t \in (w - DayLength) .. (w + DayLength) : Wall(t) = w}
<1>1. IsFiniteSet((w - DayLength) .. (w + DayLength))
  BY FS_Interval DEF Lengths
<1>2. IsFiniteSet(S)
  BY <1>1, FS_Subset
<1>3. PICK z : S = {z}
  BY <1>2, FS_Singleton
<1> QED BY <1>3 DEF ShownOnce

LEMMA PlainDays ==
  ASSUME Lengths, Plain, NEW d \in SomeDays, d # -1
  PROVE  /\ DayLength * d \in Int
         /\ d * DayLength = DayLength * d
         /\ ShownOnce(DayLength * d) /\ ShownOnce((DayLength * d) - 1)
<1>1. d \in Int /\ DayLength \in Int
  <2>1. Day(Last) \in Int
    BY MinutesAssumption, DayHas
  <2> QED BY <2>1 DEF SomeDays, Lengths
<1>2. DayLength * d \in Int /\ d * DayLength = DayLength * d
  BY <1>1
<1> DEFINE once(w) == Cardinality({t \in (w - DayLength) .. (w + DayLength) : Wall(t) = w}) = 1
           edges == {d * DayLength, (d * DayLength) - 1}
<1>3. \A w \in edges : once(w)
  <2>1. edges \in {{e * DayLength, (e * DayLength) - 1} : e \in SomeDays \ {-1}}
    OBVIOUS
  <2>2. \A w \in UNION {{e * DayLength, (e * DayLength) - 1} : e \in SomeDays \ {-1}} : once(w)
    BY DEF Plain
  <2> HIDE DEF once, edges
  <2> QED BY <2>1, <2>2
<1>4. once(DayLength * d) /\ once((DayLength * d) - 1)
  <2> HIDE DEF once
  <2> QED BY <1>2, <1>3
<1> QED BY <1>1, <1>2, <1>4, OneIsShownOnce

(* The range of a day has the instants of that date, and those alone.      *)
LEMMA RangeOfDay ==
  ASSUME Lengths, Plain, NEW d \in SomeDays, NEW t \in 0 .. Last
  PROVE  /\ DayAt(t) \in SomeDays
         /\ StartOfDay(d) <= t <=> d <= DayAt(t)
         /\ t <= EndOfDay(d) <=> DayAt(t) <= d
<1> DEFINE wall == Wall(t)  last == Day(Last)
<1>1. /\ t \in Int /\ Last \in Int /\ DayLength \in Nat \ {0} /\ 0 <= t /\ t <= Last
  BY MinutesAssumption DEF Lengths
<1>2. /\ wall \in Int /\ t - DayLength <= wall /\ wall <= t + DayLength
      /\ DayAt(t) = Day(wall) /\ Day(wall) \in Int
  BY <1>1, Clock, DayHas DEF DayAt
<1>3. /\ last \in Int /\ DayLength * last \in Int /\ Last < (DayLength * last) + DayLength
  BY <1>1, DayHas
<1>4. d \in Int /\ -1 <= d /\ d <= last + 1
  BY <1>3 DEF SomeDays
<1>5. /\ DayLength * d \in Int /\ d * DayLength = DayLength * d
      /\ DayLength * (-1) = -DayLength
      /\ DayLength * (d + 1) = (DayLength * d) + DayLength
      /\ DayLength * (last + 1) = (DayLength * last) + DayLength
  BY <1>1, <1>3, <1>4
<1> HIDE DEF wall, last
<1>6. -1 <= Day(wall) /\ Day(wall) <= last + 1
  <2>1. DayLength * (-1) <= wall
    BY <1>1, <1>2, <1>5
  <2>2. wall < (DayLength * (last + 1)) + DayLength
    BY <1>1, <1>2, <1>3, <1>5
  <2>3. last + 1 \in Int /\ -1 \in Int
    BY <1>3
  <2> QED BY <1>2, <2>1, <2>2, <2>3, DayHas
<1>7. DayAt(t) \in SomeDays
  BY <1>2, <1>3, <1>6 DEF SomeDays, last
<1>8. /\ DayLength * d <= wall <=> d <= Day(wall)
      /\ wall < (DayLength * d) + DayLength <=> Day(wall) <= d
  <2> DEFINE a == DayLength * Day(wall)  b == DayLength * d
  <2>1. a <= wall /\ wall < a + DayLength /\ a \in Int /\ b \in Int
    BY <1>1, <1>2, <1>5, DayHas
  <2>2. d <= Day(wall) => b <= a
    BY <1>1, <1>2, <1>4, Multiples
  <2>3. Day(wall) <= d => a <= b
    BY <1>1, <1>2, <1>4, Multiples
  <2>4. /\ b <= wall => d <= Day(wall)
        /\ wall < b + DayLength => Day(wall) <= d
    BY <1>2, <1>4, DayHas
  <2> HIDE DEF a, b
  <2>5. /\ d <= Day(wall) => b <= wall
        /\ Day(wall) <= d => wall < b + DayLength
    BY <1>1, <1>2, <2>1, <2>2, <2>3
  <2> QED BY <2>4, <2>5 DEF b
<1>9. StartOfDay(d) <= t <=> d <= Day(wall)
  <2> DEFINE w == DayLength * d  z == ZonedDateTime(w)
  <2>1. StartOfDay(d) = z /\ w \in Int /\ z \in Int
    BY <1>5, Instant DEF StartOfDay
  <2>2. CASE d # -1
    <3>1. wall < w <=> t < z
      BY <1>1, <1>5, <2>2, PlainDays, Divides DEF wall
    <3> HIDE DEF w, z
    <3>2. w <= wall <=> z <= t
      BY <1>1, <1>2, <2>1, <3>1
    <3> QED BY <1>8, <2>1, <3>2 DEF w
  <2>3. CASE d = -1
    <3>1. z \in {w - zone.before, w - zone.after} /\ w = -DayLength
      BY <1>5, <2>1, <2>3, Instant
    <3> HIDE DEF w, z
    <3>2. z <= t
      BY <1>1, <2>1, <3>1 DEF Lengths
    <3> QED BY <1>2, <1>6, <2>1, <2>3, <3>2
  <2> QED BY <2>2, <2>3
<1>10. t <= EndOfDay(d) <=> Day(wall) <= d
  <2> DEFINE w == (DayLength * d) + DayLength - 1  z == ZonedDateTime(w)
  <2>1. EndOfDay(d) = z /\ w \in Int /\ z \in Int
    <3>1. w \in Int
      BY <1>1, <1>5
    <3>2. (d * DayLength) + DayLength - 1 = w
      BY <1>5
    <3> QED BY <3>1, <3>2, Instant DEF EndOfDay
  <2>2. CASE d # last + 1
    <3>1. d + 1 \in SomeDays /\ d + 1 # -1
      BY <1>3, <1>4, <2>2 DEF SomeDays, last
    <3>2. ShownOnce((DayLength * (d + 1)) - 1)
      BY <3>1, PlainDays
    <3>3. (DayLength * (d + 1)) - 1 = w
      BY <1>1, <1>5
    <3>4. w < wall <=> z < t
      BY <1>1, <2>1, <3>2, <3>3, Divides DEF wall
    <3>5. t <= z <=> wall < (DayLength * d) + DayLength
      <4>1. w + 1 = (DayLength * d) + DayLength
        BY <1>1, <1>5
      <4> HIDE DEF w, z
      <4> QED BY <1>1, <1>2, <2>1, <3>4, <4>1
    <3> QED BY <1>8, <2>1, <3>5
  <2>3. CASE d = last + 1
    <3>1. z \in {w - zone.before, w - zone.after}
      BY <2>1, Instant
    <3>2. w >= Last + DayLength
      BY <1>1, <1>3, <1>5, <2>3
    <3> HIDE DEF w, z
    <3>3. t <= z
      BY <1>1, <2>1, <3>1, <3>2 DEF Lengths
    <3> QED BY <1>2, <1>6, <2>1, <2>3, <3>3
  <2> QED BY <2>2, <2>3
<1> QED BY <1>2, <1>7, <1>9, <1>10

LEMMA DaysTiled == ASSUME DutyTypeOK, Plain PROVE DaysTile
<1>1. Lengths
  BY ZoneLengths DEF DutyTypeOK
<1>2. SomeDays \subseteq Int
  BY MinutesAssumption, DayHas DEF SomeDays
<1>3. ASSUME NEW t \in 0 .. Last
      PROVE  {d \in SomeDays : StartOfDay(d) <= t /\ t <= EndOfDay(d)} = {DayAt(t)}
  <2>1. \A d \in SomeDays : /\ DayAt(t) \in SomeDays
                            /\ StartOfDay(d) <= t <=> d <= DayAt(t)
                            /\ t <= EndOfDay(d) <=> DayAt(t) <= d
    BY <1>1, RangeOfDay
  <2>2. DayAt(t) \in SomeDays
    <3>1. -1 \in SomeDays
      BY MinutesAssumption, DayHas, CalendarAssumption DEF SomeDays
    <3> QED BY <2>1, <3>1
  <2>3. ASSUME NEW d \in SomeDays
        PROVE  d <= DayAt(t) /\ DayAt(t) <= d <=> d = DayAt(t)
    <3>1. d \in Int /\ DayAt(t) \in Int
      BY <1>2, <2>2
    <3> QED BY <3>1
  <2> QED BY <2>1, <2>2, <2>3
<1> QED BY <1>3 DEF DaysTile

Covers(from, to, d) == from <= d /\ d <= to

LEMMA DaysOfRows ==
  ASSUME DutyTypeOK, Plain, NEW r \in Finished
  PROVE  DayKey(r) \in SomeDays /\ r.day \in SomeDays
<1>1. Lengths /\ r \in WorkRow /\ r.in \in 0 .. Last
  BY ZoneLengths, FinishedPay DEF DutyTypeOK
<1>2. r.day \in SomeDays
  BY <1>1 DEF WorkRow
<1> QED BY <1>1, <1>2, RangeOfDay DEF DayKey

LEMMA ReportedRows ==
  ASSUME DutyTypeOK, Plain, NEW from \in SomeDays, NEW to \in SomeDays
  PROVE  Records(from, to) = {r \in Finished : \/ Covers(from, to, DayKey(r))
                                               \/ Covers(from, to, r.day)}
<1>1. Lengths
  BY ZoneLengths DEF DutyTypeOK
<1>2. \A r \in Finished : r \in WorkRow /\ r.in \in 0 .. Last
  BY FinishedPay
<1>3. ASSUME NEW r \in Finished
      PROVE  /\ StartOfDay(from) <= r.in <=> from <= DayKey(r)
             /\ r.in <= EndOfDay(to) <=> DayKey(r) <= to
  BY <1>1, <1>2, RangeOfDay DEF DayKey
<1> QED BY <1>3 DEF Records, Finished, Covers

(* No more shifts are missed than no row was finished for.                 *)
LEMMA MissedHaveNoRow ==
  ASSUME DutyTypeOK, NEW from \in SomeDays, NEW to \in SomeDays
  PROVE  MissedShifts(from, to)
           <= Cardinality({d \in ScheduledShifts(from, to) :
                             \A r \in Records(from, to) : r.day # d})
<1> DEFINE S == ScheduledShifts(from, to)  rs == Records(from, to)
           missed == {d \in S : \A r \in rs : r.day # d}
           days == {r.day : r \in rs}
<1>1. Lengths /\ post \in PostRow
  BY ZoneLengths DEF DutyTypeOK
<1>2. SomeDays \subseteq Int
  BY MinutesAssumption, DayHas DEF SomeDays
<1>3. IsFiniteSet(S)
  <2> DEFINE f == StartOfDay(from)  t == EndOfDay(to)
             day == IF IsRecurring(post.rule) THEN DayAt(f) .. DayAt(t) ELSE {DayAt(post.start)}
  <2>1. f \in Int /\ t \in Int
    <3>1. from \in Int /\ to \in Int
      BY <1>2
    <3>2. from * DayLength \in Int /\ (to * DayLength) + DayLength - 1 \in Int
      BY <1>1, <3>1 DEF Lengths
    <3> QED BY <1>1, <3>2, Instant DEF StartOfDay, EndOfDay
  <2>2. DayAt(f) \in Int /\ DayAt(t) \in Int
    <3> HIDE DEF f, t
    <3> QED BY <1>1, <2>1, Clock, DayHas DEF DayAt
  <2>3. IsFiniteSet(DayAt(f) .. DayAt(t))
    <3> HIDE DEF f, t
    <3> QED BY <2>2, FS_Interval
  <2>4. IsFiniteSet(day)
    BY <2>3, FS_Singleton
  <2>5. S \in SUBSET day
    BY DEF ScheduledShifts
  <2> HIDE DEF day, S
  <2> QED BY <2>4, <2>5, FS_Subset
<1>4. IsFiniteSet(rs)
  <2>1. rs \in SUBSET work /\ IsFiniteSet(work)
    BY DEF Records, DutyTypeOK
  <2> HIDE DEF rs
  <2> QED BY <2>1, FS_Subset
<1>5. IsFiniteSet(days) /\ Cardinality(days) <= Cardinality(rs)
  <2> DEFINE g == [r \in rs |-> r.day]
  <2>1. DOMAIN g = rs /\ days = {g[r] : r \in rs}
    OBVIOUS
  <2> HIDE DEF g, days, rs
  <2> QED BY <1>4, <2>1, ImageOf
<1>6. missed = S \ days
  OBVIOUS
<1> HIDE DEF S, rs, missed, days
<1>7. /\ IsFiniteSet(missed)
      /\ Cardinality(missed) = Cardinality(S) - Cardinality(S \cap days)
  BY <1>3, <1>6, FS_Difference
<1>8. Cardinality(S \cap days) <= Cardinality(days) /\ IsFiniteSet(S \cap days)
  BY <1>3, <1>5, FS_Intersection
<1>9. /\ Cardinality(S) \in Nat /\ Cardinality(rs) \in Nat /\ Cardinality(missed) \in Nat
      /\ Cardinality(days) \in Nat /\ Cardinality(S \cap days) \in Nat
  BY <1>3, <1>4, <1>5, <1>7, <1>8, FS_CardinalityType
<1>10. Cardinality(S) - Cardinality(rs) <= Cardinality(missed)
  BY <1>5, <1>7, <1>8, <1>9
<1>11. MissedShifts(from, to) = Positive(Cardinality(S) - Cardinality(rs))
  BY DEF MissedShifts, S, rs
<1>12. MissedShifts(from, to) <= Cardinality(missed)
  BY <1>9, <1>10, <1>11 DEF Positive
<1> QED BY <1>12 DEF missed, S, rs

LEMMA CountedOnce == ASSUME DutyInv PROVE HoursCountedOnce
<1>1. DutyTypeOK
  BY DEF DutyInv
<1>2. SomeDays \subseteq Int
  BY MinutesAssumption, DayHas DEF SomeDays
<1>3. ASSUME Plain, NEW r \in work, r.out # NoEnd
      PROVE  {d \in SomeDays : r \in Records(d, d)} = {DayKey(r), r.day}
  <2>1. r \in Finished
    BY <1>3 DEF Finished
  <2>2. DayKey(r) \in SomeDays /\ r.day \in SomeDays
    BY <1>1, <1>3, <2>1, DaysOfRows
  <2>3. ASSUME NEW d \in SomeDays
        PROVE  r \in Records(d, d) <=> (DayKey(r) = d \/ r.day = d)
    <3>1. r \in Records(d, d) <=> Covers(d, d, DayKey(r)) \/ Covers(d, d, r.day)
      BY <1>1, <1>3, <2>1, ReportedRows
    <3>2. \A e \in SomeDays : Covers(d, d, e) <=> e = d
      BY <1>2 DEF Covers
    <3> QED BY <2>2, <3>1, <3>2
  <2> QED BY <2>2, <2>3
<1>4. ASSUME Plain, NEW from \in SomeDays, NEW to \in SomeDays, from <= to
      PROVE  Records(from, to) = UNION {Records(d, d) : d \in from .. to}
  <2>1. from .. to \subseteq SomeDays
    <3>1. Day(Last) \in Int
      BY MinutesAssumption, DayHas
    <3> QED BY <3>1 DEF SomeDays
  <2>2. ASSUME NEW r \in Finished, NEW d \in from .. to
        PROVE  r \in Records(d, d) <=> (DayKey(r) = d \/ r.day = d)
    <3>1. d \in SomeDays /\ d \in Int
      BY <1>2, <2>1
    <3>2. r \in Records(d, d) <=> Covers(d, d, DayKey(r)) \/ Covers(d, d, r.day)
      BY <1>1, <1>4, <3>1, ReportedRows
    <3>3. \A e \in SomeDays : Covers(d, d, e) <=> e = d
      BY <1>2, <3>1 DEF Covers
    <3>4. DayKey(r) \in SomeDays /\ r.day \in SomeDays
      BY <1>1, <1>4, DaysOfRows
    <3> QED BY <3>2, <3>3, <3>4
  <2>3. ASSUME NEW r \in Finished
        PROVE  r \in Records(from, to) <=> \E d \in from .. to : DayKey(r) = d \/ r.day = d
    <3>1. r \in Records(from, to) <=> Covers(from, to, DayKey(r)) \/ Covers(from, to, r.day)
      BY <1>1, <1>4, ReportedRows
    <3>2. \A e \in SomeDays : Covers(from, to, e) <=> e \in from .. to
      BY <1>2 DEF Covers
    <3>3. DayKey(r) \in SomeDays /\ r.day \in SomeDays
      BY <1>1, <1>4, DaysOfRows
    <3> QED BY <3>1, <3>2, <3>3
  <2>4. \A a, b \in SomeDays : Records(a, b) \subseteq Finished
    BY DEF Records, Finished
  <2> QED BY <2>1, <2>2, <2>3, <2>4
<1>5. ASSUME NEW from \in SomeDays, NEW to \in SomeDays
      PROVE  LET rs == Records(from, to)  all == OfficerAllSites(rs) IN
               /\ all.totalHours = Row(rs).hours
               /\ \A k \in DOMAIN all.rows : all.rows[k].days <= all.totalDays
               /\ MissedShifts(from, to)
                    <= Cardinality({d \in ScheduledShifts(from, to) : \A r \in rs : r.day # d})
  <2>1. Records(from, to) \in SUBSET Finished
    BY DEF Records, Finished
  <2> QED BY <1>1, <2>1, SitesAddUp, DaysOfSites, MissedHaveNoRow
<1>6. ASSUME NEW r \in work
      PROVE  /\ r.out # NoEnd => r.totals.payable = Payable(r)
             /\ Occurs(post, r.day) => r.totals.late = Late(StartAt(post, r.day), r.in)
             /\ r.out # NoEnd /\ r.totals.over > 0 => r.totals.early = 0
  BY DEF DutyInv, RowAgrees
<1>7. Plain => DaysTile
  BY <1>1, DaysTiled
<1> QED BY <1>3, <1>4, <1>5, <1>6, <1>7 DEF HoursCountedOnce

(* Every hour of a report is counted, and once: the days tile the time, the*)
(* reports of the days make up that of their range, the sites that of the  *)
(* officer, and the rows are paid, and late, as they were worked.          *)
THEOREM HoursAreCounted == DutySpec /\ []StartShownOnce => []HoursCountedOnce
<1>1. DutyInv => HoursCountedOnce
  BY CountedOnce
<1> QED BY <1>1, DutyInductive, PTL
=============================================================================
