----------------------------- MODULE Attendance -----------------------------
(***************************************************************************)
(* One assignment of an officer to a shift, the attendance row of each day *)
(* the shift occurs, and the breaks taken on them: the handlers of         *)
(* attendance.service, breaks.service and the status handlers of           *)
(* assignments.service and shifts.service.                                 *)
(*                                                                         *)
(* Every handler reads, decides, and then updates rows by their id alone.  *)
(* Each await between two database calls is a point where other handlers   *)
(* run, so a handler is one action per read and one for its transaction    *)
(* (READ COMMITTED); a refused request is a handler that goes back to idle.*)
(***************************************************************************)
EXTENDS Integers, StatusRules

CONSTANTS
  Days,       \* the occurrence dates of the shift, in order
  Breaks,     \* bound: the break rows there may be
  NoBreak,
  Handlers,   \* the requests being handled at one time
  May,        \* the operations the users of each handler call
  Recurring   \* isRecurringShift

OfficerOps == {"clock_in", "clock_out", "request_review", "start_break", "end_break"}

StatusOps == {"request_review", "approve", "reject", "void"}

Operations == OfficerOps \cup StatusOps \cup
  {"correct", "cancel_break", "confirm", "update_assignment",
   "cancel_assignment", "update_shift"}

ASSUME DaysAssumption == Days \subseteq Nat \ {0}
ASSUME NoBreakAssumption == NoBreak \notin Breaks
ASSUME MayAssumption == May \in [Handlers -> SUBSET Operations]
ASSUME RecurringAssumption == Recurring \in BOOLEAN

VARIABLES
  shift,      \* Shift.status
  assignment, \* Assignment.status
  att,        \* the Attendance row of each day
  brk,        \* the ShiftBreak rows
  today,      \* the day whose occurrence is open for clock-in
  job         \* what each handler is doing, and what it has read

vars == <<shift, assignment, att, brk, today, job>>

rows == <<shift, assignment, att, brk>>

(* "out": clockOutServerAt is set.  "counted": the breaks whose durations  *)
(* totalBreakMinutes adds up; "deducted": those that payableMinutes leaves *)
(* out of grossMinutes.                                                    *)
NoAttendance == [status |-> "ABSENT", out |-> FALSE, counted |-> {}, deducted |-> {}]

NoShiftBreak == [day |-> 0, status |-> "ABSENT"]

Idle == [op |-> "idle", step |-> "read", day |-> 0, brk |-> NoBreak,
         next |-> "ABSENT", counted |-> {}, asg |-> "ASSIGNED", shf |-> "DRAFT"]

AttendanceRow == [status : AttendanceStatuses, out : BOOLEAN,
                  counted : SUBSET Breaks, deducted : SUBSET Breaks]

BreakRow == [day : Days \cup {0}, status : BreakStatuses]

Job == [op : Operations \cup {"idle"}, step : {"read", "find", "write"},
        day : Days \cup {0}, brk : Breaks \cup {NoBreak},
        next : AttendanceStatuses \cup AssignmentStatuses \cup ShiftStatuses,
        counted : SUBSET Breaks, asg : AssignmentStatuses, shf : ShiftStatuses]

TypeOK ==
  /\ shift \in ShiftStatuses
  /\ assignment \in AssignmentStatuses
  /\ att \in [Days -> AttendanceRow]
  /\ brk \in [Breaks -> BreakRow]
  /\ today \in Days
  /\ job \in [Handlers -> Job]

Init ==
  /\ shift \in {"DRAFT", "SCHEDULED"}
  /\ assignment = "ASSIGNED"
  /\ att = [d \in Days |-> NoAttendance]
  /\ brk = [b \in Breaks |-> NoShiftBreak]
  /\ today \in {d \in Days : \A e \in Days : d <= e}
  /\ job = [h \in Handlers |-> Idle]

-----------------------------------------------------------------------------
Starts(h, op) == job[h].op = "idle" /\ op \in May[h]

At(h, op, step) == job[h].op = op /\ job[h].step = step

Becomes(h, j) == job' = [job EXCEPT ![h] = j]

Ends(h) == Becomes(h, Idle)

OnBreak(d) == \E b \in Breaks : brk[b].day = d /\ brk[b].status = "ACTIVE"

CompletedBreaks_Any(d) ==          \* slip: no filter on the status
  {b \in Breaks : brk[b].day = d}

CompletedBreaks(d) == {b \in Breaks : brk[b].day = d /\ brk[b].status = "COMPLETED"}

(* The transaction that ends a break holds the lock of its row. *)
BreakLocked(b) == \E h \in Handlers : At(h, "end_break", "write") /\ job[h].brk = b

WithStatus(d, s) ==
  [status |-> s, out |-> att[d].out,
   counted |-> att[d].counted, deducted |-> att[d].deducted]

ClockedOut(s, breaks) ==
  [status |-> s, out |-> TRUE, counted |-> breaks, deducted |-> breaks]

(***************************************************************************)
(* Clock-in: the assignment and its shift are read, then the attendance of *)
(* the occurrence is looked for, then the transaction creates it.          *)
(***************************************************************************)
ClockInRead(h) ==
  /\ Starts(h, "clock_in")
  /\ \/ assignment \in ActiveAssignment
     \/ assignment = "COMPLETED" /\ Recurring
  /\ Becomes(h, [Idle EXCEPT !.op = "clock_in", !.step = "find", !.day = today,
                             !.asg = assignment, !.shf = shift])
  /\ UNCHANGED <<rows, today>>

ClockInFind(h) ==
  /\ At(h, "clock_in", "find")
  /\ IF att[job[h].day].status = "ABSENT"
       THEN Becomes(h, [job[h] EXCEPT !.step = "write"])
       ELSE Ends(h)
  /\ UNCHANGED <<rows, today>>

ClockInWrite_OnlyConfirmed(h) ==   \* slip: an ASSIGNED assignment stays so
  /\ At(h, "clock_in", "write")
  /\ att[job[h].day].status = "ABSENT"
  /\ \E s \in ClockInResults :
       att' = [att EXCEPT ![job[h].day] = [NoAttendance EXCEPT !.status = s]]
  /\ assignment' = IF job[h].asg = "CONFIRMED" THEN "IN_PROGRESS" ELSE assignment
  /\ shift' = IF job[h].shf = "SCHEDULED" /\ ~Recurring
                THEN "IN_PROGRESS" ELSE shift
  /\ Ends(h)
  /\ UNCHANGED <<brk, today>>

ClockInWrite(h) ==
  /\ At(h, "clock_in", "write")
  /\ att[job[h].day].status = "ABSENT"
  /\ \E s \in ClockInResults :
       att' = [att EXCEPT ![job[h].day] = [NoAttendance EXCEPT !.status = s]]
  /\ assignment' = IF job[h].asg \in {"ASSIGNED", "CONFIRMED"}
                     THEN "IN_PROGRESS" ELSE assignment
  /\ shift' = IF job[h].shf = "SCHEDULED" /\ ~Recurring
                THEN "IN_PROGRESS" ELSE shift
  /\ Ends(h)
  /\ UNCHANGED <<brk, today>>

ClockInLost_Overwrites(h) ==       \* slip: an upsert
  /\ At(h, "clock_in", "write")
  /\ att[job[h].day].status # "ABSENT"
  /\ att' = [att EXCEPT ![job[h].day] = WithStatus(job[h].day, "CLOCKED_IN")]
  /\ Ends(h)
  /\ UNCHANGED <<shift, assignment, brk, today>>

(* P2002 on (assignmentId, occurrenceDate): the transaction rolls back. *)
ClockInLost(h) ==
  /\ At(h, "clock_in", "write")
  /\ att[job[h].day].status # "ABSENT"
  /\ Ends(h)
  /\ UNCHANGED <<rows, today>>

(***************************************************************************)
(* Clock-out: one query reads the attendance, its assignment and breaks.   *)
(***************************************************************************)
ClockOutRead_OnBreak(h) ==         \* slip: no look for an active break
  /\ Starts(h, "clock_out")
  /\ \E d \in Days, s \in {"CLOCKED_OUT", "PENDING_SUPERVISOR_APPROVAL"} :
       /\ att[d].status \in ActiveAttendance
       /\ s \in AttendanceMoves[att[d].status]
       /\ Becomes(h, [Idle EXCEPT !.op = "clock_out", !.step = "write", !.day = d,
                                  !.next = s, !.counted = CompletedBreaks(d),
                                  !.asg = assignment])
  /\ UNCHANGED <<rows, today>>

ClockOutRead(h) ==
  /\ Starts(h, "clock_out")
  /\ \E d \in Days, s \in {"CLOCKED_OUT", "PENDING_SUPERVISOR_APPROVAL"} :
       /\ att[d].status \in ActiveAttendance
       /\ ~OnBreak(d)
       /\ s \in AttendanceMoves[att[d].status]
       /\ Becomes(h, [Idle EXCEPT !.op = "clock_out", !.step = "write", !.day = d,
                                  !.next = s, !.counted = CompletedBreaks(d),
                                  !.asg = assignment])
  /\ UNCHANGED <<rows, today>>

ClockOutWrite_OneOff(h) ==         \* slip: recurring shifts are forgotten
  /\ At(h, "clock_out", "write")
  /\ att' = [att EXCEPT ![job[h].day] = ClockedOut(job[h].next, job[h].counted)]
  /\ assignment' = IF job[h].asg # "IN_PROGRESS" THEN assignment ELSE "COMPLETED"
  /\ Ends(h)
  /\ UNCHANGED <<shift, brk, today>>

ClockOutWrite(h) ==
  /\ At(h, "clock_out", "write")
  /\ att' = [att EXCEPT ![job[h].day] = ClockedOut(job[h].next, job[h].counted)]
  /\ assignment' = IF job[h].asg # "IN_PROGRESS" THEN assignment
                   ELSE IF Recurring THEN "CONFIRMED" ELSE "COMPLETED"
  /\ Ends(h)
  /\ UNCHANGED <<shift, brk, today>>

(***************************************************************************)
(* requestReview, approve, reject and voidAttendance.                      *)
(***************************************************************************)
Outcome == [request_review |-> "PENDING_SUPERVISOR_APPROVAL",
            approve |-> "SUPERVISOR_APPROVED",
            reject |-> "SUPERVISOR_REJECTED",
            void |-> "VOIDED"]

StatusRead(h) ==
  /\ \E op \in StatusOps, d \in Days :
       /\ Starts(h, op)
       /\ Outcome[op] \in AttendanceMoves[att[d].status]
       /\ Becomes(h, [Idle EXCEPT !.op = op, !.step = "write", !.day = d,
                                  !.next = Outcome[op]])
  /\ UNCHANGED <<rows, today>>

StatusWrite(h) ==
  /\ job[h].op \in StatusOps
  /\ att' = [att EXCEPT ![job[h].day] = WithStatus(job[h].day, job[h].next)]
  /\ Ends(h)
  /\ UNCHANGED <<shift, assignment, brk, today>>

(* correct sets clock-in and clock-out and their totals, not the status. *)
CorrectRead(h) ==
  /\ Starts(h, "correct")
  /\ \E d \in Days :
       /\ att[d].status # "ABSENT"
       /\ Becomes(h, [Idle EXCEPT !.op = "correct", !.step = "find", !.day = d])
  /\ UNCHANGED <<rows, today>>

CorrectSum(h) ==
  /\ At(h, "correct", "find")
  /\ Becomes(h, [job[h] EXCEPT !.step = "write",
                               !.counted = CompletedBreaks(job[h].day)])
  /\ UNCHANGED <<rows, today>>

CorrectWrite(h) ==
  /\ At(h, "correct", "write")
  /\ att' = [att EXCEPT ![job[h].day] =
               ClockedOut(att[job[h].day].status, job[h].counted)]
  /\ Ends(h)
  /\ UNCHANGED <<shift, assignment, brk, today>>

(***************************************************************************)
(* Breaks.                                                                 *)
(***************************************************************************)
StartBreakRead(h) ==
  /\ Starts(h, "start_break")
  /\ \E d \in Days :
       /\ att[d].status \in ActiveAttendance
       /\ Becomes(h, [Idle EXCEPT !.op = "start_break", !.step = "find", !.day = d])
  /\ UNCHANGED <<rows, today>>

StartBreakFind_Unchecked(h) ==     \* slip: no look for a running break
  /\ At(h, "start_break", "find")
  /\ Becomes(h, [job[h] EXCEPT !.step = "write"])
  /\ UNCHANGED <<rows, today>>

StartBreakFind(h) ==
  /\ At(h, "start_break", "find")
  /\ IF OnBreak(job[h].day)
       THEN Ends(h)
       ELSE Becomes(h, [job[h] EXCEPT !.step = "write"])
  /\ UNCHANGED <<rows, today>>

StartBreakWrite(h) ==
  /\ At(h, "start_break", "write")
  /\ \E b \in Breaks :
       /\ brk[b].status = "ABSENT"
       /\ brk' = [brk EXCEPT ![b] = [day |-> job[h].day, status |-> "ACTIVE"]]
  /\ Ends(h)
  /\ UNCHANGED <<shift, assignment, att, today>>

BreakRead_Ended(h) ==              \* slip: an ended break can be cancelled
  /\ \E op \in {"end_break", "cancel_break"}, b \in Breaks :
       /\ Starts(h, op)
       /\ \/ brk[b].status = "ACTIVE"
          \/ brk[b].status = "COMPLETED" /\ op = "cancel_break"
       /\ Becomes(h, [Idle EXCEPT !.op = op, !.step = "find", !.day = brk[b].day,
                                  !.brk = b])
  /\ UNCHANGED <<rows, today>>

(* performEnd and cancel read the break they are asked for. *)
BreakRead(h) ==
  /\ \E op \in {"end_break", "cancel_break"}, b \in Breaks :
       /\ Starts(h, op)
       /\ brk[b].status = "ACTIVE"
       /\ Becomes(h, [Idle EXCEPT !.op = op, !.step = "find", !.day = brk[b].day,
                                  !.brk = b])
  /\ UNCHANGED <<rows, today>>

(* The transaction updates the break, then adds up the completed breaks it *)
(* sees: the committed ones, and its own.                                  *)
EndBreakSum(h) ==
  /\ At(h, "end_break", "find")
  /\ ~BreakLocked(job[h].brk)
  /\ Becomes(h, [job[h] EXCEPT !.step = "write",
                   !.counted = CompletedBreaks(job[h].day) \cup {job[h].brk}])
  /\ UNCHANGED <<rows, today>>

EndBreakCommit(h) ==
  /\ At(h, "end_break", "write")
  /\ brk' = [brk EXCEPT ![job[h].brk] = [day |-> job[h].day, status |-> "COMPLETED"]]
  /\ att' = [att EXCEPT ![job[h].day] =
               [status |-> att[job[h].day].status, out |-> att[job[h].day].out,
                counted |-> job[h].counted, deducted |-> att[job[h].day].deducted]]
  /\ Ends(h)
  /\ UNCHANGED <<shift, assignment, today>>

CancelBreakWrite(h) ==
  /\ At(h, "cancel_break", "find")
  /\ ~BreakLocked(job[h].brk)
  /\ brk' = [brk EXCEPT ![job[h].brk] = [day |-> job[h].day, status |-> "CANCELLED"]]
  /\ Ends(h)
  /\ UNCHANGED <<shift, assignment, att, today>>

(***************************************************************************)
(* The status handlers of assignments and shifts.                          *)
(***************************************************************************)
AssignmentRead(h) ==
  /\ \E op \in {"confirm", "update_assignment", "cancel_assignment"},
        s \in AssignmentMoves[assignment] :
       /\ Starts(h, op)
       /\ op = "confirm" => assignment = "ASSIGNED" /\ s = "CONFIRMED"
       /\ op = "cancel_assignment" => s = "CANCELLED"
       /\ Becomes(h, [Idle EXCEPT !.op = op, !.step = "write", !.next = s])
  /\ UNCHANGED <<rows, today>>

AssignmentWrite(h) ==
  /\ job[h].op \in {"confirm", "update_assignment", "cancel_assignment"}
  /\ assignment' = job[h].next
  /\ Ends(h)
  /\ UNCHANGED <<shift, att, brk, today>>

(* updateStatus and archive. *)
ShiftRead(h) ==
  /\ Starts(h, "update_shift")
  /\ \E s \in ShiftMoves[shift] :
       Becomes(h, [Idle EXCEPT !.op = "update_shift", !.step = "find", !.next = s])
  /\ UNCHANGED <<rows, today>>

(* A cancellation looks for the active assignments inside its transaction. *)
ShiftFind(h) ==
  /\ At(h, "update_shift", "find")
  /\ Becomes(h, [job[h] EXCEPT !.step = "write", !.asg = assignment])
  /\ UNCHANGED <<rows, today>>

ShiftWrite_NoCascade(h) ==         \* slip: the assignments are left alone
  /\ At(h, "update_shift", "write")
  /\ shift' = job[h].next
  /\ Ends(h)
  /\ UNCHANGED <<assignment, att, brk, today>>

ShiftWrite(h) ==
  /\ At(h, "update_shift", "write")
  /\ shift' = job[h].next
  /\ assignment' = IF job[h].next = "CANCELLED" /\ job[h].asg \in ActiveAssignment
                     THEN "CANCELLED" ELSE assignment
  /\ Ends(h)
  /\ UNCHANGED <<att, brk, today>>

(* The next occurrence of the shift opens. *)
NextDay ==
  /\ today + 1 \in Days
  /\ today' = today + 1
  /\ UNCHANGED <<rows, job>>

-----------------------------------------------------------------------------
Clock(h) ==
  \/ ClockInRead(h) \/ ClockInFind(h) \/ ClockInWrite(h) \/ ClockInLost(h)
  \/ ClockOutRead(h) \/ ClockOutWrite(h)

Review(h) ==
  \/ StatusRead(h) \/ StatusWrite(h)
  \/ CorrectRead(h) \/ CorrectSum(h) \/ CorrectWrite(h)

Break(h) ==
  \/ StartBreakRead(h) \/ StartBreakFind(h) \/ StartBreakWrite(h)
  \/ BreakRead(h) \/ EndBreakSum(h) \/ EndBreakCommit(h) \/ CancelBreakWrite(h)

Plan(h) ==
  \/ AssignmentRead(h) \/ AssignmentWrite(h)
  \/ ShiftRead(h) \/ ShiftFind(h) \/ ShiftWrite(h)

Next ==
  \/ \E h \in Handlers : Clock(h) \/ Review(h) \/ Break(h) \/ Plan(h)
  \/ NextDay

Spec == Init /\ [][Next]_vars
-----------------------------------------------------------------------------
(* The officer's operations come from one handler at a time (breaks are    *)
(* cancelled by reviewers too, so cancel_break is not among them).         *)
OneOfficer ==
  \A g, h \in Handlers :
    May[g] \cap OfficerOps # {} /\ May[h] \cap OfficerOps # {} => g = h

(* No attendance has two breaks running, whatever reviewers do meanwhile:  *)
(* performStart's look at the running breaks is enough for one officer.    *)
OneActiveBreak ==
  \A b, c \in Breaks :
    brk[b].status = "ACTIVE" /\ brk[c].status = "ACTIVE" /\ brk[b].day = brk[c].day
      => b = c

(* An attendance that was clocked out has no break running: performStart   *)
(* asks for an active attendance, performClockOut for no active break, and *)
(* no review makes a finished attendance both active and CLOCKED_OUT.      *)
ActiveBreakBlocksClockOut ==
  \A d \in Days : att[d].status = "CLOCKED_OUT" => ~OnBreak(d)

(* One break of an officer at a time, and none after the clock-out.        *)
BreaksInTurn == OneActiveBreak /\ ActiveBreakBlocksClockOut

(* Once every attendance of an assignment is clocked out the assignment is *)
(* released: a one-off one is COMPLETED, a recurring one is CONFIRMED for  *)
(* its next day, although handlers decide it from a status read earlier.   *)
FinishedAssignmentReleased ==
  LET worked == {d \in Days : att[d].status # "ABSENT"}
  IN  /\ worked # {}
      /\ \A d \in worked : att[d].status = "CLOCKED_OUT"
      => assignment = IF Recurring THEN "CONFIRMED" ELSE "COMPLETED"

(* totalBreakMinutes adds up the completed breaks and no other, after any  *)
(* sequence of starts, ends, cancellations, clock-outs and corrections.    *)
BreakTotalExact ==
  \A d \in Days : att[d].counted = CompletedBreaks(d)

(* A one-off assignment whose attendance was clocked out does not occupy   *)
(* the officer's schedule any more.                                        *)
FinishedShiftFreesOfficer ==
  ~Recurring =>
    \A d \in Days :
      att[d].status = "CLOCKED_OUT" => assignment \notin ActiveAssignment

(* A cancelled shift has no active assignment: updateStatus cancels them,  *)
(* and no clock-in or clock-out of theirs brings one back.                 *)
CancelledShiftHasNoWork ==
  shift = "CANCELLED" => assignment \notin ActiveAssignment

(* The plan follows the work, finished or called off.                      *)
PlanFollowsWork == FinishedShiftFreesOfficer /\ CancelledShiftHasNoWork

(* However clock-ins, clock-outs, reviews and corrections overlap, an      *)
(* occurrence is clocked in once, a clock-out stays, and nobody is put     *)
(* back to the plain duty status.                                          *)
NeverBackOnDuty ==
  [][\A d \in Days :
       att[d].status # "ABSENT" =>
         /\ att'[d].status \in {"CLOCKED_IN", "APPROVED_WITH_WARNING"}
              => att'[d].status = att[d].status
         /\ att[d].out => att'[d].out]_vars

(* An attendance shown as clocked out has a clock-out time, and the breaks *)
(* its pay leaves out are breaks that were ended, not ones still running.  *)
ClockedOutIsSettled ==
  \A d \in Days :
    /\ att[d].status = "CLOCKED_OUT" => att[d].out
    /\ \A b \in att[d].counted \cup att[d].deducted :
         brk[b].day = d /\ brk[b].status \in {"COMPLETED", "CANCELLED"}

-----------------------------------------------------------------------------
(* The inductive invariants: the first needs no assumption, the second     *)
(* that the officer's requests come one at a time.                         *)

Ended(b, d) == brk[b].day = d /\ brk[b].status \in {"COMPLETED", "CANCELLED"}

BreakInv == \A b \in Breaks : brk[b].status # "ABSENT" => brk[b].day \in Days

PlanningOps == {"confirm", "update_assignment", "cancel_assignment"}

(* What a handler has read is old, but not arbitrary. *)
JobOf(h, j) ==
  /\ j.op = "idle" \/ j.op \in May[h]
  /\ j.op \notin PlanningOps \cup {"idle", "update_shift"} => j.day \in Days
  /\ j.op \in {"end_break", "cancel_break"} =>
       /\ j.brk \in Breaks
       /\ brk[j.brk].day = j.day
       /\ brk[j.brk].status # "ABSENT"
  /\ j.op = "clock_out" => j.next \in {"CLOCKED_OUT", "PENDING_SUPERVISOR_APPROVAL"}
  /\ j.op \in StatusOps => j.next = Outcome[j.op]
  /\ j.op \in PlanningOps => j.next \in AssignmentStatuses
  /\ j.op = "update_shift" => j.next \in ShiftStatuses
  /\ \A b \in j.counted : Ended(b, j.day) \/ (j.op = "end_break" /\ b = j.brk)

JobInv == \A h \in Handlers : JobOf(h, job[h])

IInv == TypeOK /\ BreakInv /\ JobInv /\ ClockedOutIsSettled

(* The officer's handler has seen what its transaction relies on. *)
OfficerOf(j) ==
  /\ j.op = "clock_out" => ~OnBreak(j.day)
  /\ j.op = "start_break" =>
       /\ att[j.day].status # "CLOCKED_OUT"
       /\ j.step = "write" => ~OnBreak(j.day)

OfficerInv == \A h \in Handlers : OfficerOf(job[h])

OfficerIInv == OneActiveBreak /\ ActiveBreakBlocksClockOut /\ OfficerInv

(* A day is worked from its clock-in on, and what a request about a day's  *)
(* work has found is there still.                                          *)
Worked(d) == att[d].status # "ABSENT"

WorkedOf(j) ==
  /\ j.op = "clock_in" => j.day <= today
  /\ j.op \notin PlanningOps \cup {"idle", "update_shift", "clock_in"} => Worked(j.day)

WorkInv ==
  /\ \A d \in Days :
       /\ Worked(d) => d <= today
       /\ ~Worked(d) => ~att[d].out
       /\ att[d].status # "PENDING"
  /\ \A b \in Breaks : brk[b].status # "ABSENT" => Worked(brk[b].day)
  /\ \A h \in Handlers : WorkedOf(job[h])

(* Nobody but the officer changes the assignment, who can only confirm it. *)
PlanLeftAlone ==
  \A h \in Handlers :
    /\ May[h] \cap {"update_assignment", "cancel_assignment", "update_shift"} = {}
    /\ "confirm" \in May[h] => May[h] \cap OfficerOps # {}

Released == IF Recurring THEN "CONFIRMED" ELSE "COMPLETED"

(* So that what the officer's request has read of it is so still. *)
ReleaseOf(j) ==
  /\ j.op \in {"clock_in", "clock_out"} => j.asg = assignment
  /\ j.op = "confirm" => assignment = "ASSIGNED" /\ j.next = "CONFIRMED"

ReleaseInv ==
  /\ assignment \in ActiveAssignment \cup {Released}
  /\ \A d \in Days : Worked(d) => assignment \in {"IN_PROGRESS", Released}
  /\ \A h \in Handlers : ReleaseOf(job[h])
  /\ FinishedAssignmentReleased
=============================================================================
