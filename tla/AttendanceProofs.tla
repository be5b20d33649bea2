-------------------------- MODULE AttendanceProofs --------------------------
(***************************************************************************)
(* Proofs about Attendance.  A handler's step either only reads, so that   *)
(* its own record is all that changes (ReadStep), or writes and ends, so   *)
(* that what other handlers have read must survive the write (WriteStep).  *)
(***************************************************************************)
EXTENDS MCAttendanceOneOff, FiniteSetTheorems, WellFoundedInduction, TLAPS

USE DaysAssumption, NoBreakAssumption, MayAssumption, RecurringAssumption

(* The statuses, one by one. *)
LEMMA Statuses ==
  /\ AttendanceStatuses = {"PENDING", "CLOCKED_IN", "PENDING_SUPERVISOR_APPROVAL",
       "APPROVED_WITH_WARNING", "SUPERVISOR_APPROVED", "CLOCKED_OUT",
       "SUPERVISOR_REJECTED", "VOIDED", "ABSENT"}
  /\ BreakStatuses = {"ACTIVE", "COMPLETED", "CANCELLED", "ABSENT"}
  /\ AssignmentStatuses = {"ASSIGNED", "CONFIRMED", "IN_PROGRESS", "COMPLETED",
       "CANCELLED", "REASSIGNED", "MISSED"}
  /\ ShiftStatuses = {"DRAFT", "SCHEDULED", "IN_PROGRESS", "COMPLETED",
       "CANCELLED", "ARCHIVED"}
  BY DEF AttendanceStatuses, AttendanceMoves, BreakStatuses, BreakMoves,
         AssignmentStatuses, AssignmentMoves, ShiftStatuses, ShiftMoves

(* Tables lead to statuses, and no review's outcome is CLOCKED_OUT. *)
LEMMA Moves ==
  /\ \A s \in AssignmentStatuses : AssignmentMoves[s] \subseteq AssignmentStatuses
  /\ \A s \in ShiftStatuses : ShiftMoves[s] \subseteq ShiftStatuses
  /\ \A op \in StatusOps : Outcome[op] \in
       {"PENDING_SUPERVISOR_APPROVAL", "SUPERVISOR_APPROVED",
        "SUPERVISOR_REJECTED", "VOIDED"}
<1>1. \A s \in AssignmentStatuses : AssignmentMoves[s] \subseteq AssignmentStatuses
  BY Statuses DEF AssignmentMoves
<1>2. \A s \in ShiftStatuses : ShiftMoves[s] \subseteq ShiftStatuses
  BY Statuses DEF ShiftMoves
<1>3. \A op \in StatusOps : Outcome[op] \in
       {"PENDING_SUPERVISOR_APPROVAL", "SUPERVISOR_APPROVED",
        "SUPERVISOR_REJECTED", "VOIDED"}
  BY DEF StatusOps, Outcome
<1> QED BY <1>1, <1>2, <1>3

LEMMA IdleJob == Idle \in Job /\ \A h \in Handlers : JobOf(h, Idle)
  BY Statuses DEF Idle, Job, JobOf, PlanningOps, StatusOps

(* No write takes a break back from its end, or out of its attendance. *)
BreaksKept ==
  \A b \in Breaks :
    brk[b].status # "ABSENT" =>
      /\ brk'[b].day = brk[b].day
      /\ brk'[b].status # "ABSENT"
      /\ brk[b].status # "ACTIVE" => brk'[b].status # "ACTIVE"

(* Under BreaksKept what any handler has read stays as good as it was. *)
LEMMA JobsKept ==
  ASSUME TypeOK, BreaksKept, brk' \in [Breaks -> BreakRow], NEW h \in Handlers,
         NEW j \in Job, JobOf(h, j)
  PROVE  JobOf(h, j)'
<1>1. \A b \in Breaks, d \in Days \cup {0} : Ended(b, d) => Ended(b, d)'
  BY Statuses DEF TypeOK, BreaksKept, Ended, BreakRow
<1>2. j.op \in {"end_break", "cancel_break"} =>
        j.brk \in Breaks /\ brk'[j.brk].day = j.day /\ brk'[j.brk].status # "ABSENT"
  BY DEF JobOf, BreaksKept
<1>3. \A b \in j.counted : Ended(b, j.day)' \/ (j.op = "end_break" /\ b = j.brk)
  BY <1>1 DEF JobOf, Job
<1> QED BY <1>2, <1>3 DEF JobOf

LEMMA JobStep ==
  ASSUME TypeOK, JobInv, BreaksKept, brk' \in [Breaks -> BreakRow],
         NEW h \in Handlers, NEW j \in Job, JobOf(h, j), Becomes(h, j)
  PROVE  job' \in [Handlers -> Job] /\ JobInv'
<1>1. job' \in [Handlers -> Job]
  BY DEF TypeOK, Becomes
<1>2. ASSUME NEW g \in Handlers PROVE JobOf(g, job[g]) /\ job[g] \in Job
  BY DEF JobInv, TypeOK
<1>3. ASSUME NEW g \in Handlers, g # h PROVE job'[g] = job[g]
  BY <1>3 DEF TypeOK, Becomes
<1>4. job'[h] = j
  BY DEF TypeOK, Becomes
<1>5. JobOf(h, j)'
  BY JobsKept
<1>6. ASSUME NEW g \in Handlers, NEW i \in Job, JobOf(g, i) PROVE JobOf(g, i)'
  BY <1>6, JobsKept
<1>7. ASSUME NEW g \in Handlers PROVE JobOf(g, job[g])'
  <2>1. CASE g = h
    BY <2>1, <1>4, <1>5 DEF JobOf, Ended
  <2>2. CASE g # h
    BY <2>2, <1>2, <1>3, <1>6 DEF JobOf, Ended
  <2> QED BY <2>1, <2>2
<1> QED BY <1>1, <1>7 DEF JobInv

LEMMA ReadStep ==
  ASSUME IInv, NEW h \in Handlers, NEW j \in Job, JobOf(h, j), Becomes(h, j),
         UNCHANGED <<rows, today>>
  PROVE  IInv'
<1>1. BreaksKept /\ brk' \in [Breaks -> BreakRow]
  BY DEF BreaksKept, IInv, TypeOK, rows
<1>2. job' \in [Handlers -> Job] /\ JobInv'
  BY <1>1, JobStep DEF IInv
<1> QED
  BY <1>2 DEF IInv, TypeOK, BreakInv, ClockedOutIsSettled, rows

LEMMA WriteStep ==
  ASSUME IInv, NEW h \in Handlers, Ends(h), BreaksKept,
         shift' \in ShiftStatuses, assignment' \in AssignmentStatuses,
         att' \in [Days -> AttendanceRow], brk' \in [Breaks -> BreakRow],
         today' = today, BreakInv', ClockedOutIsSettled'
  PROVE  IInv'
<1>1. job' \in [Handlers -> Job] /\ JobInv'
  BY JobStep, IdleJob DEF IInv, Ends
<1> QED
  BY <1>1 DEF IInv, TypeOK

-----------------------------------------------------------------------------
(* The steps that read. *)

LEMMA ClockReads ==
  ASSUME IInv, NEW h \in Handlers,
         ClockInRead(h) \/ ClockInFind(h) \/ ClockInLost(h) \/ ClockOutRead(h)
  PROVE  IInv'
<1>1. CASE ClockInRead(h)
  <2> DEFINE j == [Idle EXCEPT !.op = "clock_in", !.step = "find", !.day = today,
                               !.asg = assignment, !.shf = shift]
  <2>1. j \in Job
    BY IdleJob DEF IInv, TypeOK, Idle, Job, Operations, OfficerOps
  <2>2. JobOf(h, j)
    BY <1>1 DEF ClockInRead, Starts, IInv, TypeOK, Idle, JobOf, PlanningOps, StatusOps
  <2> QED BY <1>1, <2>1, <2>2, ReadStep DEF ClockInRead
<1>2. CASE ClockInFind(h)
  <2> DEFINE j == [job[h] EXCEPT !.step = "write"]
  <2>1. j \in Job
    BY DEF IInv, TypeOK, Job
  <2>2. JobOf(h, j)
    BY DEF IInv, TypeOK, JobInv, JobOf, Job
  <2>3. Becomes(h, j) \/ Becomes(h, Idle)
    BY <1>2 DEF ClockInFind, Ends
  <2> QED BY <1>2, <2>1, <2>2, <2>3, ReadStep, IdleJob DEF ClockInFind
<1>3. CASE ClockInLost(h)
  BY <1>3, ReadStep, IdleJob DEF ClockInLost, Ends
<1>4. CASE ClockOutRead(h)
  <2>1. PICK d \in Days, s \in {"CLOCKED_OUT", "PENDING_SUPERVISOR_APPROVAL"} :
          Becomes(h, [Idle EXCEPT !.op = "clock_out", !.step = "write", !.day = d,
                                  !.next = s, !.counted = CompletedBreaks(d),
                                  !.asg = assignment])
    BY <1>4 DEF ClockOutRead
  <2> DEFINE j == [Idle EXCEPT !.op = "clock_out", !.step = "write", !.day = d,
                               !.next = s, !.counted = CompletedBreaks(d),
                               !.asg = assignment]
  <2>2. j \in Job
    <3>1. s \in AttendanceStatuses /\ CompletedBreaks(d) \in SUBSET Breaks
      BY Statuses DEF CompletedBreaks
    <3>2. "clock_out" \in Operations /\ assignment \in AssignmentStatuses
      BY DEF Operations, OfficerOps, IInv, TypeOK
    <3> QED BY <3>1, <3>2, IdleJob DEF Idle, Job
  <2>3. JobOf(h, j)
    BY <1>4 DEF ClockOutRead, Starts, Idle, JobOf, PlanningOps, StatusOps,
                CompletedBreaks, Ended
  <2> QED BY <1>4, <2>1, <2>2, <2>3, ReadStep DEF ClockOutRead
<1> QED BY <1>1, <1>2, <1>3, <1>4

LEMMA ReviewReads ==
  ASSUME IInv, NEW h \in Handlers, StatusRead(h) \/ CorrectRead(h) \/ CorrectSum(h)
  PROVE  IInv'
<1>1. CASE StatusRead(h)
  <2>1. PICK op \in StatusOps, d \in Days :
          /\ Starts(h, op)
          /\ Becomes(h, [Idle EXCEPT !.op = op, !.step = "write", !.day = d,
                                     !.next = Outcome[op]])
    BY <1>1 DEF StatusRead
  <2> DEFINE j == [Idle EXCEPT !.op = op, !.step = "write", !.day = d,
                               !.next = Outcome[op]]
  <2>2. j \in Job
    <3>1. Outcome[op] \in AttendanceStatuses
      BY Moves, Statuses
    <3> QED BY <3>1, IdleJob DEF Idle, Job, Operations
  <2>3. JobOf(h, j)
    BY <2>1 DEF Starts, Idle, JobOf, PlanningOps, StatusOps
  <2> QED BY <1>1, <2>1, <2>2, <2>3, ReadStep DEF StatusRead
<1>2. CASE CorrectRead(h)
  <2>1. PICK d \in Days :
          Becomes(h, [Idle EXCEPT !.op = "correct", !.step = "find", !.day = d])
    BY <1>2 DEF CorrectRead
  <2> DEFINE j == [Idle EXCEPT !.op = "correct", !.step = "find", !.day = d]
  <2>2. j \in Job
    BY IdleJob DEF Idle, Job, Operations
  <2>3. JobOf(h, j)
    BY <1>2 DEF CorrectRead, Starts, Idle, JobOf, PlanningOps, StatusOps
  <2> QED BY <1>2, <2>1, <2>2, <2>3, ReadStep DEF CorrectRead
<1>3. CASE CorrectSum(h)
  <2> DEFINE j == [job[h] EXCEPT !.step = "write",
                                 !.counted = CompletedBreaks(job[h].day)]
  <2>1. job[h] \in Job /\ JobOf(h, job[h]) /\ job[h].op = "correct"
    BY <1>3 DEF CorrectSum, At, IInv, TypeOK, JobInv
  <2>2. j \in Job
    BY <2>1 DEF Job, CompletedBreaks
  <2>3. JobOf(h, j)
    BY <2>1 DEF JobOf, Job, CompletedBreaks, Ended, PlanningOps, StatusOps
  <2> QED BY <1>3, <2>2, <2>3, ReadStep DEF CorrectSum
<1> QED BY <1>1, <1>2, <1>3

LEMMA BreakReads ==
  ASSUME IInv, NEW h \in Handlers,
         StartBreakRead(h) \/ StartBreakFind(h) \/ BreakRead(h) \/ EndBreakSum(h)
  PROVE  IInv'
<1>1. CASE StartBreakRead(h)
  <2>1. PICK d \in Days :
          Becomes(h, [Idle EXCEPT !.op = "start_break", !.step = "find", !.day = d])
    BY <1>1 DEF StartBreakRead
  <2> DEFINE j == [Idle EXCEPT !.op = "start_break", !.step = "find", !.day = d]
  <2>2. j \in Job
    BY IdleJob DEF Idle, Job, Operations, OfficerOps
  <2>3. JobOf(h, j)
    BY <1>1 DEF StartBreakRead, Starts, Idle, JobOf, PlanningOps, StatusOps
  <2> QED BY <1>1, <2>1, <2>2, <2>3, ReadStep DEF StartBreakRead
<1>2. CASE StartBreakFind(h)
  <2> DEFINE j == [job[h] EXCEPT !.step = "write"]
  <2>1. j \in Job
    BY DEF IInv, TypeOK, Job
  <2>2. JobOf(h, j)
    BY DEF IInv, TypeOK, JobInv, JobOf, Job
  <2>3. Becomes(h, j) \/ Becomes(h, Idle)
    BY <1>2 DEF StartBreakFind, Ends
  <2> QED BY <1>2, <2>1, <2>2, <2>3, ReadStep, IdleJob DEF StartBreakFind
<1>3. CASE BreakRead(h)
  <2>1. PICK op \in {"end_break", "cancel_break"}, b \in Breaks :
          /\ Starts(h, op)
          /\ brk[b].status = "ACTIVE"
          /\ Becomes(h, [Idle EXCEPT !.op = op, !.step = "find",
                                     !.day = brk[b].day, !.brk = b])
    BY <1>3 DEF BreakRead
  <2> DEFINE j == [Idle EXCEPT !.op = op, !.step = "find",
                               !.day = brk[b].day, !.brk = b]
  <2>2. brk[b].day \in Days
    BY <2>1 DEF IInv, BreakInv
  <2>3. j \in Job
    BY <2>2, IdleJob DEF Idle, Job, Operations, OfficerOps
  <2>4. JobOf(h, j)
    BY <2>1, <2>2 DEF Starts, Idle, JobOf, PlanningOps, StatusOps
  <2> QED BY <1>3, <2>1, <2>3, <2>4, ReadStep DEF BreakRead
<1>4. CASE EndBreakSum(h)
  <2> DEFINE j == [job[h] EXCEPT !.step = "write",
                     !.counted = CompletedBreaks(job[h].day) \cup {job[h].brk}]
  <2>1. job[h] \in Job /\ JobOf(h, job[h]) /\ job[h].op = "end_break"
    BY <1>4 DEF EndBreakSum, At, IInv, TypeOK, JobInv
  <2>2. j \in Job
    BY <2>1 DEF Job, JobOf, CompletedBreaks
  <2>3. JobOf(h, j)
    BY <2>1 DEF JobOf, Job, CompletedBreaks, Ended, PlanningOps, StatusOps
  <2> QED BY <1>4, <2>2, <2>3, ReadStep DEF EndBreakSum
<1> QED BY <1>1, <1>2, <1>3, <1>4

LEMMA PlanReads ==
  ASSUME IInv, NEW h \in Handlers, AssignmentRead(h) \/ ShiftRead(h) \/ ShiftFind(h)
  PROVE  IInv'
<1>1. CASE AssignmentRead(h)
  <2>1. PICK op \in PlanningOps, s \in AssignmentMoves[assignment] :
          /\ Starts(h, op)
          /\ Becomes(h, [Idle EXCEPT !.op = op, !.step = "write", !.next = s])
    BY <1>1 DEF AssignmentRead, PlanningOps
  <2> DEFINE j == [Idle EXCEPT !.op = op, !.step = "write", !.next = s]
  <2>2. s \in AssignmentStatuses
    BY Moves DEF IInv, TypeOK
  <2>3. j \in Job
    BY <2>2, IdleJob DEF Idle, Job, Operations, PlanningOps
  <2>4. JobOf(h, j)
    BY <2>1, <2>2 DEF Starts, Idle, JobOf, PlanningOps, StatusOps
  <2> QED BY <1>1, <2>1, <2>3, <2>4, ReadStep DEF AssignmentRead
<1>2. CASE ShiftRead(h)
  <2>1. PICK s \in ShiftMoves[shift] :
          Becomes(h, [Idle EXCEPT !.op = "update_shift", !.step = "find", !.next = s])
    BY <1>2 DEF ShiftRead
  <2> DEFINE j == [Idle EXCEPT !.op = "update_shift", !.step = "find", !.next = s]
  <2>2. s \in ShiftStatuses
    BY Moves DEF IInv, TypeOK
  <2>3. j \in Job
    BY <2>2, IdleJob DEF Idle, Job, Operations
  <2>4. JobOf(h, j)
    BY <1>2, <2>2 DEF ShiftRead, Starts, Idle, JobOf, PlanningOps, StatusOps
  <2> QED BY <1>2, <2>1, <2>3, <2>4, ReadStep DEF ShiftRead
<1>3. CASE ShiftFind(h)
  <2> DEFINE j == [job[h] EXCEPT !.step = "write", !.asg = assignment]
  <2>1. j \in Job
    BY DEF IInv, TypeOK, Job
  <2>2. JobOf(h, j)
    BY DEF IInv, TypeOK, JobInv, JobOf, Job
  <2> QED BY <1>3, <2>1, <2>2, ReadStep DEF ShiftFind
<1> QED BY <1>1, <1>2, <1>3

-----------------------------------------------------------------------------
(* The steps that write. *)

(* A write of one attendance row. *)
LEMMA AttendanceWrite ==
  ASSUME IInv, NEW d \in Days, NEW r \in AttendanceRow,
         att' = [att EXCEPT ![d] = r], brk' \in [Breaks -> BreakRow], BreaksKept,
         r.status = "CLOCKED_OUT" => r.out,
         \A b \in r.counted \cup r.deducted : Ended(b, d)'
  PROVE  att' \in [Days -> AttendanceRow] /\ ClockedOutIsSettled'
<1>1. att' \in [Days -> AttendanceRow]
  BY DEF IInv, TypeOK
<1>2. \A b \in Breaks, e \in Days : Ended(b, e) => Ended(b, e)'
  BY Statuses DEF IInv, TypeOK, BreaksKept, Ended, BreakRow
<1>3. ASSUME NEW e \in Days
      PROVE  /\ att'[e].status = "CLOCKED_OUT" => att'[e].out
             /\ \A b \in att'[e].counted \cup att'[e].deducted : Ended(b, e)'
  <2>1. CASE e = d
    BY <2>1 DEF IInv, TypeOK
  <2>2. CASE e # d
    <3>1. att'[e] = att[e] /\ att[e] \in AttendanceRow
      BY <2>2 DEF IInv, TypeOK
    <3> QED BY <1>2, <3>1 DEF IInv, ClockedOutIsSettled, Ended, AttendanceRow
  <2> QED BY <2>1, <2>2
<1> QED BY <1>1, <1>3 DEF ClockedOutIsSettled, Ended

LEMMA ClockWrites ==
  ASSUME IInv, NEW h \in Handlers, ClockInWrite(h) \/ ClockOutWrite(h)
  PROVE  IInv'
<1>1. brk' = brk /\ today' = today /\ Ends(h)
  BY DEF ClockInWrite, ClockOutWrite
<1>2. BreaksKept /\ BreakInv' /\ brk' \in [Breaks -> BreakRow]
  BY <1>1 DEF BreaksKept, BreakInv, IInv, TypeOK
<1>3. shift' \in ShiftStatuses /\ assignment' \in AssignmentStatuses
  BY Statuses DEF ClockInWrite, ClockOutWrite, IInv, TypeOK
<1>4. job[h] \in Job /\ JobOf(h, job[h])
  BY DEF IInv, TypeOK, JobInv
<1>5. PICK d \in Days : job[h].day = d
  BY <1>4 DEF ClockInWrite, ClockOutWrite, At, JobOf, PlanningOps
<1>6. att' \in [Days -> AttendanceRow] /\ ClockedOutIsSettled'
  <2>1. CASE ClockInWrite(h)
    <3>1. PICK s \in ClockInResults :
            att' = [att EXCEPT ![d] = [NoAttendance EXCEPT !.status = s]]
      BY <1>5, <2>1 DEF ClockInWrite
    <3> DEFINE r == [NoAttendance EXCEPT !.status = s]
    <3>2. /\ r \in AttendanceRow
          /\ r.status # "CLOCKED_OUT"
          /\ r.counted \cup r.deducted = {}
      BY Statuses DEF NoAttendance, AttendanceRow, ClockInResults
    <3> QED BY <1>2, <3>1, <3>2, AttendanceWrite
  <2>2. CASE ClockOutWrite(h)
    <3> DEFINE r == ClockedOut(job[h].next, job[h].counted)
    <3>1. r \in AttendanceRow
      BY <1>4, <2>2, Statuses DEF ClockOutWrite, At, JobOf, Job, ClockedOut, AttendanceRow
    <3>2. \A b \in job[h].counted : Ended(b, d)'
      BY <1>1, <1>4, <1>5, <2>2 DEF ClockOutWrite, At, JobOf, Ended
    <3>3. r.out /\ r.counted \cup r.deducted = job[h].counted
      BY DEF ClockedOut
    <3> QED BY <1>2, <1>5, <2>2, <3>1, <3>2, <3>3, AttendanceWrite DEF ClockOutWrite
  <2> QED BY <2>1, <2>2
<1> QED BY <1>1, <1>2, <1>3, <1>6, WriteStep

LEMMA ReviewWrites ==
  ASSUME IInv, NEW h \in Handlers, StatusWrite(h) \/ CorrectWrite(h)
  PROVE  IInv'
<1>1. UNCHANGED <<shift, assignment, brk, today>> /\ Ends(h)
  BY DEF StatusWrite, CorrectWrite
<1>2. BreaksKept /\ BreakInv' /\ brk' \in [Breaks -> BreakRow]
  BY <1>1 DEF BreaksKept, BreakInv, IInv, TypeOK
<1>3. job[h] \in Job /\ JobOf(h, job[h])
  BY DEF IInv, TypeOK, JobInv
<1>4. PICK d \in Days : job[h].day = d
  BY <1>3 DEF StatusWrite, CorrectWrite, At, JobOf, PlanningOps, StatusOps
<1>5. att[d] \in AttendanceRow
  BY DEF IInv, TypeOK
<1>6. att' \in [Days -> AttendanceRow] /\ ClockedOutIsSettled'
  <2>1. CASE StatusWrite(h)
    <3> DEFINE r == WithStatus(d, job[h].next)
    <3>1. r.status = job[h].next /\ job[h].next \in AttendanceStatuses \ {"CLOCKED_OUT"}
      BY <1>3, <2>1, Moves, Statuses DEF StatusWrite, JobOf, WithStatus
    <3>2. r \in AttendanceRow
      BY <1>5, <3>1 DEF WithStatus, AttendanceRow
    <3>3. \A b \in r.counted \cup r.deducted : Ended(b, d)'
      BY <1>1 DEF WithStatus, IInv, ClockedOutIsSettled, Ended
    <3> QED BY <1>2, <1>4, <2>1, <3>1, <3>2, <3>3, AttendanceWrite DEF StatusWrite
  <2>2. CASE CorrectWrite(h)
    <3> DEFINE r == ClockedOut(att[d].status, job[h].counted)
    <3>1. r \in AttendanceRow
      BY <1>3, <1>5 DEF ClockedOut, Job, AttendanceRow
    <3>2. \A b \in job[h].counted : Ended(b, d)'
      BY <1>1, <1>3, <1>4, <2>2 DEF CorrectWrite, At, JobOf, Ended
    <3>3. r.out /\ r.counted \cup r.deducted = job[h].counted
      BY DEF ClockedOut
    <3> QED BY <1>2, <1>4, <2>2, <3>1, <3>2, <3>3, AttendanceWrite DEF CorrectWrite
  <2> QED BY <2>1, <2>2
<1>7. shift' \in ShiftStatuses /\ assignment' \in AssignmentStatuses
  BY <1>1 DEF IInv, TypeOK
<1> QED BY <1>1, <1>2, <1>6, <1>7, WriteStep

LEMMA BreakWrites ==
  ASSUME IInv, NEW h \in Handlers,
         StartBreakWrite(h) \/ EndBreakCommit(h) \/ CancelBreakWrite(h)
  PROVE  IInv'
<1>1. UNCHANGED <<shift, assignment, today>> /\ Ends(h)
  BY DEF StartBreakWrite, EndBreakCommit, CancelBreakWrite
<1>2. job[h] \in Job /\ JobOf(h, job[h])
  BY DEF IInv, TypeOK, JobInv
<1>3. PICK d \in Days : job[h].day = d
  BY <1>2 DEF StartBreakWrite, EndBreakCommit, CancelBreakWrite, At, JobOf,
              PlanningOps, StatusOps
<1>4. brk' \in [Breaks -> BreakRow] /\ BreakInv' /\ BreaksKept
  <2>1. CASE StartBreakWrite(h)
    <3>1. PICK b \in Breaks :
            /\ brk[b].status = "ABSENT"
            /\ brk' = [brk EXCEPT ![b] = [day |-> d, status |-> "ACTIVE"]]
      BY <1>3, <2>1 DEF StartBreakWrite
    <3> QED BY <1>3, <3>1, Statuses DEF IInv, TypeOK, BreakInv, BreaksKept, BreakRow
  <2>2. CASE EndBreakCommit(h) \/ CancelBreakWrite(h)
    <3>1. PICK s \in {"COMPLETED", "CANCELLED"} :
            brk' = [brk EXCEPT ![job[h].brk] = [day |-> d, status |-> s]]
      BY <1>3, <2>2 DEF EndBreakCommit, CancelBreakWrite
    <3>2. job[h].brk \in Breaks /\ brk[job[h].brk].day = d
      BY <1>2, <1>3, <2>2 DEF EndBreakCommit, CancelBreakWrite, At, JobOf
    <3> QED BY <1>3, <3>1, <3>2, Statuses
            DEF IInv, TypeOK, BreakInv, BreaksKept, BreakRow
  <2> QED BY <2>1, <2>2
<1>5. att[d] \in AttendanceRow
  BY DEF IInv, TypeOK
<1>6. \A b \in att[d].counted \cup att[d].deducted : Ended(b, d)'
  BY <1>4, <1>5, Statuses
     DEF IInv, TypeOK, ClockedOutIsSettled, BreaksKept, Ended, AttendanceRow, BreakRow
<1>7. att' \in [Days -> AttendanceRow] /\ ClockedOutIsSettled'
  <2>1. CASE EndBreakCommit(h)
    <3> DEFINE r == [status |-> att[d].status, out |-> att[d].out,
                     counted |-> job[h].counted, deducted |-> att[d].deducted]
    <3>1. r \in AttendanceRow
      BY <1>2, <1>5 DEF Job, AttendanceRow
    <3>2. r.status = "CLOCKED_OUT" => r.out
      BY <1>3 DEF IInv, ClockedOutIsSettled
    <3>3. brk'[job[h].brk].day = d /\ brk'[job[h].brk].status = "COMPLETED"
      BY <1>2, <1>3, <2>1 DEF EndBreakCommit, At, JobOf, Ended, IInv, TypeOK
    <3>4. \A b \in job[h].counted : Ended(b, d)'
      BY <1>2, <1>3, <1>4, <2>1, <3>3, Statuses
         DEF EndBreakCommit, At, JobOf, Job, BreaksKept, Ended, IInv, TypeOK, BreakRow
    <3>5. \A b \in r.counted \cup r.deducted : Ended(b, d)'
      BY <1>6, <3>4
    <3> QED BY <1>3, <1>4, <2>1, <3>1, <3>2, <3>5, AttendanceWrite DEF EndBreakCommit
  <2>2. CASE att' = att
    <3>1. att' = [att EXCEPT ![d] = att[d]]
      BY <1>3, <2>2 DEF IInv, TypeOK
    <3>2. att[d].status = "CLOCKED_OUT" => att[d].out
      BY <1>3 DEF IInv, ClockedOutIsSettled
    <3> QED BY <1>3, <1>4, <1>5, <1>6, <3>1, <3>2, AttendanceWrite
  <2> QED BY <2>1, <2>2 DEF StartBreakWrite, CancelBreakWrite
<1>8. shift' \in ShiftStatuses /\ assignment' \in AssignmentStatuses
  BY <1>1 DEF IInv, TypeOK
<1> QED BY <1>1, <1>4, <1>7, <1>8, WriteStep

LEMMA PlanWrites ==
  ASSUME IInv, NEW h \in Handlers, AssignmentWrite(h) \/ ShiftWrite(h)
  PROVE  IInv'
<1>1. UNCHANGED <<att, brk, today>> /\ Ends(h)
  BY DEF AssignmentWrite, ShiftWrite
<1>2. JobOf(h, job[h])
  BY DEF IInv, JobInv
<1>3. shift' \in ShiftStatuses /\ assignment' \in AssignmentStatuses
  BY <1>2, Statuses
     DEF AssignmentWrite, ShiftWrite, At, JobOf, PlanningOps, IInv, TypeOK
<1>4. BreaksKept /\ BreakInv' /\ ClockedOutIsSettled'
  BY <1>1 DEF BreaksKept, BreakInv, ClockedOutIsSettled, IInv
<1> QED BY <1>1, <1>3, <1>4, WriteStep DEF IInv, TypeOK

-----------------------------------------------------------------------------
LEMMA Initially == Init => IInv
<1> SUFFICES ASSUME Init PROVE IInv
  OBVIOUS
<1>1. TypeOK
  BY Statuses, IdleJob
     DEF Init, TypeOK, NoAttendance, AttendanceRow, NoShiftBreak, BreakRow
<1>2. BreakInv /\ ClockedOutIsSettled
  BY DEF Init, BreakInv, ClockedOutIsSettled, NoShiftBreak, NoAttendance
<1>3. JobInv
  BY IdleJob DEF Init, JobInv
<1> QED BY <1>1, <1>2, <1>3 DEF IInv

LEMMA Preserved == IInv /\ [Next]_vars => IInv'
<1> SUFFICES ASSUME IInv, [Next]_vars PROVE IInv'
  OBVIOUS
<1>1. ASSUME NEW h \in Handlers, Clock(h) PROVE IInv'
  BY <1>1, ClockReads, ClockWrites DEF Clock
<1>2. ASSUME NEW h \in Handlers, Review(h) PROVE IInv'
  BY <1>2, ReviewReads, ReviewWrites DEF Review
<1>3. ASSUME NEW h \in Handlers, Break(h) PROVE IInv'
  BY <1>3, BreakReads, BreakWrites DEF Break
<1>4. ASSUME NEW h \in Handlers, Plan(h) PROVE IInv'
  BY <1>4, PlanReads, PlanWrites DEF Plan
<1>5. CASE NextDay
  BY <1>5 DEF NextDay, rows, IInv, TypeOK, BreakInv, JobInv, JobOf, Ended,
              ClockedOutIsSettled
<1>6. CASE UNCHANGED vars
  BY <1>6 DEF vars, IInv, TypeOK, BreakInv, JobInv, JobOf, Ended,
              ClockedOutIsSettled
<1> QED BY <1>1, <1>2, <1>3, <1>4, <1>5, <1>6 DEF Next

(* The rows and what the handlers have read of them are always related as  *)
(* IInv says.                                                              *)
THEOREM Inductive == Spec => []IInv
  BY Initially, Preserved, PTL DEF Spec

(* Every variable keeps its type, for any number of handlers, days and     *)
(* breaks.                                                                 *)
THEOREM TypeCorrect == Spec => []TypeOK
<1>1. IInv => TypeOK
  BY DEF IInv
<1> QED BY <1>1, Inductive, PTL

(* A clocked-out attendance has its clock-out time, and no running break   *)
(* is counted or deducted, however many handlers overlap.                  *)
THEOREM Settled == Spec => []ClockedOutIsSettled
<1>1. IInv => ClockedOutIsSettled
  BY DEF IInv
<1> QED BY <1>1, Inductive, PTL

(* Nobody is put back to the plain duty status, an occurrence is clocked   *)
(* in once, and no handler's late write undoes a clock-out.                *)
THEOREM NotBackOnDuty == Spec => NeverBackOnDuty
<1> DEFINE Kept == \A d \in Days :
                     att[d].status # "ABSENT" =>
                       /\ att'[d].status \in {"CLOCKED_IN", "APPROVED_WITH_WARNING"}
                            => att'[d].status = att[d].status
                       /\ att[d].out => att'[d].out
<1>1. ASSUME IInv, [Next]_vars PROVE Kept
  <2>1. CASE att' = att
    BY <2>1
  <2>2. ASSUME NEW h \in Handlers, ClockInWrite(h) PROVE Kept
    BY <1>1, <2>2 DEF ClockInWrite, IInv, TypeOK
  <2>3. ASSUME NEW h \in Handlers, ClockOutWrite(h) PROVE Kept
    <3>1. job[h].next \in {"CLOCKED_OUT", "PENDING_SUPERVISOR_APPROVAL"}
      BY <1>1, <2>3 DEF ClockOutWrite, At, IInv, JobInv, JobOf
    <3> QED BY <1>1, <2>3, <3>1 DEF ClockOutWrite, ClockedOut, IInv, TypeOK
  <2>4. ASSUME NEW h \in Handlers, StatusWrite(h) PROVE Kept
    <3>1. job[h].next \notin {"CLOCKED_IN", "APPROVED_WITH_WARNING"}
      BY <1>1, <2>4, Moves DEF StatusWrite, IInv, JobInv, JobOf
    <3> QED BY <1>1, <2>4, <3>1 DEF StatusWrite, WithStatus, IInv, TypeOK
  <2>5. ASSUME NEW h \in Handlers, CorrectWrite(h) PROVE Kept
    BY <1>1, <2>5 DEF CorrectWrite, ClockedOut, IInv, TypeOK
  <2>6. ASSUME NEW h \in Handlers, EndBreakCommit(h) PROVE Kept
    BY <1>1, <2>6 DEF EndBreakCommit, IInv, TypeOK
  <2>7. \/ att' = att
        \/ \E h \in Handlers : \/ ClockInWrite(h) \/ ClockOutWrite(h)
                               \/ StatusWrite(h) \/ CorrectWrite(h)
                               \/ EndBreakCommit(h)
    BY <1>1 DEF Next, vars, rows, Clock, Review, Break, Plan, NextDay, ClockInRead,
         ClockInFind, ClockInLost, ClockOutRead, StatusRead, CorrectRead, CorrectSum,
         StartBreakRead, StartBreakFind, StartBreakWrite, BreakRead, EndBreakSum,
         CancelBreakWrite, AssignmentRead, AssignmentWrite, ShiftRead, ShiftFind,
         ShiftWrite
  <2> QED BY <2>1, <2>2, <2>3, <2>4, <2>5, <2>6, <2>7
<1>2. IInv /\ [Next]_vars => [Kept]_vars
  BY <1>1
<1> QED BY <1>2, Inductive, PTL DEF NeverBackOnDuty, Spec

-----------------------------------------------------------------------------
(* An officer whose requests come one at a time.                           *)

LEMMA OtherHandlers ==
  ASSUME OneOfficer, IInv, NEW h \in Handlers, NEW g \in Handlers, g # h,
         job[h].op \in OfficerOps
  PROVE  job[g].op \notin {"clock_out", "start_break"}
<1>1. ASSUME NEW k \in Handlers, job[k].op \in OfficerOps
      PROVE  May[k] \cap OfficerOps # {}
  BY <1>1 DEF IInv, JobInv, JobOf, OfficerOps
<1> QED BY <1>1 DEF OneOfficer, OfficerOps

(* No attendance becomes CLOCKED_OUT and no break starts: what the officer *)
(* has read holds on.                                                      *)
LEMMA QuietStep ==
  ASSUME IInv, OfficerIInv, NEW h \in Handlers, NEW j \in Job,
         Becomes(h, j), JobOf(h, j), OfficerOf(j),
         \A d \in Days : att'[d].status = "CLOCKED_OUT" => att[d].status = "CLOCKED_OUT",
         \A b \in Breaks : brk'[b].status = "ACTIVE" => brk'[b] = brk[b]
  PROVE  OfficerIInv'
<1>1. \A d : OnBreak(d)' => OnBreak(d)
  BY DEF OnBreak
<1>2. OneActiveBreak'
  BY DEF OfficerIInv, OneActiveBreak
<1>3. ActiveBreakBlocksClockOut'
  BY <1>1 DEF OfficerIInv, ActiveBreakBlocksClockOut
<1>4. ASSUME NEW g \in Handlers, NEW i \in Job, JobOf(g, i), OfficerOf(i)
      PROVE  OfficerOf(i)'
  BY <1>1, <1>4 DEF OfficerOf, JobOf, PlanningOps
<1>5. ASSUME NEW g \in Handlers PROVE OfficerOf(job[g])'
  <2>1. CASE g = h
    <3>1. job'[g] = j
      BY <2>1 DEF Becomes, IInv, TypeOK
    <3>2. OfficerOf(j)'
      BY <1>4
    <3> QED BY <3>1, <3>2 DEF OfficerOf, OnBreak
  <2>2. CASE g # h
    <3>1. job'[g] = job[g] /\ job[g] \in Job /\ JobOf(g, job[g]) /\ OfficerOf(job[g])
      BY <2>2 DEF Becomes, IInv, TypeOK, JobInv, OfficerIInv, OfficerInv
    <3>2. PICK i \in Job : i = job[g]
      BY <3>1
    <3>3. OfficerOf(i)'
      BY <3>1, <3>2, <1>4
    <3> QED BY <3>1, <3>2, <3>3 DEF OfficerOf, OnBreak
  <2> QED BY <2>1, <2>2
<1> QED BY <1>2, <1>3, <1>5 DEF OfficerIInv, OfficerInv

LEMMA IdleOfficer == Idle \in Job /\ OfficerOf(Idle)
  BY IdleJob DEF OfficerOf, Idle

LEMMA QuietReads ==
  ASSUME IInv, OfficerIInv, NEW h \in Handlers, UNCHANGED rows,
         \/ ClockInRead(h) \/ ClockInFind(h) \/ ClockInLost(h)
         \/ StatusRead(h) \/ CorrectRead(h) \/ CorrectSum(h)
         \/ BreakRead(h) \/ EndBreakSum(h)
         \/ AssignmentRead(h) \/ ShiftRead(h) \/ ShiftFind(h)
  PROVE  OfficerIInv'
<1>1. /\ job'[h].op \notin {"clock_out", "start_break"}
      /\ \A g \in Handlers : g # h => job'[g] = job[g]
  <2>1. CASE ClockInRead(h)
    BY <2>1 DEF ClockInRead, Becomes, Idle, IInv, TypeOK
  <2>2. CASE ClockInFind(h) \/ CorrectSum(h) \/ EndBreakSum(h) \/ ShiftFind(h)
    <3>1. job[h] \in Job /\ job[h].op \notin {"clock_out", "start_break"}
      BY <2>2 DEF ClockInFind, CorrectSum, EndBreakSum, ShiftFind, At, IInv, TypeOK
    <3>2. job'[h].op \in {job[h].op, "idle"} /\ \A g \in Handlers : g # h => job'[g] = job[g]
      <4>1. CASE ClockInFind(h)
        BY <3>1, <4>1 DEF ClockInFind, Ends, Becomes, Idle, Job, IInv, TypeOK
      <4>2. CASE CorrectSum(h)
        BY <3>1, <4>2 DEF CorrectSum, Becomes, Job, IInv, TypeOK
      <4>3. CASE EndBreakSum(h)
        BY <3>1, <4>3 DEF EndBreakSum, Becomes, Job, IInv, TypeOK
      <4>4. CASE ShiftFind(h)
        BY <3>1, <4>4 DEF ShiftFind, Becomes, Job, IInv, TypeOK
      <4> QED BY <2>2, <4>1, <4>2, <4>3, <4>4
    <3> QED BY <3>1, <3>2
  <2>3. CASE ClockInLost(h)
    BY <2>3 DEF ClockInLost, Ends, Becomes, Idle, IInv, TypeOK
  <2>4. CASE StatusRead(h)
    <3>1. PICK op \in StatusOps, d \in Days :
            Becomes(h, [Idle EXCEPT !.op = op, !.step = "write", !.day = d,
                                    !.next = Outcome[op]])
      BY <2>4 DEF StatusRead
    <3> QED BY <3>1 DEF Becomes, Idle, StatusOps, IInv, TypeOK
  <2>5. CASE CorrectRead(h)
    <3>1. PICK d \in Days :
            Becomes(h, [Idle EXCEPT !.op = "correct", !.step = "find", !.day = d])
      BY <2>5 DEF CorrectRead
    <3> QED BY <3>1 DEF Becomes, Idle, IInv, TypeOK
  <2>6. CASE BreakRead(h)
    <3>1. PICK op \in {"end_break", "cancel_break"}, b \in Breaks :
            Becomes(h, [Idle EXCEPT !.op = op, !.step = "find",
                                    !.day = brk[b].day, !.brk = b])
      BY <2>6 DEF BreakRead
    <3> QED BY <3>1 DEF Becomes, Idle, IInv, TypeOK
  <2>7. CASE AssignmentRead(h)
    <3>1. PICK op \in PlanningOps, s \in AssignmentMoves[assignment] :
            Becomes(h, [Idle EXCEPT !.op = op, !.step = "write", !.next = s])
      BY <2>7 DEF AssignmentRead, PlanningOps
    <3> QED BY <3>1 DEF Becomes, Idle, PlanningOps, IInv, TypeOK
  <2>8. CASE ShiftRead(h)
    <3>1. PICK s \in ShiftMoves[shift] :
            Becomes(h, [Idle EXCEPT !.op = "update_shift", !.step = "find", !.next = s])
      BY <2>8 DEF ShiftRead
    <3> QED BY <3>1 DEF Becomes, Idle, IInv, TypeOK
  <2> QED BY <2>1, <2>2, <2>3, <2>4, <2>5, <2>6, <2>7, <2>8
<1>2. ASSUME NEW g \in Handlers PROVE OfficerOf(job[g])'
  <2>1. CASE g = h
    BY <1>1, <2>1 DEF OfficerOf
  <2>2. CASE g # h
    <3>1. job'[g] = job[g]
      BY <1>1, <2>2
    <3> QED BY <3>1 DEF OfficerIInv, OfficerInv, OfficerOf, OnBreak, rows
  <2> QED BY <2>1, <2>2
<1>3. OneActiveBreak' /\ ActiveBreakBlocksClockOut'
  BY DEF OfficerIInv, OneActiveBreak, ActiveBreakBlocksClockOut, OnBreak, rows
<1> QED BY <1>2, <1>3 DEF OfficerIInv, OfficerInv

LEMMA OfficerReads ==
  ASSUME IInv, OfficerIInv, NEW h \in Handlers,
         ClockOutRead(h) \/ StartBreakRead(h) \/ StartBreakFind(h)
  PROVE  OfficerIInv'
<1>1. UNCHANGED rows
  BY DEF ClockOutRead, StartBreakRead, StartBreakFind, rows
<1>2. \A g \in Handlers : g # h => job'[g] = job[g]
  BY DEF ClockOutRead, StartBreakRead, StartBreakFind, Ends, Becomes, IInv, TypeOK
<1>3. OfficerOf(job[h])'
  <2>1. CASE ClockOutRead(h)
    <3>1. PICK d \in Days, s \in {"CLOCKED_OUT", "PENDING_SUPERVISOR_APPROVAL"} :
            /\ ~OnBreak(d)
            /\ Becomes(h, [Idle EXCEPT !.op = "clock_out", !.step = "write", !.day = d,
                                       !.next = s, !.counted = CompletedBreaks(d),
                                       !.asg = assignment])
      BY <2>1 DEF ClockOutRead
    <3>2. job'[h].op = "clock_out" /\ job'[h].day = d
      BY <3>1 DEF Becomes, Idle, IInv, TypeOK
    <3> QED BY <1>1, <3>1, <3>2 DEF OfficerOf, OnBreak, rows
  <2>2. CASE StartBreakRead(h)
    <3>1. PICK d \in Days :
            /\ att[d].status \in ActiveAttendance
            /\ Becomes(h, [Idle EXCEPT !.op = "start_break", !.step = "find", !.day = d])
      BY <2>2 DEF StartBreakRead
    <3>2. job'[h].op = "start_break" /\ job'[h].day = d /\ job'[h].step = "find"
      BY <3>1 DEF Becomes, Idle, IInv, TypeOK
    <3> QED BY <1>1, <3>1, <3>2 DEF OfficerOf, ActiveAttendance, ClockInResults, rows
  <2>3. CASE StartBreakFind(h)
    <3>1. job[h] \in Job /\ OfficerOf(job[h]) /\ job[h].op = "start_break"
      BY <2>3 DEF StartBreakFind, At, IInv, TypeOK, OfficerIInv, OfficerInv
    <3>2. CASE OnBreak(job[h].day)
      <4>1. job'[h].op = "idle"
        BY <2>3, <3>2 DEF StartBreakFind, Ends, Becomes, Idle, IInv, TypeOK
      <4> QED BY <4>1 DEF OfficerOf
    <3>3. CASE ~OnBreak(job[h].day)
      <4>1. job'[h].day = job[h].day /\ job'[h].op = "start_break"
        BY <2>3, <3>1, <3>3 DEF StartBreakFind, Becomes, Job, IInv, TypeOK
      <4> QED BY <1>1, <3>1, <3>3, <4>1 DEF OfficerOf, OnBreak, rows
    <3> QED BY <3>2, <3>3
  <2> QED BY <2>1, <2>2, <2>3
<1>4. ASSUME NEW g \in Handlers, g # h PROVE OfficerOf(job[g])'
  BY <1>1, <1>2, <1>4 DEF OfficerIInv, OfficerInv, OfficerOf, OnBreak, rows
<1>5. OneActiveBreak' /\ ActiveBreakBlocksClockOut'
  BY <1>1 DEF OfficerIInv, OneActiveBreak, ActiveBreakBlocksClockOut, OnBreak, rows
<1> QED BY <1>3, <1>4, <1>5 DEF OfficerIInv, OfficerInv

LEMMA QuietWrites ==
  ASSUME IInv, OfficerIInv, NEW h \in Handlers,
         \/ ClockInWrite(h) \/ StatusWrite(h) \/ CorrectWrite(h)
         \/ EndBreakCommit(h) \/ CancelBreakWrite(h)
         \/ AssignmentWrite(h) \/ ShiftWrite(h)
  PROVE  OfficerIInv'
<1>1. Becomes(h, Idle)
  BY DEF Ends, ClockInWrite, StatusWrite, CorrectWrite, EndBreakCommit,
         CancelBreakWrite, AssignmentWrite, ShiftWrite
<1>2. ASSUME NEW d \in Days, att'[d].status = "CLOCKED_OUT"
      PROVE  att[d].status = "CLOCKED_OUT"
  <2>1. CASE ClockInWrite(h)
    BY <1>2, <2>1 DEF ClockInWrite, ClockInResults, NoAttendance, IInv, TypeOK
  <2>2. CASE StatusWrite(h)
    <3>1. job[h].next # "CLOCKED_OUT"
      BY <2>2, Moves DEF StatusWrite, IInv, JobInv, JobOf
    <3> QED BY <1>2, <2>2, <3>1 DEF StatusWrite, WithStatus, IInv, TypeOK
  <2>3. CASE CorrectWrite(h)
    BY <1>2, <2>3 DEF CorrectWrite, ClockedOut, IInv, TypeOK
  <2>4. CASE EndBreakCommit(h)
    BY <1>2, <2>4 DEF EndBreakCommit, IInv, TypeOK
  <2>5. CASE CancelBreakWrite(h) \/ AssignmentWrite(h) \/ ShiftWrite(h)
    BY <1>2, <2>5 DEF CancelBreakWrite, AssignmentWrite, ShiftWrite
  <2> QED BY <2>1, <2>2, <2>3, <2>4, <2>5
<1>3. ASSUME NEW b \in Breaks, brk'[b].status = "ACTIVE" PROVE brk'[b] = brk[b]
  <2>1. CASE EndBreakCommit(h) \/ CancelBreakWrite(h)
    BY <1>3, <2>1 DEF EndBreakCommit, CancelBreakWrite, IInv, TypeOK
  <2>2. CASE ~(EndBreakCommit(h) \/ CancelBreakWrite(h))
    BY <2>2 DEF ClockInWrite, StatusWrite, CorrectWrite, AssignmentWrite, ShiftWrite
  <2> QED BY <2>1, <2>2
<1> QED BY <1>1, <1>2, <1>3, QuietStep, IdleJob, IdleOfficer

(* The two writes that could go wrong: a break that starts, and a clock-out. *)
LEMMA OfficerWrites ==
  ASSUME OneOfficer, IInv, OfficerIInv, NEW h \in Handlers,
         StartBreakWrite(h) \/ ClockOutWrite(h)
  PROVE  OfficerIInv'
<1>1. PICK d \in Days : job[h].day = d
  BY DEF StartBreakWrite, ClockOutWrite, At, IInv, JobInv, JobOf, PlanningOps
<1>2. ~OnBreak(d) /\ (StartBreakWrite(h) => att[d].status # "CLOCKED_OUT")
  BY <1>1 DEF StartBreakWrite, ClockOutWrite, At, OfficerIInv, OfficerInv, OfficerOf
<1>3. ASSUME NEW g \in Handlers PROVE OfficerOf(job[g])'
  <2>1. CASE g = h
    <3>1. job'[g] = Idle
      BY <2>1 DEF StartBreakWrite, ClockOutWrite, Ends, Becomes, IInv, TypeOK
    <3> QED BY <3>1 DEF OfficerOf, Idle
  <2>2. CASE g # h
    <3>1. job'[g] = job[g]
      BY <2>2 DEF StartBreakWrite, ClockOutWrite, Ends, Becomes, IInv, TypeOK
    <3>2. job[g].op \notin {"clock_out", "start_break"}
      BY <2>2, OtherHandlers DEF StartBreakWrite, ClockOutWrite, At, OfficerOps
    <3> QED BY <3>1, <3>2 DEF OfficerOf
  <2> QED BY <2>1, <2>2
<1>4. OneActiveBreak' /\ ActiveBreakBlocksClockOut'
  <2>1. CASE StartBreakWrite(h)
    <3>1. PICK b \in Breaks : brk' = [brk EXCEPT ![b] = [day |-> d, status |-> "ACTIVE"]]
      BY <1>1, <2>1 DEF StartBreakWrite
    <3>2. /\ brk'[b] = [day |-> d, status |-> "ACTIVE"]
          /\ \A c \in Breaks : c # b => brk'[c] = brk[c]
      BY <3>1 DEF IInv, TypeOK
    <3>3. OneActiveBreak'
      BY <1>2, <3>2 DEF OfficerIInv, OneActiveBreak, OnBreak
    <3>4. ASSUME NEW e \in Days, att'[e].status = "CLOCKED_OUT" PROVE ~OnBreak(e)'
      <4>1. att' = att /\ e # d /\ ~OnBreak(e)
        BY <1>2, <2>1, <3>4
           DEF StartBreakWrite, OfficerIInv, ActiveBreakBlocksClockOut
      <4> QED BY <3>2, <4>1 DEF OnBreak
    <3> QED BY <3>3, <3>4 DEF ActiveBreakBlocksClockOut
  <2>2. CASE ClockOutWrite(h)
    <3>1. brk' = brk /\ \A e \in Days : e # d => att'[e] = att[e]
      BY <1>1, <2>2 DEF ClockOutWrite, IInv, TypeOK
    <3> QED BY <1>2, <3>1
            DEF OfficerIInv, OneActiveBreak, ActiveBreakBlocksClockOut, OnBreak
  <2> QED BY <2>1, <2>2
<1> QED BY <1>3, <1>4 DEF OfficerIInv, OfficerInv

LEMMA OfficerInitially == Init => OfficerIInv
<1> SUFFICES ASSUME Init PROVE OfficerIInv
  OBVIOUS
<1>1. OneActiveBreak /\ ActiveBreakBlocksClockOut
  BY DEF Init, OneActiveBreak, ActiveBreakBlocksClockOut, NoShiftBreak, NoAttendance
<1>2. OfficerInv
  BY IdleOfficer DEF Init, OfficerInv
<1> QED BY <1>1, <1>2 DEF OfficerIInv

LEMMA OfficerPreserved ==
  ASSUME OneOfficer, IInv, OfficerIInv, [Next]_vars
  PROVE  OfficerIInv'
<1>1. ASSUME NEW h \in Handlers, Clock(h) PROVE OfficerIInv'
  BY <1>1, QuietReads, OfficerReads, QuietWrites, OfficerWrites
     DEF Clock, ClockInRead, ClockInFind, ClockInLost, rows
<1>2. ASSUME NEW h \in Handlers, Review(h) PROVE OfficerIInv'
  BY <1>2, QuietReads, QuietWrites DEF Review, StatusRead, CorrectRead, CorrectSum, rows
<1>3. ASSUME NEW h \in Handlers, Break(h) PROVE OfficerIInv'
  BY <1>3, QuietReads, OfficerReads, QuietWrites, OfficerWrites
     DEF Break, BreakRead, EndBreakSum, rows
<1>4. ASSUME NEW h \in Handlers, Plan(h) PROVE OfficerIInv'
  BY <1>4, QuietReads, QuietWrites DEF Plan, AssignmentRead, ShiftRead, ShiftFind, rows
<1>5. CASE NextDay \/ UNCHANGED vars
  BY <1>5 DEF NextDay, vars, rows, OfficerIInv, OneActiveBreak,
              ActiveBreakBlocksClockOut, OfficerInv, OfficerOf, OnBreak
<1> QED BY <1>1, <1>2, <1>3, <1>4, <1>5 DEF Next

(* One officer's requests, handled one at a time, never run two breaks at  *)
(* once and never leave one running past a clock-out, whatever reviewers   *)
(* and planners do between their steps.                                    *)
THEOREM BreaksOfOneOfficer ==
  ASSUME OneOfficer
  PROVE  Spec => []BreaksInTurn
<1>1. IInv /\ OfficerIInv /\ [Next]_vars => OfficerIInv'
  BY OfficerPreserved
<1>2. OfficerIInv => BreaksInTurn
  BY DEF OfficerIInv, BreaksInTurn
<1> QED BY <1>1, <1>2, OfficerInitially, Inductive, PTL DEF Spec

-----------------------------------------------------------------------------
(* What a read leaves, for the invariants below: the request ends, begins, *)
(* or goes on with what it had.                                            *)
Begins(h, j) ==
  /\ job[h].op = "idle" /\ j.op \in May[h]
  /\ \/ /\ j.op = "clock_in" /\ j.day = today /\ j.asg = assignment
        /\ assignment \in ActiveAssignment \/ (assignment = "COMPLETED" /\ Recurring)
     \/ /\ j.op = "clock_out" /\ j.day \in Days /\ Worked(j.day) /\ j.asg = assignment
        /\ j.counted = CompletedBreaks(j.day)
     \/ /\ j.op \in StatusOps \cup {"correct", "start_break"}
        /\ j.day \in Days /\ Worked(j.day)
        /\ j.op = "correct" => j.step = "find"
     \/ /\ j.op \in {"end_break", "cancel_break"} /\ j.step = "find"
        /\ j.brk \in Breaks /\ brk[j.brk].status = "ACTIVE" /\ j.day = brk[j.brk].day
     \/ /\ j.op \in PlanningOps /\ j.next \in AssignmentMoves[assignment]
        /\ j.op = "confirm" => assignment = "ASSIGNED" /\ j.next = "CONFIRMED"
     \/ j.op = "update_shift" /\ j.step = "find"

GoesOn(h, j) ==
  /\ j.op = job[h].op /\ j.day = job[h].day /\ j.brk = job[h].brk
  /\ j.step = "write" /\ job[h].step = "find"
  /\ \/ j.op \in {"clock_in", "start_break"} /\ j.asg = job[h].asg
     \/ j.op = "correct" /\ j.counted = CompletedBreaks(j.day)
     \/ j.op = "end_break" /\ j.counted = CompletedBreaks(j.day) \cup {j.brk}
     \/ j.op = "update_shift" /\ j.asg = assignment

Shape(h) ==
  /\ \E j \in Job : Becomes(h, j) /\ (j = Idle \/ Begins(h, j) \/ GoesOn(h, j))
  /\ UNCHANGED <<rows, today>>

LEMMA FirstReads ==
  ASSUME IInv, NEW h \in Handlers,
         \/ ClockInRead(h) \/ ClockOutRead(h) \/ StatusRead(h) \/ CorrectRead(h)
         \/ StartBreakRead(h) \/ BreakRead(h) \/ AssignmentRead(h) \/ ShiftRead(h)
  PROVE  Shape(h)
<1> USE DEF Starts
<1>u. UNCHANGED <<rows, today>>
  BY DEF ClockInRead, ClockOutRead, StatusRead, CorrectRead, StartBreakRead, BreakRead,
         AssignmentRead, ShiftRead
<1> SUFFICES \E j \in Job : Becomes(h, j) /\ Begins(h, j)
  BY <1>u DEF Shape
<1>1. CASE ClockInRead(h)
  <2> DEFINE j == [Idle EXCEPT !.op = "clock_in", !.step = "find", !.day = today,
                               !.asg = assignment, !.shf = shift]
  <2>1. j \in Job
    BY IdleJob DEF Job, IInv, TypeOK, Operations, OfficerOps
  <2>2. Begins(h, j)
    BY <1>1 DEF ClockInRead, Begins, Idle
  <2> QED BY <1>1, <2>1, <2>2 DEF ClockInRead
<1>2. CASE ClockOutRead(h)
  <2>1. PICK d \in Days, s \in {"CLOCKED_OUT", "PENDING_SUPERVISOR_APPROVAL"} :
          /\ att[d].status \in ActiveAttendance
          /\ Becomes(h, [Idle EXCEPT !.op = "clock_out", !.step = "write", !.day = d,
                                     !.next = s, !.counted = CompletedBreaks(d),
                                     !.asg = assignment])
    BY <1>2 DEF ClockOutRead
  <2> DEFINE j == [Idle EXCEPT !.op = "clock_out", !.step = "write", !.day = d,
                               !.next = s, !.counted = CompletedBreaks(d), !.asg = assignment]
  <2>2. j \in Job
    <3>1. CompletedBreaks(d) \subseteq Breaks /\ assignment \in AssignmentStatuses
      BY DEF CompletedBreaks, IInv, TypeOK
    <3>2. s \in AttendanceStatuses \cup AssignmentStatuses \cup ShiftStatuses
      BY Statuses
    <3> HIDE DEF CompletedBreaks
    <3> QED BY <3>1, <3>2, IdleJob DEF Job, Operations, OfficerOps
  <2>3. Begins(h, j)
    BY <1>2, <2>1 DEF ClockOutRead, Begins, Idle, Worked, ActiveAttendance, ClockInResults
  <2> QED BY <2>1, <2>2, <2>3
<1>3. CASE StatusRead(h)
  <2>1. PICK op \in StatusOps, d \in Days :
          /\ job[h].op = "idle" /\ op \in May[h]
          /\ Outcome[op] \in AttendanceMoves[att[d].status]
          /\ Becomes(h, [Idle EXCEPT !.op = op, !.step = "write", !.day = d,
                                     !.next = Outcome[op]])
    BY <1>3 DEF StatusRead
  <2> DEFINE j == [Idle EXCEPT !.op = op, !.step = "write", !.day = d, !.next = Outcome[op]]
  <2>2. j \in Job
    <3>1. Outcome[op] \in AttendanceStatuses \cup AssignmentStatuses \cup ShiftStatuses
      BY Statuses, Moves
    <3> QED BY <3>1, IdleJob DEF Job, Operations
  <2>3. Worked(d)
    BY <2>1 DEF Worked, AttendanceMoves
  <2>4. Begins(h, j)
    BY <2>1, <2>3 DEF Begins, Idle, StatusOps
  <2> QED BY <2>1, <2>2, <2>4
<1>4. CASE CorrectRead(h)
  <2>1. PICK d \in Days :
          /\ att[d].status # "ABSENT"
          /\ Becomes(h, [Idle EXCEPT !.op = "correct", !.step = "find", !.day = d])
    BY <1>4 DEF CorrectRead
  <2> DEFINE j == [Idle EXCEPT !.op = "correct", !.step = "find", !.day = d]
  <2>2. j \in Job
    BY IdleJob DEF Job, Operations
  <2>3. Begins(h, j)
    BY <1>4, <2>1 DEF CorrectRead, Begins, Idle, Worked
  <2> QED BY <2>1, <2>2, <2>3
<1>5. CASE StartBreakRead(h)
  <2>1. PICK d \in Days :
          /\ att[d].status \in ActiveAttendance
          /\ Becomes(h, [Idle EXCEPT !.op = "start_break", !.step = "find", !.day = d])
    BY <1>5 DEF StartBreakRead
  <2> DEFINE j == [Idle EXCEPT !.op = "start_break", !.step = "find", !.day = d]
  <2>2. j \in Job
    BY IdleJob DEF Job, Operations, OfficerOps
  <2>3. Begins(h, j)
    BY <1>5, <2>1 DEF StartBreakRead, Begins, Idle, Worked, ActiveAttendance, ClockInResults
  <2> QED BY <2>1, <2>2, <2>3
<1>6. CASE BreakRead(h)
  <2>1. PICK op \in {"end_break", "cancel_break"}, b \in Breaks :
          /\ job[h].op = "idle" /\ op \in May[h] /\ brk[b].status = "ACTIVE"
          /\ Becomes(h, [Idle EXCEPT !.op = op, !.step = "find", !.day = brk[b].day, !.brk = b])
    BY <1>6 DEF BreakRead
  <2> DEFINE j == [Idle EXCEPT !.op = op, !.step = "find", !.day = brk[b].day, !.brk = b]
  <2>2. j \in Job
    BY IdleJob DEF Job, Operations, OfficerOps, IInv, TypeOK, BreakRow
  <2>3. Begins(h, j)
    BY <2>1 DEF Begins, Idle
  <2> QED BY <2>1, <2>2, <2>3
<1>7. CASE AssignmentRead(h)
  <2>1. PICK op \in PlanningOps, s \in AssignmentMoves[assignment] :
          /\ job[h].op = "idle" /\ op \in May[h]
          /\ op = "confirm" => assignment = "ASSIGNED" /\ s = "CONFIRMED"
          /\ Becomes(h, [Idle EXCEPT !.op = op, !.step = "write", !.next = s])
    BY <1>7 DEF AssignmentRead, PlanningOps
  <2> DEFINE j == [Idle EXCEPT !.op = op, !.step = "write", !.next = s]
  <2>2. j \in Job
    BY <2>1, IdleJob, Moves DEF Job, Operations, PlanningOps, IInv, TypeOK
  <2>3. Begins(h, j)
    BY <2>1 DEF Begins, Idle
  <2> QED BY <2>1, <2>2, <2>3
<1>8. CASE ShiftRead(h)
  <2>1. PICK s \in ShiftMoves[shift] :
          Becomes(h, [Idle EXCEPT !.op = "update_shift", !.step = "find", !.next = s])
    BY <1>8 DEF ShiftRead
  <2> DEFINE j == [Idle EXCEPT !.op = "update_shift", !.step = "find", !.next = s]
  <2>2. j \in Job
    BY <2>1, IdleJob, Moves DEF Job, Operations, IInv, TypeOK
  <2>3. Begins(h, j)
    BY <1>8 DEF ShiftRead, Begins, Idle
  <2> QED BY <2>1, <2>2, <2>3
<1> QED BY <1>1, <1>2, <1>3, <1>4, <1>5, <1>6, <1>7, <1>8

LEMMA LaterReads ==
  ASSUME IInv, NEW h \in Handlers,
         \/ ClockInFind(h) \/ ClockInLost(h) \/ CorrectSum(h) \/ StartBreakFind(h)
         \/ EndBreakSum(h) \/ ShiftFind(h)
  PROVE  Shape(h)
<1>u. UNCHANGED <<rows, today>>
  BY DEF ClockInFind, ClockInLost, CorrectSum, StartBreakFind, EndBreakSum, ShiftFind
<1> SUFFICES \E j \in Job : Becomes(h, j) /\ (j = Idle \/ GoesOn(h, j))
  BY <1>u DEF Shape
<1>0. job[h] \in Job
  BY DEF IInv, TypeOK
<1>1. CASE Becomes(h, Idle)
  BY <1>1, IdleJob
<1>2. CASE /\ ClockInFind(h) \/ StartBreakFind(h)
           /\ Becomes(h, [job[h] EXCEPT !.step = "write"])
  <2> DEFINE j == [job[h] EXCEPT !.step = "write"]
  <2>1. j \in Job
    BY <1>0 DEF Job
  <2>2. GoesOn(h, j)
    BY <1>0, <1>2 DEF ClockInFind, StartBreakFind, At, GoesOn, Job
  <2> QED BY <1>2, <2>1, <2>2
<1>3. CASE CorrectSum(h)
  <2> DEFINE j == [job[h] EXCEPT !.step = "write", !.counted = CompletedBreaks(job[h].day)]
  <2>1. j \in Job
    BY <1>0 DEF Job, CompletedBreaks
  <2>2. GoesOn(h, j)
    BY <1>0, <1>3 DEF CorrectSum, At, GoesOn, Job
  <2> QED BY <1>3, <2>1, <2>2 DEF CorrectSum
<1>4. CASE EndBreakSum(h)
  <2> DEFINE j == [job[h] EXCEPT !.step = "write",
                                 !.counted = CompletedBreaks(job[h].day) \cup {job[h].brk}]
  <2>1. job[h].brk \in Breaks
    BY <1>4 DEF EndBreakSum, At, IInv, JobInv, JobOf
  <2>2. j \in Job
    BY <1>0, <2>1 DEF Job, CompletedBreaks
  <2>3. GoesOn(h, j)
    BY <1>0, <1>4 DEF EndBreakSum, At, GoesOn, Job
  <2> QED BY <1>4, <2>2, <2>3 DEF EndBreakSum
<1>5. CASE ShiftFind(h)
  <2> DEFINE j == [job[h] EXCEPT !.step = "write", !.asg = assignment]
  <2>1. j \in Job
    BY <1>0 DEF Job, IInv, TypeOK
  <2>2. GoesOn(h, j)
    BY <1>0, <1>5 DEF ShiftFind, At, GoesOn, Job
  <2> QED BY <1>5, <2>1, <2>2 DEF ShiftFind
<1> QED
  BY <1>1, <1>2, <1>3, <1>4, <1>5 DEF ClockInFind, ClockInLost, StartBreakFind, Ends

(* A step reads or writes, or the next day comes. *)
Writes(h) ==
  \/ ClockInWrite(h) \/ ClockOutWrite(h) \/ StatusWrite(h) \/ CorrectWrite(h)
  \/ StartBreakWrite(h) \/ EndBreakCommit(h) \/ CancelBreakWrite(h)
  \/ AssignmentWrite(h) \/ ShiftWrite(h)

LEMMA ReadsOrWrites ==
  ASSUME IInv, [Next]_vars
  PROVE  \/ \E h \in Handlers : Shape(h)
         \/ \E h \in Handlers : Writes(h)
         \/ NextDay
         \/ UNCHANGED vars
<1>1. ASSUME NEW h \in Handlers, Clock(h) \/ Review(h) \/ Break(h) \/ Plan(h)
      PROVE  Shape(h) \/ Writes(h)
  BY <1>1, FirstReads, LaterReads DEF Clock, Review, Break, Plan, Writes
<1> QED BY <1>1 DEF Next

LEMMA WritesEnd ==
  ASSUME IInv, NEW h \in Handlers, Writes(h)
  PROVE  /\ job[h].op # "idle" /\ today' = today /\ job'[h] = Idle
         /\ \A g \in Handlers : g # h => job'[g] = job[g]
<1>1. Becomes(h, Idle) /\ today' = today
  BY DEF Writes, ClockInWrite, ClockOutWrite, StatusWrite, CorrectWrite, StartBreakWrite,
         EndBreakCommit, CancelBreakWrite, AssignmentWrite, ShiftWrite, Ends
<1>2. job[h].op # "idle"
  BY DEF Writes, ClockInWrite, ClockOutWrite, StatusWrite, CorrectWrite, StartBreakWrite,
         EndBreakCommit, CancelBreakWrite, AssignmentWrite, ShiftWrite, At, StatusOps
<1> QED BY <1>1, <1>2 DEF Becomes, IInv, TypeOK

LEMMA ShapeJobs ==
  ASSUME IInv, NEW h \in Handlers, Shape(h)
  PROVE  /\ UNCHANGED <<shift, assignment, att, brk, today>>
         /\ job'[h] = Idle \/ Begins(h, job'[h]) \/ GoesOn(h, job'[h])
         /\ job'[h] \in Job
         /\ \A g \in Handlers : g # h => job'[g] = job[g]
<1>1. PICK j \in Job : Becomes(h, j) /\ (j = Idle \/ Begins(h, j) \/ GoesOn(h, j))
  BY DEF Shape
<1>2. job'[h] = j /\ \A g \in Handlers : g # h => job'[g] = job[g]
  BY <1>1 DEF Becomes, IInv, TypeOK
<1>3. UNCHANGED <<shift, assignment, att, brk, today>>
  BY DEF Shape, rows
<1> QED BY <1>1, <1>2, <1>3

(* Days are worked from their clock-in on. *)
LEMMA DaysWritten ==
  ASSUME IInv, WorkInv, NEW h \in Handlers, Writes(h)
  PROVE  /\ \A d \in Days : Worked(d) => Worked(d)'
         /\ \A d \in Days : Worked(d)' => d <= today
         /\ \A d \in Days : ~Worked(d)' => ~att'[d].out
         /\ \A d \in Days : att'[d].status # "PENDING"
<1> USE DEF WorkInv
<1>d. job[h].op \notin PlanningOps \cup {"idle", "update_shift"} => job[h].day \in Days
  BY DEF IInv, JobInv, JobOf
<1>w. WorkedOf(job[h])
  OBVIOUS
<1>1. CASE ClockInWrite(h)
  <2>1. job[h].op = "clock_in" /\ job[h].day \in Days /\ job[h].day <= today
    BY <1>1, <1>d, <1>w DEF ClockInWrite, At, PlanningOps, WorkedOf
  <2>2. PICK s \in ClockInResults :
          att' = [att EXCEPT ![job[h].day] = [NoAttendance EXCEPT !.status = s]]
    BY <1>1 DEF ClockInWrite
  <2> QED BY <2>1, <2>2 DEF ClockInResults, NoAttendance, Worked, IInv, TypeOK
<1>2. CASE ClockOutWrite(h)
  <2>1. /\ job[h].day \in Days /\ Worked(job[h].day)
        /\ job[h].next \in {"CLOCKED_OUT", "PENDING_SUPERVISOR_APPROVAL"}
    BY <1>2, <1>d, <1>w DEF ClockOutWrite, At, PlanningOps, WorkedOf, IInv, JobInv, JobOf
  <2> QED BY <1>2, <2>1 DEF ClockOutWrite, ClockedOut, Worked, IInv, TypeOK
<1>3. CASE StatusWrite(h)
  <2>1. /\ job[h].day \in Days /\ Worked(job[h].day)
    BY <1>3, <1>d, <1>w DEF StatusWrite, StatusOps, PlanningOps, WorkedOf
  <2>2. job[h].next \notin {"ABSENT", "PENDING"}
    BY <1>3, Moves DEF StatusWrite, IInv, JobInv, JobOf
  <2> QED BY <1>3, <2>1, <2>2 DEF StatusWrite, WithStatus, Worked, IInv, TypeOK
<1>4. CASE CorrectWrite(h)
  <2>1. /\ job[h].day \in Days /\ Worked(job[h].day)
    BY <1>4, <1>d, <1>w DEF CorrectWrite, At, PlanningOps, WorkedOf
  <2> QED BY <1>4, <2>1 DEF CorrectWrite, ClockedOut, Worked, IInv, TypeOK
<1>5. CASE EndBreakCommit(h)
  <2>1. /\ job[h].day \in Days /\ Worked(job[h].day)
    BY <1>5, <1>d, <1>w DEF EndBreakCommit, At, PlanningOps, WorkedOf
  <2> QED BY <1>5, <2>1 DEF EndBreakCommit, Worked, IInv, TypeOK
<1>6. CASE StartBreakWrite(h) \/ CancelBreakWrite(h) \/ AssignmentWrite(h) \/ ShiftWrite(h)
  BY <1>6 DEF StartBreakWrite, CancelBreakWrite, AssignmentWrite, ShiftWrite, Worked
<1> QED BY <1>1, <1>2, <1>3, <1>4, <1>5, <1>6 DEF Writes

LEMMA BreaksWritten ==
  ASSUME IInv, WorkInv, NEW h \in Handlers, Writes(h), NEW b \in Breaks,
         brk'[b].status # "ABSENT"
  PROVE  brk'[b].day \in Days /\ Worked(brk'[b].day)
<1> USE DEF WorkInv
<1>1. brk[b].status # "ABSENT" => brk[b].day \in Days /\ Worked(brk[b].day)
  BY DEF IInv, BreakInv
<1>2. job[h].op \in {"start_break", "end_break", "cancel_break"} =>
        job[h].day \in Days /\ Worked(job[h].day)
  BY DEF IInv, JobInv, JobOf, PlanningOps, WorkedOf
<1>3. CASE brk' = brk
  BY <1>1, <1>3
<1>4. CASE StartBreakWrite(h)
  <2>1. PICK c \in Breaks : brk' = [brk EXCEPT ![c] = [day |-> job[h].day, status |-> "ACTIVE"]]
    BY <1>4 DEF StartBreakWrite
  <2> QED BY <1>1, <1>2, <1>4, <2>1 DEF StartBreakWrite, At, IInv, TypeOK
<1>5. CASE EndBreakCommit(h) \/ CancelBreakWrite(h)
  BY <1>1, <1>2, <1>5 DEF EndBreakCommit, CancelBreakWrite, At, IInv, TypeOK
<1> QED
  BY <1>3, <1>4, <1>5 DEF Writes, ClockInWrite, ClockOutWrite, StatusWrite, CorrectWrite,
                          AssignmentWrite, ShiftWrite

LEMMA WorkPreserved ==
  ASSUME IInv, WorkInv, [Next]_vars
  PROVE  WorkInv'
<1> USE DEF WorkInv
<1>1. ASSUME NEW h \in Handlers, Shape(h) PROVE WorkInv'
  <2>1. UNCHANGED <<shift, assignment, att, brk, today>>
    BY <1>1, ShapeJobs
  <2>2. \A d \in Days : Worked(d)' <=> Worked(d)
    BY <2>1 DEF Worked
  <2>3. WorkedOf(job[h])'
    <3>1. CASE job'[h] = Idle
      BY <3>1 DEF WorkedOf, Idle
    <3>2. CASE Begins(h, job'[h])
      <4>1. \A b \in Breaks : brk[b].status = "ACTIVE" => Worked(brk[b].day)
        OBVIOUS
      <4> QED BY <2>1, <3>2, <4>1 DEF Begins, WorkedOf, PlanningOps, StatusOps, IInv, TypeOK, Worked
    <3>3. CASE GoesOn(h, job'[h])
      <4>1. WorkedOf(job[h])
        OBVIOUS
      <4> QED BY <2>1, <3>3, <4>1 DEF GoesOn, WorkedOf, Worked
    <3> QED BY <1>1, <3>1, <3>2, <3>3, ShapeJobs
  <2>4. ASSUME NEW g \in Handlers PROVE WorkedOf(job[g])'
    <3>1. CASE g # h
      <4>1. job'[g] = job[g] /\ WorkedOf(job[g])
        BY <1>1, <3>1, ShapeJobs
      <4> QED BY <2>1, <4>1 DEF WorkedOf, Worked
    <3> QED BY <2>3, <3>1
  <2> QED BY <2>1, <2>4 DEF Worked
<1>2. ASSUME NEW h \in Handlers, Writes(h) PROVE WorkInv'
  <2>1. today' = today /\ job'[h] = Idle /\ \A g \in Handlers : g # h => job'[g] = job[g]
    BY <1>2, WritesEnd
  <2>2. \A d \in Days : Worked(d) => Worked(d)'
    BY <1>2, DaysWritten
  <2>3. ASSUME NEW g \in Handlers PROVE WorkedOf(job[g])'
    <3>1. CASE g = h
      BY <2>1, <3>1 DEF WorkedOf, Idle
    <3>2. CASE g # h
      <4>1. job'[g] = job[g] /\ WorkedOf(job[g])
        BY <2>1, <3>2
      <4>2. job[g].op \notin PlanningOps \cup {"idle", "update_shift"} => job[g].day \in Days
        BY DEF IInv, JobInv, JobOf
      <4> QED BY <2>1, <2>2, <4>1, <4>2 DEF WorkedOf, Worked
    <3> QED BY <3>1, <3>2
  <2>4. \A d \in Days : (Worked(d)' => d <= today') /\ (~Worked(d)' => ~att'[d].out)
                        /\ att'[d].status # "PENDING"
    BY <1>2, <2>1, DaysWritten
  <2>5. \A b \in Breaks : brk'[b].status # "ABSENT" => Worked(brk[b].day)'
    <3> SUFFICES ASSUME NEW b \in Breaks, brk'[b].status # "ABSENT" PROVE Worked(brk[b].day)'
      OBVIOUS
    <3>1. brk'[b].day \in Days /\ Worked(brk'[b].day)
      BY <1>2, BreaksWritten
    <3> QED BY <2>2, <3>1 DEF Worked
  <2> QED BY <2>3, <2>4, <2>5
<1>3. CASE NextDay
  <2>1. today' = today + 1 /\ today \in Nat /\ UNCHANGED <<att, brk, job>>
    BY <1>3 DEF NextDay, rows, IInv, TypeOK
  <2>2. \A d \in Days : d \in Nat
    OBVIOUS
  <2>3. \A h \in Handlers : WorkedOf(job[h])'
    <3> SUFFICES ASSUME NEW h \in Handlers PROVE WorkedOf(job[h])'
      OBVIOUS
    <3>1. WorkedOf(job[h]) /\ (job[h].op = "clock_in" => job[h].day \in Nat)
      BY DEF IInv, JobInv, JobOf, PlanningOps
    <3> QED BY <2>1, <3>1 DEF WorkedOf, Worked
  <2> QED BY <2>1, <2>2, <2>3 DEF Worked
<1>4. CASE UNCHANGED vars
  BY <1>4 DEF vars, WorkedOf, Worked
<1> QED BY <1>1, <1>2, <1>3, <1>4, ReadsOrWrites

LEMMA WorkInitially == Init => WorkInv
  BY DEF Init, WorkInv, Worked, WorkedOf, NoAttendance, NoShiftBreak, Idle, StatusOps, PlanningOps

-----------------------------------------------------------------------------
(* Days that have come have a last one. *)
LEMMA LastDay ==
  ASSUME NEW n \in Nat, NEW S \in SUBSET Days, S # {}, \A d \in S : d <= n
  PROVE  \E d \in S : \A e \in S : e <= d
<1> DEFINE From(d) == {e \in S : d <= e}
           T == {From(d) : d \in S}
           N == 1..n
<1>1. IsFiniteSet(N) /\ S \subseteq N /\ \A d \in S : d \in Int
  BY FS_Interval
<1>2. IsWellFoundedOn(StrictSubsetOrdering(N), FiniteSubsetsOf(N))
  <2> HIDE DEF N
  <2> QED BY <1>1, FS_StrictSubsetOrderingWellFounded
<1>3. T \subseteq FiniteSubsetsOf(N) /\ T # {}
  <2>1. \A d \in S : From(d) \subseteq N
    BY <1>1
  <2> HIDE DEF N, From
  <2>2. \A d \in S : IsFiniteSet(From(d))
    BY <1>1, <2>1, FS_Subset
  <2> QED BY <2>1, <2>2 DEF FiniteSubsetsOf
<1>4. PICK U \in T : \A V \in T : <<V, U>> \notin StrictSubsetOrdering(N)
  <2> HIDE DEF T, N
  <2> QED BY <1>2, <1>3, WFMin
<1>5. PICK d \in S : U = From(d)
  OBVIOUS
<1>6. ASSUME NEW e \in S, ~(e <= d) PROVE FALSE
  <2>0. d \in Int /\ e \in Int /\ \A f \in S : f \in Int
    BY <1>1
  <2>1. ASSUME NEW f \in S, e <= f PROVE d <= f
    BY <1>6, <2>0, <2>1
  <2>2. From(e) \subseteq From(d)
    BY <2>1
  <2>3. d \in From(d) /\ d \notin From(e)
    BY <1>6, <2>0
  <2>4. From(e) \subseteq N /\ From(d) \subseteq N /\ From(e) \in T
    BY <1>1
  <2>5. <<From(e), From(d)>> \notin StrictSubsetOrdering(N)
    <3> HIDE DEF T, N, From
    <3> QED BY <1>4, <1>5, <2>4
  <2> HIDE DEF T, N, From
  <2> QED BY <2>2, <2>3, <2>4, <2>5 DEF StrictSubsetOrdering
<1> QED BY <1>6

LEMMA DutyIsLatest ==
  ASSUME TypeOK, WorkInv, NEW d \in Days, att[d].status \in ActiveAttendance
  PROVE  OnDuty >= d
<1> DEFINE active == {e \in Days : att[e].status \in ActiveAttendance}
<1>1. active \in SUBSET Days /\ active # {} /\ d \in active
  OBVIOUS
<1>2. today \in Nat /\ \A e \in active : e <= today
  BY DEF TypeOK, WorkInv, Worked, ActiveAttendance, ClockInResults
<1>3. \E e \in active : \A f \in active : f <= e
  <2> HIDE DEF active
  <2> QED BY <1>1, <1>2, LastDay
<1>4. OnDuty = CHOOSE e \in active : \A f \in active : f <= e
  BY <1>1 DEF OnDuty
<1>5. OnDuty \in active /\ \A f \in active : f <= OnDuty
  <2> HIDE DEF active
  <2> QED BY <1>3, <1>4
<1>6. OnDuty \in Int /\ d \in Int
  BY <1>5
<1> QED BY <1>1, <1>5, <1>6

LEMMA ShownAsWorked ==
  ASSUME IInv, OfficerIInv, WorkInv
  PROVE  WorkShown
<1>1. ASSUME NEW d \in Days, att[d].out, shift # "ARCHIVED", ~Refused(d),
             att[d].status # "CLOCKED_IN"
      PROVE  d \in FindHistory \ FindUpcoming /\ FindCurrent # d
  <2>1. att[d].status \in Finished
    <3>1. att[d].status \in AttendanceStatuses /\ Worked(d) /\ att[d].status # "PENDING"
      BY <1>1 DEF IInv, TypeOK, AttendanceRow, WorkInv
    <3> QED BY <1>1, <3>1, Statuses DEF Worked, Refused, Finished
  <2>2. d \in CompletedDays /\ d \in FindHistory
    BY <1>1, <2>1 DEF CompletedDays, FindHistory
  <2>3. d # Nothing
    BY DEF Nothing
  <2> QED BY <2>2, <2>3 DEF FindUpcoming, FindCurrent
<1>2. ASSUME NEW d \in Days, att[d].status = "CLOCKED_IN" PROVE OnDuty >= d
  BY <1>2, DutyIsLatest DEF IInv, ActiveAttendance, ClockInResults
<1>3. ASSUME NEW b \in OnBreakNow PROVE OnDuty >= brk[b].day \/ Refused(brk[b].day)
  <2>1. b \in Breaks /\ brk[b].status = "ACTIVE"
    BY DEF OnBreakNow
  <2>2. PICK d \in Days : brk[b].day = d
    BY <2>1 DEF IInv, BreakInv
  <2>3. Worked(d) /\ att[d].status # "PENDING" /\ att[d].status \in AttendanceStatuses
    BY <2>1, <2>2 DEF WorkInv, IInv, TypeOK, AttendanceRow
  <2>4. att[d].status # "CLOCKED_OUT"
    BY <2>1, <2>2 DEF OfficerIInv, ActiveBreakBlocksClockOut, OnBreak
  <2>5. att[d].status \in ActiveAttendance \/ Refused(d)
    BY <2>3, <2>4, Statuses DEF Worked, ActiveAttendance, ClockInResults, Refused
  <2> QED BY <2>2, <2>5, DutyIsLatest DEF IInv
<1> QED BY <1>1, <1>2, <1>3 DEF WorkShown

(* A day that was worked to its end is in the officer's history and not in *)
(* what is current or upcoming, and whoever is on duty or on a break is    *)
(* shown so, for one officer and any number of days, breaks and reviewers. *)
THEOREM ShownToTheOfficer ==
  ASSUME OneOfficer
  PROVE  Spec => []WorkShown
<1>1. IInv /\ OfficerIInv /\ WorkInv /\ [Next]_vars => OfficerIInv' /\ WorkInv'
  BY OfficerPreserved, WorkPreserved
<1>2. IInv /\ OfficerIInv /\ WorkInv => WorkShown
  BY ShownAsWorked
<1> QED BY <1>1, <1>2, OfficerInitially, WorkInitially, Inductive, PTL DEF Spec

-----------------------------------------------------------------------------
(* An assignment that only its officer's requests change. *)
Clocking == {"clock_in", "clock_out", "confirm"}

LEMMA NobodyPlans ==
  ASSUME OneOfficer, PlanLeftAlone, IInv
  PROVE  /\ \A h \in Handlers :
              job[h].op \notin {"update_assignment", "cancel_assignment", "update_shift"}
         /\ \A g, h \in Handlers : job[g].op \in Clocking /\ job[h].op \in Clocking => g = h
<1>1. \A h \in Handlers : job[h].op = "idle" \/ job[h].op \in May[h]
  BY DEF IInv, JobInv, JobOf
<1>2. \A h \in Handlers :
        job[h].op \notin {"update_assignment", "cancel_assignment", "update_shift"}
  BY <1>1 DEF PlanLeftAlone
<1>3. ASSUME NEW h \in Handlers, job[h].op \in Clocking
      PROVE  May[h] \cap OfficerOps # {}
  BY <1>1, <1>3 DEF PlanLeftAlone, Clocking, OfficerOps
<1> QED BY <1>2, <1>3 DEF OneOfficer

(* What the rows say of the release, kept while the statuses stay.         *)
Releasing ==
  /\ assignment \in ActiveAssignment \cup {Released}
  /\ \A d \in Days : Worked(d) => assignment \in {"IN_PROGRESS", Released}
  /\ FinishedAssignmentReleased

LEMMA ReleasingKept ==
  ASSUME Releasing, assignment' = assignment, \A d \in Days : att'[d].status = att[d].status
  PROVE  Releasing'
<1>1. \A d \in Days : Worked(d)' <=> Worked(d)
  BY DEF Worked
<1>2. {d \in Days : att'[d].status # "ABSENT"} = {d \in Days : att[d].status # "ABSENT"}
  OBVIOUS
<1>3. FinishedAssignmentReleased'
  BY <1>2 DEF Releasing, FinishedAssignmentReleased
<1> QED BY <1>1, <1>3 DEF Releasing, Released

LEMMA ReleaseWrites ==
  ASSUME OneOfficer, PlanLeftAlone, IInv, WorkInv, Releasing, NEW h \in Handlers, Writes(h),
         ReleaseOf(job[h])
  PROVE  /\ Releasing'
         /\ assignment' # assignment => job[h].op \in Clocking
<1> USE DEF WorkInv
<1>d. job[h].op \notin PlanningOps \cup {"idle", "update_shift"} => job[h].day \in Days
  BY DEF IInv, JobInv, JobOf
<1>w. WorkedOf(job[h])
  OBVIOUS
<1>1. CASE ClockInWrite(h)
  <2>1. job[h].op = "clock_in" /\ job[h].day \in Days /\ job[h].asg = assignment
    BY <1>1, <1>d DEF ClockInWrite, At, PlanningOps, ReleaseOf
  <2>2. PICK s \in ClockInResults :
          att' = [att EXCEPT ![job[h].day] = [NoAttendance EXCEPT !.status = s]]
    BY <1>1 DEF ClockInWrite
  <2>3. att'[job[h].day].status \notin {"ABSENT", "CLOCKED_OUT"}
    BY <2>1, <2>2 DEF ClockInResults, NoAttendance, IInv, TypeOK
  <2>4. assignment' \in {"IN_PROGRESS", Released}
    BY <1>1, <2>1 DEF ClockInWrite, Releasing, ActiveAssignment
  <2>5. FinishedAssignmentReleased'
    BY <2>1, <2>3 DEF FinishedAssignmentReleased
  <2> QED BY <2>1, <2>4, <2>5 DEF Releasing, ActiveAssignment, Clocking, Released
<1>2. CASE ClockOutWrite(h)
  <2>1. /\ job[h].op = "clock_out" /\ Worked(job[h].day) /\ job[h].day \in Days
        /\ job[h].asg = assignment
    BY <1>2, <1>d, <1>w DEF ClockOutWrite, At, PlanningOps, WorkedOf, ReleaseOf
  <2>2. assignment' = Released
    BY <1>2, <2>1 DEF ClockOutWrite, Releasing, Released
  <2> QED BY <2>1, <2>2 DEF Releasing, FinishedAssignmentReleased, Released, Clocking
<1>3. CASE StatusWrite(h)
  <2>1. job[h].day \in Days /\ Worked(job[h].day) /\ assignment' = assignment
    BY <1>3, <1>d, <1>w DEF StatusWrite, StatusOps, PlanningOps, WorkedOf
  <2>2. job[h].next \notin {"ABSENT", "CLOCKED_OUT"}
    BY <1>3, Moves DEF StatusWrite, IInv, JobInv, JobOf
  <2>3. att'[job[h].day].status = job[h].next
        /\ \A d \in Days : d # job[h].day => att'[d] = att[d]
    BY <1>3, <2>1 DEF StatusWrite, WithStatus, IInv, TypeOK
  <2>4. \A d \in Days : Worked(d)' => Worked(d)
    BY <2>1, <2>3 DEF Worked
  <2>5. FinishedAssignmentReleased'
    BY <2>1, <2>2, <2>3 DEF FinishedAssignmentReleased
  <2> QED BY <2>1, <2>4, <2>5 DEF Releasing, Released
<1>4. CASE CorrectWrite(h) \/ EndBreakCommit(h) \/ StartBreakWrite(h) \/ CancelBreakWrite(h)
  <2>1. assignment' = assignment
    BY <1>4 DEF CorrectWrite, EndBreakCommit, StartBreakWrite, CancelBreakWrite
  <2>2. ASSUME NEW d \in Days PROVE att'[d].status = att[d].status
    BY <1>4 DEF CorrectWrite, ClockedOut, EndBreakCommit, StartBreakWrite,
                CancelBreakWrite, IInv, TypeOK
  <2> QED BY <2>1, <2>2, ReleasingKept
<1>5. CASE AssignmentWrite(h)
  <2>1. job[h].op = "confirm"
    BY <1>5, NobodyPlans DEF AssignmentWrite
  <2>2. assignment = "ASSIGNED" /\ assignment' = "CONFIRMED" /\ att' = att
    BY <1>5, <2>1 DEF AssignmentWrite, ReleaseOf
  <2>3. \A d \in Days : ~Worked(d) /\ ~Worked(d)'
    BY <2>2 DEF Releasing, Released, Worked
  <2>4. FinishedAssignmentReleased'
    BY <2>3 DEF FinishedAssignmentReleased, Worked
  <2> QED BY <2>1, <2>2, <2>3, <2>4 DEF Releasing, ActiveAssignment, Clocking
<1>6. ~ShiftWrite(h)
  BY NobodyPlans DEF ShiftWrite, At
<1> QED BY <1>1, <1>2, <1>3, <1>4, <1>5, <1>6 DEF Writes

LEMMA ReleasePreserved ==
  ASSUME OneOfficer, PlanLeftAlone, IInv, WorkInv, ReleaseInv, [Next]_vars
  PROVE  ReleaseInv'
<1>0. Releasing /\ \A h \in Handlers : ReleaseOf(job[h])
  BY DEF ReleaseInv, Releasing
<1> SUFFICES Releasing' /\ \A g \in Handlers : ReleaseOf(job[g])'
  BY DEF ReleaseInv, Releasing
<1>1. ASSUME NEW h \in Handlers, Shape(h)
      PROVE  Releasing' /\ \A g \in Handlers : ReleaseOf(job[g])'
  <2>1. UNCHANGED <<assignment, att>>
    BY <1>1, ShapeJobs
  <2>2. Releasing'
    BY <1>0, <2>1, ReleasingKept
  <2>3. ASSUME NEW g \in Handlers PROVE ReleaseOf(job[g])'
    <3>1. CASE g # h
      BY <1>0, <1>1, <2>1, <3>1, ShapeJobs DEF ReleaseOf
    <3>2. CASE g = h /\ job'[h] = Idle
      BY <3>2 DEF ReleaseOf, Idle
    <3>3. CASE g = h /\ Begins(h, job'[h])
      BY <2>1, <3>3 DEF Begins, ReleaseOf, PlanningOps, StatusOps
    <3>4. CASE g = h /\ GoesOn(h, job'[h])
      BY <1>0, <2>1, <3>4 DEF GoesOn, ReleaseOf
    <3> QED BY <1>1, <3>1, <3>2, <3>3, <3>4, ShapeJobs
  <2> QED BY <2>2, <2>3
<1>2. ASSUME NEW h \in Handlers, Writes(h)
      PROVE  Releasing' /\ \A g \in Handlers : ReleaseOf(job[g])'
  <2>1. Releasing' /\ (assignment' # assignment => job[h].op \in Clocking)
    BY <1>0, <1>2, ReleaseWrites
  <2>2. job'[h] = Idle /\ \A g \in Handlers : g # h => job'[g] = job[g]
    BY <1>2, WritesEnd
  <2>3. ASSUME NEW g \in Handlers PROVE ReleaseOf(job[g])'
    <3>1. CASE g = h
      BY <2>2, <3>1 DEF ReleaseOf, Idle
    <3>2. CASE g # h /\ assignment' = assignment
      BY <1>0, <2>2, <3>2 DEF ReleaseOf
    <3>3. CASE g # h /\ assignment' # assignment
      <4>1. job'[g].op \notin Clocking
        BY <2>1, <2>2, <3>3, NobodyPlans
      <4> QED BY <4>1 DEF ReleaseOf, Clocking
    <3> QED BY <3>1, <3>2, <3>3
  <2> QED BY <2>1, <2>3
<1>3. CASE NextDay \/ UNCHANGED vars
  <2>1. UNCHANGED <<assignment, att, job>>
    BY <1>3 DEF NextDay, rows, vars
  <2>2. Releasing'
    BY <1>0, <2>1, ReleasingKept
  <2> QED BY <1>0, <2>1, <2>2 DEF ReleaseOf
<1> QED BY <1>1, <1>2, <1>3, ReadsOrWrites

LEMMA ReleaseInitially == Init => ReleaseInv
  BY DEF Init, ReleaseInv, Worked, ReleaseOf, NoAttendance, Idle, ActiveAssignment,
         FinishedAssignmentReleased

(* Once every attendance of an assignment is clocked out the assignment is *)
(* released, although clock-in and clock-out write what they decided from  *)
(* an older read: for one officer whose plan nobody else changes.          *)
THEOREM ReleasedWhenFinished ==
  ASSUME OneOfficer, PlanLeftAlone
  PROVE  Spec => []FinishedAssignmentReleased
<1>1. IInv /\ WorkInv /\ ReleaseInv /\ [Next]_vars => WorkInv' /\ ReleaseInv'
  BY WorkPreserved, ReleasePreserved
<1>2. ReleaseInv => FinishedAssignmentReleased
  BY DEF ReleaseInv
<1> QED BY <1>1, <1>2, WorkInitially, ReleaseInitially, Inductive, PTL DEF Spec

-----------------------------------------------------------------------------
(* Requests that are handled one after another. *)
InTurn == \A h \in Handlers : h # officer => job[h].op = "idle"

(* What they leave of the rows.                                            *)
Exact ==
  /\ \A d \in Days : Worked(d) /\ ~Recurring => assignment \notin {"ASSIGNED", "CONFIRMED"}
  /\ BreakTotalExact /\ PlanFollowsWork

LEMMA IdleIsCurrent == \A j : j.op = "idle" => Current(j)
  BY DEF Current, PlanningOps

LEMMA CurrentRead ==
  ASSUME IInv, NEW h \in Handlers, Shape(h), Current(job[h])
  PROVE  Current(job[h])'
<1>1. UNCHANGED <<assignment, brk>>
  BY ShapeJobs
<1>2. \A d : CompletedBreaks(d)' = CompletedBreaks(d)
  BY <1>1 DEF CompletedBreaks
<1>3. CASE job'[h] = Idle
  BY <1>3 DEF Current, Idle, PlanningOps
<1>4. CASE Begins(h, job'[h])
  BY <1>1, <1>2, <1>4 DEF Begins, Current, PlanningOps, StatusOps
<1>5. CASE GoesOn(h, job'[h])
  BY <1>1, <1>2, <1>5 DEF GoesOn, Current, PlanningOps
<1> QED BY <1>3, <1>4, <1>5, ShapeJobs

(* The writes of attendances.                                              *)
LEMMA ClocksExact ==
  ASSUME IInv, WorkInv, Exact, NEW h \in Handlers, Current(job[h]),
         ClockInWrite(h) \/ ClockOutWrite(h)
  PROVE  Exact'
<1> USE DEF WorkInv
<1>b. brk' = brk /\ \A d : CompletedBreaks(d)' = CompletedBreaks(d)
  BY DEF ClockInWrite, ClockOutWrite, CompletedBreaks
<1>d. job[h].day \in Days
  BY DEF ClockInWrite, ClockOutWrite, At, PlanningOps, IInv, JobInv, JobOf
<1>o. \A d \in Days : d # job[h].day => att'[d] = att[d]
  BY <1>d DEF ClockInWrite, ClockOutWrite, IInv, TypeOK
<1>a. job[h].asg = assignment
  BY DEF ClockInWrite, ClockOutWrite, At, Current
<1>p. /\ ~Recurring => \A d \in Days : att[d].status = "CLOCKED_OUT" =>
                          assignment \notin ActiveAssignment
      /\ shift = "CANCELLED" => assignment \notin ActiveAssignment
  BY DEF Exact, PlanFollowsWork, FinishedShiftFreesOfficer, CancelledShiftHasNoWork
<1>1. CASE ClockInWrite(h)
  <2>1. assignment \in ActiveAssignment \/ (assignment = "COMPLETED" /\ Recurring)
    BY <1>1, <1>a DEF ClockInWrite, At, Current
  <2>2. PICK s \in ClockInResults :
          att' = [att EXCEPT ![job[h].day] = [NoAttendance EXCEPT !.status = s]]
    BY <1>1 DEF ClockInWrite
  <2>3. att'[job[h].day].status # "CLOCKED_OUT" /\ att'[job[h].day].counted = {}
    BY <1>d, <2>2 DEF ClockInResults, NoAttendance, IInv, TypeOK
  <2>4. CompletedBreaks(job[h].day) = {}
    BY <1>1 DEF ClockInWrite, CompletedBreaks, Worked
  <2>5. BreakTotalExact'
    BY <1>b, <1>o, <2>3, <2>4 DEF Exact, BreakTotalExact
  <2>6. /\ assignment' = IF assignment \in {"ASSIGNED", "CONFIRMED"}
                           THEN "IN_PROGRESS" ELSE assignment
        /\ shift' = "CANCELLED" => shift = "CANCELLED"
    BY <1>1, <1>a DEF ClockInWrite
  <2>7. FinishedShiftFreesOfficer'
    BY <1>o, <1>p, <2>1, <2>3, <2>6 DEF FinishedShiftFreesOfficer, ActiveAssignment
  <2>8. CancelledShiftHasNoWork'
    BY <1>p, <2>1, <2>6 DEF CancelledShiftHasNoWork, ActiveAssignment
  <2> QED BY <2>5, <2>6, <2>7, <2>8 DEF Exact, PlanFollowsWork
<1>2. CASE ClockOutWrite(h)
  <2>1. Worked(job[h].day)
    BY <1>2 DEF ClockOutWrite, At, WorkedOf, PlanningOps
  <2>2. att'[job[h].day].counted = CompletedBreaks(job[h].day)
    BY <1>2, <1>d DEF ClockOutWrite, At, Current, ClockedOut, IInv, TypeOK
  <2>3. BreakTotalExact'
    BY <1>b, <1>o, <2>2 DEF Exact, BreakTotalExact
  <2>4. /\ assignment' = IF assignment # "IN_PROGRESS" THEN assignment
                         ELSE IF Recurring THEN "CONFIRMED" ELSE "COMPLETED"
        /\ shift' = shift
    BY <1>2, <1>a DEF ClockOutWrite
  <2>5. ~Recurring => assignment \notin {"ASSIGNED", "CONFIRMED"}
    BY <1>d, <2>1 DEF Exact
  <2>6. FinishedShiftFreesOfficer' /\ CancelledShiftHasNoWork'
    BY <1>p, <2>4, <2>5
       DEF FinishedShiftFreesOfficer, CancelledShiftHasNoWork, ActiveAssignment
  <2> QED BY <2>3, <2>4, <2>5, <2>6 DEF Exact, PlanFollowsWork
<1> QED BY <1>1, <1>2

LEMMA ReviewsExact ==
  ASSUME IInv, WorkInv, Exact, NEW h \in Handlers, Current(job[h]),
         StatusWrite(h) \/ CorrectWrite(h)
  PROVE  Exact'
<1> USE DEF WorkInv
<1>b. UNCHANGED <<brk, assignment, shift>> /\ \A d : CompletedBreaks(d)' = CompletedBreaks(d)
  BY DEF StatusWrite, CorrectWrite, CompletedBreaks
<1>d. job[h].day \in Days /\ Worked(job[h].day)
  BY DEF StatusWrite, CorrectWrite, At, StatusOps, PlanningOps, WorkedOf, IInv, JobInv, JobOf
<1>1. \A d \in Days : att'[d].counted = CompletedBreaks(d)
  <2>1. CASE StatusWrite(h)
    BY <1>d, <2>1 DEF StatusWrite, WithStatus, Exact, BreakTotalExact, IInv, TypeOK
  <2>2. CASE CorrectWrite(h)
    <3>1. job[h].counted = CompletedBreaks(job[h].day)
      BY <2>2 DEF CorrectWrite, At, Current
    <3> QED
      BY <1>d, <2>2, <3>1 DEF CorrectWrite, ClockedOut, Exact, BreakTotalExact, IInv, TypeOK
  <2> QED BY <2>1, <2>2
<1>2. \A d \in Days : /\ Worked(d)' => Worked(d)
                      /\ att'[d].status = "CLOCKED_OUT" => att[d].status = "CLOCKED_OUT"
  <2>1. CASE StatusWrite(h)
    <3>1. job[h].next \notin {"ABSENT", "CLOCKED_OUT"}
      BY <2>1, Moves DEF StatusWrite, IInv, JobInv, JobOf
    <3> QED BY <1>d, <2>1, <3>1 DEF StatusWrite, WithStatus, Worked, IInv, TypeOK
  <2>2. CASE CorrectWrite(h)
    BY <1>d, <2>2 DEF CorrectWrite, ClockedOut, Worked, IInv, TypeOK
  <2> QED BY <2>1, <2>2
<1> QED
  BY <1>b, <1>1, <1>2 DEF Exact, BreakTotalExact, PlanFollowsWork, FinishedShiftFreesOfficer,
                          CancelledShiftHasNoWork

(* The writes of breaks.                                                   *)
LEMMA BreaksExact ==
  ASSUME IInv, Exact, NEW h \in Handlers, Current(job[h]),
         StartBreakWrite(h) \/ EndBreakCommit(h) \/ CancelBreakWrite(h)
  PROVE  Exact'
<1>b. UNCHANGED <<assignment, shift>>
  BY DEF StartBreakWrite, EndBreakCommit, CancelBreakWrite
<1>j. job[h].op \in {"end_break", "cancel_break"} =>
        /\ job[h].brk \in Breaks /\ brk[job[h].brk].day = job[h].day
        /\ brk[job[h].brk].status = "ACTIVE" /\ job[h].day \in Days
  BY DEF IInv, JobInv, JobOf, Current, PlanningOps
<1>1. \A d \in Days : att'[d].counted = CompletedBreaks(d)'
  <2>1. CASE StartBreakWrite(h)
    <3>1. PICK b \in Breaks :
            /\ brk[b].status = "ABSENT"
            /\ brk' = [brk EXCEPT ![b] = [day |-> job[h].day, status |-> "ACTIVE"]]
      BY <2>1 DEF StartBreakWrite
    <3>2. \A d \in Days : CompletedBreaks(d)' = CompletedBreaks(d)
      BY <3>1 DEF CompletedBreaks, IInv, TypeOK
    <3> QED BY <2>1, <3>2 DEF StartBreakWrite, Exact, BreakTotalExact
  <2>2. CASE CancelBreakWrite(h)
    <3>1. job[h].op = "cancel_break"
      BY <2>2 DEF CancelBreakWrite, At
    <3>2. \A d \in Days : CompletedBreaks(d)' = CompletedBreaks(d)
      BY <1>j, <2>2, <3>1 DEF CancelBreakWrite, CompletedBreaks, IInv, TypeOK
    <3> QED BY <2>2, <3>2 DEF CancelBreakWrite, Exact, BreakTotalExact
  <2>3. CASE EndBreakCommit(h)
    <3>1. /\ job[h].op = "end_break"
          /\ job[h].counted = CompletedBreaks(job[h].day) \cup {job[h].brk}
      BY <2>3 DEF EndBreakCommit, At, Current
    <3>2. \A d \in Days : CompletedBreaks(d)' =
            IF d = job[h].day THEN CompletedBreaks(d) \cup {job[h].brk} ELSE CompletedBreaks(d)
      BY <1>j, <2>3, <3>1 DEF EndBreakCommit, CompletedBreaks, IInv, TypeOK
    <3>3. \A d \in Days : att'[d].counted =
            IF d = job[h].day THEN job[h].counted ELSE att[d].counted
      BY <1>j, <2>3, <3>1 DEF EndBreakCommit, IInv, TypeOK
    <3> QED BY <3>1, <3>2, <3>3 DEF Exact, BreakTotalExact
  <2> QED BY <2>1, <2>2, <2>3
<1>2. ASSUME NEW d \in Days PROVE att'[d].status = att[d].status
  BY DEF StartBreakWrite, EndBreakCommit, CancelBreakWrite, IInv, TypeOK
<1> QED
  BY <1>b, <1>1, <1>2 DEF Exact, BreakTotalExact, PlanFollowsWork, FinishedShiftFreesOfficer,
                          CancelledShiftHasNoWork, Worked

(* The writes of plans.                                                    *)
LEMMA PlansExact ==
  ASSUME IInv, Exact, NEW h \in Handlers, Current(job[h]),
         AssignmentWrite(h) \/ ShiftWrite(h)
  PROVE  Exact'
<1>b. UNCHANGED <<brk, att>>
  BY DEF AssignmentWrite, ShiftWrite
<1>1. BreakTotalExact'
  BY <1>b DEF Exact, BreakTotalExact, CompletedBreaks
<1>p. /\ ~Recurring => \A d \in Days : att[d].status = "CLOCKED_OUT" =>
                          assignment \notin ActiveAssignment
      /\ shift = "CANCELLED" => assignment \notin ActiveAssignment
  BY DEF Exact, PlanFollowsWork, FinishedShiftFreesOfficer, CancelledShiftHasNoWork
<1>2. CASE AssignmentWrite(h)
  <2>1. assignment' \in AssignmentMoves[assignment] /\ shift' = shift
    BY <1>2 DEF AssignmentWrite, Current, PlanningOps
  <2>2. /\ assignment \in AssignmentStatuses
        /\ assignment \in ActiveAssignment
        /\ assignment = "IN_PROGRESS" => assignment' = "COMPLETED"
    BY <2>1, Statuses DEF IInv, TypeOK, AssignmentMoves, ActiveAssignment
  <2>3. \A d \in Days : Worked(d) /\ ~Recurring => assignment' = "COMPLETED"
    BY <2>2 DEF Exact, ActiveAssignment
  <2> QED
    BY <1>b, <1>1, <1>p, <2>1, <2>2, <2>3
       DEF Exact, PlanFollowsWork, FinishedShiftFreesOfficer, CancelledShiftHasNoWork, Worked
<1>3. CASE ShiftWrite(h)
  <2>1. job[h].asg = assignment
    BY <1>3 DEF ShiftWrite, At, Current
  <2>2. /\ assignment' = assignment \/ assignment' = "CANCELLED"
        /\ shift' = "CANCELLED" => assignment' \notin ActiveAssignment
    BY <1>3, <2>1 DEF ShiftWrite, ActiveAssignment
  <2> QED
    BY <1>b, <1>1, <1>p, <2>2
       DEF Exact, PlanFollowsWork, FinishedShiftFreesOfficer, CancelledShiftHasNoWork, Worked,
           ActiveAssignment
<1> QED BY <1>2, <1>3

LEMMA AlonePreserved ==
  ASSUME IInv, WorkInv, AloneInv, [MCNext]_<<vars, alone>>
  PROVE  AloneInv'
<1>1. alone' = alone /\ [Next]_vars
  BY DEF MCNext
<1>2. CASE ~alone
  BY <1>1, <1>2 DEF AloneInv
<1>3. CASE alone
  <2>1. /\ \A h \in Handlers : Current(job[h])
        /\ InTurn /\ Exact
    BY <1>3 DEF AloneInv, InTurn, Exact
  <2> SUFFICES (\A h \in Handlers : Current(job[h])') /\ InTurn' /\ Exact'
    BY DEF AloneInv, InTurn, Exact
  <2>2. \A h \in Handlers : h # officer => job'[h] = job[h]
    BY <1>3 DEF MCNext, vars
  <2>3. InTurn'
    BY <2>1, <2>2 DEF InTurn
  <2>4. \A h \in Handlers : h # officer => Current(job[h])'
    BY <2>3 DEF InTurn, Current, PlanningOps
  <2>5. ASSUME NEW h \in Handlers, Shape(h) PROVE (\A g \in Handlers : Current(job[g])') /\ Exact'
    <3>1. UNCHANGED <<shift, assignment, att, brk>>
      BY <2>5, ShapeJobs
    <3>2. Exact'
      BY <2>1, <3>1 DEF Exact, Worked, BreakTotalExact, CompletedBreaks, PlanFollowsWork,
                        FinishedShiftFreesOfficer, CancelledShiftHasNoWork
    <3>3. \A g \in Handlers : g # h => job'[g] = job[g]
      BY <2>5, ShapeJobs
    <3>4. \A g \in Handlers : g # h => Current(job[g])'
      BY <2>1, <3>1, <3>3 DEF Current, CompletedBreaks
    <3>5. Current(job[h])'
      BY <2>1, <2>5, CurrentRead
    <3> QED BY <3>2, <3>4, <3>5
  <2>6. ASSUME NEW h \in Handlers, Writes(h) PROVE (\A g \in Handlers : Current(job[g])') /\ Exact'
    <3>1. job[h].op # "idle" /\ job'[h] = Idle
      BY <2>6, WritesEnd
    <3>2. h = officer
      BY <2>1, <3>1 DEF InTurn
    <3>3. Current(job[h])'
      BY <3>1 DEF Current, Idle, PlanningOps
    <3>4. Exact'
      BY <2>1, <2>6, ClocksExact, ReviewsExact, BreaksExact, PlansExact DEF Writes
    <3> QED BY <2>4, <3>2, <3>3, <3>4
  <2>7. CASE NextDay \/ UNCHANGED vars
    <3>1. UNCHANGED <<shift, assignment, att, brk, job>>
      BY <2>7 DEF NextDay, rows, vars
    <3>2. Exact'
      BY <2>1, <3>1 DEF Exact, Worked, BreakTotalExact, CompletedBreaks, PlanFollowsWork,
                        FinishedShiftFreesOfficer, CancelledShiftHasNoWork
    <3>3. \A h \in Handlers : Current(job[h])'
      BY <2>1, <3>1 DEF Current, CompletedBreaks
    <3> QED BY <2>3, <3>2, <3>3
  <2> QED BY <1>1, <2>3, <2>5, <2>6, <2>7, ReadsOrWrites
<1> QED BY <1>2, <1>3

LEMMA AloneInitially == Init => AloneInv
<1> SUFFICES ASSUME Init PROVE AloneInv
  OBVIOUS
<1>1. \A h \in Handlers : Current(job[h]) /\ job[h].op = "idle"
  BY DEF Init, Idle, Current, PlanningOps
<1>2. BreakTotalExact /\ PlanFollowsWork
  BY DEF Init, BreakTotalExact, CompletedBreaks, NoAttendance, NoShiftBreak, PlanFollowsWork,
         FinishedShiftFreesOfficer, CancelledShiftHasNoWork
<1> QED BY <1>1, <1>2 DEF AloneInv, Init, Worked, NoAttendance

LEMMA AloneInductive == MCSpec => [](IInv /\ WorkInv /\ AloneInv)
<1>1. MCInit => IInv /\ WorkInv /\ AloneInv
  BY Initially, WorkInitially, AloneInitially DEF MCInit
<1>2. [MCNext]_<<vars, alone>> => [Next]_vars
  BY DEF MCNext
<1>3. IInv /\ WorkInv /\ AloneInv /\ [MCNext]_<<vars, alone>> => IInv' /\ WorkInv' /\ AloneInv'
  BY <1>2, Preserved, WorkPreserved, AlonePreserved
<1> QED BY <1>1, <1>3, PTL DEF MCSpec

(* When requests do not overlap, the total of breaks is that of the breaks *)
(* that were ended, whatever is started, ended, cancelled or corrected.    *)
THEOREM TotalsExactAlone == MCSpec => []BreakTotalExactAlone
<1>1. AloneInv => BreakTotalExactAlone
  BY DEF AloneInv, BreakTotalExactAlone
<1> QED BY <1>1, AloneInductive, PTL

(* When requests do not overlap, a finished one-off shift and a cancelled  *)
(* shift leave no active assignment, whatever is planned and worked.       *)
THEOREM PlansFollowAlone == MCSpec => []PlanFollowsWorkAlone
<1>1. AloneInv => PlanFollowsWorkAlone
  BY DEF AloneInv, PlanFollowsWorkAlone
<1> QED BY <1>1, AloneInductive, PTL
=============================================================================
