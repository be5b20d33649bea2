------------------------------- MODULE MyWork -------------------------------
(***************************************************************************)
(* What the officer of an assignment is shown of it: findCurrent,          *)
(* findUpcoming and findHistory of assignments.service, and getCurrent of  *)
(* attendance.service and breaks.service.  A one-off shift is upcoming on  *)
(* its own day only, while findCurrent, as clock-in does, repeats it every *)
(* day.  An archived shift is a deleted one.                               *)
(***************************************************************************)
EXTENDS Attendance

Nothing == 0

Finished == {"CLOCKED_OUT", "PENDING_SUPERVISOR_APPROVAL", "APPROVED_WITH_WARNING",
             "SUPERVISOR_APPROVED"}

(* completedOccurrenceKeysForOfficer *)
CompletedDays_Approved == \* slip: only what a supervisor has approved
  {d \in Days : att[d].out /\ att[d].status = "SUPERVISOR_APPROVED"}

CompletedDays == {d \in Days : att[d].out /\ att[d].status \in Finished}

Offered == assignment \in ActiveAssignment /\ shift # "ARCHIVED"

OccursAgain(d) == Recurring \/ \A e \in Days : d <= e

FindCurrent == IF Offered /\ today \notin CompletedDays THEN today ELSE Nothing

FindUpcoming ==
  {d \in Days : Offered /\ d >= today /\ OccursAgain(d) /\ d \notin CompletedDays}

FindHistory ==
  {d \in Days : att[d].out /\ att[d].status \in Finished /\ shift # "ARCHIVED"}

(* The latest clock-in of those whose status is an active one. *)
OnDuty ==
  LET active == {d \in Days : att[d].status \in ActiveAttendance}
  IN  IF active = {} THEN Nothing ELSE CHOOSE d \in active : \A e \in active : e <= d

OnBreakNow == {b \in Breaks : brk[b].status = "ACTIVE"}

-----------------------------------------------------------------------------
Refused(d) == att[d].status \in {"SUPERVISOR_REJECTED", "VOIDED"}

(* A day that was worked to its end is in the history, and not also in     *)
(* what is current or upcoming; an officer who is clocked in or on a break *)
(* is shown that day or a later one.  All of it unless the day was refused *)
(* or voided, was given its end by a correction alone, which leaves it     *)
(* CLOCKED_IN, or the shift was archived.                                  *)
WorkShown ==
  /\ \A d \in Days : att[d].out /\ shift # "ARCHIVED"
                       /\ ~Refused(d) /\ att[d].status # "CLOCKED_IN" =>
       d \in FindHistory \ FindUpcoming /\ FindCurrent # d
  /\ \A d \in Days : att[d].status = "CLOCKED_IN" => OnDuty >= d
  /\ \A b \in OnBreakNow : OnDuty >= brk[b].day \/ Refused(brk[b].day)
=============================================================================
