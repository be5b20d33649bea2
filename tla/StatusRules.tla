---------------------------- MODULE StatusRules -----------------------------
(***************************************************************************)
(* The transition tables of attendance, breaks, assignments, shifts and    *)
(* patrol assignments, and the statuses of a checkpoint visit.             *)
(* "ABSENT" stands for a row that does not exist.                          *)
(***************************************************************************)

AttendanceMoves ==
  [PENDING |-> {"CLOCKED_IN", "PENDING_SUPERVISOR_APPROVAL",
                "APPROVED_WITH_WARNING", "VOIDED"},
   CLOCKED_IN |-> {"CLOCKED_OUT", "PENDING_SUPERVISOR_APPROVAL", "VOIDED"},
   PENDING_SUPERVISOR_APPROVAL |->
     {"CLOCKED_OUT", "SUPERVISOR_APPROVED", "SUPERVISOR_REJECTED",
      "CLOCKED_IN", "VOIDED"},
   APPROVED_WITH_WARNING |->
     {"CLOCKED_OUT", "PENDING_SUPERVISOR_APPROVAL", "SUPERVISOR_APPROVED",
      "SUPERVISOR_REJECTED", "VOIDED"},
   SUPERVISOR_APPROVED |-> {"CLOCKED_OUT", "VOIDED"},
   CLOCKED_OUT |-> {"PENDING_SUPERVISOR_APPROVAL", "SUPERVISOR_APPROVED",
                    "SUPERVISOR_REJECTED", "VOIDED"},
   SUPERVISOR_REJECTED |-> {"VOIDED"},
   VOIDED |-> {},
   ABSENT |-> {}]

AttendanceStatuses == DOMAIN AttendanceMoves

ClockInResults ==
  {"CLOCKED_IN", "PENDING_SUPERVISOR_APPROVAL", "APPROVED_WITH_WARNING"}

ActiveAttendance == ClockInResults \cup {"SUPERVISOR_APPROVED"}

BreakMoves ==
  [ACTIVE |-> {"COMPLETED", "CANCELLED"},
   COMPLETED |-> {}, CANCELLED |-> {}, ABSENT |-> {}]

BreakStatuses == DOMAIN BreakMoves

AssignmentMoves ==
  [ASSIGNED |-> {"CONFIRMED", "CANCELLED", "REASSIGNED", "MISSED"},
   CONFIRMED |-> {"IN_PROGRESS", "CANCELLED", "REASSIGNED", "MISSED"},
   IN_PROGRESS |-> {"COMPLETED"},
   COMPLETED |-> {}, CANCELLED |-> {}, REASSIGNED |-> {}, MISSED |-> {}]

AssignmentStatuses == DOMAIN AssignmentMoves

ActiveAssignment == {"ASSIGNED", "CONFIRMED", "IN_PROGRESS"}

ShiftMoves ==
  [DRAFT |-> {"SCHEDULED", "CANCELLED"},
   SCHEDULED |-> {"IN_PROGRESS", "CANCELLED"},
   IN_PROGRESS |-> {"COMPLETED", "CANCELLED"},
   COMPLETED |-> {"ARCHIVED"}, CANCELLED |-> {"ARCHIVED"}, ARCHIVED |-> {}]

ShiftStatuses == DOMAIN ShiftMoves

PatrolMoves ==
  [NOT_STARTED |-> {"IN_PROGRESS", "CANCELLED", "MISSED"},
   IN_PROGRESS |-> {"COMPLETED", "PARTIALLY_COMPLETED", "CANCELLED", "MISSED",
                    "REQUIRES_REVIEW"},
   REQUIRES_REVIEW |-> {"COMPLETED", "PARTIALLY_COMPLETED", "CANCELLED"},
   COMPLETED |-> {}, PARTIALLY_COMPLETED |-> {}, CANCELLED |-> {},
   MISSED |-> {}, ABSENT |-> {}]

PatrolStatuses == DOMAIN PatrolMoves

ActivePatrol == {"NOT_STARTED", "IN_PROGRESS", "REQUIRES_REVIEW"}

VisitStatuses == {"ABSENT", "COMPLETED", "MISSED", "SKIPPED", "REQUIRES_REVIEW"}
=============================================================================
