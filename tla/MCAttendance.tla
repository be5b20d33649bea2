--------------------------- MODULE MCAttendance -----------------------------
(* Instances of Attendance for TLC: an officer on one or two devices and a *)
(* reviewer, or one handler that serves everybody in turn.                 *)
EXTENDS MyWork, TLC

CONSTANTS officer, device, reviewer, b1, b2

ReviewerOps == {"approve", "reject", "void", "correct", "cancel_break"}

OfficerAndReviewer ==
  (officer :> OfficerOps \cup {"cancel_break", "confirm"})
    @@ (reviewer :> ReviewerOps \ {"reject"})

AloneOrRacing ==
  (officer :> Operations) @@ (device :> {"clock_in", "clock_out"}) @@ (reviewer :> ReviewerOps)

(* Break rows are interchangeable. *)
BreakSymmetry == Permutations(Breaks)

TwoDays == {1, 2}

(* What the officer and the reviewer call: one device cannot lose a        *)
(* clock-in to another, and neither of them changes the shift.             *)
OfficerNext ==
  \/ \E h \in Handlers :
       \/ ClockInRead(h) \/ ClockInFind(h) \/ ClockInWrite(h)
       \/ ClockOutRead(h) \/ ClockOutWrite(h)
       \/ Review(h) \/ Break(h) \/ AssignmentRead(h) \/ AssignmentWrite(h)
  \/ NextDay

OfficerSpec == Init /\ [][OfficerNext]_vars
=============================================================================
