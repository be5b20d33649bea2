------------------------- MODULE MCAttendanceOneOff --------------------------
(* A one-off shift, in two kinds of behaviours: one handler serves all     *)
(* requests in turn, over two days; or the officer's two devices and a     *)
(* reviewer send requests that overlap, on one day with one break.         *)
EXTENDS MCAttendance

VARIABLE alone   \* which of the two; it does not change

MCInit == Init /\ alone \in BOOLEAN

MCNext ==
  /\ Next /\ UNCHANGED alone
  /\ IF alone
       THEN \A h \in Handlers \ {officer} : job'[h] = job[h]
       ELSE /\ today' = today /\ job'[officer].op \in OfficerOps \cup {"idle"}
            /\ \A b, c \in Breaks :
                 brk'[b].status # "ABSENT" /\ brk'[c].status # "ABSENT" => b = c

MCSpec == MCInit /\ [][MCNext]_<<vars, alone>>

(* After any requests that do not overlap, totalBreakMinutes is exact.     *)
BreakTotalExactAlone == alone => BreakTotalExact

(* After any requests that do not overlap, the plan follows the work.      *)
PlanFollowsWorkAlone == alone => PlanFollowsWork

-----------------------------------------------------------------------------
(* What keeps these: the requests being handled in turn, what one has read *)
(* is so still.                                                            *)
Current(j) ==
  /\ j.op \in {"clock_in", "clock_out"} \/ (j.op = "update_shift" /\ j.step = "write") =>
       j.asg = assignment
  /\ j.op = "clock_in" => j.asg \in ActiveAssignment \/ (j.asg = "COMPLETED" /\ Recurring)
  /\ j.op \in PlanningOps => j.next \in AssignmentMoves[assignment]
  /\ j.op = "clock_out" \/ (j.op = "correct" /\ j.step = "write") =>
       j.counted = CompletedBreaks(j.day)
  /\ j.op = "end_break" /\ j.step = "write" =>
       j.counted = CompletedBreaks(j.day) \cup {j.brk}
  /\ j.op \in {"end_break", "cancel_break"} => brk[j.brk].status = "ACTIVE"

AloneInv ==
  alone =>
    /\ \A h \in Handlers : Current(job[h]) /\ (h # officer => job[h].op = "idle")
    /\ \A d \in Days : Worked(d) /\ ~Recurring => assignment \notin {"ASSIGNED", "CONFIRMED"}
    /\ BreakTotalExact /\ PlanFollowsWork
=============================================================================
