------------------------------ MODULE MCCases -------------------------------
(* Numbers of one ternary digit: 1 and 2 fit the padding and 3 does not; a *)
(* fourth request of the day is refused.  The counting is done by support  *)
(* requests, the work on one incident and one emergency.                   *)
(*                                                                         *)
(* Apart from the cases, in behaviours of their own, an officer works one  *)
(* shift in one zone: days of four ticks, weeks of two days.  The clocks   *)
(* east and west of the first meridian are put forward or back by a tick   *)
(* in the middle of a day, or at midnight.                                 *)
EXTENDS Cases, Duty, TLC

CONSTANTS h1, h2

VARIABLE part

MCHandlers == {h1, h2}

Small ==
  /\ Cardinality(NumbersOf("incident")) <= 1
  /\ Cardinality(NumbersOf("sos")) <= 1
  /\ NumbersOf("support") # {} => NumbersOf("incident") = {} /\ NumbersOf("sos") = {}

Zone(before, after, change) == [before |-> before, after |-> after, change |-> change]

MCZones == {Zone(0, 0, 0), Zone(-3, -2, 5), Zone(-2, -3, 5), Zone(3, 4, 7), Zone(4, 3, 7),
            Zone(-2, -1, 6)}

Post(start, end, kind, days, until) ==
  [start |-> start, end |-> end, site |-> 1,
   rule |-> [kind |-> kind, days |-> days, until |-> until]]

MCPosts == {Post(3, 6, "DAILY", {}, 10), Post(2, 5, "NONE", {}, NoEnd),
            Post(3, 5, "CUSTOM_WEEKDAYS", {1}, NoEnd), Post(2, 4, "WEEKLY", {}, NoEnd)}

MCInit ==
  /\ part \in {"cases", "duty"}
  /\ CasesInit /\ DutyInit
  /\ part # "duty" => zone = Zone(0, 0, 0) /\ post.rule.kind = "NONE"

MCNext ==
  \/ part = "cases" /\ CasesNext /\ Small' /\ UNCHANGED <<part, dutyVars>>
  \/ part = "duty" /\ DutyNext /\ UNCHANGED <<part, caseVars>>

MCSpec == MCInit /\ [][MCNext]_<<part, caseVars, dutyVars>>

Symmetry == Permutations(Handlers)
=============================================================================
