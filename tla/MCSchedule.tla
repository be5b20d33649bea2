----------------------------- MODULE MCSchedule -----------------------------
(* An instance of Schedule for TLC: two shifts that are worked once and two *)
(* that recur; days of four instants, weeks of two days.                   *)
EXTENDS Schedule, TLC

CONSTANTS s1, s2, s3, s4, o1, o2, r1, r2, r3

From(a, b) == [start |-> a, end |-> b]

Once == [kind |-> "NONE", days |-> {}, until |-> NoEnd]
Daily(until) == [kind |-> "DAILY", days |-> {}, until |-> until]
Odd == [kind |-> "CUSTOM_WEEKDAYS", days |-> {1}, until |-> NoEnd]

(* A series that ends before its first occurrence. *)
Ended == [kind |-> "CUSTOM_WEEKDAYS", days |-> {1}, until |-> 3]

(* s1 and s2 can overlap or not, and s2 can run over midnight. *)
SomeTimes ==
  (s1 :> {From(1, 3), From(8, 9)}) @@ (s2 :> {From(2, 5)}) @@ (s3 :> {From(3, 5)})
    @@ (s4 :> {From(2, 4)})

SomeRules == (s1 :> {Once}) @@ (s2 :> {Once}) @@ (s3 :> {Daily(9)})
    @@ (s4 :> {Ended, Odd})

SomeStatuses ==
  (s1 :> {"DRAFT", "SCHEDULED", "CONFIRMED", "IN_PROGRESS", "COMPLETED", "ARCHIVED"})
    @@ (s2 :> {"SCHEDULED", "CANCELLED"}) @@ (s3 :> {"SCHEDULED", "CANCELLED"})
    @@ (s4 :> {"SCHEDULED"})

Symmetry == Permutations({o1, o2}) \cup Permutations({r1, r2, r3})
=============================================================================
