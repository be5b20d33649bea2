------------------------------- MODULE MCStaff -------------------------------
(* Three accounts, of which one may still have to be created, and what the *)
(* lists and reads of Access show them.                                    *)
EXTENDS Access, TLC

CONSTANTS u1, u2, u3, r1, r2, h1, h2

MCUsers == {u1, u2, u3}
MCRelations == {r1, r2}
MCHandlers == {h1, h2}

Symmetry == Permutations(Handlers) \cup Permutations(Relations)

MCInit ==
  /\ Init
  /\ user[u1].role = "ADMINISTRATOR" /\ user[u1].status = "ACTIVE"
  /\ user[u2].role = "SECURITY_OFFICER" /\ user[u2].status = "ACTIVE"

MCSpec == MCInit /\ [][Next]_vars
=============================================================================
