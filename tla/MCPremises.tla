----------------------------- MODULE MCPremises ------------------------------
(* One route with two checkpoints and a third to come, and a second site   *)
(* and client.                                                             *)
EXTENDS Premises, TLC

CONSTANTS k1, k2, s1, s2, a1, c1, c2, c3, p1, h1, h2

MCClients == {k1, k2}
MCSites == {s1, s2}
MCRoutes == {a1}
MCCheckpoints == {c1, c2, c3}
MCPatrols == {p1}
MCHandlers == {h1, h2}

Symmetry == Permutations(Handlers)

MCInit ==
  /\ Init
  /\ client[k1].status = "ACTIVE"
  /\ site[s1].status = "ACTIVE" /\ site[s1].client = k1 /\ site[s2].status = "ABSENT"
  /\ site[s2].client = k1
  /\ route[a1].site = s1 /\ (route[a1].status = "ABSENT") = (client[k2].status = "ABSENT")
  /\ \A c \in Checkpoints : checkpoint[c].route = a1 <=> c # c3 /\ route[a1].status # "ABSENT"
  /\ \A c \in Checkpoints : checkpoint[c].number = IF c = c2 THEN 2 ELSE 1

MCSpec == MCInit /\ [][Next]_vars
=============================================================================
