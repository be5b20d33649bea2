----------------------------- MODULE MCEvidence ------------------------------
(* Two files of one or two bytes, and a quota of two.                      *)
(*                                                                         *)
(* Apart from the files, in behaviours of their own, an alarm goes to two  *)
(* users and, once it is answered, a broadcast to the one who has two      *)
(* devices; the other wants nothing sent.  Of the things that change       *)
(* beside or are read there is at most one.                                *)
EXTENDS Evidence, Notices, TLC

CONSTANTS f1, f2, c1, c2, h1, h2

VARIABLE part

MCFiles == {f1, f2}
MCContents == {c1, c2}
MCSizeOf == [c \in MCContents |-> IF c = c1 THEN 1 ELSE 2]
MCHandlers == {h1, h2}
MCOwnerOf == [d \in Devices |-> "u1"]

Changed ==
  Cardinality(Users \ active) + Cardinality(Devices \ device) + Cardinality(dead)
    + Cardinality({u \in {"u1"} : prefs[u] # Default})

Touched(u) ==
  Cardinality({m \in Messages : notice[m][u].read \/ notice[m][u].gone # "no"})

AlarmsOnly == [inApp |-> FALSE, push |-> FALSE, always |-> TRUE]
Silent == [AlarmsOnly EXCEPT !.always = FALSE]

Few ==
  /\ Changed + Touched("u1") <= 1 /\ Touched("u2") = 0
  /\ prefs["u2"] = Silent /\ prefs["u1"] \in {Default, AlarmsOnly}
  /\ "u2" \notin caster["news"].to
  /\ caster["news"].at # "idle" => caster["sos"].at = "answered"

MCInit ==
  /\ part \in {"files", "notices"}
  /\ Init /\ NoticesInit /\ prefs = [u \in Users |-> IF u = "u1" THEN Default ELSE Silent]
  /\ token = [d \in Devices |-> IF d = "d1" THEN "active" ELSE "none"]

MCNext ==
  \/ part = "files" /\ Next /\ UNCHANGED <<part, noticeVars>>
  \/ part = "notices" /\ NoticesNext /\ Few' /\ UNCHANGED <<part, vars>>

MCSpec == MCInit /\ [][MCNext]_<<part, vars, noticeVars>>

Symmetry == Permutations(Files) \cup Permutations(Handlers)
=============================================================================
