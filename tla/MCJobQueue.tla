----------------------------- MODULE MCJobQueue -----------------------------
(* Instances of JobQueue for TLC: three jobs of three attempts. *)
EXTENDS JobQueue

CONSTANTS j1, j2, j3
=============================================================================
