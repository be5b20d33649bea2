--------------------------- MODULE MCIdempotency ----------------------------
(* Instances of Idempotency for TLC: retries of one key with one payload   *)
(* (r1, r2, r3), another payload on the same key (r4), another key (r5).   *)
EXTENDS Idempotency, TLC

CONSTANTS r1, r2, r3, r4, r5, k1, k2, h1, h2

KeysOfRequests == (r1 :> k1) @@ (r2 :> k1) @@ (r4 :> k1) @@ (r5 :> k2)

HashesOfRequests == (r1 :> h1) @@ (r2 :> h1) @@ (r4 :> h2) @@ (r5 :> h1)

KeysOfLeases == (r1 :> k1) @@ (r2 :> k1) @@ (r4 :> k1) @@ (r5 :> k1)

HashesOfLeases == (r1 :> h1) @@ (r2 :> h1) @@ (r4 :> h2) @@ (r5 :> h2)

KeysOfRetries == (r1 :> k1) @@ (r2 :> k1) @@ (r3 :> k1)

HashesOfRetries == (r1 :> h1) @@ (r2 :> h1) @@ (r3 :> h1)

(* Requests of one key and one payload are interchangeable. *)
LeaseSymmetry == Permutations({r1, r2}) \cup Permutations({r4, r5})
=============================================================================
