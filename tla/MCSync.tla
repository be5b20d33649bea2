------------------------------- MODULE MCSync -------------------------------
(* A batch and a request of the endpoint with one payload, a batch of another, *)
(* which the endpoint's hash tells from it or does not.                     *)
EXTENDS Sync

CONSTANTS s1, s2, s3, p1, p2

MCSenders == {s1, s2, s3}
MCDirect == {s3}
MCPayloads == {p1, p2}
MCPayloadOf == [s \in MCSenders |-> IF s = s2 THEN p2 ELSE p1]
MCHashes == {[p \in MCPayloads |-> p], [p \in MCPayloads |-> p1]}
=============================================================================
