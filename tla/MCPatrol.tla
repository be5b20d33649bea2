------------------------------ MODULE MCPatrol ------------------------------
(* A sequential route, in two kinds of behaviours: one handler serves all  *)
(* requests in turn, for two patrols; or the officer's two devices and a   *)
(* supervisor send requests that overlap, for one patrol.                  *)
EXTENDS Patrol, TLC

CONSTANTS phone, tablet, supervisor, p1, p2

VARIABLE alone   \* which of the two; it does not change

OfficerOps == {"start", "visit", "complete"}

AloneOrRacing ==
  phone :> Operations @@ tablet :> OfficerOps
    @@ supervisor :> {"review", "miss", "cancel"}

MCInit == Init /\ alone \in BOOLEAN

MCNext ==
  /\ Next /\ UNCHANGED alone
  /\ IF alone
       THEN \A h \in Handlers \ {phone} : job'[h] = job[h]
       ELSE /\ patrol'[p2] = patrol[p2]
            /\ job'[phone].op \in OfficerOps \cup {"idle", "create"}

MCSpec == MCInit /\ [][MCNext]_<<vars, alone>>

(* After any requests that do not overlap a patrol's counter and status    *)
(* are those of its visits, and a route has one active patrol at most.     *)
PatrolsTrueAlone == alone => VisitsShown /\ NoDuplicateActive

-----------------------------------------------------------------------------
(* What keeps it: the requests being handled in turn, what one has read or *)
(* calculated is so still.                                                 *)
Seen(j) == [visits[j.patrol] EXCEPT ![j.cp] = j.next]

Current(j) ==
  /\ j.op = "create" => \A p \in Patrols : patrol[p].status \notin ActivePatrol
  /\ j.op = "start" => patrol[j.patrol].status = "NOT_STARTED" /\ j.next = "IN_PROGRESS"
  /\ j.op = "cancel" => j.next = "CANCELLED"
  /\ j.op = "visit" => patrol[j.patrol].status = "IN_PROGRESS"
  /\ j.op = "review" => j.seen = patrol[j.patrol].status
  /\ j.op \in {"visit", "review"} /\ j.step = "commit" =>
       j.completed = CompletedCheckpoints(Seen(j)) /\ j.review = ReviewRequired(Seen(j))
  /\ j.op \in {"complete", "miss"} =>
       /\ j.next \in {"COMPLETED", "PARTIALLY_COMPLETED", "MISSED"}
       /\ j.completed = CompletedCheckpoints(visits[j.patrol])

AloneInv ==
  alone =>
    /\ \A h \in Handlers : Current(job[h]) /\ (h # phone => job[h].op = "idle")
    /\ \A p \in Patrols : patrol[p].status \in {"ABSENT", "NOT_STARTED"} =>
         \A c \in Checkpoints : visits[p][c] = "ABSENT"
    /\ VisitsShown /\ NoDuplicateActive
=============================================================================
