------------------------------- MODULE Patrol -------------------------------
(***************************************************************************)
(* The patrols of one route on one shift assignment, and the visits to     *)
(* their checkpoints: the handlers of patrol-assignments.service and       *)
(* patrol-visits.service, with the progress of patrol-progress.service.    *)
(*                                                                         *)
(* A handler is one action per read and one per transaction.  The          *)
(* transactions that write a visit are two: what such a one sees (the      *)
(* committed visits and its own), and its commit.                          *)
(***************************************************************************)
EXTENDS Integers, FiniteSets, StatusRules

CONSTANTS
  Patrols,         \* bound: the patrol assignments there may be
  NoPatrol,
  LastCheckpoint,  \* the snapshots are numbered 1 .. LastCheckpoint
  Handlers,        \* the requests being handled at one time
  May,             \* the operations the users of each handler call
  Sequential,      \* PatrolRoute.requireSequentialCompletion
  LateVisits       \* the device clock tolerance exceeds the review threshold

Checkpoints == 1 .. LastCheckpoint

Operations == {"create", "start", "visit", "review", "complete", "miss", "cancel"}

ASSUME NoPatrolAssumption == NoPatrol \notin Patrols
ASSUME LastCheckpointAssumption == LastCheckpoint \in Nat \ {0}
ASSUME MayAssumption == May \in [Handlers -> SUBSET Operations]
ASSUME RouteAssumption == Sequential \in BOOLEAN /\ LateVisits \in BOOLEAN

VARIABLES
  patrol,  \* status and completedCheckpointCount of each patrol assignment
  visits,  \* the status of the visit to each checkpoint of each patrol
  job      \* what each handler is doing, and what it has read

vars == <<patrol, visits, job>>

NoRow == [status |-> "ABSENT", completed |-> 0]

Idle == [op |-> "idle", step |-> "read", patrol |-> NoPatrol, cp |-> 0,
         exists |-> FALSE, seen |-> "ABSENT", next |-> "ABSENT",
         completed |-> 0, review |-> FALSE]

PatrolRow == [status : PatrolStatuses, completed : 0 .. LastCheckpoint]

Job == [op : Operations \cup {"idle"}, step : {"read", "write", "commit"},
        patrol : Patrols \cup {NoPatrol}, cp : Checkpoints \cup {0},
        exists : BOOLEAN, seen : PatrolStatuses,
        next : PatrolStatuses \cup VisitStatuses,
        completed : 0 .. LastCheckpoint, review : BOOLEAN]

TypeOK ==
  /\ patrol \in [Patrols -> PatrolRow]
  /\ visits \in [Patrols -> [Checkpoints -> VisitStatuses]]
  /\ job \in [Handlers -> Job]

Init ==
  /\ patrol = [p \in Patrols |-> NoRow]
  /\ visits = [p \in Patrols |-> [c \in Checkpoints |-> "ABSENT"]]
  /\ job = [h \in Handlers |-> Idle]

-----------------------------------------------------------------------------
(* Progress, calculated from the visits v to the snapshots of a patrol.    *)

VisitsWith(v, statuses) == {c \in Checkpoints : v[c] \in statuses}

CompletedCheckpoints(v) == Cardinality(VisitsWith(v, {"COMPLETED"}))

AllRequiredComplete(v) == VisitsWith(v, {"COMPLETED"}) = Checkpoints

ReviewRequired(v) == VisitsWith(v, {"REQUIRES_REVIEW"}) # {}

Done == {"COMPLETED", "MISSED", "SKIPPED"}

IsNext_AnyPending(v, c) ==         \* slip: no break at the first pending one
  v[c] \notin Done

IsNext(v, c) ==
  v[c] \notin Done /\ \A d \in Checkpoints : d < c => v[d] \in Done

NoneNext(v) == VisitsWith(v, Done) = Checkpoints

-----------------------------------------------------------------------------
Reads(h, op) == job[h].op = "idle" /\ op \in May[h]

At(h, op, step) == job[h].op = op /\ job[h].step = step

Becomes(h, j) == job' = [job EXCEPT ![h] = j]

Ends(h) == Becomes(h, Idle)

WithStatus(p, s) == [status |-> s, completed |-> patrol[p].completed]

(* The transaction that wrote a visit holds the lock of its row. *)
Locked(p, c) ==
  \E g \in Handlers :
    job[g].step = "commit" /\ job[g].patrol = p /\ job[g].cp = c

CreateRead(h) ==
  /\ Reads(h, "create")
  /\ \A p \in Patrols : patrol[p].status \notin ActivePatrol
  /\ Becomes(h, [Idle EXCEPT !.op = "create", !.step = "write"])
  /\ UNCHANGED <<patrol, visits>>

CreateWrite(h) ==
  /\ At(h, "create", "write")
  /\ \E p \in Patrols :
       /\ patrol[p].status = "ABSENT"
       /\ patrol' = [patrol EXCEPT ![p] = WithStatus(p, "NOT_STARTED")]
  /\ Ends(h)
  /\ UNCHANGED visits

(* performStart: a patrol IN_PROGRESS is answered as it is. *)
StartRead(h) ==
  /\ Reads(h, "start")
  /\ \E p \in Patrols :
       /\ "IN_PROGRESS" \in PatrolMoves[patrol[p].status]
       /\ Becomes(h, [Idle EXCEPT !.op = "start", !.step = "write", !.patrol = p,
                                  !.next = "IN_PROGRESS"])
  /\ UNCHANGED <<patrol, visits>>

(***************************************************************************)
(* performVisit: the patrol, its snapshots and its visits are read; then   *)
(* the transaction updates the visit found, or creates one.                *)
(***************************************************************************)
VisitRead(h) ==
  /\ Reads(h, "visit")
  /\ \E p \in Patrols, c \in Checkpoints :
       /\ patrol[p].status = "IN_PROGRESS"
       /\ visits[p][c] \notin {"COMPLETED", "SKIPPED"}
       /\ Sequential => IsNext(visits[p], c) \/ NoneNext(visits[p])
       /\ Becomes(h, [Idle EXCEPT !.op = "visit", !.step = "write", !.patrol = p,
                        !.cp = c, !.exists = visits[p][c] # "ABSENT"])
  /\ UNCHANGED <<patrol, visits>>

(* The visit is written as s, and progress calculated from what is seen. *)
Sees(h, s) ==
  LET j == job[h]
      v == [visits[j.patrol] EXCEPT ![j.cp] = s]
  IN  Becomes(h, [j EXCEPT !.step = "commit", !.next = s,
                           !.completed = CompletedCheckpoints(v),
                           !.review = ReviewRequired(v)])

VisitSees(h) ==
  /\ At(h, "visit", "write")
  /\ ~Locked(job[h].patrol, job[h].cp)
  /\ job[h].exists \/ visits[job[h].patrol][job[h].cp] = "ABSENT"
  /\ \/ Sees(h, "COMPLETED")
     \/ LateVisits /\ Sees(h, "REQUIRES_REVIEW")
  /\ UNCHANGED <<patrol, visits>>

(* P2002 on (patrolAssignmentId, assignmentCheckpointId). *)
VisitLost(h) ==
  /\ At(h, "visit", "write")
  /\ ~job[h].exists
  /\ visits[job[h].patrol][job[h].cp] # "ABSENT"
  /\ Ends(h)
  /\ UNCHANGED <<patrol, visits>>

VisitCommit_NoReview(h) ==         \* slip: the patrol's status is left alone
  /\ At(h, "visit", "commit")
  /\ LET j == job[h]
     IN  /\ visits' = [visits EXCEPT ![j.patrol][j.cp] = j.next]
         /\ patrol' = [patrol EXCEPT ![j.patrol] =
                         [status |-> @.status, completed |-> j.completed]]
  /\ Ends(h)

VisitCommit(h) ==
  /\ At(h, "visit", "commit")
  /\ LET j == job[h]
         status == IF j.review THEN "REQUIRES_REVIEW" ELSE patrol[j.patrol].status
     IN  /\ visits' = [visits EXCEPT ![j.patrol][j.cp] = j.next]
         /\ patrol' = [patrol EXCEPT ![j.patrol] =
                         [status |-> status, completed |-> j.completed]]
  /\ Ends(h)

(***************************************************************************)
(* approve, reject and override: reviewVisit.  The patrol's status is the  *)
(* one read before the transaction.                                        *)
(***************************************************************************)
ReviewRead(h) ==
  /\ Reads(h, "review")
  /\ \E p \in Patrols, c \in Checkpoints, s \in Done :
       /\ visits[p][c] # "ABSENT"
       /\ Becomes(h, [Idle EXCEPT !.op = "review", !.step = "write", !.patrol = p,
                        !.cp = c, !.seen = patrol[p].status, !.next = s])
  /\ UNCHANGED <<patrol, visits>>

ReviewSees(h) ==
  /\ At(h, "review", "write")
  /\ ~Locked(job[h].patrol, job[h].cp)
  /\ Sees(h, job[h].next)
  /\ UNCHANGED <<patrol, visits>>

ReviewCommit_NoCount(h) ==         \* slip: the counter is left alone
  /\ At(h, "review", "commit")
  /\ LET j == job[h]
         status == IF j.seen = "REQUIRES_REVIEW" /\ ~j.review
                     THEN "IN_PROGRESS" ELSE patrol[j.patrol].status
     IN  /\ visits' = [visits EXCEPT ![j.patrol][j.cp] = j.next]
         /\ patrol' = [patrol EXCEPT ![j.patrol] = WithStatus(j.patrol, status)]
  /\ Ends(h)

ReviewCommit(h) ==
  /\ At(h, "review", "commit")
  /\ LET j == job[h]
         status == IF j.seen = "REQUIRES_REVIEW" /\ ~j.review
                     THEN "IN_PROGRESS" ELSE patrol[j.patrol].status
     IN  /\ visits' = [visits EXCEPT ![j.patrol][j.cp] = j.next]
         /\ patrol' = [patrol EXCEPT ![j.patrol] =
                         [status |-> status, completed |-> j.completed]]
  /\ Ends(h)

(***************************************************************************)
(* performComplete, markMissed and cancel decide from the status and the   *)
(* visits they read, and then update the patrol by its id.                 *)
(***************************************************************************)
Finishes(h, op, p, s) ==
  /\ s \in PatrolMoves[patrol[p].status]
  /\ Becomes(h, [Idle EXCEPT !.op = op, !.step = "write", !.patrol = p, !.next = s,
                             !.completed = CompletedCheckpoints(visits[p])])
  /\ UNCHANGED <<patrol, visits>>

CompleteRead_AnyProgress(h) ==     \* slip: one completed checkpoint is enough
  /\ Reads(h, "complete")
  /\ \E p \in Patrols :
       /\ CompletedCheckpoints(visits[p]) > 0
       /\ Finishes(h, "complete", p, "COMPLETED")

(* Partial completion needs a final note; without one it is refused. *)
CompleteRead(h) ==
  /\ Reads(h, "complete")
  /\ \E p \in Patrols :
       /\ CompletedCheckpoints(visits[p]) > 0
       /\ Finishes(h, "complete", p,
            IF AllRequiredComplete(visits[p]) THEN "COMPLETED"
                                              ELSE "PARTIALLY_COMPLETED")

MissRead(h) ==
  /\ Reads(h, "miss")
  /\ \E p \in Patrols :
       /\ "MISSED" \in PatrolMoves[patrol[p].status]
       /\ Finishes(h, "miss", p,
            IF CompletedCheckpoints(visits[p]) > 0 THEN "PARTIALLY_COMPLETED"
                                                   ELSE "MISSED")

CancelRead(h) ==
  /\ Reads(h, "cancel")
  /\ \E p \in Patrols : Finishes(h, "cancel", p, "CANCELLED")

FinishWrite(h) ==
  /\ \E op \in {"complete", "miss"} : At(h, op, "write")
  /\ patrol' = [patrol EXCEPT ![job[h].patrol] =
                  [status |-> job[h].next, completed |-> job[h].completed]]
  /\ Ends(h)
  /\ UNCHANGED visits

(* Starting and cancelling write the status and not the counter. *)
StatusWrite(h) ==
  /\ \E op \in {"start", "cancel"} : At(h, op, "write")
  /\ patrol' = [patrol EXCEPT ![job[h].patrol] = WithStatus(job[h].patrol, job[h].next)]
  /\ Ends(h)
  /\ UNCHANGED visits

Next ==
  \E h \in Handlers :
    \/ CreateRead(h) \/ CreateWrite(h)
    \/ StartRead(h) \/ StatusWrite(h)
    \/ VisitRead(h) \/ VisitSees(h) \/ VisitLost(h) \/ VisitCommit(h)
    \/ ReviewRead(h) \/ ReviewSees(h) \/ ReviewCommit(h)
    \/ CompleteRead(h) \/ MissRead(h) \/ FinishWrite(h)
    \/ CancelRead(h)

Spec == Init /\ [][Next]_vars

-----------------------------------------------------------------------------
(* On a sequential route the visited checkpoints are the first ones of the *)
(* route, however visits from several devices, reviews and completions     *)
(* overlap: performVisit decides from progress read before its transaction.*)
InOrder ==
  Sequential =>
    \A p \in Patrols : \A c, d \in Checkpoints :
      visits[p][c] # "ABSENT" /\ d < c => visits[p][d] # "ABSENT"

(* A patrol is COMPLETED only once each of its checkpoints was visited,    *)
(* PARTIALLY_COMPLETED only once one was, whatever overlaps performComplete*)
(* and markMissed.                                                         *)
FinishedOnVisits ==
  \A p \in Patrols :
    /\ patrol[p].status = "COMPLETED" =>
         \A c \in Checkpoints : visits[p][c] # "ABSENT"
    /\ patrol[p].status = "PARTIALLY_COMPLETED" =>
         \E c \in Checkpoints : visits[p][c] # "ABSENT"

(* The visits a patrol has, in their order and at its end.                 *)
VisitedHonestly == InOrder /\ FinishedOnVisits

(* completedCheckpointCount is the number of completed visits, after any   *)
(* sequence of visits, reviews, completions and cancellations.             *)
CountExact ==
  \A p \in Patrols : patrol[p].completed = CompletedCheckpoints(visits[p])

(* A patrol waits for review while a visit of it does, and is in progress  *)
(* only while none does.                                                   *)
ReviewStatusExact ==
  \A p \in Patrols :
    /\ patrol[p].status = "REQUIRES_REVIEW" => ReviewRequired(visits[p])
    /\ patrol[p].status = "IN_PROGRESS" => ~ReviewRequired(visits[p])

(* What a patrol shows of its visits: their number, and if one waits.      *)
VisitsShown == CountExact /\ ReviewStatusExact

(* A route has one active patrol per shift assignment, whatever became of  *)
(* the earlier ones.                                                       *)
NoDuplicateActive ==
  \A p, q \in Patrols :
    patrol[p].status \in ActivePatrol /\ patrol[q].status \in ActivePatrol => p = q

-----------------------------------------------------------------------------
(* The inductive invariant: what a handler has read stays good enough,     *)
(* because a visit is never removed.                                       *)

VisitedBefore(p, c) == \A d \in Checkpoints : d < c => visits[p][d] # "ABSENT"

JobOf(j) ==
  /\ j.op \in {"start", "visit", "review", "complete", "miss", "cancel"}
       => j.patrol \in Patrols
  /\ j.op \in {"visit", "review"} => j.cp \in Checkpoints
  /\ j.op = "visit" /\ Sequential => VisitedBefore(j.patrol, j.cp)
  /\ j.op = "review" => visits[j.patrol][j.cp] # "ABSENT"
  /\ j.op \in {"visit", "review"} /\ j.step = "commit" =>
       j.next \in VisitStatuses \ {"ABSENT"}
  /\ j.op = "review" => j.next \in Done
  /\ j.op \in {"start", "cancel"} => j.next \in {"IN_PROGRESS", "CANCELLED"}
  /\ j.op \in {"complete", "miss"} =>
       /\ j.next \in PatrolStatuses
       /\ j.next = "COMPLETED" =>
            \A c \in Checkpoints : visits[j.patrol][c] # "ABSENT"
       /\ j.next = "PARTIALLY_COMPLETED" =>
            \E c \in Checkpoints : visits[j.patrol][c] # "ABSENT"

IInv ==
  TypeOK /\ (\A h \in Handlers : JobOf(job[h])) /\ InOrder /\ FinishedOnVisits
=============================================================================
