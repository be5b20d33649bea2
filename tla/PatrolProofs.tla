---------------------------- MODULE PatrolProofs ----------------------------
(***************************************************************************)
(* Proofs about Patrol, and about the operations of one that a device      *)
(* recorded offline (Sync).                                                *)
(*                                                                         *)
(* Patrol: visits are never removed (VisitsKept), so what a handler has    *)
(* read of them stays good: a step either only reads (ReadStep), or writes *)
(* rows and ends (WriteStep).                                              *)
(*                                                                         *)
(* Sync: what was done stays done and who came has come (SyncGrows), so    *)
(* what the requests that do not move have found out stays so: each action *)
(* is left with its own request, the records and the counts (SyncKept).    *)
(***************************************************************************)
EXTENDS MCPatrol, Sync, FiniteSetTheorems, TLAPS

USE NoPatrolAssumption, LastCheckpointAssumption, MayAssumption, RouteAssumption

LEMMA Statuses ==
  /\ PatrolStatuses = {"NOT_STARTED", "IN_PROGRESS", "REQUIRES_REVIEW", "COMPLETED",
       "PARTIALLY_COMPLETED", "CANCELLED", "MISSED", "ABSENT"}
  /\ \A s \in PatrolStatuses : PatrolMoves[s] \subseteq PatrolStatuses
  BY DEF PatrolStatuses, PatrolMoves

(* A patrol's counter is at most the number of its checkpoints. *)
LEMMA Counted ==
  ASSUME NEW v PROVE CompletedCheckpoints(v) \in 0 .. LastCheckpoint
<1> DEFINE S == VisitsWith(v, {"COMPLETED"})
<1>1. IsFiniteSet(Checkpoints) /\ Cardinality(Checkpoints) = LastCheckpoint
  BY FS_Interval DEF Checkpoints
<1>2. S \subseteq Checkpoints
  BY DEF VisitsWith
<1>3. Cardinality(S) \in Nat /\ Cardinality(S) <= LastCheckpoint
  BY <1>1, <1>2, FS_Subset, FS_CardinalityType
<1> QED BY <1>3 DEF CompletedCheckpoints

LEMMA IdleJob == Idle \in Job /\ JobOf(Idle)
  BY Statuses DEF Idle, Job, JobOf, VisitStatuses

VisitsKept ==
  \A p \in Patrols, c \in Checkpoints :
    visits[p][c] # "ABSENT" => visits'[p][c] # "ABSENT"

(* Under VisitsKept what any handler has read stays as good as it was. *)
LEMMA JobsKept ==
  ASSUME VisitsKept, NEW j \in Job, JobOf(j)
  PROVE  JobOf(j)'
  BY DEF VisitsKept, JobOf, VisitedBefore

LEMMA JobStep ==
  ASSUME TypeOK, \A g \in Handlers : JobOf(job[g]), VisitsKept,
         NEW h \in Handlers, NEW j \in Job, JobOf(j), Becomes(h, j)
  PROVE  job' \in [Handlers -> Job] /\ \A g \in Handlers : JobOf(job[g])'
<1>1. job' \in [Handlers -> Job]
  BY DEF TypeOK, Becomes
<1>2. ASSUME NEW g \in Handlers PROVE JobOf(job[g])'
  <2>1. PICK i \in Job : job'[g] = i /\ JobOf(i)
    BY DEF TypeOK, Becomes
  <2>2. JobOf(i)'
    BY <2>1, JobsKept
  <2> QED BY <2>1, <2>2 DEF JobOf, VisitedBefore
<1> QED BY <1>1, <1>2

LEMMA ReadStep ==
  ASSUME IInv, NEW h \in Handlers, NEW j \in Job, JobOf(j), Becomes(h, j),
         UNCHANGED <<patrol, visits>>
  PROVE  IInv'
<1>1. VisitsKept
  BY DEF VisitsKept
<1>2. job' \in [Handlers -> Job] /\ \A g \in Handlers : JobOf(job[g])'
  BY <1>1, JobStep DEF IInv
<1> QED BY <1>2 DEF IInv, TypeOK, InOrder, FinishedOnVisits

LEMMA WriteStep ==
  ASSUME IInv, NEW h \in Handlers, Ends(h), VisitsKept,
         patrol' \in [Patrols -> PatrolRow],
         visits' \in [Patrols -> [Checkpoints -> VisitStatuses]],
         InOrder', FinishedOnVisits'
  PROVE  IInv'
<1>1. job' \in [Handlers -> Job] /\ \A g \in Handlers : JobOf(job[g])'
  BY JobStep, IdleJob DEF IInv, Ends
<1> QED BY <1>1 DEF IInv, TypeOK

-----------------------------------------------------------------------------
(* The steps that read. *)

LEMMA CreateReads ==
  ASSUME IInv, NEW h \in Handlers, CreateRead(h) PROVE IInv'
<1> DEFINE j == [Idle EXCEPT !.op = "create", !.step = "write"]
<1>1. j \in Job /\ JobOf(j)
  BY IdleJob DEF Idle, Job, JobOf, Operations
<1> QED BY <1>1, ReadStep DEF CreateRead

LEMMA StartReads ==
  ASSUME IInv, NEW h \in Handlers, StartRead(h) PROVE IInv'
<1>1. PICK p \in Patrols :
        Becomes(h, [Idle EXCEPT !.op = "start", !.step = "write", !.patrol = p,
                                !.next = "IN_PROGRESS"])
  BY DEF StartRead
<1> DEFINE j == [Idle EXCEPT !.op = "start", !.step = "write", !.patrol = p,
                             !.next = "IN_PROGRESS"]
<1>2. j \in Job
  BY IdleJob, Statuses DEF Idle, Job, Operations
<1>3. JobOf(j)
  BY DEF Idle, JobOf
<1> QED BY <1>1, <1>2, <1>3, ReadStep DEF StartRead

(* When nothing is pending every checkpoint was visited. *)
LEMMA VisitReads ==
  ASSUME IInv, NEW h \in Handlers, VisitRead(h) PROVE IInv'
<1>1. PICK p \in Patrols, c \in Checkpoints :
        /\ Sequential => IsNext(visits[p], c) \/ NoneNext(visits[p])
        /\ Becomes(h, [Idle EXCEPT !.op = "visit", !.step = "write", !.patrol = p,
                         !.cp = c, !.exists = visits[p][c] # "ABSENT"])
  BY DEF VisitRead
<1> DEFINE j == [Idle EXCEPT !.op = "visit", !.step = "write", !.patrol = p,
                             !.cp = c, !.exists = visits[p][c] # "ABSENT"]
<1>2. j \in Job
  BY IdleJob DEF Idle, Job, Operations
<1>3. Sequential => VisitedBefore(p, c)
  BY <1>1 DEF IsNext, NoneNext, VisitsWith, VisitedBefore, Done
<1>4. JobOf(j)
  BY <1>3 DEF Idle, JobOf
<1> QED BY <1>1, <1>2, <1>4, ReadStep DEF VisitRead

LEMMA ReviewReads ==
  ASSUME IInv, NEW h \in Handlers, ReviewRead(h) PROVE IInv'
<1>1. PICK p \in Patrols, c \in Checkpoints, s \in Done :
        /\ visits[p][c] # "ABSENT"
        /\ Becomes(h, [Idle EXCEPT !.op = "review", !.step = "write", !.patrol = p,
                         !.cp = c, !.seen = patrol[p].status, !.next = s])
  BY DEF ReviewRead
<1> DEFINE j == [Idle EXCEPT !.op = "review", !.step = "write", !.patrol = p,
                             !.cp = c, !.seen = patrol[p].status, !.next = s]
<1>2. j \in Job
  BY IdleJob DEF Idle, Job, Operations, IInv, TypeOK, PatrolRow, Done, VisitStatuses
<1>3. JobOf(j)
  BY <1>1 DEF Idle, JobOf
<1> QED BY <1>1, <1>2, <1>3, ReadStep DEF ReviewRead

LEMMA SeesStep ==
  ASSUME IInv, NEW h \in Handlers, NEW s \in VisitStatuses \ {"ABSENT"}, Sees(h, s),
         job[h].op = "visit" \/ (job[h].op = "review" /\ s = job[h].next),
         UNCHANGED <<patrol, visits>>
  PROVE  IInv'
<1> DEFINE v == [visits[job[h].patrol] EXCEPT ![job[h].cp] = s]
           k == CompletedCheckpoints(v)
           r == ReviewRequired(v)
           j == [job[h] EXCEPT !.step = "commit", !.next = s,
                               !.completed = k, !.review = r]
<1>1. job[h] \in Job /\ JobOf(job[h])
  BY DEF IInv, TypeOK
<1>2. k \in 0 .. LastCheckpoint
  BY Counted
<1>3. r \in BOOLEAN
  BY DEF ReviewRequired
<1>4. Becomes(h, j)
  BY DEF Sees
<1> HIDE DEF k, r, v
<1>5. j \in Job
  BY <1>1, <1>2, <1>3 DEF Job
<1>6. JobOf(j)
  BY <1>1 DEF Job, JobOf
<1> QED BY <1>4, <1>5, <1>6, ReadStep

LEMMA FinishesStep ==
  ASSUME IInv, NEW h \in Handlers, NEW op \in {"complete", "miss", "cancel"},
         NEW p \in Patrols, NEW s, Finishes(h, op, p, s),
         op = "cancel" => s = "CANCELLED",
         s = "COMPLETED" => \A c \in Checkpoints : visits[p][c] # "ABSENT",
         s = "PARTIALLY_COMPLETED" => \E c \in Checkpoints : visits[p][c] # "ABSENT"
  PROVE  IInv'
<1> DEFINE k == CompletedCheckpoints(visits[p])
           j == [Idle EXCEPT !.op = op, !.step = "write", !.patrol = p, !.next = s,
                             !.completed = k]
<1>1. s \in PatrolStatuses
  BY Statuses DEF Finishes, IInv, TypeOK, PatrolRow
<1>2. k \in 0 .. LastCheckpoint
  BY Counted
<1>3. Becomes(h, j) /\ UNCHANGED <<patrol, visits>>
  BY DEF Finishes
<1> HIDE DEF k
<1>4. j \in Job
  BY <1>1, <1>2, IdleJob DEF Idle, Job, Operations
<1>5. JobOf(j)
  BY <1>1 DEF Idle, JobOf
<1> QED BY <1>3, <1>4, <1>5, ReadStep

(* A counter above zero is a visit that was completed. *)
LEMMA SomeVisited ==
  ASSUME NEW v, CompletedCheckpoints(v) > 0
  PROVE  \E c \in Checkpoints : v[c] # "ABSENT"
<1>1. VisitsWith(v, {"COMPLETED"}) # {}
  BY FS_EmptySet DEF CompletedCheckpoints
<1> QED BY <1>1 DEF VisitsWith

LEMMA FinishReads ==
  ASSUME IInv, NEW h \in Handlers, CompleteRead(h) \/ MissRead(h) \/ CancelRead(h)
  PROVE  IInv'
<1>1. CASE CompleteRead(h)
  <2>1. PICK p \in Patrols :
          /\ CompletedCheckpoints(visits[p]) > 0
          /\ Finishes(h, "complete", p,
               IF AllRequiredComplete(visits[p]) THEN "COMPLETED"
                                                 ELSE "PARTIALLY_COMPLETED")
    BY <1>1 DEF CompleteRead
  <2>2. \E c \in Checkpoints : visits[p][c] # "ABSENT"
    BY <2>1, SomeVisited
  <2>3. AllRequiredComplete(visits[p]) =>
          \A c \in Checkpoints : visits[p][c] # "ABSENT"
    BY DEF AllRequiredComplete, VisitsWith
  <2>4. CASE AllRequiredComplete(visits[p])
    BY <2>1, <2>3, <2>4, FinishesStep
  <2>5. CASE ~AllRequiredComplete(visits[p])
    BY <2>1, <2>2, <2>5, FinishesStep
  <2> QED BY <2>4, <2>5
<1>2. CASE MissRead(h)
  <2>1. PICK p \in Patrols :
          Finishes(h, "miss", p,
            IF CompletedCheckpoints(visits[p]) > 0 THEN "PARTIALLY_COMPLETED"
                                                   ELSE "MISSED")
    BY <1>2 DEF MissRead
  <2>2. CASE CompletedCheckpoints(visits[p]) > 0
    BY <2>1, <2>2, SomeVisited, FinishesStep
  <2>3. CASE ~(CompletedCheckpoints(visits[p]) > 0)
    BY <2>1, <2>3, FinishesStep
  <2> QED BY <2>2, <2>3
<1>3. CASE CancelRead(h)
  BY <1>3, FinishesStep DEF CancelRead
<1> QED BY <1>1, <1>2, <1>3

-----------------------------------------------------------------------------
(* The steps that write. *)

(* Writes of a patrol's row alone. *)
LEMMA PatrolWrite ==
  ASSUME IInv, NEW h \in Handlers, Ends(h), NEW p \in Patrols, NEW r \in PatrolRow,
         patrol' = [patrol EXCEPT ![p] = r], UNCHANGED visits,
         r.status = "COMPLETED" => \A c \in Checkpoints : visits[p][c] # "ABSENT",
         r.status = "PARTIALLY_COMPLETED" =>
           \E c \in Checkpoints : visits[p][c] # "ABSENT"
  PROVE  IInv'
<1>1. VisitsKept
  BY DEF VisitsKept
<1>2. patrol' \in [Patrols -> PatrolRow]
  BY DEF IInv, TypeOK
<1>3. FinishedOnVisits'
  BY DEF IInv, TypeOK, FinishedOnVisits
<1>4. InOrder'
  BY DEF IInv, InOrder
<1>5. visits' \in [Patrols -> [Checkpoints -> VisitStatuses]]
  BY DEF IInv, TypeOK
<1> QED BY <1>1, <1>2, <1>3, <1>4, <1>5, WriteStep

LEMMA StatusWrites ==
  ASSUME IInv, NEW h \in Handlers, CreateWrite(h) \/ StatusWrite(h) \/ FinishWrite(h)
  PROVE  IInv'
<1>1. job[h] \in Job /\ JobOf(job[h])
  BY DEF IInv, TypeOK
<1>2. \A p \in Patrols : patrol[p].completed \in 0 .. LastCheckpoint
  BY DEF IInv, TypeOK, PatrolRow
<1>3. CASE CreateWrite(h)
  <2>1. PICK p \in Patrols : patrol' = [patrol EXCEPT ![p] = WithStatus(p, "NOT_STARTED")]
    BY <1>3 DEF CreateWrite
  <2>2. WithStatus(p, "NOT_STARTED") \in PatrolRow
    BY <1>2, Statuses DEF WithStatus, PatrolRow
  <2> QED BY <1>3, <2>1, <2>2, PatrolWrite DEF CreateWrite, WithStatus
<1>4. CASE StatusWrite(h)
  <2>1. /\ job[h].patrol \in Patrols
        /\ job[h].next \in {"IN_PROGRESS", "CANCELLED"}
    BY <1>1, <1>4 DEF StatusWrite, At, JobOf
  <2>2. WithStatus(job[h].patrol, job[h].next) \in PatrolRow
    BY <1>2, <2>1, Statuses DEF WithStatus, PatrolRow
  <2> QED BY <1>4, <2>1, <2>2, PatrolWrite DEF StatusWrite, WithStatus
<1>5. CASE FinishWrite(h)
  <2> DEFINE r == [status |-> job[h].next, completed |-> job[h].completed]
  <2>1. /\ job[h].patrol \in Patrols
        /\ job[h].next \in PatrolStatuses
        /\ job[h].next = "COMPLETED" =>
             \A c \in Checkpoints : visits[job[h].patrol][c] # "ABSENT"
        /\ job[h].next = "PARTIALLY_COMPLETED" =>
             \E c \in Checkpoints : visits[job[h].patrol][c] # "ABSENT"
    BY <1>1, <1>5 DEF FinishWrite, At, JobOf
  <2>2. r \in PatrolRow
    BY <1>1, <2>1 DEF PatrolRow, Job
  <2> QED BY <1>5, <2>1, <2>2, PatrolWrite DEF FinishWrite
<1> QED BY <1>3, <1>4, <1>5

(* Writes of a visit, with the patrol's counter and perhaps its status. *)
LEMMA VisitWrite ==
  ASSUME IInv, NEW h \in Handlers, Ends(h), job[h].op \in {"visit", "review"},
         job[h].step = "commit", NEW s \in PatrolStatuses,
         s \in {"IN_PROGRESS", "REQUIRES_REVIEW", patrol[job[h].patrol].status},
         visits' = [visits EXCEPT ![job[h].patrol][job[h].cp] = job[h].next],
         patrol' = [patrol EXCEPT ![job[h].patrol] =
                      [status |-> s, completed |-> job[h].completed]]
  PROVE  IInv'
<1> DEFINE p == job[h].patrol
           c == job[h].cp
<1>1. job[h] \in Job /\ JobOf(job[h])
  BY DEF IInv, TypeOK
<1>2. /\ p \in Patrols /\ c \in Checkpoints
      /\ job[h].next \in VisitStatuses \ {"ABSENT"}
      /\ Sequential => VisitedBefore(p, c) \/ visits[p][c] # "ABSENT"
      /\ job[h].completed \in 0 .. LastCheckpoint
  BY <1>1 DEF JobOf, Job
<1>3. visits' \in [Patrols -> [Checkpoints -> VisitStatuses]]
  BY <1>2 DEF IInv, TypeOK
<1>4. [status |-> s, completed |-> job[h].completed] \in PatrolRow
  BY <1>2 DEF PatrolRow
<1>5. patrol' \in [Patrols -> PatrolRow]
  BY <1>2, <1>4 DEF IInv, TypeOK
<1>6. \A q \in Patrols, d \in Checkpoints :
        /\ visits'[q][d] # "ABSENT" <=>
             visits[q][d] # "ABSENT" \/ (q = p /\ d = c)
  BY <1>2 DEF IInv, TypeOK
<1>7. VisitsKept
  BY <1>6 DEF VisitsKept
<1>8. InOrder'
  <2> SUFFICES ASSUME Sequential, NEW q \in Patrols, NEW d \in Checkpoints,
                      NEW e \in Checkpoints, visits'[q][d] # "ABSENT", e < d
               PROVE  visits'[q][e] # "ABSENT"
    BY DEF InOrder
  <2>1. CASE visits[q][d] # "ABSENT"
    BY <2>1, <1>6 DEF IInv, InOrder
  <2>2. CASE q = p /\ d = c
    BY <2>2, <1>2, <1>6 DEF IInv, InOrder, VisitedBefore
  <2> QED BY <2>1, <2>2, <1>6
<1>9. \A q \in Patrols :
        patrol'[q].status \in {"IN_PROGRESS", "REQUIRES_REVIEW", patrol[q].status}
  BY <1>2 DEF IInv, TypeOK
<1>10. FinishedOnVisits'
  BY <1>6, <1>9 DEF IInv, FinishedOnVisits
<1> QED BY <1>3, <1>5, <1>7, <1>8, <1>10, WriteStep

LEMMA VisitSteps ==
  ASSUME IInv, NEW h \in Handlers,
         VisitSees(h) \/ VisitLost(h) \/ VisitCommit(h) \/ ReviewSees(h) \/ ReviewCommit(h)
  PROVE  IInv'
<1>1. job[h] \in Job /\ JobOf(job[h])
  BY DEF IInv, TypeOK
<1>2. CASE VisitSees(h)
  <2>1. job[h].op = "visit" /\ UNCHANGED <<patrol, visits>>
    BY <1>2 DEF VisitSees, At
  <2>2. \E s \in VisitStatuses \ {"ABSENT"} : Sees(h, s)
    BY <1>2 DEF VisitSees, VisitStatuses
  <2> QED BY <2>1, <2>2, SeesStep
<1>3. CASE VisitLost(h)
  BY <1>3, ReadStep, IdleJob DEF VisitLost, Ends
<1>4. CASE ReviewSees(h)
  <2>1. job[h].op = "review" /\ job[h].next \in Done
    BY <1>1, <1>4 DEF ReviewSees, At, JobOf
  <2>2. job[h].next \in VisitStatuses \ {"ABSENT"}
    BY <2>1 DEF Done, VisitStatuses
  <2> QED BY <1>4, <2>1, <2>2, SeesStep DEF ReviewSees
<1>5. job[h].op \in {"visit", "review"} => patrol[job[h].patrol].status \in PatrolStatuses
  BY <1>1 DEF JobOf, IInv, TypeOK, PatrolRow
<1>6. CASE VisitCommit(h)
  <2> DEFINE s == IF job[h].review THEN "REQUIRES_REVIEW"
                                   ELSE patrol[job[h].patrol].status
  <2>1. /\ s \in PatrolStatuses
        /\ s \in {"IN_PROGRESS", "REQUIRES_REVIEW", patrol[job[h].patrol].status}
    BY <1>5, <1>6, Statuses DEF VisitCommit, At
  <2> QED BY <1>6, <2>1, VisitWrite DEF VisitCommit, At
<1>7. CASE ReviewCommit(h)
  <2> DEFINE s == IF job[h].seen = "REQUIRES_REVIEW" /\ ~job[h].review
                    THEN "IN_PROGRESS" ELSE patrol[job[h].patrol].status
  <2>1. /\ s \in PatrolStatuses
        /\ s \in {"IN_PROGRESS", "REQUIRES_REVIEW", patrol[job[h].patrol].status}
    BY <1>5, <1>7, Statuses DEF ReviewCommit, At
  <2> QED BY <1>7, <2>1, VisitWrite DEF ReviewCommit, At
<1> QED BY <1>2, <1>3, <1>4, <1>6, <1>7

-----------------------------------------------------------------------------
(* What no handler does changes nothing that the invariant speaks of. *)
LEMMA Stutter == ASSUME IInv, UNCHANGED vars PROVE IInv'
  BY DEF vars, IInv, TypeOK, JobOf, VisitedBefore, InOrder, FinishedOnVisits

LEMMA InitInv == Init => IInv
<1> SUFFICES ASSUME Init PROVE IInv
  OBVIOUS
<1>1. NoRow \in PatrolRow
  BY Statuses DEF NoRow, PatrolRow
<1>2. TypeOK
  BY <1>1, IdleJob DEF Init, TypeOK, VisitStatuses
<1>3. \A h \in Handlers : JobOf(job[h])
  BY IdleJob DEF Init
<1>4. InOrder /\ FinishedOnVisits
  BY DEF Init, InOrder, FinishedOnVisits, NoRow
<1> QED BY <1>2, <1>3, <1>4 DEF IInv

LEMMA NextInv == IInv /\ [Next]_vars => IInv'
<1> SUFFICES ASSUME IInv, Next PROVE IInv'
  BY Stutter
<1>1. PICK h \in Handlers :
        \/ CreateRead(h) \/ CreateWrite(h)
        \/ StartRead(h) \/ StatusWrite(h)
        \/ VisitRead(h) \/ VisitSees(h) \/ VisitLost(h) \/ VisitCommit(h)
        \/ ReviewRead(h) \/ ReviewSees(h) \/ ReviewCommit(h)
        \/ CompleteRead(h) \/ MissRead(h) \/ FinishWrite(h)
        \/ CancelRead(h)
  BY DEF Next
<1>2. CASE CreateRead(h) \/ StartRead(h) \/ VisitRead(h) \/ ReviewRead(h)
  BY <1>2, CreateReads, StartReads, VisitReads, ReviewReads
<1>3. CASE CompleteRead(h) \/ MissRead(h) \/ CancelRead(h)
  BY <1>3, FinishReads
<1>4. CASE CreateWrite(h) \/ StatusWrite(h) \/ FinishWrite(h)
  BY <1>4, StatusWrites
<1>5. CASE VisitSees(h) \/ VisitLost(h) \/ VisitCommit(h) \/ ReviewSees(h) \/ ReviewCommit(h)
  BY <1>5, VisitSteps
<1> QED BY <1>1, <1>2, <1>3, <1>4, <1>5

(* IInv is an invariant of any number of patrols, checkpoints, devices and *)
(* supervisors, on sequential routes and others.                           *)
THEOREM Inductive == Spec => []IInv
  BY InitInv, NextInv, PTL DEF Spec

(* Types: among them, that a counter never exceeds the checkpoints. *)
THEOREM TypeCorrect == Spec => []TypeOK
<1>1. IInv => TypeOK
  BY DEF IInv
<1> QED BY <1>1, Inductive, PTL

(* On a sequential route no checkpoint is visited before an earlier one,   *)
(* although performVisit decides it before its transaction begins.         *)
THEOREM VisitedInOrder == Spec => []InOrder
<1>1. IInv => InOrder
  BY DEF IInv
<1> QED BY <1>1, Inductive, PTL

(* A patrol is finished on the visits that its status claims, whatever     *)
(* overlaps performComplete and markMissed.                                *)
THEOREM FinishedHonestly == Spec => []FinishedOnVisits
<1>1. IInv => FinishedOnVisits
  BY DEF IInv
<1> QED BY <1>1, Inductive, PTL

(* The two together: the visits of a patrol, in their order and at its end.*)
THEOREM VisitsHonest == Spec => []VisitedHonestly
<1> QED BY VisitedInOrder, FinishedHonestly, PTL DEF VisitedHonestly

-----------------------------------------------------------------------------
(* Requests that are handled one after another. *)
Blank == \A p \in Patrols : patrol[p].status \in {"ABSENT", "NOT_STARTED"} =>
           \A c \in Checkpoints : visits[p][c] = "ABSENT"

Shown == Blank /\ VisitsShown /\ NoDuplicateActive

LEMMA ShownKept == ASSUME Shown, UNCHANGED <<patrol, visits>> PROVE Shown'
  BY DEF Shown, Blank, VisitsShown, CountExact, ReviewStatusExact, NoDuplicateActive

LEMMA IdleCurrent == \A j : j.op = "idle" => Current(j)
  BY DEF Current

LEMMA Startable ==
  \A s \in PatrolStatuses : "IN_PROGRESS" \in PatrolMoves[s] => s = "NOT_STARTED"
  BY Statuses DEF PatrolMoves

(* What is read is so, as the patrol and its visits stay for the read.     *)
LEMMA FirstRead ==
  ASSUME IInv, NEW h \in Handlers,
         \/ CreateRead(h) \/ StartRead(h) \/ VisitRead(h) \/ ReviewRead(h)
         \/ CompleteRead(h) \/ MissRead(h) \/ CancelRead(h)
  PROVE  Current(job[h])' /\ UNCHANGED <<patrol, visits>>
<1>u. UNCHANGED <<patrol, visits>>
  BY DEF CreateRead, StartRead, VisitRead, ReviewRead, CompleteRead, MissRead, CancelRead,
         Finishes
<1>k. \A p : CompletedCheckpoints(visits[p])' = CompletedCheckpoints(visits[p])
  BY <1>u DEF CompletedCheckpoints, VisitsWith
<1> SUFFICES Current(job[h])'
  BY <1>u
<1>1. CASE CreateRead(h)
  <2>1. job'[h] = [Idle EXCEPT !.op = "create", !.step = "write"]
    BY <1>1 DEF CreateRead, Becomes, IInv, TypeOK
  <2> QED BY <1>1, <1>u, <2>1 DEF CreateRead, Current, Idle
<1>2. CASE StartRead(h)
  <2>1. PICK p \in Patrols :
          /\ "IN_PROGRESS" \in PatrolMoves[patrol[p].status]
          /\ job'[h] = [Idle EXCEPT !.op = "start", !.step = "write", !.patrol = p,
                                    !.next = "IN_PROGRESS"]
    BY <1>2 DEF StartRead, Becomes, IInv, TypeOK
  <2>2. patrol[p].status = "NOT_STARTED"
    BY <2>1, Startable DEF IInv, TypeOK, PatrolRow
  <2> QED BY <1>u, <2>1, <2>2 DEF Current, Idle
<1>3. CASE VisitRead(h)
  <2>1. PICK p \in Patrols, c \in Checkpoints :
          /\ patrol[p].status = "IN_PROGRESS"
          /\ Becomes(h, [Idle EXCEPT !.op = "visit", !.step = "write", !.patrol = p,
                                     !.cp = c, !.exists = visits[p][c] # "ABSENT"])
    BY <1>3 DEF VisitRead
  <2> DEFINE x == visits[p][c] # "ABSENT"
  <2>2. PICK e : e = x
    OBVIOUS
  <2>3. job'[h] = [Idle EXCEPT !.op = "visit", !.step = "write", !.patrol = p,
                               !.cp = c, !.exists = e]
    BY <2>1, <2>2 DEF Becomes, IInv, TypeOK
  <2>4. job'[h].op = "visit" /\ job'[h].patrol = p /\ job'[h].step = "write"
    BY <2>3 DEF Idle
  <2> QED BY <1>u, <2>1, <2>4 DEF Current
<1>4. CASE ReviewRead(h)
  <2>1. PICK p \in Patrols, c \in Checkpoints, s \in Done :
          Becomes(h, [Idle EXCEPT !.op = "review", !.step = "write", !.patrol = p,
                                  !.cp = c, !.seen = patrol[p].status, !.next = s])
    BY <1>4 DEF ReviewRead
  <2>2. /\ job'[h].op = "review" /\ job'[h].patrol = p /\ job'[h].step = "write"
        /\ job'[h].seen = patrol[p].status
    BY <2>1 DEF Idle, Becomes, IInv, TypeOK
  <2> QED BY <1>u, <2>2 DEF Current
<1>5. ASSUME NEW op \in {"complete", "miss", "cancel"}, NEW p \in Patrols,
             NEW s \in {"COMPLETED", "PARTIALLY_COMPLETED", "MISSED", "CANCELLED"},
             Finishes(h, op, p, s), s = "CANCELLED" <=> op = "cancel"
      PROVE  Current(job[h])'
  <2> DEFINE k == CompletedCheckpoints(visits[p])
  <2>1. job'[h] = [Idle EXCEPT !.op = op, !.step = "write", !.patrol = p, !.next = s,
                               !.completed = k]
    BY <1>5 DEF Finishes, Becomes, IInv, TypeOK
  <2>2. /\ job'[h].op = op /\ job'[h].patrol = p /\ job'[h].next = s
        /\ job'[h].step = "write" /\ job'[h].completed = k
    <3> HIDE DEF k
    <3> QED BY <2>1 DEF Idle
  <2> QED BY <1>5, <1>k, <1>u, <2>2 DEF Current
<1>6. CASE CompleteRead(h)
  <2>1. PICK p \in Patrols :
          Finishes(h, "complete", p,
            IF AllRequiredComplete(visits[p]) THEN "COMPLETED" ELSE "PARTIALLY_COMPLETED")
    BY <1>6 DEF CompleteRead
  <2>2. CASE AllRequiredComplete(visits[p])
    BY <1>5, <2>1, <2>2
  <2>3. CASE ~AllRequiredComplete(visits[p])
    BY <1>5, <2>1, <2>3
  <2> QED BY <2>2, <2>3
<1>7. CASE MissRead(h)
  <2>1. PICK p \in Patrols :
          Finishes(h, "miss", p,
            IF CompletedCheckpoints(visits[p]) > 0 THEN "PARTIALLY_COMPLETED" ELSE "MISSED")
    BY <1>7 DEF MissRead
  <2>2. CASE CompletedCheckpoints(visits[p]) > 0
    BY <1>5, <2>1, <2>2
  <2>3. CASE ~(CompletedCheckpoints(visits[p]) > 0)
    BY <1>5, <2>1, <2>3
  <2> QED BY <2>2, <2>3
<1>8. CASE CancelRead(h)
  <2>1. PICK p \in Patrols : Finishes(h, "cancel", p, "CANCELLED")
    BY <1>8 DEF CancelRead
  <2> QED BY <1>5, <2>1
<1> QED BY <1>u, <1>1, <1>2, <1>3, <1>4, <1>6, <1>7, <1>8

LEMMA FirstBusy ==
  ASSUME IInv, NEW h \in Handlers,
         \/ CreateRead(h) \/ StartRead(h) \/ VisitRead(h) \/ ReviewRead(h)
         \/ CompleteRead(h) \/ MissRead(h) \/ CancelRead(h)
  PROVE  job'[h].op # "idle"
<1>j. job \in [Handlers -> Job]
  BY DEF IInv, TypeOK
<1>1. job'[h].op # "idle"
  <2>1. CASE CreateRead(h)
    BY <1>j, <2>1 DEF CreateRead, Becomes, Idle
  <2>7. CASE StartRead(h)
    <3>1. PICK p \in Patrols :
            Becomes(h, [Idle EXCEPT !.op = "start", !.step = "write", !.patrol = p,
                                    !.next = "IN_PROGRESS"])
      BY <2>7 DEF StartRead
    <3> QED BY <1>j, <3>1 DEF Becomes, Idle
  <2>2. CASE VisitRead(h)
    <3>1. PICK p \in Patrols, c \in Checkpoints :
            Becomes(h, [Idle EXCEPT !.op = "visit", !.step = "write", !.patrol = p,
                                    !.cp = c, !.exists = visits[p][c] # "ABSENT"])
      BY <2>2 DEF VisitRead
    <3>2. PICK e : e = (visits[p][c] # "ABSENT")
      OBVIOUS
    <3>3. Becomes(h, [Idle EXCEPT !.op = "visit", !.step = "write", !.patrol = p,
                                  !.cp = c, !.exists = e])
      BY <3>1, <3>2 DEF Becomes
    <3> QED BY <1>j, <3>3 DEF Becomes, Idle
  <2>3. CASE ReviewRead(h)
    <3>1. PICK p \in Patrols, c \in Checkpoints, s \in Done :
            Becomes(h, [Idle EXCEPT !.op = "review", !.step = "write", !.patrol = p,
                                    !.cp = c, !.seen = patrol[p].status, !.next = s])
      BY <2>3 DEF ReviewRead
    <3> QED BY <1>j, <3>1 DEF Becomes, Idle
  <2>4. CASE CompleteRead(h)
    <3>1. PICK p \in Patrols :
            Becomes(h, [Idle EXCEPT !.op = "complete", !.step = "write", !.patrol = p,
              !.next = IF AllRequiredComplete(visits[p]) THEN "COMPLETED" ELSE "PARTIALLY_COMPLETED",
              !.completed = CompletedCheckpoints(visits[p])])
      BY <2>4 DEF CompleteRead, Finishes
    <3> QED BY <1>j, <3>1 DEF Becomes, Idle
  <2>5. CASE MissRead(h)
    <3>1. PICK p \in Patrols :
            Becomes(h, [Idle EXCEPT !.op = "miss", !.step = "write", !.patrol = p,
              !.next = IF CompletedCheckpoints(visits[p]) > 0 THEN "PARTIALLY_COMPLETED"
                                                              ELSE "MISSED",
              !.completed = CompletedCheckpoints(visits[p])])
      BY <2>5 DEF MissRead, Finishes
    <3> QED BY <1>j, <3>1 DEF Becomes, Idle
  <2>6. CASE CancelRead(h)
    <3>1. PICK p \in Patrols :
            Becomes(h, [Idle EXCEPT !.op = "cancel", !.step = "write", !.patrol = p,
              !.next = "CANCELLED", !.completed = CompletedCheckpoints(visits[p])])
      BY <2>6 DEF CancelRead, Finishes
    <3> QED BY <1>j, <3>1 DEF Becomes, Idle
  <2> QED BY <2>1, <2>2, <2>3, <2>4, <2>5, <2>6, <2>7
<1> QED BY <1>1

(* A transaction's calculations are of what it will have written.          *)
LEMMA SeenRead ==
  ASSUME IInv, NEW h \in Handlers, Current(job[h]), VisitSees(h) \/ ReviewSees(h) \/ VisitLost(h)
  PROVE  Current(job[h])' /\ UNCHANGED <<patrol, visits>>
<1>u. UNCHANGED <<patrol, visits>>
  BY DEF VisitSees, ReviewSees, VisitLost
<1>0. job[h] \in Job
  BY DEF IInv, TypeOK
<1>1. CASE VisitLost(h)
  <2>1. job'[h] = Idle
    BY <1>1 DEF VisitLost, Ends, Becomes, IInv, TypeOK
  <2> QED BY <1>u, <2>1 DEF Current, Idle
<1>2. ASSUME NEW s, Sees(h, s), job[h].op \in {"visit", "review"}
      PROVE  Current(job[h])'
  <2> DEFINE v == [visits[job[h].patrol] EXCEPT ![job[h].cp] = s]
             k == CompletedCheckpoints(v)
             r == ReviewRequired(v)
  <2>1. job'[h] = [job[h] EXCEPT !.step = "commit", !.next = s, !.completed = k, !.review = r]
    BY <1>2 DEF Sees, Becomes, IInv, TypeOK
  <2>2. /\ job'[h].op = job[h].op /\ job'[h].patrol = job[h].patrol
        /\ job'[h].cp = job[h].cp /\ job'[h].seen = job[h].seen /\ job'[h].step = "commit"
        /\ job'[h].next = s /\ job'[h].completed = k /\ job'[h].review = r
    <3> HIDE DEF k, r
    <3> QED BY <1>0, <2>1 DEF Job
  <2>3. Seen(job[h])' = v
    BY <1>u, <2>2 DEF Seen
  <2>4. CompletedCheckpoints(Seen(job[h]))' = k /\ ReviewRequired(Seen(job[h]))' = r
    BY <2>3 DEF CompletedCheckpoints, ReviewRequired, VisitsWith
  <2> HIDE DEF k, r, v
  <2> QED BY <1>2, <1>u, <2>2, <2>4 DEF Current
<1>3. CASE VisitSees(h) \/ ReviewSees(h)
  BY <1>2, <1>3 DEF VisitSees, ReviewSees, At
<1> QED BY <1>1, <1>3, <1>u

(* Writes of a patrol's row alone.                                         *)
LEMMA RowShown ==
  ASSUME IInv, Shown, NEW p \in Patrols, NEW r \in PatrolRow,
         patrol' = [patrol EXCEPT ![p] = r], visits' = visits,
         r.completed = CompletedCheckpoints(visits[p]),
         r.status \in {"ABSENT", "NOT_STARTED"} => patrol[p].status \in {"ABSENT", "NOT_STARTED"},
         r.status = "IN_PROGRESS" => ~ReviewRequired(visits[p]),
         r.status # "REQUIRES_REVIEW",
         r.status \in ActivePatrol => \A q \in Patrols : patrol[q].status \in ActivePatrol => q = p
  PROVE  Shown'
<1>1. patrol'[p] = r /\ \A q \in Patrols : q # p => patrol'[q] = patrol[q]
  BY DEF IInv, TypeOK
<1>2. \A q \in Patrols : /\ CompletedCheckpoints(visits[q])' = CompletedCheckpoints(visits[q])
                         /\ ReviewRequired(visits[q])' = ReviewRequired(visits[q])
  BY DEF CompletedCheckpoints, ReviewRequired, VisitsWith
<1>3. Blank'
  BY <1>1 DEF Shown, Blank
<1>4. VisitsShown'
  BY <1>1, <1>2 DEF Shown, VisitsShown, CountExact, ReviewStatusExact
<1>5. NoDuplicateActive'
  BY <1>1 DEF Shown, NoDuplicateActive
<1> QED BY <1>3, <1>4, <1>5 DEF Shown

LEMMA RowsShown ==
  ASSUME IInv, Shown, NEW h \in Handlers, Current(job[h]),
         CreateWrite(h) \/ StatusWrite(h) \/ FinishWrite(h)
  PROVE  Shown'
<1>1. job[h] \in Job /\ JobOf(job[h])
  BY DEF IInv, TypeOK
<1>2. \A p \in Patrols : /\ patrol[p].completed \in 0 .. LastCheckpoint
                         /\ patrol[p].completed = CompletedCheckpoints(visits[p])
  BY DEF IInv, TypeOK, PatrolRow, Shown, VisitsShown, CountExact
<1>3. CASE CreateWrite(h)
  <2>1. PICK p \in Patrols :
          /\ patrol[p].status = "ABSENT"
          /\ patrol' = [patrol EXCEPT ![p] = WithStatus(p, "NOT_STARTED")]
    BY <1>3 DEF CreateWrite
  <2>2. WithStatus(p, "NOT_STARTED") \in PatrolRow
    BY <1>2, Statuses DEF WithStatus, PatrolRow
  <2>3. \A q \in Patrols : patrol[q].status \notin ActivePatrol
    BY <1>3 DEF CreateWrite, At, Current
  <2>4. visits' = visits
    BY <1>3 DEF CreateWrite
  <2>5. /\ WithStatus(p, "NOT_STARTED").status = "NOT_STARTED"
        /\ WithStatus(p, "NOT_STARTED").completed = CompletedCheckpoints(visits[p])
    BY <1>2 DEF WithStatus
  <2> QED BY <2>1, <2>2, <2>3, <2>4, <2>5, RowShown
<1>4. CASE StatusWrite(h)
  <2> DEFINE p == job[h].patrol
             r == WithStatus(p, job[h].next)
  <2>1. /\ p \in Patrols
        /\ \/ job[h].next = "CANCELLED"
           \/ job[h].next = "IN_PROGRESS" /\ patrol[p].status = "NOT_STARTED"
    BY <1>1, <1>4 DEF StatusWrite, At, JobOf, Current
  <2>2. r \in PatrolRow /\ r.status = job[h].next
        /\ r.completed = CompletedCheckpoints(visits[p])
    BY <1>2, <2>1, Statuses DEF WithStatus, PatrolRow
  <2>3. r.status = "IN_PROGRESS" => ~ReviewRequired(visits[p])
    BY <2>1, <2>2 DEF Shown, Blank, ReviewRequired, VisitsWith
  <2>4. r.status \in ActivePatrol => \A q \in Patrols : patrol[q].status \in ActivePatrol => q = p
    BY <2>1, <2>2 DEF Shown, NoDuplicateActive, ActivePatrol
  <2>5. patrol' = [patrol EXCEPT ![p] = r] /\ visits' = visits
    BY <1>4 DEF StatusWrite
  <2>6. r.status \notin {"ABSENT", "NOT_STARTED", "REQUIRES_REVIEW"}
    BY <2>1, <2>2
  <2> HIDE DEF r, p
  <2> QED BY <2>1, <2>2, <2>3, <2>4, <2>5, <2>6, RowShown
<1>5. CASE FinishWrite(h)
  <2> DEFINE p == job[h].patrol
             r == [status |-> job[h].next, completed |-> job[h].completed]
  <2>1. /\ p \in Patrols
        /\ job[h].next \in {"COMPLETED", "PARTIALLY_COMPLETED", "MISSED"}
        /\ job[h].completed = CompletedCheckpoints(visits[p])
    BY <1>1, <1>5 DEF FinishWrite, At, JobOf, Current
  <2>2. r \in PatrolRow
    BY <1>1, <2>1, Statuses DEF PatrolRow, Job
  <2>3. r.status = job[h].next /\ r.completed = job[h].completed
    OBVIOUS
  <2>4. patrol' = [patrol EXCEPT ![p] = r] /\ visits' = visits
    BY <1>5 DEF FinishWrite
  <2> HIDE DEF r, p
  <2>5. r.status \notin ActivePatrol \cup {"ABSENT"}
    BY <2>1, <2>3 DEF ActivePatrol
  <2> QED BY <2>1, <2>2, <2>3, <2>4, <2>5, RowShown DEF ActivePatrol
<1> QED BY <1>3, <1>4, <1>5

(* Writes of a visit.                                                      *)
LEMMA CommitShown ==
  ASSUME IInv, Shown, NEW h \in Handlers, Current(job[h]), VisitCommit(h) \/ ReviewCommit(h)
  PROVE  Shown'
<1> DEFINE j == job[h]
           p == j.patrol
           v == Seen(j)
<1>1. /\ j.op \in {"visit", "review"} /\ j.step = "commit"
      /\ j.op = "visit" <=> VisitCommit(h)
  BY DEF VisitCommit, ReviewCommit, At
<1>2. p \in Patrols /\ j.cp \in Checkpoints /\ j \in Job
  BY <1>1 DEF IInv, TypeOK, JobOf
<1>3. j.completed = CompletedCheckpoints(v) /\ j.review = ReviewRequired(v)
  BY <1>1 DEF Current
<1>4. visits' = [visits EXCEPT ![p][j.cp] = j.next]
  BY DEF VisitCommit, ReviewCommit
<1>5. visits'[p] = v /\ \A q \in Patrols : q # p => visits'[q] = visits[q]
  BY <1>2, <1>4 DEF Seen, IInv, TypeOK
<1>6. PICK s : /\ patrol' = [patrol EXCEPT ![p] = [status |-> s, completed |-> j.completed]]
               /\ s = IF j.op = "visit"
                        THEN IF j.review THEN "REQUIRES_REVIEW" ELSE patrol[p].status
                        ELSE IF j.seen = "REQUIRES_REVIEW" /\ ~j.review
                               THEN "IN_PROGRESS" ELSE patrol[p].status
  BY <1>1 DEF VisitCommit, ReviewCommit
<1>7. /\ patrol'[p].status = s /\ patrol'[p].completed = j.completed
      /\ \A q \in Patrols : q # p => patrol'[q] = patrol[q]
  BY <1>2, <1>6 DEF IInv, TypeOK
<1>8. /\ j.op = "visit" => patrol[p].status = "IN_PROGRESS"
      /\ j.op = "review" => /\ j.seen = patrol[p].status /\ j.next \in Done
                            /\ visits[p][j.cp] # "ABSENT"
  BY DEF Current, IInv, JobOf
<1>9. patrol[p].status \notin {"ABSENT", "NOT_STARTED"}
  BY <1>1, <1>2, <1>8 DEF Shown, Blank
<1>10. \A q \in Patrols :
         /\ CompletedCheckpoints(visits[q])' =
              IF q = p THEN CompletedCheckpoints(v) ELSE CompletedCheckpoints(visits[q])
         /\ ReviewRequired(visits[q])' =
              IF q = p THEN ReviewRequired(v) ELSE ReviewRequired(visits[q])
  BY <1>5 DEF CompletedCheckpoints, ReviewRequired, VisitsWith
<1>11. CountExact'
  BY <1>3, <1>7, <1>10 DEF Shown, VisitsShown, CountExact
<1>12. j.op = "review" /\ ReviewRequired(v) => ReviewRequired(visits[p])
  BY <1>2, <1>8 DEF ReviewRequired, VisitsWith, Seen, Done, IInv, TypeOK
<1>13. /\ s = "REQUIRES_REVIEW" => ReviewRequired(v)
       /\ s = "IN_PROGRESS" => ~ReviewRequired(v)
       /\ s \notin {"ABSENT", "NOT_STARTED"}
       /\ s \in ActivePatrol => patrol[p].status \in ActivePatrol
  <2>1. /\ patrol[p].status = "REQUIRES_REVIEW" => ReviewRequired(visits[p])
        /\ patrol[p].status = "IN_PROGRESS" => ~ReviewRequired(visits[p])
    BY <1>2 DEF Shown, VisitsShown, ReviewStatusExact
  <2> HIDE DEF j, p, v
  <2> QED BY <1>1, <1>3, <1>6, <1>8, <1>9, <1>12, <2>1 DEF ActivePatrol
<1>14. ReviewStatusExact'
  BY <1>7, <1>10, <1>13 DEF Shown, VisitsShown, ReviewStatusExact
<1>15. Blank'
  BY <1>5, <1>7, <1>13 DEF Shown, Blank
<1>16. NoDuplicateActive'
  BY <1>2, <1>7, <1>13 DEF Shown, NoDuplicateActive
<1> QED BY <1>11, <1>14, <1>15, <1>16 DEF Shown, VisitsShown

LEMMA AlonePreserved ==
  ASSUME IInv, AloneInv, [MCNext]_<<vars, alone>>
  PROVE  AloneInv'
<1>1. alone' = alone
  BY DEF MCNext
<1>2. CASE ~alone
  BY <1>1, <1>2 DEF AloneInv
<1>3. CASE alone
  <2>1. /\ \A h \in Handlers : Current(job[h])
        /\ \A h \in Handlers : h # phone => job[h].op = "idle"
        /\ Shown
    BY <1>3 DEF AloneInv, Shown, Blank
  <2>2. \A h \in Handlers : h # phone => job'[h] = job[h]
    BY <1>3 DEF MCNext, vars
  <2>3. \A h \in Handlers : h # phone => job'[h].op = "idle" /\ Current(job[h])'
    BY <2>1, <2>2 DEF Current
  <2> SUFFICES (phone \in Handlers => Current(job[phone])') /\ Shown'
    BY <2>3 DEF AloneInv, Shown, Blank
  <2>4. ASSUME UNCHANGED vars PROVE (phone \in Handlers => Current(job[phone])') /\ Shown'
    <3>1. UNCHANGED <<patrol, visits>> /\ job' = job
      BY <2>4 DEF vars
    <3>2. phone \in Handlers => Current(job[phone])
      BY <2>1
    <3>3. \A j : Seen(j)' = Seen(j)
      BY <3>1 DEF Seen
    <3>4. phone \in Handlers => Current(job[phone])'
      BY <3>1, <3>2, <3>3 DEF Current, CompletedCheckpoints, ReviewRequired, VisitsWith
    <3> QED BY <2>1, <3>1, <3>4, ShownKept
  <2>5. ASSUME NEW h \in Handlers,
               \/ CreateRead(h) \/ StartRead(h) \/ VisitRead(h) \/ ReviewRead(h)
               \/ CompleteRead(h) \/ MissRead(h) \/ CancelRead(h)
               \/ VisitSees(h) \/ ReviewSees(h) \/ VisitLost(h)
        PROVE  Current(job[h])' /\ Shown' /\ (h # phone => FALSE)
    <3>1. Current(job[h])' /\ UNCHANGED <<patrol, visits>>
      BY <2>1, <2>5, FirstRead, SeenRead
    <3>2. job'[h].op # "idle" \/ job[h].op # "idle"
      BY <2>5, FirstBusy DEF VisitSees, ReviewSees, VisitLost, At
    <3> QED BY <2>1, <2>3, <3>1, <3>2, ShownKept
  <2>6. ASSUME NEW h \in Handlers,
               \/ CreateWrite(h) \/ StatusWrite(h) \/ FinishWrite(h)
               \/ VisitCommit(h) \/ ReviewCommit(h)
        PROVE  Current(job[h])' /\ Shown' /\ (h # phone => FALSE)
    <3>1. Shown'
      BY <2>1, <2>6, RowsShown, CommitShown
    <3>2. job[h].op # "idle" /\ Ends(h)
      BY <2>6 DEF CreateWrite, StatusWrite, FinishWrite, VisitCommit, ReviewCommit, At
    <3>3. job'[h] = Idle
      BY <3>2 DEF Ends, Becomes, IInv, TypeOK
    <3>4. Current(job[h])'
      BY <3>3 DEF Current, Idle
    <3> QED BY <2>1, <3>1, <3>2, <3>4
  <2>7. UNCHANGED vars \/ Next
    BY DEF MCNext
  <2>8. CASE Next
    BY <2>5, <2>6, <2>8 DEF Next
  <2> QED BY <2>4, <2>7, <2>8
<1> QED BY <1>2, <1>3

LEMMA AloneInitially == Init => AloneInv
<1> SUFFICES ASSUME Init PROVE AloneInv
  OBVIOUS
<1>1. \A h \in Handlers : Current(job[h]) /\ job[h].op = "idle"
  BY DEF Init, Idle, Current
<1>2. \A p \in Patrols : VisitsWith(visits[p], {"COMPLETED"}) = {}
  BY DEF Init, VisitsWith
<1>3. CountExact
  BY <1>2, FS_EmptySet DEF Init, NoRow, CountExact, CompletedCheckpoints
<1>4. ReviewStatusExact /\ NoDuplicateActive
  BY DEF Init, NoRow, ReviewStatusExact, NoDuplicateActive, ActivePatrol
<1>5. \A p \in Patrols, c \in Checkpoints : visits[p][c] = "ABSENT"
  BY DEF Init
<1> QED BY <1>1, <1>3, <1>4, <1>5 DEF AloneInv, VisitsShown

(* After any requests that do not overlap, for any number of patrols and   *)
(* checkpoints, a patrol's counter and status are those of its visits and  *)
(* no two patrols of the route are active.                                 *)
THEOREM PatrolsTrue == MCSpec => []PatrolsTrueAlone
<1>1. MCInit => IInv /\ AloneInv
  BY InitInv, AloneInitially DEF MCInit
<1>2. [MCNext]_<<vars, alone>> => [Next]_vars
  BY DEF MCNext
<1>3. IInv /\ AloneInv /\ [MCNext]_<<vars, alone>> => IInv' /\ AloneInv'
  BY <1>2, NextInv, AlonePreserved
<1>4. AloneInv => PatrolsTrueAlone
  BY DEF AloneInv, PatrolsTrueAlone
<1> QED BY <1>1, <1>3, <1>4, PTL DEF MCSpec

-----------------------------------------------------------------------------
(* The types of all but the requests. *)
SyncTypes ==
  /\ entity \in Entities
  /\ record \in [Keys -> Record]
  /\ row \in {"ABSENT", "COMPLETED", "FAILED", "CONFLICT"}
  /\ conflicts \subseteq Payloads
  /\ made \in [Payloads -> 0..2]
  /\ answer \in [Senders -> Settled \cup {"none", "sent"}]
  /\ faults \in 0..MaxFaults
  /\ disturbed \subseteq Keys

(* What no step takes back. *)
SyncGrows ==
  /\ entity' = entity /\ disturbed \subseteq disturbed'
  /\ \A p \in Payloads : made[p] > 0 => made'[p] > 0
  /\ \A t \in Senders : answer[t] # "none" => answer'[t] # "none"
  /\ \A k \in Keys : record[k].status # "ABSENT" => record'[k].status # "ABSENT"

LEMMA SyncConstants ==
  /\ PayloadOf \in [Senders -> Payloads] /\ MaxFaults \in Nat /\ Guard \in Keys
  /\ Keys = {"outer", "inner"} /\ NoRecord \in Record
BY SyncAssumption DEF Guard, Keys, NoRecord, Record

LEMMA SyncParts ==
  ASSUME SyncInv
  PROVE  /\ SyncTypeOK /\ SyncTypes /\ AnswersAreReal /\ ConflictIsReal /\ MadeOnce
         /\ \A s \in Senders : /\ Placed(s) /\ Present(s) /\ Found(s)
                               /\ request[s] \in Request /\ request[s].key \in Keys
         /\ RecordsMean /\ GuardStands /\ OuterStands
BY DEF SyncInv, AnswersKept, SyncTypeOK, SyncTypes, Request

(* What it takes for the operation to have been done for a payload. *)
DoneSaid ==
  /\ \A p : DoneFor(p) => Exists
  /\ \A p : Exists /\ disturbed # {} => DoneFor(p)
  /\ \A p \in Payloads : made[p] > 0 => DoneFor(p)

LEMMA SyncDone == DoneSaid /\ DoneSaid'
BY DEF DoneSaid, DoneFor, Exists, SameHash

(* What was done stays done, who came has come. *)
LEMMA SyncStays ==
  ASSUME SyncTypeOK, SyncGrows
  PROVE  /\ Exists => Exists'
         /\ Keyed' = Keyed /\ Guard' = Guard
         /\ \A p \in Payloads : DoneFor(p) => DoneFor(p)'
         /\ \A s \in Senders : (OtherCame(s) => OtherCame(s)') /\ Straight(s)' = Straight(s)
<1>1. Exists => Exists'
  BY DEF Exists, SyncGrows
<1>2. Keyed' = Keyed /\ Guard' = Guard /\ \A s \in Senders : Straight(s)' = Straight(s)
  BY DEF SyncGrows, Keyed, Guard, Straight
<1>3. \A p \in Payloads : DoneFor(p) => DoneFor(p)'
  BY <1>2 DEF DoneFor, SyncGrows, SameHash
<1>4. \A s \in Senders : OtherCame(s) => OtherCame(s)'
  BY DEF OtherCame, SyncGrows
<1> QED
  BY <1>1, <1>2, <1>3, <1>4

(* A request that does not move stays where it may be. *)
LEMMA SyncOthers ==
  ASSUME SyncInv, SyncGrows, NEW t \in Senders, request'[t] = request[t], answer'[t] = answer[t]
  PROVE  Placed(t)' /\ Present(t)' /\ Found(t)'
<1>1. /\ Placed(t) /\ Present(t) /\ Found(t) /\ PayloadOf[t] \in Payloads
      /\ request[t].key \in Keys
  BY SyncParts, SyncConstants
<1>2. Keyed' = Keyed /\ Guard' = Guard /\ Straight(t)' = Straight(t)
  BY SyncStays, SyncParts
<1>3. Placed(t)'
  BY <1>1, <1>2 DEF Placed
<1>4. HoldsOuter(t)' = HoldsOuter(t)
  BY <1>2 DEF HoldsOuter, InStep
<1>5. /\ HoldsOuter(t)' \/ request'[t].at \in {"conflict", "upsert"} =>
           record'["outer"].status # "ABSENT"
      /\ request'[t].at \in {"look", "insert", "store", "fail"} =>
           record'[request'[t].key].status # "ABSENT"
  BY <1>1, <1>4, SyncConstants DEF Present, SyncGrows
<1>6. Present(t)'
  BY <1>5 DEF Present
<1>7. Found(t)'
  <2>1. SameHash(request[t].key, request[t].saw.payload, PayloadOf[t]) =>
          SameHash(request[t].key, request[t].saw.payload, PayloadOf[t])'
    BY DEF SameHash, SyncGrows
  <2> QED
    BY <1>1, <2>1, SyncStays, SyncParts DEF Found
<1> QED
  BY <1>3, <1>6, <1>7

LEMMA SyncKept ==
  ASSUME SyncInv, NEW s \in Senders, request' = [request EXCEPT ![s] = request'[s]],
         request'[s] \in Request,
         SyncGrows, SyncTypes',
         \A t \in Senders : t # s => answer'[t] = answer[t],
         \/ answer'[s] = answer[s]
         \/ /\ answer'[s] \in {"completed", "replayed"} => DoneFor(PayloadOf[s])'
            /\ answer'[s] = "noted" => Exists'
            /\ answer'[s] = "conflict" => OtherCame(s)',
         conflicts' = conflicts \/ (conflicts' = conflicts \cup {PayloadOf[s]} /\ OtherCame(s)'),
         row' = "COMPLETED" => row = "COMPLETED" \/ Exists',
         Placed(s)', Present(s)', Found(s)', RecordsMean', GuardStands', OuterStands', MadeOnce'
  PROVE  SyncInv'
<1>1. /\ request' \in [Senders -> Request]
      /\ \A t \in Senders : t # s => request'[t] = request[t]
  BY SyncParts DEF SyncTypeOK
<1>2. SyncTypeOK'
  BY <1>1 DEF SyncTypeOK, SyncTypes
<1>3. ASSUME NEW t \in Senders, t # s PROVE Placed(t)' /\ Present(t)' /\ Found(t)'
  BY <1>1, <1>3, SyncOthers
<1>4. AnswersAreReal'
  <2>1. row' = "COMPLETED" => Exists'
    BY SyncStays, SyncParts DEF AnswersAreReal
  <2>2. ASSUME NEW t \in Senders
        PROVE  /\ answer'[t] \in {"completed", "replayed"} => DoneFor(PayloadOf[t])'
               /\ answer'[t] = "noted" => Exists'
    <3>1. PayloadOf[t] \in Payloads
      BY SyncConstants
    <3>2. /\ answer[t] \in {"completed", "replayed"} => DoneFor(PayloadOf[t])
          /\ answer[t] = "noted" => Exists
      BY SyncParts DEF AnswersAreReal, DoneFor
    <3> QED
      BY <3>1, <3>2, SyncStays, SyncParts
  <2> QED
    BY <2>1, <2>2 DEF AnswersAreReal, DoneFor
<1>5. ConflictIsReal'
  <2>1. ASSUME NEW t \in Senders, answer'[t] = "conflict" \/ PayloadOf[t] \in conflicts'
        PROVE  OtherCame(t)'
    <3>1. CASE answer[t] = "conflict" \/ PayloadOf[t] \in conflicts
      BY <3>1, SyncStays, SyncParts DEF ConflictIsReal, OtherCame
    <3>2. CASE ~(answer[t] = "conflict" \/ PayloadOf[t] \in conflicts)
      <4>1. OtherCame(s)' /\ PayloadOf[t] = PayloadOf[s]
        BY <2>1, <3>2
      <4> QED
        BY <4>1 DEF OtherCame
    <3> QED
      BY <3>1, <3>2
  <2> QED
    BY <2>1 DEF ConflictIsReal, OtherCame
<1> QED
  BY <1>2, <1>3, <1>4, <1>5 DEF SyncInv, AnswersKept

(* A step of one request that changes neither a record nor what is made. *)
LEMMA SyncGoes ==
  ASSUME SyncInv, NEW s \in Senders, request' = [request EXCEPT ![s] = request'[s]],
         request'[s] \in Request,
         SyncGrows, SyncTypes', UNCHANGED <<record, made>>,
         \A t \in Senders : t # s => answer'[t] = answer[t],
         \/ answer'[s] = answer[s]
         \/ /\ answer'[s] \in {"completed", "replayed"} => DoneFor(PayloadOf[s])'
            /\ answer'[s] = "noted" => Exists'
            /\ answer'[s] = "conflict" => OtherCame(s)',
         conflicts' = conflicts \/ (conflicts' = conflicts \cup {PayloadOf[s]} /\ OtherCame(s)'),
         row' = "COMPLETED" => row = "COMPLETED" \/ Exists',
         Placed(s)', Present(s)', Found(s)',
         Working(s)' => Working(s), HoldsOuter(s)' => HoldsOuter(s),
         Applied(s) => Applied(s)' \/ Guard \in disturbed'
  PROVE  SyncInv'
<1>1. /\ request' \in [Senders -> Request]
      /\ \A t \in Senders : t # s => request'[t] = request[t]
  BY SyncParts DEF SyncTypeOK
<1>2. Keyed' = Keyed /\ Guard' = Guard /\ Exists' = Exists
      /\ \A t \in Senders : Straight(t)' = Straight(t)
  <2>1. Exists' = Exists
    BY DEF Exists
  <2> QED
    BY <2>1, SyncStays, SyncParts
<1>3. RecordsMean'
  <2>1. ASSUME NEW k \in Keys, record[k].status # "ABSENT"
        PROVE  /\ \E t \in Senders : PayloadOf[t] = record[k].payload /\ answer'[t] # "none"
               /\ record[k].status = "COMPLETED" => DoneFor(record[k].payload)'
    <3>1. PICK t \in Senders : PayloadOf[t] = record[k].payload /\ answer[t] # "none"
      BY <2>1, SyncParts DEF RecordsMean
    <3>2. answer'[t] # "none" /\ record[k].payload \in Payloads
      BY <3>1, SyncConstants DEF SyncGrows
    <3>3. record[k].status = "COMPLETED" => DoneFor(record[k].payload)
      BY SyncParts DEF RecordsMean
    <3> QED
      BY <3>1, <3>2, <3>3, SyncStays, SyncParts
  <2> QED
    BY <2>1 DEF RecordsMean
<1>4. \A t \in Senders : /\ Working(t)' => Working(t)
                         /\ HoldsOuter(t)' => HoldsOuter(t)
                         /\ Applied(t) => Applied(t)' \/ Guard \in disturbed'
  BY <1>1, <1>2 DEF Working, HoldsOuter, Applied, InStep
<1>5. GuardStands'
  <2> SUFFICES ASSUME Guard' \notin disturbed' PROVE GuardStands'
    BY DEF GuardStands
  <2>1. Guard \notin disturbed
    BY <1>2 DEF SyncGrows
  <2> QED
    BY <1>2, <1>4, <2>1, SyncParts DEF GuardStands
<1>6. OuterStands'
  <2> SUFFICES ASSUME disturbed' = {} PROVE OuterStands'
    BY DEF OuterStands
  <2>1. disturbed = {}
    BY DEF SyncGrows
  <2> QED
    BY <1>2, <1>4, <2>1, SyncParts DEF OuterStands
<1>7. MadeOnce'
  <2>1. entity' = entity /\ made' = made /\ (Guard \in disturbed => Guard' \in disturbed')
    BY <1>2 DEF SyncGrows
  <2> QED
    BY <2>1, SyncParts DEF MadeOnce
<1> QED
  BY <1>3, <1>5, <1>6, <1>7, SyncKept

(* Where a step leaves its request. *)
Reaches(s, step, key) ==
  /\ request' = [request EXCEPT ![s] = request'[s]] /\ request'[s] \in Request
  /\ request'[s].at = step /\ request'[s].key = key

LEMMA SyncMoves ==
  ASSUME SyncTypeOK, NEW s \in Senders, NEW key \in Keys,
         NEW step \in {"idle", "read", "begin", "begin_write", "look", "insert", "store",
                       "complete", "fail", "conflict", "upsert"},
         GoesWith(s, step, key)
  PROVE  Reaches(s, step, key) /\ request'[s].status = request[s].status
<1>1. request \in [Senders -> Request] /\ request[s] \in Request
  BY DEF SyncTypeOK
<1> DEFINE q == [request[s] EXCEPT !.at = step, !.key = key, !.saw = NoRecord]
<1>2. q \in Request /\ q.at = step /\ q.key = key /\ q.status = request[s].status
  BY <1>1, SyncConstants DEF Request
<1>3. request' = [request EXCEPT ![s] = q]
  BY <1>1 DEF GoesWith, Request
<1> HIDE DEF q
<1> QED
  BY <1>1, <1>2, <1>3 DEF Reaches

LEMMA SyncAnswers ==
  ASSUME SyncTypeOK, NEW s \in Senders, NEW a \in Settled \cup {"none", "sent"}, Answered(s, a)
  PROVE  /\ Reaches(s, "idle", "outer")
         /\ answer' \in [Senders -> Settled \cup {"none", "sent"}] /\ answer'[s] = a
         /\ \A t \in Senders : t # s => answer'[t] = answer[t]
<1>1. Resting \in Request /\ Resting.at = "idle" /\ Resting.key = "outer"
  BY SyncConstants DEF Resting, Request
<1>2. Reaches(s, "idle", "outer")
  BY <1>1 DEF Answered, Reaches, SyncTypeOK
<1> QED
  BY <1>2 DEF Answered, SyncTypeOK

(* A request that comes to rest breaks nothing of its own. *)
LEMMA SyncRests ==
  ASSUME SyncInv, NEW s \in Senders, Reaches(s, "idle", "outer")
  PROVE  /\ Placed(s)' /\ Present(s)' /\ Found(s)'
         /\ ~Working(s)' /\ ~HoldsOuter(s)' /\ ~Applied(s)'
BY DEF Reaches, Placed, Present, Found, Working, HoldsOuter, Applied, InStep

LEMMA SendStep ==
  ASSUME SyncInv, NEW s \in Senders, Send(s)
  PROVE  SyncInv'
<1>1. SyncTypeOK /\ SyncTypes /\ Placed(s) /\ answer'[s] = "sent"
      /\ \A t \in Senders : t # s => answer'[t] = answer[t]
  BY SyncParts DEF Send, SyncTypes
<1>2. SyncGrows /\ SyncTypes'
  BY <1>1 DEF Send, SyncGrows, SyncTypes
<1>3. ~Applied(s)
  BY DEF Send, Applied, InStep
<1>4. CASE Straight(s)
  <2>1. Reaches(s, "begin", "inner")
    BY <1>1, <1>4, SyncMoves DEF Send, Keys
  <2>2. /\ Placed(s)' /\ Present(s)' /\ Found(s)' /\ ~Working(s)' /\ ~HoldsOuter(s)'
    BY <1>1, <1>4, <2>1
    DEF Reaches, Placed, Present, Found, Working, HoldsOuter, InStep, Straight, Keyed, Send
  <2> QED
    BY <1>1, <1>2, <1>3, <2>1, <2>2, SyncGoes DEF Send, Reaches
<1>5. CASE ~Straight(s)
  <2>1. Reaches(s, "read", "outer")
    BY <1>1, <1>5, SyncMoves DEF Send, Keys
  <2>2. /\ Placed(s)' /\ Present(s)' /\ Found(s)' /\ ~Working(s)' /\ ~HoldsOuter(s)'
    BY <1>1, <1>5, <2>1
    DEF Reaches, Placed, Present, Found, Working, HoldsOuter, InStep, Straight, Keyed, Send
  <2> QED
    BY <1>1, <1>2, <1>3, <2>1, <2>2, SyncGoes DEF Send, Reaches
<1> QED
  BY <1>4, <1>5

LEMMA SyncReadStep ==
  ASSUME SyncInv, NEW s \in Senders, SyncRead(s)
  PROVE  SyncInv'
<1>1. SyncTypeOK /\ SyncTypes /\ Placed(s) /\ ~Applied(s) /\ AnswersAreReal
  BY SyncParts DEF SyncRead, Applied, InStep
<1>2. CASE row = "COMPLETED"
  <2>1. Reaches(s, "idle", "outer") /\ answer' \in [Senders -> Settled \cup {"none", "sent"}]
        /\ answer'[s] = "noted" /\ \A t \in Senders : t # s => answer'[t] = answer[t]
    BY <1>1, <1>2, SyncAnswers DEF SyncRead, Settled
  <2>2. SyncGrows /\ SyncTypes'
    BY <1>1, <2>1 DEF SyncRead, SyncGrows, SyncTypes
  <2>3. Exists'
    BY <1>1, <1>2 DEF AnswersAreReal, SyncRead, Exists
  <2> QED
    BY <1>1, <2>1, <2>2, <2>3, SyncRests, SyncGoes DEF SyncRead, Reaches
<1>3. CASE row # "COMPLETED"
  <2>1. Reaches(s, "begin", request[s].key) /\ answer' = answer /\ request[s].key = "outer"
    BY <1>1, <1>3, SyncMoves, SyncParts DEF SyncRead, Goes, Placed, InStep
  <2>2. SyncGrows /\ SyncTypes'
    BY <1>1, <2>1 DEF SyncRead, SyncGrows, SyncTypes
  <2>3. /\ Placed(s)' /\ Present(s)' /\ Found(s)' /\ ~Working(s)' /\ ~HoldsOuter(s)'
    BY <1>1, <2>1
    DEF Reaches, Placed, Present, Found, Working, HoldsOuter, InStep, Straight, Keyed, SyncRead
  <2> QED
    BY <1>1, <2>1, <2>2, <2>3, SyncGoes DEF SyncRead, Reaches
<1> QED
  BY <1>2, <1>3

LEMMA BeginStep ==
  ASSUME SyncInv, NEW s \in Senders, Begin(s)
  PROVE  SyncInv'
<1> DEFINE r == record[request[s].key]
<1>1. /\ SyncTypeOK /\ SyncTypes /\ Placed(s) /\ Present(s) /\ request[s].key \in Keys /\ ~Applied(s)
      /\ request[s].at = "begin" /\ r \in Record /\ PayloadOf[s] \in Payloads
  BY SyncParts, SyncConstants DEF Begin, Applied, InStep, SyncTypes
<1>2. /\ r.status # "ABSENT" =>
           \E t \in Senders : PayloadOf[t] = r.payload /\ answer[t] # "none"
      /\ r.status = "COMPLETED" => DoneFor(r.payload)
  BY <1>1, SyncParts DEF RecordsMean
<1>3. r.status # "ABSENT" /\ ~Straight(s) => record["outer"].status # "ABSENT"
  BY <1>1 DEF Present, HoldsOuter, Keys
<1>4. UNCHANGED <<entity, record, row, conflicts, made, faults, disturbed>>
  BY DEF Begin
<1>5. ASSUME NEW a \in {"sent", "conflict", "replayed"}, Answered(s, a),
             a = "replayed" => DoneFor(PayloadOf[s]), a = "conflict" => OtherCame(s)
      PROVE  SyncInv'
  <2>1. Reaches(s, "idle", "outer") /\ answer' \in [Senders -> Settled \cup {"none", "sent"}]
        /\ answer'[s] = a /\ \A t \in Senders : t # s => answer'[t] = answer[t]
    BY <1>1, <1>5, SyncAnswers DEF Settled
  <2>2. SyncGrows /\ SyncTypes'
    BY <1>1, <1>4, <2>1 DEF SyncGrows, SyncTypes
  <2>3. (a = "replayed" => DoneFor(PayloadOf[s])') /\ (a = "conflict" => OtherCame(s)')
    BY <1>1, <1>5, <2>2, SyncStays
  <2> QED
    BY <1>1, <1>4, <2>1, <2>2, <2>3, SyncRests, SyncGoes DEF Reaches
<1>6. ASSUME NEW step \in {"fail", "conflict", "complete"}, GoesWith(s, step, "outer"),
             UNCHANGED answer, ~Straight(s), r.status # "ABSENT",
             step = "complete" => DoneFor(PayloadOf[s]) /\ request[s].key = "inner",
             step = "conflict" => OtherCame(s)
      PROVE  SyncInv'
  <2>1. Reaches(s, step, "outer")
    BY <1>1, <1>6, SyncMoves DEF Keys
  <2>2. SyncGrows /\ SyncTypes'
    BY <1>1, <1>4, <1>6 DEF SyncGrows, SyncTypes
  <2>3. /\ (step = "complete" => DoneFor(PayloadOf[s])') /\ (step = "conflict" => OtherCame(s)')
        /\ Straight(s)' = Straight(s) /\ Keyed' = Keyed /\ Guard' = Guard
    BY <1>1, <1>6, <2>2, SyncStays
  <2>4. answer'[s] # "none" /\ record'["outer"].status # "ABSENT"
    BY <1>1, <1>3, <1>4, <1>6 DEF Placed
  <2>5. /\ Placed(s)' /\ Present(s)' /\ Found(s)'
    BY <1>6, <2>1, <2>3, <2>4 DEF Reaches, Placed, Present, Found, InStep
  <2>6. ~Working(s)' /\ (HoldsOuter(s)' => HoldsOuter(s))
    BY <1>1, <1>6, <2>1, <2>3 DEF Placed, Reaches, Working, HoldsOuter, InStep
  <2> QED
    BY <1>1, <1>4, <1>6, <2>1, <2>2, <2>5, <2>6, SyncGoes DEF Reaches
<1>7. CASE r.status = "PROCESSING" /\ r.locked /\ Refused(s, "fail")
  BY <1>5, <1>6, <1>7 DEF Refused
<1> DEFINE same == SameHash(request[s].key, r.payload, PayloadOf[s])
<1>8. CASE /\ r.status \in {"COMPLETED", "FAILED"} /\ ~same
           /\ Refused(s, "conflict")
  <2>1. r.payload # PayloadOf[s]
    BY <1>8 DEF SameHash
  <2>2. OtherCame(s)
    BY <1>2, <1>8, <2>1 DEF OtherCame
  <2> QED
    BY <1>5, <1>6, <1>8, <2>2 DEF Refused
<1>9. CASE r.status = "COMPLETED" /\ same /\ Replayed(s)
  <2>1. request[s].key = "inner" => Guard = "inner"
    BY <1>1 DEF Placed, Guard
  <2>2. DoneFor(PayloadOf[s])
    BY <1>1, <1>2, <1>9, <2>1 DEF DoneFor, SameHash, Keys
  <2> QED
    BY <1>2, <1>5, <1>6, <1>9, <2>2 DEF Replayed
<1>10. CASE /\ \/ r.status = "ABSENT"
               \/ r.status = "PROCESSING" /\ ~r.locked
               \/ r.status = "FAILED" /\ same
            /\ request' = [request EXCEPT ![s].at = "begin_write", ![s].saw = r]
            /\ UNCHANGED answer
  <2> DEFINE q == [request[s] EXCEPT !.at = "begin_write", !.saw = r]
  <2>1. /\ request \in [Senders -> Request] /\ request[s] \in Request
        /\ q \in Request /\ q.at = "begin_write" /\ q.key = request[s].key /\ q.saw = r
    BY <1>1 DEF SyncTypeOK, Request
  <2>2. request' = [request EXCEPT ![s] = q]
    BY <1>10, <2>1 DEF Request
  <2> HIDE DEF q
  <2>3. Reaches(s, "begin_write", request[s].key) /\ request'[s].saw = r
    BY <2>1, <2>2 DEF Reaches
  <2>4. SyncGrows /\ SyncTypes'
    BY <1>1, <1>4, <1>10 DEF SyncGrows, SyncTypes
  <2>5. Straight(s)' = Straight(s) /\ Keyed' = Keyed /\ Guard' = Guard
    BY <1>1, <2>4, SyncStays
  <2>6. ~Working(s)' /\ (HoldsOuter(s)' => HoldsOuter(s))
    BY <1>1, <2>3, <2>5 DEF Reaches, Working, HoldsOuter, InStep
  <2>7. /\ Placed(s)' /\ Present(s)'
    BY <1>1, <1>4, <1>10, <2>3, <2>5, <2>6 DEF Reaches, Placed, Present
  <2>8. Found(s)'
    BY <1>4, <1>10, <2>3 DEF Reaches, Found, SameHash
  <2> QED
    BY <1>1, <1>4, <1>10, <2>3, <2>4, <2>6, <2>7, <2>8, SyncGoes DEF Reaches
<1> QED
  BY <1>7, <1>8, <1>9, <1>10 DEF Begin

LEMMA LookStep ==
  ASSUME SyncInv, NEW s \in Senders, Look(s)
  PROVE  SyncInv'
<1>1. /\ SyncTypeOK /\ SyncTypes /\ Placed(s) /\ Present(s) /\ request[s].key \in Keys /\ ~Applied(s)
      /\ request[s].at = "look" /\ PayloadOf[s] \in Payloads /\ Working(s)
  BY SyncParts, SyncConstants DEF Look, Applied, Working, InStep
<1>2. UNCHANGED <<entity, record, row, conflicts, made, answer, faults, disturbed>>
  BY DEF Look
<1>3. PICK step \in {"store", "insert"} :
        GoesWith(s, step, request[s].key) /\ (step = "store" => entity.kind = "local" /\ Exists)
  BY DEF Look, Goes
<1>4. Reaches(s, step, request[s].key) /\ SyncGrows /\ SyncTypes'
  BY <1>1, <1>2, <1>3, SyncMoves DEF SyncGrows, SyncTypes
<1>5. Straight(s)' = Straight(s) /\ Keyed' = Keyed /\ Guard' = Guard
  BY <1>1, <1>4, SyncStays
<1>6. Exists => Guard \in disturbed
  BY <1>1, SyncParts DEF GuardStands, Applied, Working, InStep
<1>7. step = "store" => DoneFor(PayloadOf[s])'
  BY <1>1, <1>2, <1>3, <1>6 DEF DoneFor, Exists
<1>8. HoldsOuter(s)' => HoldsOuter(s)
  BY <1>1, <1>4, <1>5 DEF Reaches, HoldsOuter, InStep
<1>9. Placed(s)'
  BY <1>1, <1>2, <1>3, <1>4, <1>5 DEF Reaches, Placed, Guard, Keyed
<1>10. Present(s)' /\ Found(s)'
  BY <1>1, <1>2, <1>3, <1>4, <1>7, <1>8 DEF Reaches, Present, Found
<1> QED
  BY <1>1, <1>2, <1>4, <1>8, <1>9, <1>10, SyncGoes DEF Reaches

LEMMA ConflictStep ==
  ASSUME SyncInv, NEW s \in Senders, Conflict(s)
  PROVE  SyncInv'
<1>1. /\ SyncTypeOK /\ SyncTypes /\ Placed(s) /\ Present(s) /\ Found(s) /\ ~Applied(s)
      /\ request[s].at = "conflict" /\ request[s].key = "outer" /\ PayloadOf[s] \in Payloads
      /\ OtherCame(s)
  BY SyncParts, SyncConstants DEF Conflict, Applied, InStep, Placed, Found
<1>2. /\ UNCHANGED <<entity, record, row, made, answer, faults, disturbed>>
      /\ conflicts' = conflicts \cup {PayloadOf[s]}
  BY DEF Conflict
<1> DEFINE q == [request[s] EXCEPT !.at = "upsert", !.status = "CONFLICT"]
<1>3. /\ request \in [Senders -> Request] /\ request[s] \in Request
      /\ q \in Request /\ q.at = "upsert" /\ q.key = "outer" /\ q.status = "CONFLICT"
  BY <1>1 DEF SyncTypeOK, Request
<1>4. request' = [request EXCEPT ![s] = q]
  BY <1>3 DEF Request, Conflict
<1> HIDE DEF q
<1>5. Reaches(s, "upsert", "outer") /\ request'[s].status = "CONFLICT"
  BY <1>3, <1>4 DEF Reaches
<1>6. SyncGrows /\ SyncTypes'
  BY <1>1, <1>2 DEF SyncGrows, SyncTypes
<1>7. Straight(s)' = Straight(s) /\ Keyed' = Keyed /\ Guard' = Guard /\ OtherCame(s)'
  BY <1>1, <1>6, SyncStays
<1>8. ~Working(s)' /\ ~HoldsOuter(s)'
  BY <1>5 DEF Reaches, Working, HoldsOuter, InStep
<1>9. /\ Placed(s)' /\ Present(s)' /\ Found(s)'
  BY <1>1, <1>2, <1>5, <1>7 DEF Reaches, Placed, Present, Found, HoldsOuter
<1> QED
  BY <1>1, <1>2, <1>5, <1>6, <1>7, <1>8, <1>9, SyncGoes DEF Reaches

LEMMA UpsertStep ==
  ASSUME SyncInv, NEW s \in Senders, Upsert(s)
  PROVE  SyncInv'
<1>1. /\ SyncTypeOK /\ SyncTypes /\ Found(s) /\ ~Applied(s) /\ PayloadOf[s] \in Payloads
      /\ request[s].at = "upsert" /\ request[s].status \in {"COMPLETED", "FAILED", "CONFLICT"}
  BY SyncParts, SyncConstants DEF Upsert, Applied, InStep, Request
<1>2. /\ UNCHANGED <<entity, record, conflicts, made, faults, disturbed>>
      /\ row' = request[s].status
  BY DEF Upsert
<1>3. PICK a \in {"completed", "conflict", "sent"} :
        /\ Answered(s, a) /\ (a = "completed" => request[s].status = "COMPLETED")
        /\ (a = "conflict" => request[s].status = "CONFLICT")
  BY <1>1 DEF Upsert
<1>4. Reaches(s, "idle", "outer") /\ answer' \in [Senders -> Settled \cup {"none", "sent"}]
      /\ answer'[s] = a /\ \A t \in Senders : t # s => answer'[t] = answer[t]
  BY <1>1, <1>3, SyncAnswers DEF Settled
<1>5. SyncGrows /\ SyncTypes'
  BY <1>1, <1>2, <1>4 DEF SyncGrows, SyncTypes
<1>6. /\ row' = "COMPLETED" => Exists'
      /\ a = "completed" => DoneFor(PayloadOf[s])'
      /\ a = "conflict" => OtherCame(s)'
  BY <1>1, <1>2, <1>3, <1>5, SyncStays, SyncDone DEF Found, DoneSaid
<1> QED
  BY <1>1, <1>2, <1>4, <1>5, <1>6, SyncRests, SyncGoes DEF Reaches

LEMMA CrashStep ==
  ASSUME SyncInv, NEW s \in Senders, Crash(s)
  PROVE  SyncInv'
<1>1. SyncTypeOK /\ SyncTypes /\ Guard \in Keys
  BY SyncParts, SyncConstants
<1>2. Reaches(s, "idle", "outer") /\ answer' \in [Senders -> Settled \cup {"none", "sent"}]
      /\ answer'[s] = "sent" /\ \A t \in Senders : t # s => answer'[t] = answer[t]
  BY <1>1, SyncAnswers DEF Settled, Crash
<1>3. /\ disturbed \subseteq disturbed' /\ disturbed' \subseteq Keys
      /\ Applied(s) => Guard \in disturbed'
  BY <1>1 DEF Crash, Disturb, SyncTypes
<1>4. faults' \in 0..MaxFaults
  BY <1>1, SyncConstants DEF Crash, Faulty, SyncTypes
<1>5. SyncGrows /\ SyncTypes'
  BY <1>1, <1>2, <1>3, <1>4 DEF SyncGrows, SyncTypes, Crash
<1> QED
  BY <1>2, <1>3, <1>5, SyncRests, SyncGoes DEF Reaches, Crash

LEMMA ThrowStep ==
  ASSUME SyncInv, NEW s \in Senders, Throw(s)
  PROVE  SyncInv'
<1>1. SyncTypeOK /\ SyncTypes /\ Placed(s) /\ Present(s) /\ Guard \in Keys
      /\ request[s].key \in Keys
  BY SyncParts, SyncConstants
<1>2. /\ disturbed \subseteq disturbed' /\ disturbed' \subseteq Keys
      /\ Applied(s) => Guard \in disturbed'
  BY <1>1 DEF Throw, Disturb, SyncTypes
<1>3. faults' \in 0..MaxFaults
  BY <1>1, SyncConstants DEF Throw, Faulty, SyncTypes
<1>4. /\ UNCHANGED <<entity, record, row, conflicts, made, answer>>
      /\ SyncGrows /\ SyncTypes'
  BY <1>1, <1>2, <1>3 DEF SyncGrows, SyncTypes, Throw
<1>5. Straight(s)' = Straight(s) /\ Keyed' = Keyed /\ Guard' = Guard
  BY <1>1, <1>4, SyncStays
<1>6. \E key \in Keys : /\ GoesWith(s, "fail", key) /\ record[key].status # "ABSENT"
                        /\ key = "inner" => Keyed /\ (~Straight(s) => HoldsOuter(s))
                        /\ Straight(s) => key = "inner"
                        /\ answer[s] # "none"
  <2>1. CASE Working(s) /\ GoesWith(s, "fail", Guard)
    BY <1>1, <2>1
    DEF Working, InStep, Placed, Present, Guard, HoldsOuter, Straight, Keys
  <2>2. CASE /\ InStep(s, "complete") \/ (InStep(s, "upsert") /\ request[s].status = "COMPLETED")
             /\ GoesWith(s, "fail", "outer")
    BY <1>1, <2>2 DEF InStep, Placed, Present, HoldsOuter, Keys
  <2> QED
    BY <2>1, <2>2 DEF Throw
<1>7. PICK key \in Keys : /\ GoesWith(s, "fail", key) /\ record[key].status # "ABSENT"
                          /\ key = "inner" => Keyed /\ (~Straight(s) => HoldsOuter(s))
                          /\ Straight(s) => key = "inner"
                          /\ answer[s] # "none"
  BY <1>6
<1>8. Reaches(s, "fail", key)
  BY <1>1, <1>7, SyncMoves
<1>9. ~Working(s)' /\ (HoldsOuter(s)' => HoldsOuter(s))
  BY <1>5, <1>7, <1>8 DEF Reaches, Working, HoldsOuter, InStep
<1>10. Placed(s)' /\ Found(s)'
  BY <1>4, <1>5, <1>7, <1>8 DEF Reaches, Placed, Found
<1>11. Present(s)'
  <2>1. HoldsOuter(s)' => record'["outer"].status # "ABSENT"
    BY <1>1, <1>4, <1>9 DEF Present
  <2> QED
    BY <1>4, <1>7, <1>8, <2>1 DEF Reaches, Present
<1> QED
  BY <1>2, <1>4, <1>8, <1>9, <1>10, <1>11, SyncGoes DEF Reaches

(* What a record has come to mean: the payload of one that came, and of what was done. *)
LEMMA SyncRecords ==
  ASSUME SyncInv, SyncGrows, SyncTypes',
         \A k \in Keys :
           \/ /\ record'[k].payload = record[k].payload /\ record[k].status # "ABSENT"
              /\ record'[k].status = "COMPLETED" =>
                   record[k].status = "COMPLETED" \/ DoneFor(record[k].payload)'
           \/ record'[k] = record[k] \/ record'[k].status = "ABSENT"
           \/ /\ record'[k].status # "COMPLETED"
              /\ \E t \in Senders : PayloadOf[t] = record'[k].payload /\ answer'[t] # "none"
  PROVE  RecordsMean'
<1>1. ASSUME NEW k \in Keys, record'[k].status # "ABSENT",
             record'[k].payload = record[k].payload, record[k].status # "ABSENT",
             record'[k].status = "COMPLETED" =>
               record[k].status = "COMPLETED" \/ DoneFor(record[k].payload)'
      PROVE  /\ \E t \in Senders : PayloadOf[t] = record'[k].payload /\ answer'[t] # "none"
             /\ record'[k].status = "COMPLETED" => DoneFor(record[k].payload)'
  <2>1. PICK t \in Senders : PayloadOf[t] = record[k].payload /\ answer[t] # "none"
    BY <1>1, SyncParts DEF RecordsMean
  <2>2. answer'[t] # "none" /\ record[k].payload \in Payloads
    BY <2>1, SyncConstants DEF SyncGrows
  <2>3. record[k].status = "COMPLETED" => DoneFor(record[k].payload)
    BY SyncParts DEF RecordsMean
  <2>4. ASSUME record[k].status = "COMPLETED" PROVE DoneFor(record[k].payload)'
    <3>1. PICK p \in Payloads : p = record[k].payload
      BY <2>2
    <3>2. DoneFor(p)'
      BY <2>3, <2>4, <3>1, SyncStays, SyncParts
    <3> QED
      BY <1>1, <3>1, <3>2 DEF DoneFor
  <2> QED
    BY <1>1, <2>1, <2>2, <2>4
<1>2. ASSUME NEW k \in Keys
      PROVE  /\ record'[k].status # "ABSENT" =>
                  \E t \in Senders : PayloadOf[t] = record'[k].payload /\ answer'[t] # "none"
             /\ record'[k].status = "COMPLETED" => DoneFor(record[k].payload)'
  <2>1. CASE record'[k].payload = record[k].payload /\ record[k].status # "ABSENT"
             /\ (record'[k].status = "COMPLETED" =>
                   record[k].status = "COMPLETED" \/ DoneFor(record[k].payload)')
    BY <1>1, <2>1 DEF DoneFor
  <2>2. CASE record'[k] = record[k] \/ record'[k].status = "ABSENT"
    BY <1>1, <2>2 DEF DoneFor
  <2>3. CASE /\ record'[k].status # "COMPLETED"
             /\ \E t \in Senders : PayloadOf[t] = record'[k].payload /\ answer'[t] # "none"
    BY <2>3
  <2> QED
    BY <2>1, <2>2, <2>3
<1> QED
  BY <1>2 DEF RecordsMean, DoneFor

(* What is not made again is made once still. *)
LEMMA SyncMadeStays ==
  ASSUME SyncInv, SyncGrows, made' = made
  PROVE  MadeOnce'
<1>1. Guard' = Guard /\ entity' = entity /\ disturbed \subseteq disturbed'
  BY SyncStays, SyncParts DEF SyncGrows
<1> QED
  BY <1>1, SyncParts DEF MadeOnce

LEMMA BeginWriteStep ==
  ASSUME SyncInv, NEW s \in Senders, BeginWrite(s)
  PROVE  SyncInv'
<1> DEFINE k == request[s].key  lost == record[k] # request[s].saw
           r == [status |-> "PROCESSING", payload |-> PayloadOf[s], locked |-> TRUE]
<1>1. /\ SyncTypeOK /\ SyncTypes /\ Placed(s) /\ Present(s) /\ Found(s) /\ k \in Keys
      /\ ~Applied(s) /\ ~Working(s) /\ request[s].at = "begin_write"
      /\ PayloadOf[s] \in Payloads /\ answer[s] # "none" /\ request[s].saw \in Record
      /\ Guard \in Keys
  BY SyncParts, SyncConstants DEF BeginWrite, Applied, Working, InStep, Placed, Request
<1>2. UNCHANGED <<entity, row, conflicts, made, answer, faults>>
  BY DEF BeginWrite
<1>3. CASE Goes(s, "begin") /\ UNCHANGED <<record, disturbed>>
  <2>1. Reaches(s, "begin", k) /\ SyncGrows /\ SyncTypes'
    BY <1>1, <1>2, <1>3, SyncMoves DEF Goes, SyncGrows, SyncTypes
  <2>2. Straight(s)' = Straight(s) /\ Keyed' = Keyed /\ Guard' = Guard
    BY <1>1, <2>1, SyncStays
  <2>3. ~Working(s)' /\ (HoldsOuter(s)' => HoldsOuter(s))
    BY <2>1, <2>2 DEF Reaches, Working, HoldsOuter, InStep
  <2>4. Placed(s)' /\ Present(s)' /\ Found(s)'
    BY <1>1, <1>2, <1>3, <2>1, <2>2, <2>3 DEF Reaches, Placed, Present, Found
  <2> QED
    BY <1>1, <1>2, <1>3, <2>1, <2>3, <2>4, SyncGoes DEF Reaches
<1>4. CASE record' = [record EXCEPT ![k] = r] /\ disturbed' = Disturb(lost, k) /\ Begun(s)
  <2>1. /\ r \in Record /\ record' \in [Keys -> Record] /\ record'[k] = r
        /\ \A i \in Keys : i # k => record'[i] = record[i]
    BY <1>1, <1>4 DEF Record, SyncTypes
  <2>2. /\ disturbed \subseteq disturbed' /\ disturbed' \subseteq Keys
        /\ k \notin disturbed' => record[k] = request[s].saw
    BY <1>1, <1>4 DEF Disturb, SyncTypes
  <2>3. SyncGrows /\ SyncTypes'
    BY <1>1, <1>2, <2>1, <2>2 DEF SyncGrows, SyncTypes
  <2>4. /\ Straight(s)' = Straight(s) /\ Keyed' = Keyed /\ Guard' = Guard
        /\ \A t \in Senders : Straight(t)' = Straight(t)
    BY <1>1, <2>3, SyncStays
  <2>5. PICK step \in {"begin", "look"}, key \in Keys :
          /\ Reaches(s, step, key)
          /\ step = "begin" => k = "outer" /\ key = "inner" /\ Keyed
          /\ step = "look" => key = k /\ k = Guard
    BY <1>1, <1>4, SyncMoves DEF Begun, Goes, Keys, Guard, Placed
  <2>6. /\ \A t \in Senders : t # s => request'[t] = request[t]
        /\ request'[s].at = step /\ request'[s].key = key
    BY <1>1, <2>5 DEF Reaches, SyncTypeOK
  <2>7. \A t \in Senders : t # s =>
          /\ Working(t)' = Working(t) /\ HoldsOuter(t)' = HoldsOuter(t)
          /\ Applied(t)' = Applied(t)
    BY <2>4, <2>6 DEF Working, HoldsOuter, Applied, InStep
  <2>8. Placed(s)' /\ Found(s)'
    BY <1>1, <1>2, <2>4, <2>5, <2>6 DEF Placed, Found
  <2>9. Present(s)'
    <3>1. HoldsOuter(s)' => record'["outer"].status # "ABSENT"
      BY <1>1, <2>1, <2>4, <2>5, <2>6 DEF HoldsOuter, InStep, Present, Keys
    <3> QED
      BY <2>1, <2>5, <2>6, <3>1 DEF Present
  <2>10. RecordsMean'
    BY <1>1, <1>2, <2>1, <2>3, SyncRecords
  <2>11. GuardStands'
    <3> SUFFICES ASSUME Guard \notin disturbed' PROVE GuardStands'
      BY <2>4 DEF GuardStands
    <3>1. Guard \notin disturbed
      BY <2>2
    <3>2. CASE k # Guard
      <4>1. step = "begin" /\ record'[Guard] = record[Guard] /\ Keyed
        BY <1>1, <2>1, <2>5, <3>2
      <4>2. ~Working(s)' /\ ~Applied(s)'
        BY <2>4, <2>6, <4>1 DEF Working, Applied, InStep
      <4>3. Exists' = Exists
        BY <1>2 DEF Exists
      <4> QED
        BY <1>1, <2>4, <2>7, <3>1, <4>1, <4>2, <4>3, SyncParts DEF GuardStands
    <3>3. CASE k = Guard
      <4>1. record[Guard].status # "COMPLETED"
            /\ ~(record[Guard].status = "PROCESSING" /\ record[Guard].locked)
        BY <1>1, <2>2, <3>3 DEF Found
      <4>2. \A t \in Senders : ~Working(t) /\ ~Applied(t)
        BY <3>1, <4>1, SyncParts DEF GuardStands, Applied, Working
      <4>3. ~Exists'
        BY <1>2, <3>1, <4>1, <4>2, SyncParts DEF GuardStands, Exists
      <4>4. record'[Guard] = r
        BY <2>1, <3>3
      <4> QED
        BY <2>4, <2>7, <4>2, <4>3, <4>4 DEF GuardStands
    <3> QED
      BY <3>2, <3>3
  <2>12. OuterStands'
    <3> SUFFICES ASSUME disturbed' = {}, Keyed, NEW t \in Senders, HoldsOuter(t)'
                 PROVE  /\ record'["outer"].status = "PROCESSING" => record'["outer"].locked
                        /\ record'["outer"].payload = PayloadOf[t]
      BY <2>4 DEF OuterStands
    <3>1. disturbed = {} /\ record[k] = request[s].saw
      BY <1>1, <2>2
    <3>2. CASE k = "outer"
      <4>1. record'["outer"] = r
        BY <2>1, <3>2
      <4>2. ASSUME t # s PROVE PayloadOf[t] = PayloadOf[s]
        <5>1. HoldsOuter(t) /\ Present(t)
          BY <2>7, <4>2, SyncParts
        <5>2. /\ record["outer"].status # "ABSENT" /\ record["outer"].payload = PayloadOf[t]
              /\ record["outer"].status = "PROCESSING" => record["outer"].locked
          BY <3>1, <5>1, SyncParts DEF OuterStands, Present
        <5>3. record["outer"].status \in {"ABSENT", "PROCESSING", "COMPLETED", "FAILED"}
          BY <1>1, <3>1, <3>2 DEF Record
        <5> QED
          BY <1>1, <3>1, <3>2, <5>2, <5>3 DEF Found, SameHash
      <4> QED
        BY <4>1, <4>2
    <3>3. CASE k # "outer"
      <4>1. record'["outer"] = record["outer"] /\ step = "look" /\ key = k
        BY <2>1, <2>5, <3>3 DEF Keys
      <4>2. HoldsOuter(t)
        BY <1>1, <2>4, <2>6, <2>7, <3>3, <4>1 DEF HoldsOuter, InStep
      <4> QED
        BY <3>1, <4>1, <4>2, SyncParts DEF OuterStands
    <3> QED
      BY <3>2, <3>3
  <2> QED
    BY <1>2, <2>3, <2>5, <2>8, <2>9, <2>10, <2>11, <2>12, SyncMadeStays, SyncKept DEF Reaches
<1> QED
  BY <1>3, <1>4 DEF BeginWrite

LEMMA InsertStep ==
  ASSUME SyncInv, NEW s \in Senders, Insert(s)
  PROVE  SyncInv'
<1> DEFINE p == PayloadOf[s]
<1>1. /\ SyncTypeOK /\ SyncTypes /\ Placed(s) /\ Present(s) /\ request[s].key = Guard
      /\ ~Applied(s) /\ Working(s) /\ request[s].at = "insert" /\ p \in Payloads
      /\ Guard \in Keys /\ record[Guard].status # "ABSENT" /\ answer[s] # "none"
  BY SyncParts, SyncConstants DEF Insert, Applied, Working, InStep, Placed, Present
<1>2. UNCHANGED <<entity, record, row, conflicts, answer, faults, disturbed>>
  BY DEF Insert
<1>3. CASE entity.kind = "local" /\ Exists /\ GoesWith(s, "fail", "inner") /\ UNCHANGED made
  <2>1. Reaches(s, "fail", "inner") /\ SyncGrows /\ SyncTypes' /\ Keyed /\ Guard = "inner"
    BY <1>1, <1>2, <1>3, SyncMoves DEF SyncGrows, SyncTypes, Keys, Keyed, Guard
  <2>2. Straight(s)' = Straight(s) /\ Keyed' = Keyed /\ Guard' = Guard
    BY <1>1, <2>1, SyncStays
  <2>3. ~Working(s)' /\ (HoldsOuter(s)' => HoldsOuter(s))
    BY <1>1, <2>1, <2>2 DEF Reaches, Working, HoldsOuter, InStep
  <2>4. Placed(s)' /\ Present(s)' /\ Found(s)'
    BY <1>1, <1>2, <2>1, <2>2, <2>3 DEF Reaches, Placed, Present, Found
  <2> QED
    BY <1>1, <1>2, <1>3, <2>1, <2>3, <2>4, SyncGoes DEF Reaches
<1>4. CASE /\ ~(entity.kind = "local" /\ Exists)
           /\ made' = [made EXCEPT ![p] = IF @ = 2 THEN 2 ELSE @ + 1]
           /\ Goes(s, IF Keyed THEN "store" ELSE "complete")
  <2>1. /\ made \in [Payloads -> 0..2] /\ made' \in [Payloads -> 0..2] /\ made'[p] > 0
        /\ made[p] = 0 => made'[p] = 1
        /\ \A i \in Payloads : i # p => made'[i] = made[i]
    BY <1>1, <1>4 DEF SyncTypes
  <2>2. \A i \in Payloads : made[i] > 0 => made'[i] > 0
    BY <2>1
  <2>3. SyncGrows /\ SyncTypes'
    BY <1>1, <1>2, <2>1, <2>2 DEF SyncGrows, SyncTypes
  <2>4. /\ Straight(s)' = Straight(s) /\ Keyed' = Keyed /\ Guard' = Guard
        /\ \A t \in Senders : Straight(t)' = Straight(t)
    BY <1>1, <2>3, SyncStays
  <2>5. PICK step \in {"store", "complete"} :
          Reaches(s, step, Guard) /\ (step = "store" <=> Keyed)
    BY <1>1, <1>4, SyncMoves DEF Goes
  <2>6. /\ \A t \in Senders : t # s => request'[t] = request[t]
        /\ request'[s].at = step /\ request'[s].key = Guard
    BY <1>1, <2>5 DEF Reaches, SyncTypeOK
  <2>7. \A t \in Senders : /\ Working(t)' = Working(t)
                           /\ Keyed => HoldsOuter(t)' = HoldsOuter(t)
    BY <1>1, <2>4, <2>5, <2>6 DEF Working, HoldsOuter, InStep
  <2>8. Applied(s)'
    BY <2>4, <2>5, <2>6 DEF Applied, InStep
  <2>9. DoneFor(p)' /\ Exists'
    BY <1>1, <2>1, SyncDone DEF DoneSaid
  <2>10. Placed(s)' /\ Found(s)'
    BY <1>2, <1>1, <2>4, <2>5, <2>6, <2>9 DEF Placed, Found, Guard, Straight
  <2>11. Present(s)'
    <3>1. HoldsOuter(s)' => record'["outer"].status # "ABSENT"
      BY <1>1, <1>2, <2>5, <2>7 DEF Present, Guard
    <3> QED
      BY <1>1, <1>2, <2>5, <2>6, <3>1 DEF Present
  <2>12. RecordsMean'
    BY <1>2, <2>3, SyncRecords
  <2>13. GuardStands'
    BY <1>2, <2>4, <2>7, <2>8, SyncParts DEF GuardStands
  <2>14. OuterStands'
    BY <1>2, <2>4, <2>7, SyncParts DEF OuterStands
  <2>15. MadeOnce'
    <3> SUFFICES ASSUME ~(Guard \in disturbed /\ entity.kind # "local") PROVE MadeOnce'
      BY <1>2, <2>4 DEF MadeOnce
    <3>1. ~Exists
      BY <1>1, <1>4, SyncParts DEF GuardStands, Applied, Working, InStep
    <3>2. \A i \in Payloads : made[i] = 0
      BY <2>1, <3>1 DEF Exists
    <3>3. \A i \in Payloads : made'[i] = IF i = p THEN 1 ELSE 0
      BY <1>1, <2>1, <3>2
    <3> QED
      BY <3>3 DEF MadeOnce
  <2> QED
    BY <1>2, <2>3, <2>5, <2>10, <2>11, <2>12, <2>13, <2>14, <2>15, SyncKept DEF Reaches
<1> QED
  BY <1>3, <1>4 DEF Insert

LEMMA StoreStep ==
  ASSUME SyncInv, NEW s \in Senders, Store(s)
  PROVE  SyncInv'
<1>1. /\ SyncTypeOK /\ SyncTypes /\ Placed(s) /\ Present(s) /\ request[s].key = "inner"
      /\ Keyed /\ Guard = "inner" /\ Working(s) /\ request[s].at = "store"
      /\ PayloadOf[s] \in Payloads /\ record["inner"].status # "ABSENT" /\ answer[s] # "none"
      /\ DoneFor(PayloadOf[s]) /\ (~Straight(s) => HoldsOuter(s))
  BY SyncParts, SyncConstants
  DEF Store, Working, InStep, Placed, Present, Found, Guard, HoldsOuter
<1>2. /\ UNCHANGED <<entity, row, conflicts, made, faults, disturbed>>
      /\ record' = Closed("inner", "COMPLETED")
  BY DEF Store
<1>3. /\ record' \in [Keys -> Record] /\ record'["outer"] = record["outer"]
      /\ record'["inner"].status = "COMPLETED"
      /\ record'["inner"].payload = record["inner"].payload
  <2> DEFINE r == [record["inner"] EXCEPT !.status = "COMPLETED", !.locked = FALSE]
  <2>1. /\ record \in [Keys -> Record] /\ "inner" \in Keys /\ "outer" \in Keys
        /\ record["inner"] \in Record
    BY <1>1 DEF SyncTypes, Keys
  <2>2. r \in Record /\ r.status = "COMPLETED" /\ r.payload = record["inner"].payload
    BY <2>1 DEF Record
  <2>3. record' = [record EXCEPT !["inner"] = r]
    BY <1>2, <2>1 DEF Closed, Record
  <2> HIDE DEF r
  <2> QED
    BY <2>1, <2>2, <2>3
<1>4. /\ answer' \in [Senders -> Settled \cup {"none", "sent"}]
      /\ answer'[s] = answer[s] \/ answer'[s] = "completed"
      /\ \A t \in Senders : t # s => answer'[t] = answer[t]
      /\ \/ Straight(s) /\ Reaches(s, "idle", "outer")
         \/ ~Straight(s) /\ Reaches(s, "complete", "outer") /\ answer' = answer
  <2>1. CASE Straight(s)
    BY <1>1, <2>1, SyncAnswers DEF Store, Settled
  <2>2. CASE ~Straight(s)
    BY <1>1, <2>2, SyncMoves DEF Store, Keys, SyncTypes
  <2> QED
    BY <2>1, <2>2
<1>5. SyncGrows /\ SyncTypes'
  BY <1>1, <1>2, <1>3, <1>4 DEF SyncGrows, SyncTypes, Keys
<1>6. /\ Keyed' = Keyed /\ Guard' = Guard /\ DoneFor(PayloadOf[s])'
      /\ \A t \in Senders : Straight(t)' = Straight(t)
  BY <1>1, <1>5, SyncStays
<1>7. /\ \A t \in Senders : t # s => request'[t] = request[t]
      /\ Straight(s) => request'[s].at = "idle" /\ request'[s].key = "outer"
      /\ ~Straight(s) => request'[s].at = "complete" /\ request'[s].key = "outer"
  BY <1>1, <1>4 DEF Reaches, SyncTypeOK
<1>8. /\ ~Working(s)' /\ \A t \in Senders : t # s => Working(t)' = Working(t)
      /\ \A t \in Senders : HoldsOuter(t)' => HoldsOuter(t)
  BY <1>1, <1>6, <1>7 DEF Working, HoldsOuter, InStep
<1>9. Placed(s)' /\ Found(s)'
  BY <1>1, <1>4, <1>6, <1>7 DEF Placed, Found
<1>10. Present(s)'
  BY <1>1, <1>3, <1>7, <1>8 DEF Present
<1>11. RecordsMean'
  <2>1. DoneFor(record["inner"].payload)'
    <3>1. disturbed = {} => record["inner"].payload = PayloadOf[s]
      BY <1>1, SyncParts DEF GuardStands
    <3>2. Exists'
      BY <1>6, SyncDone DEF DoneSaid
    <3> QED
      BY <1>2, <1>3, <1>6, <3>1, <3>2, SyncDone DEF DoneSaid
  <2>2. \A k \in Keys :
          \/ record'[k] = record[k]
          \/ /\ record'[k].payload = record[k].payload /\ record[k].status # "ABSENT"
             /\ DoneFor(record[k].payload)'
    BY <1>1, <1>3, <2>1 DEF Keys
  <2> QED
    BY <1>5, <2>2, SyncRecords
<1>12. GuardStands'
  <2>1. Guard \notin disturbed => \A t \in Senders : ~Working(t)'
    BY <1>1, <1>8, SyncParts DEF GuardStands
  <2> QED
    BY <1>1, <1>2, <1>3, <1>6, <2>1 DEF GuardStands
<1>13. OuterStands'
  BY <1>2, <1>3, <1>6, <1>8, SyncParts DEF OuterStands
<1> QED
  BY <1>2, <1>4, <1>5, <1>6, <1>9, <1>10, <1>11, <1>12, <1>13, SyncMadeStays, SyncKept
  DEF Reaches

LEMMA CompleteStep ==
  ASSUME SyncInv, NEW s \in Senders, Complete(s)
  PROVE  SyncInv'
<1>1. /\ SyncTypeOK /\ SyncTypes /\ Placed(s) /\ Present(s) /\ request[s].key = "outer"
      /\ ~Straight(s) /\ HoldsOuter(s) /\ request[s].at = "complete"
      /\ PayloadOf[s] \in Payloads /\ record["outer"].status # "ABSENT" /\ answer[s] # "none"
      /\ DoneFor(PayloadOf[s]) /\ (~Keyed => Working(s) /\ Guard = "outer")
  BY SyncParts, SyncConstants
  DEF Complete, Working, InStep, Placed, Present, Found, Guard, HoldsOuter
<1>2. /\ UNCHANGED <<entity, row, conflicts, made, answer, faults, disturbed>>
      /\ record' = Closed("outer", "COMPLETED")
  BY DEF Complete
<1>3. /\ record' \in [Keys -> Record] /\ record'["inner"] = record["inner"]
      /\ record'["outer"].status = "COMPLETED"
      /\ record'["outer"].payload = record["outer"].payload
  <2> DEFINE r == [record["outer"] EXCEPT !.status = "COMPLETED", !.locked = FALSE]
  <2>1. /\ record \in [Keys -> Record] /\ "outer" \in Keys /\ "inner" \in Keys
        /\ record["outer"] \in Record
    BY <1>1 DEF SyncTypes, Keys
  <2>2. r \in Record /\ r.status = "COMPLETED" /\ r.payload = record["outer"].payload
    BY <2>1 DEF Record
  <2>3. record' = [record EXCEPT !["outer"] = r]
    BY <1>2, <2>1 DEF Closed, Record
  <2> HIDE DEF r
  <2> QED
    BY <2>1, <2>2, <2>3
<1> DEFINE q == [request[s] EXCEPT !.at = "upsert", !.status = "COMPLETED"]
<1>4. /\ request \in [Senders -> Request] /\ request[s] \in Request
      /\ q \in Request /\ q.at = "upsert" /\ q.key = "outer" /\ q.status = "COMPLETED"
  BY <1>1 DEF SyncTypeOK, Request
<1>5. request' = [request EXCEPT ![s] = q]
  BY <1>4 DEF Request, Complete
<1> HIDE DEF q
<1>6. /\ Reaches(s, "upsert", "outer") /\ \A t \in Senders : t # s => request'[t] = request[t]
      /\ request'[s].at = "upsert" /\ request'[s].key = "outer"
      /\ request'[s].status = "COMPLETED"
  BY <1>4, <1>5 DEF Reaches
<1>7. SyncGrows /\ SyncTypes'
  BY <1>1, <1>2, <1>3 DEF SyncGrows, SyncTypes, Keys
<1>8. /\ Keyed' = Keyed /\ Guard' = Guard /\ DoneFor(PayloadOf[s])'
      /\ \A t \in Senders : Straight(t)' = Straight(t)
  BY <1>1, <1>7, SyncStays
<1>9. /\ ~Working(s)' /\ \A t \in Senders : t # s => Working(t)' = Working(t)
      /\ \A t \in Senders : HoldsOuter(t)' => HoldsOuter(t)
      /\ Keyed => \A t \in Senders : Working(t)' = Working(t) /\ Applied(t)' = Applied(t)
  BY <1>1, <1>6, <1>8 DEF Working, HoldsOuter, Applied, InStep
<1>10. Placed(s)' /\ Found(s)' /\ Present(s)'
  BY <1>1, <1>2, <1>3, <1>6, <1>8, <1>9 DEF Placed, Found, Present
<1>11. RecordsMean'
  <2>1. DoneFor(record["outer"].payload)'
    <3>1. disturbed = {} => record["outer"].payload = PayloadOf[s]
      BY <1>1, SyncParts DEF GuardStands, OuterStands
    <3>2. Exists'
      BY <1>8, SyncDone DEF DoneSaid
    <3> QED
      BY <1>2, <1>3, <1>8, <3>1, <3>2, SyncDone DEF DoneSaid
  <2>2. \A k \in Keys :
          \/ record'[k] = record[k]
          \/ /\ record'[k].payload = record[k].payload /\ record[k].status # "ABSENT"
             /\ DoneFor(record[k].payload)'
    BY <1>1, <1>3, <2>1 DEF Keys
  <2> QED
    BY <1>7, <2>2, SyncRecords
<1>12. GuardStands'
  <2>1. CASE Keyed
    <3>1. record'[Guard] = record[Guard] /\ Exists' = Exists
      BY <1>2, <1>3, <2>1 DEF Guard, Exists
    <3> QED
      BY <1>2, <1>8, <1>9, <2>1, <3>1, SyncParts DEF GuardStands
  <2>2. CASE ~Keyed
    <3>1. Guard \notin disturbed => \A t \in Senders : ~Working(t)'
      BY <1>1, <1>9, <2>2, SyncParts DEF GuardStands
    <3> QED
      BY <1>1, <1>2, <1>3, <1>8, <2>2, <3>1 DEF GuardStands
  <2> QED
    BY <2>1, <2>2
<1>13. OuterStands'
  BY <1>2, <1>3, <1>8, <1>9, SyncParts DEF OuterStands
<1> QED
  BY <1>2, <1>6, <1>7, <1>10, <1>11, <1>12, <1>13, SyncMadeStays, SyncKept DEF Reaches

LEMMA FailStep ==
  ASSUME SyncInv, NEW s \in Senders, Fail(s)
  PROVE  SyncInv'
<1> DEFINE k == request[s].key
<1>1. /\ SyncTypeOK /\ SyncTypes /\ Placed(s) /\ Present(s) /\ k \in Keys
      /\ request[s].at = "fail" /\ ~Applied(s) /\ ~Working(s)
      /\ PayloadOf[s] \in Payloads /\ record[k].status # "ABSENT" /\ answer[s] # "none"
      /\ ~Straight(s) => record["outer"].status # "ABSENT"
      /\ Straight(s) => k = "inner"
      /\ Guard \in Keys
  BY SyncParts, SyncConstants
  DEF Fail, Working, Applied, InStep, Placed, Present, HoldsOuter, Keys
<1>2. /\ UNCHANGED <<entity, row, conflicts, made, faults>>
      /\ record' = Closed(k, "FAILED")
  BY DEF Fail
<1>3. /\ record' \in [Keys -> Record] /\ record'[k].status = "FAILED"
      /\ record'[k].payload = record[k].payload
      /\ \A i \in Keys : i # k => record'[i] = record[i]
  BY <1>1, <1>2 DEF Closed, SyncTypes, Record, Keys
<1>4. /\ disturbed \subseteq disturbed' /\ disturbed' \subseteq Keys
      /\ k = Guard /\ Guard \notin disturbed' =>
           record[Guard].status # "COMPLETED" /\ \A t \in Senders : ~Working(t)
  BY <1>1 DEF Fail, Disturb, SyncTypes
<1>5. /\ answer' \in [Senders -> Settled \cup {"none", "sent"}]
      /\ answer'[s] = answer[s] \/ answer'[s] = "sent"
      /\ \A t \in Senders : t # s => answer'[t] = answer[t]
      /\ \/ Reaches(s, "idle", "outer")
         \/ ~Straight(s) /\ Reaches(s, "fail", "outer") /\ answer' = answer
         \/ /\ ~Straight(s) /\ Reaches(s, "upsert", "outer") /\ answer' = answer
            /\ request'[s].status = "FAILED"
  <2>1. CASE Straight(s)
    BY <1>1, <2>1, SyncAnswers DEF Fail, Settled
  <2>2. CASE ~Straight(s) /\ k = "inner"
    BY <1>1, <2>2, SyncMoves DEF Fail, Keys, SyncTypes
  <2>3. CASE ~Straight(s) /\ k # "inner"
    <3> DEFINE q == [request[s] EXCEPT !.at = "upsert", !.status = "FAILED"]
    <3>1. /\ request \in [Senders -> Request] /\ request[s] \in Request
          /\ q \in Request /\ q.at = "upsert" /\ q.key = "outer" /\ q.status = "FAILED"
      BY <1>1, <2>3 DEF SyncTypeOK, Request, Keys
    <3>2. request' = [request EXCEPT ![s] = q] /\ answer' = answer
      BY <2>3, <3>1 DEF Request, Fail
    <3> HIDE DEF q
    <3> QED
      BY <1>1, <2>3, <3>1, <3>2 DEF Reaches, SyncTypes
  <2> QED
    BY <2>1, <2>2, <2>3
<1>6. SyncGrows /\ SyncTypes'
  BY <1>1, <1>2, <1>3, <1>4, <1>5 DEF SyncGrows, SyncTypes
<1>7. /\ Keyed' = Keyed /\ Guard' = Guard /\ \A t \in Senders : Straight(t)' = Straight(t)
  BY <1>1, <1>6, SyncStays
<1>8. /\ \A t \in Senders : t # s => request'[t] = request[t]
      /\ request'[s].at \in {"idle", "fail", "upsert"} /\ request'[s].key = "outer"
      /\ request'[s].at = "upsert" => request'[s].status = "FAILED"
      /\ Straight(s) => request'[s].at = "idle"
  BY <1>1, <1>5 DEF Reaches, SyncTypeOK
<1>9. /\ ~Working(s)' /\ ~Applied(s)' /\ ~HoldsOuter(s)'
      /\ \A t \in Senders : t # s =>
           /\ Working(t)' = Working(t) /\ Applied(t)' = Applied(t)
           /\ HoldsOuter(t)' = HoldsOuter(t)
  BY <1>1, <1>7, <1>8 DEF Working, HoldsOuter, Applied, InStep
<1>10. answer'[s] # "none" /\ (~Straight(s) => record'["outer"].status # "ABSENT")
  BY <1>1, <1>3, <1>5 DEF Keys
<1>11. Placed(s)' /\ Found(s)' /\ Present(s)'
  BY <1>7, <1>8, <1>9, <1>10 DEF Placed, Found, Present
<1>12. RecordsMean'
  <2>1. \A i \in Keys :
          \/ record'[i] = record[i]
          \/ /\ record'[i].payload = record[i].payload /\ record[i].status # "ABSENT"
             /\ record'[i].status # "COMPLETED"
    BY <1>1, <1>3
  <2> QED
    BY <1>6, <2>1, SyncRecords
<1>13. GuardStands'
  <2> SUFFICES ASSUME Guard \notin disturbed' PROVE GuardStands'
    BY <1>7 DEF GuardStands
  <2>1. Guard \notin disturbed /\ Exists' = Exists
    BY <1>2, <1>4 DEF Exists
  <2>2. CASE k = Guard
    <3>1. /\ record[Guard].status # "COMPLETED"
          /\ \A t \in Senders : ~Working(t) /\ ~Applied(t)
      BY <1>4, <2>2 DEF Working, Applied
    <3>2. ~Exists'
      BY <2>1, <3>1, SyncParts DEF GuardStands
    <3> QED
      BY <1>7, <1>9, <3>1, <3>2 DEF GuardStands
  <2>3. CASE k # Guard
    <3>1. record'[Guard] = record[Guard]
      BY <1>1, <1>3, <2>3
    <3>2. \A t \in Senders : (Working(t)' => Working(t)) /\ (Applied(t) => Applied(t)')
      BY <1>1, <1>9
    <3> QED
      BY <1>7, <2>1, <3>1, <3>2, SyncParts DEF GuardStands
  <2> QED
    BY <2>2, <2>3
<1>14. OuterStands'
  <2> SUFFICES ASSUME disturbed' = {}, Keyed, NEW t \in Senders, HoldsOuter(t)'
               PROVE  /\ record'["outer"].status = "PROCESSING" => record'["outer"].locked
                      /\ record'["outer"].payload = PayloadOf[t]
    BY <1>7 DEF OuterStands
  <2>1. disturbed = {} /\ HoldsOuter(t)
    BY <1>4, <1>9
  <2>2. record'["outer"] = record["outer"]
        \/ (record'["outer"].status = "FAILED" /\ record'["outer"].payload = record["outer"].payload)
    BY <1>3 DEF Keys
  <2> QED
    BY <2>1, <2>2, SyncParts DEF OuterStands
<1> QED
  BY <1>2, <1>5, <1>6, <1>11, <1>12, <1>13, <1>14, SyncMadeStays, SyncKept DEF Reaches

LEMMA LockEndsStep ==
  ASSUME SyncInv, NEW k \in Keys, LockEnds(k)
  PROVE  SyncInv'
<1>1. SyncTypeOK /\ SyncTypes /\ Guard \in Keys
  BY SyncParts, SyncConstants
<1>2. /\ UNCHANGED <<entity, row, conflicts, made, request, answer>>
      /\ record' = [record EXCEPT ![k].locked = FALSE]
      /\ disturbed \subseteq disturbed' /\ disturbed' \subseteq Keys
      /\ k \notin disturbed' => \A s \in Senders : ~Holds(s, k)
  BY <1>1 DEF LockEnds, Disturb, SyncTypes
<1>3. /\ record' \in [Keys -> Record]
      /\ \A i \in Keys : /\ record'[i].status = record[i].status
                         /\ record'[i].payload = record[i].payload
                         /\ i # k => record'[i] = record[i]
  BY <1>1, <1>2 DEF SyncTypes, Record
<1>4. faults' \in 0..MaxFaults
  <2>1. faults' = faults \/ (faults < MaxFaults /\ faults' = faults + 1)
    BY DEF LockEnds, Faulty
  <2> QED
    BY <1>1, <2>1, SyncConstants DEF SyncTypes
<1>5. SyncGrows /\ SyncTypes'
  BY <1>1, <1>2, <1>3, <1>4 DEF SyncGrows, SyncTypes
<1>6. SyncTypeOK'
  BY <1>1, <1>2, <1>5 DEF SyncTypeOK, SyncTypes
<1>7. /\ Keyed' = Keyed /\ Guard' = Guard /\ \A t \in Senders : Straight(t)' = Straight(t)
      /\ Exists' = Exists
  BY <1>1, <1>2, <1>5, SyncStays DEF Exists
<1>8. \A s \in Senders : Placed(s)' /\ Present(s)' /\ Found(s)'
  BY <1>2, <1>5, SyncParts, SyncOthers
<1>9. AnswersAreReal'
  BY <1>2, <1>5, <1>6, <1>7, SyncParts, SyncStays, SyncConstants DEF AnswersAreReal
<1>10. ConflictIsReal'
  BY <1>2, SyncParts DEF ConflictIsReal
<1>11. RecordsMean'
  <2>1. \A i \in Keys :
          \/ record'[i] = record[i]
          \/ /\ record'[i].payload = record[i].payload /\ record[i].status # "ABSENT"
             /\ record'[i].status = "COMPLETED" => record[i].status = "COMPLETED"
          \/ record'[i].status = "ABSENT"
    BY <1>3
  <2> QED
    BY <1>5, <2>1, SyncRecords
<1>12. GuardStands'
  <2> SUFFICES ASSUME Guard \notin disturbed' PROVE GuardStands'
    BY <1>7 DEF GuardStands
  <2>1. /\ Guard \notin disturbed
        /\ \A t \in Senders : (Working(t)' => Working(t)) /\ (Applied(t) => Applied(t)')
    BY <1>2, <1>7 DEF Working, Applied, InStep
  <2>2. CASE k = Guard
    <3>1. \A t \in Senders : ~Working(t) /\ ~Applied(t)
      BY <1>2, <2>2 DEF Holds, Working, Applied
    <3> QED
      BY <1>1, <1>3, <1>7, <2>1, <3>1, SyncParts DEF GuardStands
  <2>3. CASE k # Guard
    BY <1>1, <1>3, <1>7, <2>1, <2>3, SyncParts DEF GuardStands
  <2> QED
    BY <2>2, <2>3
<1>13. OuterStands'
  <2> SUFFICES ASSUME disturbed' = {}, Keyed, NEW t \in Senders, HoldsOuter(t)'
               PROVE  /\ record'["outer"].status = "PROCESSING" => record'["outer"].locked
                      /\ record'["outer"].payload = PayloadOf[t]
    BY <1>7 DEF OuterStands
  <2>1. disturbed = {} /\ HoldsOuter(t) /\ k # "outer" /\ "outer" \in Keys
    BY <1>2, <1>7 DEF HoldsOuter, InStep, Holds, Guard, Keys
  <2>2. record'["outer"] = record["outer"]
    BY <1>3, <2>1
  <2> QED
    BY <2>1, <2>2, SyncParts DEF OuterStands
<1>14. MadeOnce'
  BY <1>2, <1>5, SyncMadeStays
<1> QED
  BY <1>6, <1>8, <1>9, <1>10, <1>11, <1>12, <1>13, <1>14 DEF SyncInv, AnswersKept

LEMMA SyncInitially ==
  ASSUME SyncInit
  PROVE  SyncInv
<1>1. SyncTypeOK
  BY SyncConstants DEF SyncInit, SyncTypeOK, Resting, Request, Keys, Settled
<1>2. ~Exists
  BY DEF SyncInit, Exists
<1>3. AnswersAreReal /\ ConflictIsReal /\ MadeOnce
  BY <1>2 DEF SyncInit, AnswersAreReal, ConflictIsReal, MadeOnce, Exists
<1>4. \A s \in Senders : /\ request[s].at = "idle" /\ request[s].key = "outer"
                         /\ ~Working(s) /\ ~HoldsOuter(s)
  BY DEF SyncInit, Resting, Working, HoldsOuter, InStep
<1>5. \A s \in Senders : Placed(s) /\ Present(s) /\ Found(s)
  BY <1>4 DEF Placed, Present, Found
<1>6. RecordsMean
  BY DEF SyncInit, RecordsMean, NoRecord
<1>7. GuardStands /\ OuterStands
  BY <1>2, <1>4 DEF GuardStands, OuterStands
<1> QED
  BY <1>1, <1>3, <1>5, <1>6, <1>7 DEF SyncInv, AnswersKept

LEMMA SyncStep ==
  ASSUME SyncInv, [SyncNext]_syncVars
  PROVE  SyncInv'
<1>1. ASSUME NEW s \in Senders, Send(s) PROVE SyncInv'
  BY <1>1, SendStep
<1>2. ASSUME NEW s \in Senders, Handle(s) PROVE SyncInv'
  <2>1. CASE SyncRead(s)
    BY <2>1, SyncReadStep
  <2>2. CASE Begin(s)
    BY <2>2, BeginStep
  <2>3. CASE BeginWrite(s)
    BY <2>3, BeginWriteStep
  <2>4. CASE Look(s)
    BY <2>4, LookStep
  <2>5. CASE Insert(s)
    BY <2>5, InsertStep
  <2>6. CASE Store(s)
    BY <2>6, StoreStep
  <2>7. CASE Complete(s)
    BY <2>7, CompleteStep
  <2>8. CASE Fail(s)
    BY <2>8, FailStep
  <2>9. CASE Conflict(s)
    BY <2>9, ConflictStep
  <2>10. CASE Upsert(s)
    BY <2>10, UpsertStep
  <2> QED
    BY <1>2, <2>1, <2>2, <2>3, <2>4, <2>5, <2>6, <2>7, <2>8, <2>9, <2>10 DEF Handle
<1>3. ASSUME NEW s \in Senders, Throw(s) PROVE SyncInv'
  BY <1>3, ThrowStep
<1>4. ASSUME NEW s \in Senders, Crash(s) PROVE SyncInv'
  BY <1>4, CrashStep
<1>5. ASSUME NEW k \in Keys, LockEnds(k) PROVE SyncInv'
  BY <1>5, LockEndsStep
<1>6. CASE UNCHANGED syncVars
  BY <1>6
  DEF syncVars, SyncInv, AnswersKept, SyncTypeOK, AnswersAreReal, ConflictIsReal, MadeOnce,
      Placed, Present, Found, RecordsMean, GuardStands, OuterStands, Exists, Guard, Keyed,
      Straight, Working, Applied, HoldsOuter, InStep, OtherCame, DoneFor,
      SameHash
<1> QED
  BY <1>1, <1>2, <1>3, <1>4, <1>5, <1>6 DEF SyncNext

(* The inductive invariant of the operation's requests holds always: where *)
(* each request may be, what it has found out, and what the two records    *)
(* then mean (Sync.SyncInv).                                               *)
THEOREM SyncInductive == SyncSpec => []SyncInv
<1>1. SyncInit => SyncInv
  BY SyncInitially
<1>2. SyncInv /\ [SyncNext]_syncVars => SyncInv'
  BY SyncStep
<1> QED
  BY <1>1, <1>2, PTL DEF SyncSpec

(* An operation recorded offline is applied once, for any requests and     *)
(* payloads, until the record that guards it loses a request; with a local *)
(* id it is applied once whatever fails (sync.service, incidents and       *)
(* emergencies with their idempotency records).                            *)
THEOREM AppliedOnce == SyncSpec => []MadeOnce
<1>1. SyncInv => MadeOnce
  BY DEF SyncInv
<1> QED
  BY <1>1, SyncInductive, PTL

(* What a device is told is so, for any payloads and whatever the endpoint *)
(* leaves out of its hash: done means done, and until a request is         *)
(* disturbed with a payload that the record guarding the operation does    *)
(* not tell from its own; a conflict means that another payload came.      *)
THEOREM ToldWhatIsSo == SyncSpec => []AnswersKept
<1>1. SyncInv => AnswersKept
  BY DEF SyncInv
<1> QED
  BY <1>1, SyncInductive, PTL
=============================================================================
