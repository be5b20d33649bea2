------------------------------ MODULE JobQueue ------------------------------
(***************************************************************************)
(* One queue of the in-memory job backend                                  *)
(* (infrastructure/queues/in-memory-queue.service.ts).  The queues share   *)
(* nothing but the dead-letter array, which is always filtered by queue,   *)
(* so one queue is the whole story.                                        *)
(*                                                                         *)
(* Everything runs on the event loop of one Node process.  A call of       *)
(* processNext runs without interruption up to its await of the job's      *)
(* processor (Start, or NothingToTake when there is nothing to take), and again     *)
(* from the end of that await (Succeed, Retry, DeadLetter); any number of  *)
(* calls may be waiting at their await.  calls counts the calls of         *)
(* processNext handed to setImmediate and not yet begun.                   *)
(***************************************************************************)
EXTENDS Naturals, Sequences, FiniteSets

CONSTANTS Jobs,         \* the jobs callers may enqueue, each once
          MaxAttempts   \* maxAttempts of a job, 3 in the code

ASSUME JobsAssumption == IsFiniteSet(Jobs)
ASSUME AttemptsAssumption == MaxAttempts \in Nat \ {0}

VARIABLES queue,      \* the array of waiting jobs
          calls,      \* scheduled calls of processNext
          running,    \* jobs whose processor has not answered
          attempts,   \* job.attempts
          completed,  \* jobs whose processor returned
          dead,       \* the dead-letter entries of the queue
          stats,      \* the counters behind getMetrics
          destroyed   \* stop() was called

queueVars == <<queue, calls, running, attempts, completed, dead, stats, destroyed>>

Waiting == {queue[i] : i \in DOMAIN queue}
Known == Waiting \cup running \cup completed \cup dead

QueueInit ==
    /\ queue = <<>>
    /\ calls = 0
    /\ running = {}
    /\ attempts = [j \in Jobs |-> 0]
    /\ completed = {}
    /\ dead = {}
    /\ stats = [waiting |-> 0, active |-> 0, completed |-> 0, failed |-> 0]
    /\ destroyed = FALSE

(* bumpStat never lets a counter fall below zero. *)
Less(n) == IF n = 0 THEN 0 ELSE n - 1

(* A job is added to the back of the queue and a call is scheduled for it. *)
Push(j) ==
    /\ queue' = Append(queue, j)
    /\ calls' = calls + 1

(* The last lines of processNext: another call while jobs are left. *)
Continue == calls' = IF queue # <<>> THEN calls + 1 ELSE calls

-----------------------------------------------------------------------------

(* enqueue looks neither at destroyed nor at the length of the queue. *)
Enqueue(j) ==
    /\ j \notin Known
    /\ Push(j)
    /\ stats' = [stats EXCEPT !.waiting = @ + 1]
    /\ UNCHANGED <<running, attempts, completed, dead, destroyed>>

(* A scheduled call that returns at once. *)
NothingToTake ==
    /\ calls > 0
    /\ destroyed \/ queue = <<>>
    /\ calls' = calls - 1
    /\ UNCHANGED <<queue, running, attempts, completed, dead, stats, destroyed>>

Start_Peeks ==                     \* slip: the job is not removed
    /\ calls > 0
    /\ ~destroyed
    /\ queue # <<>>
    /\ calls' = calls - 1
    /\ running' = running \cup {Head(queue)}
    /\ UNCHANGED <<queue, stats, attempts, completed, dead, destroyed>>

(* A scheduled call that takes the first job and awaits its processor. *)
Start ==
    /\ calls > 0
    /\ ~destroyed
    /\ queue # <<>>
    /\ calls' = calls - 1
    /\ queue' = Tail(queue)
    /\ running' = running \cup {Head(queue)}
    /\ stats' = [stats EXCEPT !.waiting = Less(@), !.active = @ + 1]
    /\ UNCHANGED <<attempts, completed, dead, destroyed>>

(* The processor returned. *)
Succeed(j) ==
    /\ j \in running
    /\ running' = running \ {j}
    /\ completed' = completed \cup {j}
    /\ stats' = [stats EXCEPT !.active = Less(@), !.completed = @ + 1]
    /\ Continue
    /\ UNCHANGED <<queue, attempts, dead, destroyed>>

Retry_Unscheduled(j) ==            \* slip: no call is scheduled
    /\ j \in running
    /\ attempts[j] + 1 < MaxAttempts
    /\ running' = running \ {j}
    /\ attempts' = [attempts EXCEPT ![j] = @ + 1]
    /\ queue' = Append(queue, j)
    /\ stats' = [stats EXCEPT !.active = Less(@), !.waiting = @ + 1]
    /\ UNCHANGED <<calls, completed, dead, destroyed>>

Retry_StaysActive(j) ==            \* slip: active is not decremented
    /\ j \in running
    /\ attempts[j] + 1 < MaxAttempts
    /\ running' = running \ {j}
    /\ attempts' = [attempts EXCEPT ![j] = @ + 1]
    /\ Push(j)
    /\ stats' = [stats EXCEPT !.waiting = @ + 1]
    /\ UNCHANGED <<completed, dead, destroyed>>

(* The processor threw and attempts are left: back of the queue, even      *)
(* after stop().                                                           *)
Retry(j) ==
    /\ j \in running
    /\ attempts[j] + 1 < MaxAttempts
    /\ running' = running \ {j}
    /\ attempts' = [attempts EXCEPT ![j] = @ + 1]
    /\ Push(j)
    /\ stats' = [stats EXCEPT !.active = Less(@), !.waiting = @ + 1]
    /\ UNCHANGED <<completed, dead, destroyed>>

(* The processor threw for the last time. *)
DeadLetter(j) ==
    /\ j \in running
    /\ attempts[j] + 1 >= MaxAttempts
    /\ running' = running \ {j}
    /\ attempts' = [attempts EXCEPT ![j] = @ + 1]
    /\ dead' = dead \cup {j}
    /\ stats' = [stats EXCEPT !.active = Less(@), !.failed = @ + 1]
    /\ Continue
    /\ UNCHANGED <<queue, completed, destroyed>>

(* The module is shut down. *)
Stop ==
    /\ ~destroyed
    /\ destroyed' = TRUE
    /\ UNCHANGED <<queue, calls, running, attempts, completed, dead, stats>>

Settle(j) == Succeed(j) \/ Retry(j) \/ DeadLetter(j)

QueueNext ==
    \/ NothingToTake
    \/ Start
    \/ Stop
    \/ \E j \in Jobs : Enqueue(j) \/ Settle(j)

QueueSpec == QueueInit /\ [][QueueNext]_queueVars

(* The event loop runs every callback it was given, and a processor        *)
(* returns or throws in the end.                                           *)
QueueFairSpec ==
    /\ QueueSpec
    /\ WF_queueVars(NothingToTake \/ Start)
    /\ \A j \in Jobs : WF_queueVars(Settle(j))

-----------------------------------------------------------------------------

QueueTypeOK ==
    /\ queue \in Seq(Jobs)
    /\ calls \in Nat
    /\ running \in SUBSET Jobs
    /\ attempts \in [Jobs -> 0..MaxAttempts]
    /\ completed \in SUBSET Jobs
    /\ dead \in SUBSET Jobs
    /\ stats \in [waiting : Nat, active : Nat, completed : Nat, failed : Nat]
    /\ destroyed \in BOOLEAN

(* No job is stranded: until stop(), a call is scheduled for every waiting *)
(* job.  processNext takes one job for each call, so that a path that pushes     *)
(* without scheduling (a retry, say) would leave a job behind for good.    *)
CallPerJob == ~destroyed => calls >= Len(queue)

(* A job is in one place only, waiting once at most; what completed or is  *)
(* dead is not waiting or running again; it is dead after exactly          *)
(* maxAttempts failures and still alive before.                            *)
OneFate ==
    /\ \A i, k \in DOMAIN queue : queue[i] = queue[k] => i = k
    /\ Waiting \cap (running \cup completed \cup dead) = {}
    /\ running \cap (completed \cup dead) = {}
    /\ completed \cap dead = {}
    /\ \A j \in Jobs : j \in dead <=> attempts[j] = MaxAttempts

(* A job is in its place, and a call comes for it while it waits.          *)
JobsPlaced == CallPerJob /\ OneFate

(* What getMetrics answers is the truth: the counters, moved by several    *)
(* statements apart on each path and clamped at zero, agree with the       *)
(* queue, the jobs in flight, the jobs done and the dead letters.          *)
MetricsExact ==
    /\ stats.waiting = Len(queue)
    /\ stats.active = Cardinality(running)
    /\ stats.completed = Cardinality(completed)
    /\ stats.failed = Cardinality(dead)

(* After stop() no job is started, the calls scheduled before it included. *)
StopStartsNothing == [][destroyed => running' \subseteq running]_queueVars

(* A job that waits is done or in the dead letters some day, unless the    *)
(* process is shut down first.                                             *)
JobsFinish ==
    \A j \in Jobs : j \in Waiting ~> (j \in completed \cup dead \/ destroyed)

=============================================================================
