----------------------- MODULE InfrastructureProofs -------------------------
(* Proofs about what a request of the server goes through before, beside    *)
(* and in its service: Idempotency, for any requests, keys, payloads and    *)
(* lock, JobQueue, for any finite set of jobs and any number of attempts,   *)
(* and Cases, for any number of requests and of cases.                      *)
EXTENDS Idempotency, JobQueue, Cases, FiniteSetTheorems, TLAPS


LEMMA ConstantsFact ==
  /\ \A r \in Requests : KeyOf[r] \in Keys /\ HashOf[r] \in Hashes
  /\ LockTicks \in Nat /\ LockTicks > 0
BY KeyOfAssumption, HashOfAssumption, TimeAssumption

-----------------------------------------------------------------------------
(* Every step keeps the types: the record, the clock and the handlers'     *)
(* stages stay within the values the code gives them.                      *)
LEMMA TypeStep == TypeOK /\ [Next]_vars => TypeOK'
<1> SUFFICES ASSUME TypeOK, [Next]_vars PROVE TypeOK'
  OBVIOUS
<1> USE ConstantsFact DEF TypeOK, Row, Stages, Answers, RowOf, Goto, Reply, Lookup
<1>1. ASSUME NEW r \in Requests, BeginAbsent(r) PROVE TypeOK'
  BY <1>1 DEF BeginAbsent
<1>2. ASSUME NEW r \in Requests, BeginInProgress(r) PROVE TypeOK'
  BY <1>2 DEF BeginInProgress
<1>3. ASSUME NEW r \in Requests, BeginReplay(r) PROVE TypeOK'
  BY <1>3 DEF BeginReplay
<1>4. ASSUME NEW r \in Requests, BeginKeyReused(r) PROVE TypeOK'
  BY <1>4 DEF BeginKeyReused
<1>5. ASSUME NEW r \in Requests, BeginTakeOver(r) PROVE TypeOK'
  BY <1>5 DEF BeginTakeOver
<1>6. ASSUME NEW r \in Requests, TakeOver(r) PROVE TypeOK'
  BY <1>6 DEF TakeOver, ProcessingRow
<1>7. ASSUME NEW r \in Requests, Create(r) PROVE TypeOK'
  BY <1>7 DEF Create, ProcessingRow
<1>8. ASSUME NEW r \in Requests, CreateLost(r) PROVE TypeOK'
  BY <1>8 DEF CreateLost
<1>9. ASSUME NEW r \in Requests, Commit(r) PROVE TypeOK'
  BY <1>9 DEF Commit
<1>10. ASSUME NEW r \in Requests, Throw(r) PROVE TypeOK'
  BY <1>10 DEF Throw
<1>11. ASSUME NEW r \in Requests, Complete(r) PROVE TypeOK'
  BY <1>11 DEF Complete, EndedRow
<1>12. ASSUME NEW r \in Requests, Fail(r) PROVE TypeOK'
  BY <1>12 DEF Fail, EndedRow
<1>13. ASSUME NEW r \in Requests, FailLost(r) PROVE TypeOK'
  BY <1>13 DEF FailLost
<1>14. ASSUME NEW r \in Requests, Crash(r) PROVE TypeOK'
  BY <1>14 DEF Crash
<1>15. CASE Tick
  BY <1>15 DEF Tick
<1>16. CASE UNCHANGED vars
  BY <1>16 DEF vars
<1> QED
  BY <1>1, <1>2, <1>3, <1>4, <1>5, <1>6, <1>7, <1>8, <1>9, <1>10, <1>11,
     <1>12, <1>13, <1>14, <1>15, <1>16 DEF Next, Begin, Handle
-----------------------------------------------------------------------------
(* What a lapsed or disturbed key was, it stays: neither history shrinks.  *)
LEMMA LapsedGrows ==
  ASSUME TypeOK, [Next]_vars, NEW k \in Keys, ~Lapsed(k)'
  PROVE  ~Lapsed(k)
BY DEF TypeOK, Lapsed, Next, vars, Begin, Handle, Lookup, BeginAbsent,
       BeginInProgress, BeginReplay, BeginKeyReused, BeginTakeOver, TakeOver,
       Create, CreateLost, Commit, Throw, Complete, Fail, FailLost, Crash, Tick

LEMMA AnswerStep == TypeOK /\ AnswerInv /\ [Next]_vars => AnswerInv'
BY DEF TypeOK, AnswerInv, Next, vars, Begin, Handle, Lookup, Goto, Reply, Looking,
       BeginAbsent, BeginInProgress, BeginReplay, BeginKeyReused, BeginTakeOver,
       TakeOver, Create, CreateLost, Commit, Throw, Complete, Fail, FailLost,
       Crash, Tick

LEMMA ErrorsStay ==
  ASSUME TypeOK, AnswerInv, [Next]_vars, NEW r \in Requests,
         answer[r].kind = "error"
  PROVE  answer'[r].kind = "error"
BY DEF TypeOK, AnswerInv, Unanswered, Next, vars, Begin, Handle, Lookup, Goto,
       Reply, Looking, BeginAbsent, BeginInProgress, BeginReplay, BeginKeyReused,
       BeginTakeOver, TakeOver, Create, CreateLost, Commit, Throw, Complete,
       Fail, FailLost, Crash, Tick

LEMMA DisturbedGrows ==
  ASSUME TypeOK, AnswerInv, [Next]_vars, NEW k \in Keys, ~Disturbed(k)'
  PROVE  ~Disturbed(k)
BY LapsedGrows, ErrorsStay DEF Disturbed, Lapsed

(* Only an undisturbed key's locks have not lapsed. *)
LEMMA LapsedDisturbs == \A k \in Keys : ~Disturbed(k) => ~Lapsed(k)
BY DEF Disturbed, Lapsed

LEMMA LockStep == TypeOK /\ LockInv /\ [Next]_vars => LockInv'
BY ConstantsFact
   DEF TypeOK, LockInv, Next, vars, Begin, Handle, Lookup, Goto, Reply, Looking,
       BeginAbsent, BeginInProgress, BeginReplay, BeginKeyReused, BeginTakeOver,
       TakeOver, Create, CreateLost, Commit, Throw, Complete, Fail, FailLost,
       Crash, Tick
-----------------------------------------------------------------------------
(* The record never runs ahead of the data, and answers repeat the record. *)
LEMMA CommitStep ==
  TypeOK /\ CommitInv /\ AnswersAreReal /\ [Next]_vars => CommitInv' /\ AnswersAreReal'
<1> DEFINE Goal == CommitInv /\ AnswersAreReal
<1> SUFFICES ASSUME TypeOK, Goal, [Next]_vars PROVE Goal'
  OBVIOUS
<1> USE ConstantsFact DEF TypeOK, Row, Answers, CommitInv, AnswersAreReal, RowOf, Goto, Reply, Lookup
<1>1. ASSUME NEW r \in Requests, BeginAbsent(r) PROVE Goal'
  BY <1>1 DEF BeginAbsent
<1>2. ASSUME NEW r \in Requests, BeginInProgress(r) PROVE Goal'
  BY <1>2 DEF BeginInProgress
<1>3. ASSUME NEW r \in Requests, BeginReplay(r) PROVE Goal'
  BY <1>3 DEF BeginReplay
<1>4. ASSUME NEW r \in Requests, BeginKeyReused(r) PROVE Goal'
  BY <1>4 DEF BeginKeyReused
<1>5. ASSUME NEW r \in Requests, BeginTakeOver(r) PROVE Goal'
  BY <1>5 DEF BeginTakeOver
<1>6. ASSUME NEW r \in Requests, TakeOver(r) PROVE Goal'
  BY <1>6 DEF TakeOver, ProcessingRow
<1>7. ASSUME NEW r \in Requests, Create(r) PROVE Goal'
  BY <1>7 DEF Create, ProcessingRow
<1>8. ASSUME NEW r \in Requests, CreateLost(r) PROVE Goal'
  BY <1>8 DEF CreateLost
<1>9. ASSUME NEW r \in Requests, Commit(r) PROVE Goal'
  BY <1>9 DEF Commit
<1>10. ASSUME NEW r \in Requests, Throw(r) PROVE Goal'
  BY <1>10 DEF Throw
<1>11. ASSUME NEW r \in Requests, Complete(r) PROVE Goal'
  BY <1>11 DEF Complete, EndedRow
<1>12. ASSUME NEW r \in Requests, Fail(r) PROVE Goal'
  BY <1>12 DEF Fail, EndedRow
<1>13. ASSUME NEW r \in Requests, FailLost(r) PROVE Goal'
  BY <1>13 DEF FailLost
<1>14. ASSUME NEW r \in Requests, Crash(r) PROVE Goal'
  BY <1>14 DEF Crash
<1>15. CASE Tick
  BY <1>15 DEF Tick
<1>16. CASE UNCHANGED vars
  BY <1>16 DEF vars
<1> QED
  BY <1>1, <1>2, <1>3, <1>4, <1>5, <1>6, <1>7, <1>8, <1>9, <1>10, <1>11,
     <1>12, <1>13, <1>14, <1>15, <1>16 DEF Next, Begin, Handle

-----------------------------------------------------------------------------
(* While no lock of a key lapsed, its record is locked by a live request   *)
(* or ended, and one payload reaches the operation.                        *)
LEMMA LeaseStep ==
  TypeOK /\ LockInv /\ LeaseInv /\ [Next]_vars => LeaseInv'
<1> SUFFICES ASSUME TypeOK, LockInv, LeaseInv, [Next]_vars,
                    NEW k \in Keys, ~Lapsed(k)'
             PROVE  LeaseOf(k)'
  BY DEF LeaseInv
<1> LeaseOf(k)
  BY LapsedGrows DEF LeaseInv
<1> USE ConstantsFact DEF TypeOK, Row, Stages, LockInv, LeaseInv, LeaseOf, Executing, RowOf, Goto, Reply, Lookup, Looking, Locked, SameHash
<1>1. ASSUME NEW r \in Requests, BeginAbsent(r) PROVE LeaseOf(k)'
  BY <1>1 DEF BeginAbsent
<1>2. ASSUME NEW r \in Requests, BeginInProgress(r) PROVE LeaseOf(k)'
  BY <1>2 DEF BeginInProgress
<1>3. ASSUME NEW r \in Requests, BeginReplay(r) PROVE LeaseOf(k)'
  BY <1>3 DEF BeginReplay
<1>4. ASSUME NEW r \in Requests, BeginKeyReused(r) PROVE LeaseOf(k)'
  BY <1>4 DEF BeginKeyReused
<1>5. ASSUME NEW r \in Requests, BeginTakeOver(r) PROVE LeaseOf(k)'
  <2>1. KeyOf[r] = k /\ RowOf(r).status = "PROCESSING" => Locked(r)
    <3> SUFFICES ASSUME KeyOf[r] = k, row[k].status = "PROCESSING"
                 PROVE  row[k].lockedUntil > clock
      OBVIOUS
    <3>1. PICK o \in Requests : /\ KeyOf[o] = k
                                /\ Executing(o) \/ pc[o] = "crashed"
                                /\ row[k].lockedUntil = at[o] + LockTicks
      OBVIOUS
    <3>2. o \notin lapsed
      BY <3>1, <1>5 DEF Lapsed, BeginTakeOver
    <3> QED
      BY <3>1, <3>2
  <2>2. KeyOf[r] = k => RowOf(r).status = "FAILED" /\ SameHash(r)
    BY <2>1, <1>5 DEF BeginTakeOver
  <2> QED
    BY <2>2, <1>5 DEF BeginTakeOver
<1>6. ASSUME NEW r \in Requests, TakeOver(r) PROVE LeaseOf(k)'
  BY <1>6 DEF TakeOver, ProcessingRow
<1>7. ASSUME NEW r \in Requests, Create(r) PROVE LeaseOf(k)'
  BY <1>7 DEF Create, ProcessingRow
<1>8. ASSUME NEW r \in Requests, CreateLost(r) PROVE LeaseOf(k)'
  BY <1>8 DEF CreateLost
<1>9. ASSUME NEW r \in Requests, Commit(r) PROVE LeaseOf(k)'
  BY <1>9 DEF Commit
<1>10. ASSUME NEW r \in Requests, Throw(r) PROVE LeaseOf(k)'
  BY <1>10 DEF Throw
<1>11. ASSUME NEW r \in Requests, Complete(r) PROVE LeaseOf(k)'
  BY <1>11 DEF Complete, EndedRow
<1>12. ASSUME NEW r \in Requests, Fail(r) PROVE LeaseOf(k)'
  BY <1>12 DEF Fail, EndedRow
<1>13. ASSUME NEW r \in Requests, FailLost(r) PROVE LeaseOf(k)'
  BY <1>13 DEF FailLost, Lapsed
<1>14. ASSUME NEW r \in Requests, Crash(r) PROVE LeaseOf(k)'
  BY <1>14 DEF Crash
<1>15. CASE Tick
  BY <1>15 DEF Tick
<1>16. CASE UNCHANGED vars
  BY <1>16 DEF vars
<1> QED
  BY <1>1, <1>2, <1>3, <1>4, <1>5, <1>6, <1>7, <1>8, <1>9, <1>10, <1>11,
     <1>12, <1>13, <1>14, <1>15, <1>16 DEF Next, Begin, Handle
(* The payload a replay was asked with is the one its record was for.      *)
LEMMA ReplayStep ==
  TypeOK /\ AnswerInv /\ CommitInv /\ LeaseInv /\ ReplayMatchesPayload /\ [Next]_vars
    => ReplayMatchesPayload'
<1> SUFFICES ASSUME TypeOK, AnswerInv, CommitInv, LeaseInv, ReplayMatchesPayload,
                    [Next]_vars, NEW q \in Requests,
                    ~Lapsed(KeyOf[q])', answer'[q].kind = "replay"
             PROVE  HashOf[answer'[q].body] = HashOf[q]
  BY DEF ReplayMatchesPayload
<1>a. ~Lapsed(KeyOf[q])
  BY LapsedGrows, ConstantsFact
<1>b. LeaseOf(KeyOf[q])
  BY <1>a, ConstantsFact DEF LeaseInv
<1>c. CASE answer'[q] = answer[q]
  BY <1>a, <1>c DEF ReplayMatchesPayload
<1>d. ASSUME NEW r \in Requests, BeginReplay(r), answer'[q] # answer[q]
      PROVE  HashOf[answer'[q].body] = HashOf[q]
  <2>1. q = r /\ answer'[q].body = row[KeyOf[q]].body /\ SameHash(q)
    BY <1>d DEF BeginReplay, Reply, RowOf, TypeOK
  <2>2. row[KeyOf[q]].body \in effects[KeyOf[q]]
    BY <2>1, <1>d, ConstantsFact DEF BeginReplay, CommitInv, RowOf
  <2> QED
    BY <2>1, <2>2, <1>b DEF LeaseOf, SameHash, RowOf
<1>e. ASSUME answer'[q] # answer[q] PROVE \E r \in Requests : BeginReplay(r)
  BY <1>e DEF TypeOK, Next, vars, Begin, Handle, Lookup, Goto, Reply, BeginAbsent,
     BeginInProgress, BeginKeyReused, BeginTakeOver, TakeOver, Create,
     CreateLost, Commit, Throw, Complete, Fail, FailLost, Crash, Tick
<1> QED
  BY <1>c, <1>d, <1>e

(* While a key is undisturbed, one request of it gets to the operation.    *)
LEMMA SoleStep ==
  TypeOK /\ AnswerInv /\ LockInv /\ LeaseInv /\ SoleInv /\ [Next]_vars => SoleInv'
<1> SUFFICES ASSUME TypeOK, AnswerInv, LockInv, LeaseInv, SoleInv, [Next]_vars,
                    NEW k \in Keys, ~Disturbed(k)'
             PROVE  SoleOf(k)'
  BY DEF SoleInv
<1>a. SoleOf(k) /\ ~Lapsed(k)
  BY DisturbedGrows, LapsedDisturbs DEF SoleInv
<1>b. LeaseOf(k)
  BY <1>a DEF LeaseInv
<1> USE <1>a, <1>b, ConstantsFact
    DEF TypeOK, Row, SoleOf, Executing, RowOf, Goto, Reply, Lookup, Looking
<1>1. ASSUME NEW r \in Requests, BeginAbsent(r) PROVE SoleOf(k)'
  BY <1>1 DEF BeginAbsent
<1>2. ASSUME NEW r \in Requests, BeginInProgress(r) PROVE SoleOf(k)'
  BY <1>2 DEF BeginInProgress
<1>3. ASSUME NEW r \in Requests, BeginReplay(r) PROVE SoleOf(k)'
  BY <1>3 DEF BeginReplay
<1>4. ASSUME NEW r \in Requests, BeginKeyReused(r) PROVE SoleOf(k)'
  BY <1>4 DEF BeginKeyReused
<1>5. ASSUME NEW r \in Requests, BeginTakeOver(r) PROVE SoleOf(k)'
  <2>1. KeyOf[r] = k /\ RowOf(r).status = "PROCESSING" => Locked(r)
    <3> SUFFICES ASSUME KeyOf[r] = k, row[k].status = "PROCESSING"
                 PROVE  row[k].lockedUntil > clock
      BY DEF Locked
    <3>1. PICK o \in Requests : /\ KeyOf[o] = k
                                /\ Executing(o) \/ pc[o] = "crashed"
                                /\ row[k].lockedUntil = at[o] + LockTicks
      BY DEF LeaseOf
    <3>2. o \notin lapsed
      BY <3>1 DEF Lapsed
    <3> QED
      BY <3>1, <3>2 DEF LockInv
  <2>2. KeyOf[r] # k
    BY <2>1, <1>5 DEF BeginTakeOver
  <2> QED
    BY <2>2, <1>5 DEF BeginTakeOver
<1>6. ASSUME NEW r \in Requests, TakeOver(r) PROVE SoleOf(k)'
  BY <1>6 DEF TakeOver, ProcessingRow
<1>7. ASSUME NEW r \in Requests, Create(r) PROVE SoleOf(k)'
  BY <1>7 DEF Create, ProcessingRow, LeaseOf
<1>8. ASSUME NEW r \in Requests, CreateLost(r) PROVE SoleOf(k)'
  BY <1>8 DEF CreateLost
<1>9. ASSUME NEW r \in Requests, Commit(r) PROVE SoleOf(k)'
  BY <1>9 DEF Commit
<1>10. ASSUME NEW r \in Requests, Throw(r) PROVE SoleOf(k)'
  BY <1>10 DEF Throw
<1>11. ASSUME NEW r \in Requests, Complete(r) PROVE SoleOf(k)'
  BY <1>11 DEF Complete, EndedRow
<1>12. ASSUME NEW r \in Requests, Fail(r) PROVE SoleOf(k)'
  BY <1>12 DEF Fail, EndedRow, Disturbed
<1>13. ASSUME NEW r \in Requests, FailLost(r) PROVE SoleOf(k)'
  BY <1>13 DEF FailLost, Disturbed
<1>14. ASSUME NEW r \in Requests, Crash(r) PROVE SoleOf(k)'
  BY <1>14 DEF Crash
<1>15. CASE Tick
  BY <1>15 DEF Tick
<1>16. CASE UNCHANGED vars
  BY <1>16 DEF vars
<1> QED
  BY <1>1, <1>2, <1>3, <1>4, <1>5, <1>6, <1>7, <1>8, <1>9, <1>10, <1>11,
     <1>12, <1>13, <1>14, <1>15, <1>16 DEF Next, Begin, Handle

-----------------------------------------------------------------------------
LEMMA InitIInv == Init => IInv
BY ConstantsFact
   DEF Init, IInv, TypeOK, AnswerInv, CommitInv, AnswersAreReal, LockInv,
       LeaseInv, LeaseOf, ReplayMatchesPayload, SoleInv, SoleOf, Row, NoRow,
       Stages, Answers, Unanswered, Executing

LEMMA StepIInv == IInv /\ [Next]_vars => IInv'
BY TypeStep, AnswerStep, CommitStep, LockStep, LeaseStep, ReplayStep, SoleStep
   DEF IInv

(* The whole inductive invariant holds in every state the handlers reach.  *)
THEOREM Inductive == Spec => []IInv
BY InitIInv, StepIInv, PTL DEF Spec

(* Type correctness, for any requests, keys, payloads and lock.            *)
THEOREM TypeCorrect == Spec => []TypeOK
BY Inductive, PTL DEF IInv

(* Every "done" or replayed answer reports an operation that committed     *)
(* under the request's key.                                                *)
THEOREM AnswersReal == Spec => []AnswersAreReal
BY Inductive, PTL DEF IInv

(* Without any constraint of the operation's own tables, the record alone  *)
(* lets a key's operation commit at most once until the key is disturbed.  *)
THEOREM OneEffect == Spec => []OneEffectUntilDisturbed
<1>1. IInv => OneEffectUntilDisturbed
  BY DEF IInv, SoleInv, SoleOf, OneEffectUntilDisturbed
<1> QED
  BY <1>1, Inductive, PTL

(* A replay answers the payload it was asked with, until a lock lapses.    *)
THEOREM ReplayRight == Spec => []ReplayMatchesPayload
BY Inductive, PTL DEF IInv

(* A stored response stays until its key is disturbed.                     *)
THEOREM StoredKept == Spec => StoredResponseKept
<1>1. IInv /\ [Next]_vars =>
        [\A k \in Keys : row[k].status = "COMPLETED" /\ ~Disturbed(k)
                           => row'[k] = row[k]]_vars
  <2> SUFFICES ASSUME IInv, Next, NEW k \in Keys,
                      row[k].status = "COMPLETED", ~Disturbed(k)
               PROVE  row'[k] = row[k]
    OBVIOUS
  <2>1. \A r \in Requests : KeyOf[r] = k => pc[r] # "take_over" /\ ~Executing(r)
    BY DEF IInv, SoleInv, SoleOf
  <2> QED
    BY <2>1 DEF IInv, TypeOK, Executing, RowOf, Next, Begin, Handle, Lookup,
       BeginAbsent, BeginInProgress, BeginReplay, BeginKeyReused, BeginTakeOver,
       TakeOver, Create, CreateLost, Commit, Throw, Complete, Fail, FailLost,
       Crash, Tick
<1> QED
  BY <1>1, Inductive, PTL DEF Spec, StoredResponseKept
-----------------------------------------------------------------------------
(* The refinement: each step of the handlers is a step of OncePerKey, or   *)
(* leaves the operations, the answers and the disturbed keys alone.        *)
DisturbedKeys == {k \in Keys : Disturbed(k)}

LEMMA QuietStep ==
  ASSUME UNCHANGED <<effects, answer, lapsed>>
  PROVE  UNCHANGED Promise!vars
BY DEF Promise!vars, Disturbed

(* A request that gets an answer other than an error disturbs no key.      *)
LEMMA ReplyKeepsKeys ==
  ASSUME TypeOK, AnswerInv, NEW r \in Requests, pc[r] # "answered", NEW kind,
         kind # "error", NEW b, Reply(r, kind, b), UNCHANGED lapsed
  PROVE  DisturbedKeys' = DisturbedKeys
<1>1. answer[r].kind # "error" /\ answer'[r].kind # "error"
  BY DEF AnswerInv, Unanswered, Reply, TypeOK
<1>2. \A q \in Requests : q # r => answer'[q] = answer[q]
  BY DEF Reply, TypeOK
<1> QED
  BY <1>1, <1>2 DEF DisturbedKeys, Disturbed

LEMMA PromiseStep == IInv /\ [Next]_vars => [Promise!Next]_(Promise!vars)
<1> SUFFICES ASSUME IInv, [Next]_vars PROVE [Promise!Next]_(Promise!vars)
  OBVIOUS
<1> USE DEF IInv
<1>q. ASSUME UNCHANGED <<effects, answer, lapsed>> PROVE [Promise!Next]_(Promise!vars)
  BY <1>q, QuietStep
<1>1. ASSUME NEW r \in Requests, BeginAbsent(r) \/ BeginTakeOver(r)
      PROVE  [Promise!Next]_(Promise!vars)
  BY <1>1, <1>q DEF BeginAbsent, BeginTakeOver, Lookup
<1>2. ASSUME NEW r \in Requests, TakeOver(r) \/ Create(r) \/ CreateLost(r)
      PROVE  [Promise!Next]_(Promise!vars)
  BY <1>2, <1>q DEF TakeOver, Create, CreateLost
<1>3. ASSUME NEW r \in Requests, Throw(r) \/ Crash(r)
      PROVE  [Promise!Next]_(Promise!vars)
  BY <1>3, <1>q DEF Throw, Crash
<1>4. ASSUME NEW r \in Requests, BeginInProgress(r) \/ BeginKeyReused(r)
      PROVE  [Promise!Next]_(Promise!vars)
  <2>1. PICK kind \in {"in_progress", "key_reused"} : Reply(r, kind, NoBody)
    BY <1>4 DEF BeginInProgress, BeginKeyReused
  <2>2. pc[r] # "answered" /\ UNCHANGED <<effects, lapsed>>
    BY <1>4 DEF BeginInProgress, BeginKeyReused, Lookup, Looking
  <2>3. DisturbedKeys' = DisturbedKeys
    BY <2>1, <2>2, ReplyKeepsKeys
  <2>4. Promise!Refuse(r, kind)
    BY <2>1, <2>2, <2>3
       DEF Promise!Refuse, Promise!Unanswered, Reply, AnswerInv, Unanswered, DisturbedKeys
  <2> QED
    BY <2>4 DEF Promise!Next
<1>5. ASSUME NEW r \in Requests, BeginReplay(r)
      PROVE  [Promise!Next]_(Promise!vars)
  <2> DEFINE b == row[KeyOf[r]].body
  <2>1. /\ Reply(r, "replay", b)
        /\ pc[r] # "answered"
        /\ UNCHANGED <<effects, lapsed>>
        /\ row[KeyOf[r]].status = "COMPLETED"
        /\ HashOf[r] = row[KeyOf[r]].hash
    BY <1>5 DEF BeginReplay, Lookup, Looking, RowOf, SameHash
  <2>2. DisturbedKeys' = DisturbedKeys
    BY <2>1, ReplyKeepsKeys
  <2>3. b \in effects[KeyOf[r]] /\ b \in Requests
    BY <2>1, ConstantsFact DEF CommitInv, TypeOK
  <2>4. HashOf[b] = HashOf[r] \/ KeyOf[r] \in DisturbedKeys
    BY <2>1, <2>3, ConstantsFact, LapsedDisturbs DEF LeaseInv, LeaseOf, DisturbedKeys
  <2>5. Promise!Report(r, "replay", b)
    BY <2>1, <2>2, <2>3, <2>4
       DEF Promise!Report, Promise!Unanswered, Reply, AnswerInv, Unanswered, DisturbedKeys
  <2> QED
    BY <2>3, <2>5 DEF Promise!Next
<1>6. ASSUME NEW r \in Requests, Commit(r) PROVE [Promise!Next]_(Promise!vars)
  <2>1. effects[KeyOf[r]] = {} \/ KeyOf[r] \in DisturbedKeys
    BY <1>6, ConstantsFact DEF Commit, SoleInv, SoleOf, DisturbedKeys
  <2>2. DisturbedKeys' = DisturbedKeys
    BY <1>6 DEF Commit, DisturbedKeys, Disturbed
  <2>3. Promise!Apply(r)
    BY <1>6, <2>1, <2>2 DEF Promise!Apply, Commit, DisturbedKeys
  <2> QED
    BY <2>3 DEF Promise!Next
<1>7. ASSUME NEW r \in Requests, Complete(r) PROVE [Promise!Next]_(Promise!vars)
  <2>1. Reply(r, "done", r) /\ pc[r] = "store" /\ UNCHANGED <<effects, lapsed>>
    BY <1>7 DEF Complete
  <2>2. DisturbedKeys' = DisturbedKeys
    BY <2>1, ReplyKeepsKeys
  <2>3. Promise!Report(r, "done", r)
    BY <2>1, <2>2
       DEF Promise!Report, Promise!Unanswered, Reply, AnswerInv, CommitInv, Unanswered,
           DisturbedKeys
  <2> QED
    BY <2>3 DEF Promise!Next
<1>8. ASSUME NEW r \in Requests, Fail(r) \/ FailLost(r)
      PROVE  [Promise!Next]_(Promise!vars)
  <2>1. /\ pc[r] = "record_failure"
        /\ Reply(r, "error", NoBody)
        /\ UNCHANGED effects
        /\ lapsed' = lapsed \/ lapsed' = lapsed \cup {r}
    BY <1>8 DEF Fail, FailLost
  <2>2. answer'[r].kind = "error" /\ \A q \in Requests : q # r => answer'[q] = answer[q]
    BY <2>1 DEF Reply, TypeOK
  <2>3. answer[r] = Unanswered
    BY <2>1 DEF AnswerInv
  <2>4. DisturbedKeys' = DisturbedKeys \cup {KeyOf[r]}
    BY <2>1, <2>2, <2>3, ConstantsFact DEF DisturbedKeys, Disturbed, Unanswered
  <2>5. Promise!Err(r)
    BY <2>1, <2>3, <2>4
       DEF Promise!Err, Promise!Unanswered, Reply, Unanswered, DisturbedKeys
  <2> QED
    BY <2>5 DEF Promise!Next
<1>9. CASE Tick
  <2>1. DisturbedKeys \subseteq DisturbedKeys' /\ DisturbedKeys' \in SUBSET Keys
    BY <1>9 DEF Tick, DisturbedKeys, Disturbed
  <2>2. Promise!Outlive
    BY <1>9, <2>1 DEF Promise!Outlive, Tick, DisturbedKeys
  <2> QED
    BY <2>2 DEF Promise!Next
<1>10. CASE UNCHANGED vars
  BY <1>10, <1>q DEF vars
<1> QED
  BY <1>1, <1>2, <1>3, <1>4, <1>5, <1>6, <1>7, <1>8, <1>9, <1>10
     DEF Next, Begin, Handle

(* The handlers keep the promise of OncePerKey, for every instance.        *)
THEOREM KeepsPromise == Spec => ImplementsPromise
<1>1. Init => Promise!Init
  BY DEF Init, Promise!Init, Promise!Unanswered, Unanswered, Disturbed
<1> QED
  BY <1>1, PromiseStep, Inductive, PTL DEF Spec, ImplementsPromise, Promise!Spec

(* Every answer is a real one, and to the payload that asked.              *)
THEOREM AnswersAllRight == Spec => []AnswersRight
<1> QED BY AnswersReal, ReplayRight, PTL DEF AnswersRight

-----------------------------------------------------------------------------
(* The queue of jobs.                                                      *)

(* What a push does to the array. *)
LEMMA PushedQueue ==
  ASSUME NEW S, NEW q \in Seq(S), NEW j \in S
  PROVE  /\ Append(q, j) \in Seq(S)
         /\ Len(Append(q, j)) = Len(q) + 1
         /\ DOMAIN Append(q, j) = 1 .. Len(q) + 1
         /\ DOMAIN q = 1 .. Len(q)
         /\ \A i \in 1 .. Len(q) : Append(q, j)[i] = q[i]
         /\ Append(q, j)[Len(q) + 1] = j
OBVIOUS

(* What a shift does to an array that is not empty. *)
LEMMA ShiftedQueue ==
  ASSUME NEW S, NEW q \in Seq(S), q # <<>>
  PROVE  /\ Head(q) \in S
         /\ Head(q) = q[1]
         /\ Tail(q) \in Seq(S)
         /\ Len(q) \in Nat /\ Len(q) > 0
         /\ Len(Tail(q)) = Len(q) - 1
         /\ DOMAIN Tail(q) = 1 .. Len(q) - 1
         /\ DOMAIN q = 1 .. Len(q)
         /\ \A i \in 1 .. Len(q) - 1 : Tail(q)[i] = q[i + 1]
OBVIOUS

-----------------------------------------------------------------------------
(* The counters are natural numbers, whatever they count. *)
LEMMA StatsStep ==
  ASSUME QueueTypeOK, [QueueNext]_queueVars
  PROVE  stats' \in [waiting : Nat, active : Nat, completed : Nat, failed : Nat]
<1> DEFINE S == [waiting : Nat, active : Nat, completed : Nat, failed : Nat]
<1>1. stats \in S
  BY DEF QueueTypeOK
<1>2. \A n \in Nat : Less(n) \in Nat /\ n + 1 \in Nat
  BY DEF Less
<1>3. CASE NothingToTake \/ Stop \/ UNCHANGED queueVars
  BY <1>1, <1>3 DEF NothingToTake, Stop, queueVars
<1>4. CASE Start
  BY <1>1, <1>2, <1>4 DEF Start
<1>5. ASSUME NEW j \in Jobs, Enqueue(j) PROVE stats' \in S
  BY <1>1, <1>2, <1>5 DEF Enqueue
<1>6. ASSUME NEW j \in Jobs, Succeed(j) PROVE stats' \in S
  BY <1>1, <1>2, <1>6 DEF Succeed
<1>7. ASSUME NEW j \in Jobs, Retry(j) PROVE stats' \in S
  BY <1>1, <1>2, <1>7 DEF Retry
<1>8. ASSUME NEW j \in Jobs, DeadLetter(j) PROVE stats' \in S
  BY <1>1, <1>2, <1>8 DEF DeadLetter
<1> QED
  BY <1>3, <1>4, <1>5, <1>6, <1>7, <1>8 DEF QueueNext, Settle

(* Every step keeps the types; attempts stay within the allowance because  *)
(* a job that used it up is dead and does not run.                         *)
LEMMA QueueTypeStep == QueueTypeOK /\ OneFate /\ [QueueNext]_queueVars => QueueTypeOK'
<1> SUFFICES ASSUME QueueTypeOK, OneFate, [QueueNext]_queueVars PROVE QueueTypeOK'
  OBVIOUS
<1>s. stats' \in [waiting : Nat, active : Nat, completed : Nat, failed : Nat]
  BY StatsStep
<1>1. CASE NothingToTake
  BY <1>1, <1>s DEF NothingToTake, QueueTypeOK
<1>2. CASE Start
  <2>1. Head(queue) \in Jobs /\ Tail(queue) \in Seq(Jobs)
    BY <1>2, ShiftedQueue DEF Start, QueueTypeOK
  <2>2. queue' \in Seq(Jobs) /\ running' \in SUBSET Jobs /\ calls' \in Nat
    BY <1>2, <2>1 DEF Start, QueueTypeOK
  <2> QED
    BY <1>2, <1>s, <2>2 DEF Start, QueueTypeOK
<1>3. CASE Stop
  BY <1>3, <1>s DEF Stop, QueueTypeOK
<1>4. ASSUME NEW j \in Jobs, Enqueue(j) PROVE QueueTypeOK'
  <2>1. queue' \in Seq(Jobs) /\ calls' \in Nat
    BY <1>4, PushedQueue DEF Enqueue, Push, QueueTypeOK
  <2> QED
    BY <1>4, <1>s, <2>1 DEF Enqueue, QueueTypeOK
<1>5. ASSUME NEW j \in Jobs, Succeed(j) PROVE QueueTypeOK'
  <2>1. calls' \in Nat /\ running' \in SUBSET Jobs /\ completed' \in SUBSET Jobs
    BY <1>5 DEF Succeed, Continue, QueueTypeOK
  <2> QED
    BY <1>5, <1>s, <2>1 DEF Succeed, QueueTypeOK
<1>6. ASSUME NEW j \in Jobs, Retry(j) PROVE QueueTypeOK'
  <2>1. attempts' \in [Jobs -> 0..MaxAttempts]
    BY <1>6, AttemptsAssumption DEF Retry, QueueTypeOK
  <2>2. queue' \in Seq(Jobs) /\ calls' \in Nat /\ running' \in SUBSET Jobs
    BY <1>6, PushedQueue DEF Retry, Push, QueueTypeOK
  <2> QED
    BY <1>6, <1>s, <2>1, <2>2 DEF Retry, QueueTypeOK
<1>7. ASSUME NEW j \in Jobs, DeadLetter(j) PROVE QueueTypeOK'
  <2>1. attempts[j] # MaxAttempts
    BY <1>7 DEF DeadLetter, OneFate
  <2>2. attempts' \in [Jobs -> 0..MaxAttempts]
    BY <1>7, <2>1, AttemptsAssumption DEF DeadLetter, QueueTypeOK
  <2>3. calls' \in Nat /\ running' \in SUBSET Jobs /\ dead' \in SUBSET Jobs
    BY <1>7 DEF DeadLetter, Continue, QueueTypeOK
  <2> QED
    BY <1>7, <1>s, <2>2, <2>3 DEF DeadLetter, QueueTypeOK
<1>8. CASE UNCHANGED queueVars
  BY <1>8 DEF queueVars, QueueTypeOK
<1> QED
  BY <1>1, <1>2, <1>3, <1>4, <1>5, <1>6, <1>7, <1>8 DEF QueueNext, Settle

(* Every step that adds a job to the queue schedules a call, and a call    *)
(* takes a job when there is one.                                          *)
LEMMA CallStep == QueueTypeOK /\ CallPerJob /\ [QueueNext]_queueVars => CallPerJob'
<1> SUFFICES ASSUME QueueTypeOK, CallPerJob, [QueueNext]_queueVars PROVE CallPerJob'
  OBVIOUS
<1> USE DEF QueueTypeOK, CallPerJob
<1>1. CASE NothingToTake
  BY <1>1 DEF NothingToTake
<1>2. CASE Start
  <2>1. Len(Tail(queue)) = Len(queue) - 1 /\ Len(queue) \in Nat
    BY <1>2, ShiftedQueue DEF Start
  <2> QED
    BY <1>2, <2>1 DEF Start
<1>3. CASE Stop
  BY <1>3 DEF Stop
<1>4. ASSUME NEW j \in Jobs, Enqueue(j) \/ Retry(j) PROVE CallPerJob'
  <2>1. Len(Append(queue, j)) = Len(queue) + 1 /\ Len(queue) \in Nat
    BY PushedQueue
  <2> QED
    BY <1>4, <2>1 DEF Enqueue, Retry, Push
<1>5. ASSUME NEW j \in Jobs, Succeed(j) \/ DeadLetter(j) PROVE CallPerJob'
  <2>1. calls' >= calls /\ calls' \in Nat /\ UNCHANGED <<queue, destroyed>>
    BY <1>5 DEF Succeed, DeadLetter, Continue
  <2> QED
    BY <2>1
<1>6. CASE UNCHANGED queueVars
  BY <1>6 DEF queueVars
<1> QED
  BY <1>1, <1>2, <1>3, <1>4, <1>5, <1>6 DEF QueueNext, Settle

-----------------------------------------------------------------------------
(* A job that is nowhere, pushed, waits once and is nowhere else. *)
LEMMA PushKeepsOrder ==
  ASSUME QueueTypeOK, NEW j \in Jobs, j \notin Waiting, queue' = Append(queue, j),
         \A i, k \in DOMAIN queue : queue[i] = queue[k] => i = k
  PROVE  /\ Waiting' = Waiting \cup {j}
         /\ \A i, k \in DOMAIN queue' : queue'[i] = queue'[k] => i = k
<1> USE DEF QueueTypeOK, Waiting
<1>1. /\ DOMAIN queue' = 1 .. Len(queue) + 1 /\ DOMAIN queue = 1 .. Len(queue)
      /\ Len(queue) \in Nat
      /\ \A i \in 1 .. Len(queue) : queue'[i] = queue[i]
      /\ queue'[Len(queue) + 1] = j
  BY PushedQueue
<1>2. \A i \in DOMAIN queue' : i = Len(queue) + 1 \/ i \in DOMAIN queue
  BY <1>1
<1>3. DOMAIN queue \subseteq DOMAIN queue' /\ Len(queue) + 1 \in DOMAIN queue'
  BY <1>1
<1>4. Waiting' = {queue'[i] : i \in DOMAIN queue'}
  OBVIOUS
<1>5. \A w : w \in Waiting' <=> w \in Waiting \cup {j}
  BY <1>1, <1>2, <1>3, <1>4
<1>6. \A i, k \in DOMAIN queue' : queue'[i] = queue'[k] => i = k
  BY <1>1, <1>2
<1> QED
  BY <1>5, <1>6

(* The first job, taken, waits no more. *)
LEMMA ShiftKeepsOrder ==
  ASSUME QueueTypeOK, queue # <<>>, queue' = Tail(queue),
         \A i, k \in DOMAIN queue : queue[i] = queue[k] => i = k
  PROVE  /\ Head(queue) \in Waiting
         /\ Waiting' = Waiting \ {Head(queue)}
         /\ \A i, k \in DOMAIN queue' : queue'[i] = queue'[k] => i = k
<1> USE DEF QueueTypeOK, Waiting
<1>1. /\ Head(queue) = queue[1] /\ DOMAIN queue' = 1 .. Len(queue) - 1
      /\ DOMAIN queue = 1 .. Len(queue) /\ Len(queue) \in Nat /\ Len(queue) > 0
      /\ \A i \in 1 .. Len(queue) - 1 : queue'[i] = queue[i + 1]
  BY ShiftedQueue
<1>2. Head(queue) \in Waiting
  BY <1>1
<1>3. Waiting' \subseteq Waiting \ {Head(queue)}
  BY <1>1
<1>4. ASSUME NEW w \in Waiting, w # Head(queue) PROVE w \in Waiting'
  <2>1. PICK i \in 1 .. Len(queue) : w = queue[i]
    BY <1>1, <1>4
  <2>2. i - 1 \in 1 .. Len(queue) - 1 /\ (i - 1) + 1 = i
    BY <1>1, <1>4, <2>1
  <2>3. queue'[i - 1] = w
    BY <1>1, <2>1, <2>2
  <2> QED
    BY <1>1, <2>2, <2>3
<1>5. ASSUME NEW i \in DOMAIN queue', NEW k \in DOMAIN queue', queue'[i] = queue'[k]
      PROVE  i = k
  <2>1. i + 1 \in DOMAIN queue /\ k + 1 \in DOMAIN queue
    BY <1>1
  <2>2. queue[i + 1] = queue[k + 1]
    BY <1>1, <1>5
  <2> QED
    BY <1>1, <2>1, <2>2
<1> QED
  BY <1>2, <1>3, <1>4, <1>5

(* No step brings a job to a second place. *)
LEMMA FateStep == QueueTypeOK /\ OneFate /\ [QueueNext]_queueVars => OneFate'
<1> SUFFICES ASSUME QueueTypeOK, OneFate, [QueueNext]_queueVars PROVE OneFate'
  OBVIOUS
<1>1. CASE NothingToTake
  BY <1>1 DEF NothingToTake, OneFate, Waiting
<1>2. CASE Start
  <2>1. /\ Head(queue) \in Waiting /\ Waiting' = Waiting \ {Head(queue)}
        /\ \A i, k \in DOMAIN queue' : queue'[i] = queue'[k] => i = k
    BY <1>2, ShiftKeepsOrder DEF Start, OneFate
  <2>2. running' = running \cup {Head(queue)} /\ UNCHANGED <<attempts, completed, dead>>
    BY <1>2 DEF Start
  <2> QED
    BY <2>1, <2>2 DEF OneFate
<1>3. CASE Stop
  BY <1>3 DEF Stop, OneFate, Waiting
<1>4. ASSUME NEW j \in Jobs, Enqueue(j) PROVE OneFate'
  <2>1. /\ Waiting' = Waiting \cup {j}
        /\ \A i, k \in DOMAIN queue' : queue'[i] = queue'[k] => i = k
    BY <1>4, PushKeepsOrder DEF Enqueue, Push, Known, OneFate
  <2> QED
    BY <1>4, <2>1 DEF Enqueue, Known, OneFate
<1>5. ASSUME NEW j \in Jobs, Succeed(j) PROVE OneFate'
  BY <1>5 DEF Succeed, OneFate, Waiting
<1>6. ASSUME NEW j \in Jobs, Retry(j) PROVE OneFate'
  <2>1. j \in running /\ j \notin Waiting /\ j \notin dead /\ j \notin completed
    BY <1>6 DEF Retry, OneFate
  <2>2. /\ Waiting' = Waiting \cup {j}
        /\ \A i, k \in DOMAIN queue' : queue'[i] = queue'[k] => i = k
    BY <1>6, <2>1, PushKeepsOrder DEF Retry, Push, OneFate
  <2>3. \A q \in Jobs : q \in dead' <=> attempts'[q] = MaxAttempts
    BY <1>6, <2>1, AttemptsAssumption DEF Retry, OneFate, QueueTypeOK
  <2>4. running' = running \ {j} /\ completed' = completed /\ dead' = dead
    BY <1>6 DEF Retry
  <2> QED
    BY <2>1, <2>2, <2>3, <2>4 DEF OneFate
<1>7. ASSUME NEW j \in Jobs, DeadLetter(j) PROVE OneFate'
  <2>1. j \in running /\ j \notin Waiting /\ j \notin dead /\ j \notin completed
    BY <1>7 DEF DeadLetter, OneFate
  <2>2. attempts[j] + 1 = MaxAttempts
    BY <1>7, <2>1, AttemptsAssumption DEF DeadLetter, OneFate, QueueTypeOK
  <2>3. \A q \in Jobs : q \in dead' <=> attempts'[q] = MaxAttempts
    BY <1>7, <2>1, <2>2 DEF DeadLetter, OneFate, QueueTypeOK
  <2>4. /\ running' = running \ {j} /\ completed' = completed
        /\ dead' = dead \cup {j} /\ queue' = queue
    BY <1>7 DEF DeadLetter
  <2> QED
    BY <2>1, <2>3, <2>4 DEF OneFate, Waiting
<1>8. CASE UNCHANGED queueVars
  BY <1>8 DEF queueVars, OneFate, Waiting
<1> QED
  BY <1>1, <1>2, <1>3, <1>4, <1>5, <1>6, <1>7, <1>8 DEF QueueNext, Settle

-----------------------------------------------------------------------------
(* Sets of jobs are finite, and count one more or one less. *)
LEMMA Counted ==
  ASSUME NEW A \in SUBSET Jobs, NEW j \in Jobs
  PROVE  /\ Cardinality(A) \in Nat
         /\ j \notin A => Cardinality(A \cup {j}) = Cardinality(A) + 1
         /\ j \in A => Cardinality(A \ {j}) = Cardinality(A) - 1
         /\ j \in A => Cardinality(A) > 0
<1>1. IsFiniteSet(A)
  BY FS_Subset, JobsAssumption
<1>2. Cardinality(A) \in Nat
  BY <1>1, FS_CardinalityType
<1>3. Cardinality(A) = 0 <=> A = {}
  BY <1>1, FS_EmptySet
<1>4. j \notin A => Cardinality(A \cup {j}) = Cardinality(A) + 1
  BY <1>1, FS_AddElement
<1>5. j \in A => Cardinality(A \ {j}) = Cardinality(A) - 1
  BY <1>1, FS_RemoveElement
<1>6. j \in A => Cardinality(A) > 0
  BY <1>2, <1>3
<1> QED
  BY <1>2, <1>4, <1>5, <1>6

(* The counters move with what they count, and the clamp never acts. *)
LEMMA MetricsStep == QueueTypeOK /\ OneFate /\ MetricsExact /\ [QueueNext]_queueVars => MetricsExact'
<1> SUFFICES ASSUME QueueTypeOK, OneFate, MetricsExact, [QueueNext]_queueVars PROVE MetricsExact'
  OBVIOUS
<1>t. /\ stats \in [waiting : Nat, active : Nat, completed : Nat, failed : Nat]
      /\ queue \in Seq(Jobs) /\ Len(queue) \in Nat
      /\ running \in SUBSET Jobs /\ completed \in SUBSET Jobs /\ dead \in SUBSET Jobs
  BY DEF QueueTypeOK
<1>1. CASE NothingToTake
  BY <1>1 DEF NothingToTake, MetricsExact
<1>2. CASE Start
  <2>1. /\ Head(queue) \in Jobs
        /\ Len(Tail(queue)) = Len(queue) - 1 /\ Len(queue) > 0
    BY <1>2, <1>t, ShiftedQueue DEF Start
  <2>2. Head(queue) \notin running
    BY <1>2, ShiftKeepsOrder DEF Start, OneFate
  <2>3. Cardinality(running \cup {Head(queue)}) = Cardinality(running) + 1
    BY <1>t, <2>1, <2>2, Counted
  <2> QED
    BY <1>2, <1>t, <2>1, <2>3 DEF Start, MetricsExact, Less
<1>3. CASE Stop
  BY <1>3 DEF Stop, MetricsExact
<1>4. ASSUME NEW j \in Jobs, Enqueue(j) PROVE MetricsExact'
  <2>1. Len(Append(queue, j)) = Len(queue) + 1
    BY <1>t, PushedQueue
  <2> QED
    BY <1>4, <1>t, <2>1 DEF Enqueue, Push, MetricsExact
<1>5. ASSUME NEW j \in Jobs, Succeed(j) PROVE MetricsExact'
  <2>1. /\ Cardinality(running \ {j}) = Cardinality(running) - 1
        /\ Cardinality(running) \in Nat /\ Cardinality(running) > 0
    BY <1>5, <1>t, Counted DEF Succeed
  <2>2. Cardinality(completed \cup {j}) = Cardinality(completed) + 1
    BY <1>5, <1>t, Counted DEF Succeed, OneFate
  <2> QED
    BY <1>5, <1>t, <2>1, <2>2 DEF Succeed, MetricsExact, Less
<1>6. ASSUME NEW j \in Jobs, Retry(j) PROVE MetricsExact'
  <2>1. /\ Cardinality(running \ {j}) = Cardinality(running) - 1
        /\ Cardinality(running) \in Nat /\ Cardinality(running) > 0
    BY <1>6, <1>t, Counted DEF Retry
  <2>2. Len(Append(queue, j)) = Len(queue) + 1
    BY <1>t, PushedQueue
  <2> QED
    BY <1>6, <1>t, <2>1, <2>2 DEF Retry, Push, MetricsExact, Less
<1>7. ASSUME NEW j \in Jobs, DeadLetter(j) PROVE MetricsExact'
  <2>1. /\ Cardinality(running \ {j}) = Cardinality(running) - 1
        /\ Cardinality(running) \in Nat /\ Cardinality(running) > 0
    BY <1>7, <1>t, Counted DEF DeadLetter
  <2>2. Cardinality(dead \cup {j}) = Cardinality(dead) + 1
    BY <1>7, <1>t, Counted DEF DeadLetter, OneFate
  <2> QED
    BY <1>7, <1>t, <2>1, <2>2 DEF DeadLetter, MetricsExact, Less
<1>8. CASE UNCHANGED queueVars
  BY <1>8 DEF queueVars, MetricsExact
<1> QED
  BY <1>1, <1>2, <1>3, <1>4, <1>5, <1>6, <1>7, <1>8 DEF QueueNext, Settle

-----------------------------------------------------------------------------
LEMMA QueueInitially == QueueInit => QueueTypeOK /\ CallPerJob /\ OneFate /\ MetricsExact
<1> SUFFICES ASSUME QueueInit PROVE QueueTypeOK /\ CallPerJob /\ OneFate /\ MetricsExact
  OBVIOUS
<1>1. Len(queue) = 0 /\ DOMAIN queue = {} /\ queue \in Seq(Jobs)
  BY DEF QueueInit
<1>2. QueueTypeOK
  <2>1. attempts \in [Jobs -> 0..MaxAttempts]
    BY AttemptsAssumption DEF QueueInit
  <2>2. stats \in [waiting : Nat, active : Nat, completed : Nat, failed : Nat]
    BY DEF QueueInit
  <2> QED
    BY <1>1, <2>1, <2>2 DEF QueueInit, QueueTypeOK
<1>3. CallPerJob
  BY <1>1 DEF QueueInit, CallPerJob
<1>4. OneFate
  BY <1>1, AttemptsAssumption DEF QueueInit, OneFate, Waiting
<1>5. MetricsExact
  BY <1>1, FS_EmptySet DEF QueueInit, MetricsExact
<1> QED
  BY <1>2, <1>3, <1>4, <1>5

(* The four invariants together are inductive. *)
THEOREM QueueInductive == QueueSpec => [](QueueTypeOK /\ CallPerJob /\ OneFate /\ MetricsExact)
BY QueueInitially, QueueTypeStep, CallStep, FateStep, MetricsStep, PTL DEF QueueSpec

(* No job of the queue is left without a call of processNext to take it.   *)
THEOREM NoJobStranded == QueueSpec => []CallPerJob
BY QueueInductive, PTL

(* A job is in one place, and dead after exactly MaxAttempts failures.     *)
THEOREM FateOfAJob == QueueSpec => []OneFate
BY QueueInductive, PTL

(* getMetrics answers the numbers of jobs there are.                       *)
THEOREM MetricsTrue == QueueSpec => []MetricsExact
BY QueueInductive, PTL

(* After stop() no job starts.                                             *)
THEOREM StoppedForGood == QueueSpec => StopStartsNothing
<1>1. [QueueNext]_queueVars => [destroyed => running' \subseteq running]_queueVars
  BY DEF QueueNext, queueVars, Settle, NothingToTake, Start, Stop, Enqueue, Succeed, Retry, DeadLetter
<1> QED
  BY <1>1, PTL DEF QueueSpec, StopStartsNothing

(* A job is in one place, and a call comes for it while it waits.          *)
THEOREM Placed == QueueSpec => []JobsPlaced
<1> QED BY NoJobStranded, FateOfAJob, PTL DEF JobsPlaced

-----------------------------------------------------------------------------
(* The bounds of the constants; the number that does not fit the padding    *)
(* comes, as a string, before the last one that does.                       *)
LEMMA CasesBounds ==
  /\ Most \in Nat /\ OneAtATime \in BOOLEAN /\ Padded \in Nat /\ Padded > 2
  /\ Padded \div Base \in Nat /\ Padded \div Base < Padded - 1
<1>1. /\ Most \in Nat /\ OneAtATime \in BOOLEAN /\ Padded \in Nat /\ Padded > 2
      /\ Base \in Nat /\ Base >= 2
  BY CasesAssumption
<1> DEFINE q == Padded \div Base
<1>2. q \in Nat /\ Base * q <= Padded
  BY <1>1
<1>3. 2 * q <= Base * q
  BY <1>1, <1>2
<1> QED
  BY <1>1, <1>2, <1>3

LEMMA CasesIdle == Idle \in Job /\ \A j : j.op = "idle" => Counts(j) /\ KnowsCase(j) /\ KnowsStatus(j)
BY CasesBounds DEF Idle, Job, Counts, KnowsCase, KnowsStatus, Works, CaseKinds

(* The rows there are, and what a handler knows. *)
LEMMA CasesKnown ==
  ASSUME CasesInv, NEW h \in Handlers
  PROVE  /\ job[h] \in Job /\ Counts(job[h]) /\ KnowsCase(job[h])
         /\ \A k \in CaseKinds : \A n \in NumbersOf(k) : case[k][n].status \in Statuses
         /\ \A k \in CaseKinds, n \in Numbers : case[k][n] \in CaseRow
BY DEF CasesInv, CasesTypeOK, NumbersOf, CaseRow

(* The numbers of a kind are counted by the greatest. *)
LEMMA NumbersCounted ==
  ASSUME CasesInv, NEW k \in CaseKinds
  PROVE  \E m \in 0..Most : /\ m <= Padded /\ NumbersOf(k) = 1..m
                            /\ Cardinality(NumbersOf(k)) = m
<1>1. PICK m \in 0..Most : m <= Padded /\ NumbersOf(k) = 1..m
  BY DEF CasesInv, NumberedInTurn
<1>2. Cardinality(1..m) = m
  BY <1>1, CasesBounds, FS_Interval
<1> QED
  BY <1>1, <1>2

(* A step that goes on with one handler and leaves the rows alone. *)
LEMMA CaseRead ==
  ASSUME CasesInv, NEW h \in Handlers, NEW j \in Job, Becomes(h, j), UNCHANGED case,
         Counts(j), KnowsCase(j)
  PROVE  CasesInv'
<1>1. job' \in [Handlers -> Job] /\ \A g \in Handlers : job'[g] = IF g = h THEN j ELSE job[g]
  BY DEF CasesInv, CasesTypeOK, Becomes
<1>2. CasesTypeOK'
  BY <1>1 DEF CasesInv, CasesTypeOK
<1>3. \A k \in CaseKinds : NumbersOf(k)' = NumbersOf(k)
  BY DEF NumbersOf
<1>4. NumberedInTurn' /\ IncidentsRise'
  BY <1>3 DEF CasesInv, NumberedInTurn, IncidentsRise
<1>5. ASSUME NEW g \in Handlers PROVE Counts(job[g])' /\ KnowsCase(job[g])'
  <2>1. job'[g] \in Job /\ Counts(job'[g]) /\ KnowsCase(job'[g])
    BY <1>1 DEF CasesInv, CasesTypeOK
  <2>2. job'[g].kind \in CaseKinds
    BY <2>1 DEF Job
  <2> QED
    BY <1>3, <2>1, <2>2 DEF Counts, KnowsCase
<1> QED
  BY <1>2, <1>4, <1>5 DEF CasesInv

LEMMA TraceRead ==
  ASSUME CasesInv, TraceInv, NEW h \in Handlers, NEW j \in Job, Becomes(h, j), UNCHANGED case,
         OneAtATime => KnowsStatus(j),
         OneAtATime /\ j.op \in Works => \A g \in Handlers \ {h} : ~Working(g)
  PROVE  TraceInv'
<1> SUFFICES ASSUME OneAtATime PROVE TraceInv'
  BY CasesBounds DEF TraceInv
<1>1. job' \in [Handlers -> Job] /\ \A g \in Handlers : job'[g] = IF g = h THEN j ELSE job[g]
  BY DEF CasesInv, CasesTypeOK, Becomes
<1>2. \A f, g \in Handlers : Working(f)' /\ Working(g)' => f = g
  BY <1>1 DEF TraceInv, Working
<1>3. \A g \in Handlers : KnowsStatus(job[g])'
  BY <1>1 DEF TraceInv, KnowsStatus
<1>4. LogTellsStatus' /\ EndIsDated'
  BY DEF TraceInv, LogTellsStatus, EndIsDated
<1> QED
  BY <1>2, <1>3, <1>4 DEF TraceInv

(* A read of a row on which a request works. *)
LEMMA CaseReads ==
  ASSUME CasesInv, TraceInv, NEW h \in Handlers, NEW op \in Works, NEW step \in {"again", "write"},
         NEW k \in CaseKinds, NEW n, NEW s \in Statuses,
         Reads(h, op, step, k, n, s), UNCHANGED case,
         k = CASE op = "respond" -> "sos" [] op = "support" -> "support" [] OTHER -> "incident",
         k = "incident" =>
           /\ s \in BeforeEscalation \cup AfterEscalation
           /\ s \in AfterEscalation => op = "escalate" \/ case["incident"][n].escalated,
         op = "reopen" => s = "UNDER_REVIEW",
         OneAtATime => \A g \in Handlers \ {h} : ~Working(g),
         step = "write" =>
           /\ op = "close" => s = "CLOSED"
           /\ op = "escalate" => s = "ESCALATED" /\ case[k][n].status # "CLOSED"
           /\ op = "assign" =>
                \/ s = case[k][n].status
                \/ case[k][n].status \in {"SUBMITTED", "NEW"} /\ s = "ACKNOWLEDGED"
           /\ op = "respond" => (case[k][n].status \in Ends => s = case[k][n].status)
  PROVE  CasesInv' /\ TraceInv'
<1>1. n \in NumbersOf(k) /\ n \in Numbers /\ n \in 0..Most + 1 /\ case[k][n].status \in Statuses
  BY CasesKnown, CasesBounds DEF Reads, NumbersOf, Numbers
<1> DEFINE j == [Idle EXCEPT !.op = op, !.step = step, !.kind = k, !.number = n,
                             !.was = case[k][n].status, !.next = s]
<1>2. /\ j \in Job /\ j.op = op /\ j.step = step /\ j.kind = k /\ j.number = n
      /\ j.was = case[k][n].status /\ j.next = s
  BY <1>1, CasesIdle DEF Job, Idle
<1>3. Becomes(h, j)
  BY DEF Reads
<1> HIDE DEF j
<1>4. s # "ABSENT" /\ op # "create"
  BY DEF Statuses, IncidentStatuses, EmergencyStatuses, SupportStatuses, Works
<1>5. Counts(j) /\ KnowsCase(j)
  BY <1>1, <1>2, <1>4 DEF Counts, KnowsCase
<1>6. KnowsStatus(j)
  BY <1>2 DEF KnowsStatus
<1> QED
  BY <1>2, <1>3, <1>5, <1>6, CaseRead, TraceRead

(* Nobody else works on a case when requests do not overlap. *)
LEMMA WorksAlone ==
  ASSUME CasesInv, TraceInv, NEW h \in Handlers, MayWork(h) \/ Working(h)
  PROVE  OneAtATime => \A g \in Handlers \ {h} : ~Working(g)
BY CasesBounds DEF MayWork, TraceInv

(* The statuses incidents have, and what may follow them. *)
LEMMA IncidentMoves ==
  ASSUME CasesInv, NEW n \in NumbersOf("incident"), NEW s, MayBecome("incident", n, s)
  PROVE  LET r == case["incident"][n] IN
           /\ r.status \in BeforeEscalation \cup AfterEscalation
           /\ r.status \in AfterEscalation => r.escalated
           /\ s = "CLOSED" => r.status \in AfterEscalation
           /\ s = "ESCALATED" => r.status # "CLOSED"
<1>1. n \in Numbers /\ case["incident"][n].status # "ABSENT"
  BY DEF NumbersOf
<1>2. /\ case["incident"][n].status \in BeforeEscalation \cup AfterEscalation
      /\ case["incident"][n].status \in AfterEscalation => case["incident"][n].escalated
  BY <1>1 DEF CasesInv, IncidentsRise
<1>3. case["incident"][n].status = s \/ s \in IncidentTransitions(case["incident"][n].status)
  BY DEF MayBecome
<1> QED
  BY <1>2, <1>3 DEF IncidentTransitions, BeforeEscalation, AfterEscalation

LEMMA CreateReads ==
  ASSUME CasesInv, TraceInv, NEW h \in Handlers, NumberRead(h)
  PROVE  CasesInv' /\ TraceInv'
<1>1. PICK k \in CaseKinds :
        \/ NumbersOf(k) = {} /\ Becomes(h, Creating(k, 1))
        \/ \E n \in Numbers : Latest(k, n) /\ Becomes(h, Creating(k, n + 1))
  BY DEF NumberRead
<1>2. PICK m \in 0..Most : /\ m <= Padded /\ NumbersOf(k) = 1..m
                           /\ Cardinality(NumbersOf(k)) = m
  BY NumbersCounted
<1> DEFINE i == IF m < Padded THEN m + 1 ELSE Padded
           j == Creating(k, i)
<1>3. Becomes(h, j)
  <2>1. CASE NumbersOf(k) = {}
    <3>1. m = 0
      BY <1>2, <2>1, CasesBounds
    <3>2. \A n \in Numbers : ~Latest(k, n)
      BY <2>1 DEF Latest
    <3> QED
      BY <1>1, <3>1, <3>2, CasesBounds
  <2>2. CASE NumbersOf(k) # {}
    <3>1. PICK n \in Numbers : Latest(k, n) /\ job' = [job EXCEPT ![h] = Creating(k, n + 1)]
      BY <1>1, <2>2 DEF Becomes
    <3>2. n \in 1..m /\ \A l \in 1..m : l = n \/ Before(l, n)
      BY <1>2, <3>1 DEF Latest
    <3>3. m > 0 /\ m \in Nat
      BY <1>2, <2>2, CasesBounds
    <3>4. CASE m < Padded
      <4>1. m = n \/ Before(m, n)
        BY <3>2, <3>3
      <4>2. m = n
        BY <3>2, <3>3, <3>4, <4>1, CasesBounds DEF Before, Leading
      <4> QED
        BY <3>1, <3>4, <4>2 DEF Becomes
    <3>5. CASE m = Padded
      <4>1. Padded - 1 \in 1..m
        BY <3>5, CasesBounds
      <4>2. Padded - 1 = n \/ Before(Padded - 1, n)
        BY <3>2, <4>1
      <4>3. n = Padded - 1
        <5>1. CASE n < Padded
          BY <3>2, <4>2, <5>1, CasesBounds DEF Before, Leading
        <5>2. CASE n = Padded
          BY <4>2, <5>2, CasesBounds DEF Before, Leading
        <5> QED
          BY <1>2, <3>2, <5>1, <5>2, CasesBounds
      <4>4. n + 1 = i
        BY <3>5, <4>3, CasesBounds
      <4> QED
        BY <3>1, <4>4 DEF Becomes
    <3> QED
      BY <1>2, <3>4, <3>5, CasesBounds
  <2> QED
    BY <2>1, <2>2
<1>4. i \in 0..Most + 1
  BY <1>2, CasesBounds
<1>5. /\ j \in Job /\ j.op = "create" /\ j.step = "write" /\ j.kind = k /\ j.number = i
      /\ j.among = m
  BY <1>2, <1>4, CasesIdle DEF Creating, Job, Idle
<1> HIDE DEF j
<1>6. Counts(j) /\ KnowsCase(j) /\ KnowsStatus(j) /\ j.op \notin Works
  BY <1>2, <1>5 DEF Counts, KnowsCase, KnowsStatus, Works
<1> QED
  BY <1>3, <1>5, <1>6, CaseRead, TraceRead DEF NumberRead

LEMMA WorkReads ==
  ASSUME CasesInv, TraceInv, NEW h \in Handlers,
         \/ AssignRead(h) \/ CloseRead(h) \/ EscalateRead(h) \/ ReopenRead(h) \/ ReopenAgain(h)
         \/ RespondRead(h) \/ SupportRead(h)
  PROVE  CasesInv' /\ TraceInv'
<1>0. {"incident", "sos", "support"} = CaseKinds
  BY DEF CaseKinds
<1>1. CASE AssignRead(h)
  <2> DEFINE next(s) == IF s \in {"SUBMITTED", "NEW"} THEN "ACKNOWLEDGED" ELSE s
  <2>1. PICK n \in Numbers : Reads(h, "assign", "write", "incident", n, next(case["incident"][n].status))
    BY <1>1 DEF AssignRead
  <2>2. n \in NumbersOf("incident") /\ MayBecome("incident", n, case["incident"][n].status)
    BY <2>1 DEF Reads, MayBecome
  <2>3. /\ case["incident"][n].status \in BeforeEscalation \cup AfterEscalation
        /\ case["incident"][n].status \in AfterEscalation => case["incident"][n].escalated
    BY <2>2, IncidentMoves
  <2>4. /\ next(case["incident"][n].status) \in BeforeEscalation \cup AfterEscalation
        /\ next(case["incident"][n].status) \in AfterEscalation => case["incident"][n].escalated
        /\ next(case["incident"][n].status) \in Statuses
    BY <2>3 DEF BeforeEscalation, AfterEscalation, Statuses, IncidentStatuses
  <2>5. \/ next(case["incident"][n].status) = case["incident"][n].status
        \/ /\ case["incident"][n].status \in {"SUBMITTED", "NEW"}
           /\ next(case["incident"][n].status) = "ACKNOWLEDGED"
    OBVIOUS
  <2> HIDE DEF next
  <2>6. MayWork(h) /\ UNCHANGED case
    BY <1>1 DEF AssignRead
  <2> QED
    BY <1>0, <2>1, <2>4, <2>5, <2>6, WorksAlone, CaseReads DEF Works
<1>2. CASE CloseRead(h)
  <2>1. PICK n \in Numbers : MayBecome("incident", n, "CLOSED")
                             /\ Reads(h, "close", "write", "incident", n, "CLOSED")
    BY <1>2 DEF CloseRead
  <2>2. case["incident"][n].escalated
    BY <2>1, IncidentMoves DEF Reads
  <2>3. MayWork(h) /\ UNCHANGED case
    BY <1>2 DEF CloseRead
  <2>4. "CLOSED" \in Statuses /\ "CLOSED" \in AfterEscalation
    BY DEF AfterEscalation, Statuses, IncidentStatuses
  <2> QED
    BY <1>0, <2>1, <2>2, <2>3, <2>4, WorksAlone, CaseReads DEF Works
<1>3. CASE EscalateRead(h)
  <2>1. PICK n \in Numbers : MayBecome("incident", n, "ESCALATED")
                             /\ Reads(h, "escalate", "write", "incident", n, "ESCALATED")
    BY <1>3 DEF EscalateRead
  <2>2. case["incident"][n].status # "CLOSED"
    BY <2>1, IncidentMoves DEF Reads
  <2>3. MayWork(h) /\ UNCHANGED case
    BY <1>3 DEF EscalateRead
  <2>4. "ESCALATED" \in Statuses /\ "ESCALATED" \in AfterEscalation
    BY DEF AfterEscalation, Statuses, IncidentStatuses
  <2> QED
    BY <1>0, <2>1, <2>2, <2>3, <2>4, WorksAlone, CaseReads DEF Works
<1>4. CASE ReopenRead(h)
  <2>1. PICK n \in Numbers : case["incident"][n].status \in {"CLOSED", "REJECTED"}
                             /\ Reads(h, "reopen", "again", "incident", n, "UNDER_REVIEW")
    BY <1>4 DEF ReopenRead
  <2>2. case["incident"][n].escalated
    BY <2>1 DEF CasesInv, IncidentsRise, BeforeEscalation, AfterEscalation
  <2>3. MayWork(h) /\ UNCHANGED case
    BY <1>4 DEF ReopenRead
  <2>4. "UNDER_REVIEW" \in Statuses /\ "UNDER_REVIEW" \in AfterEscalation
    BY DEF AfterEscalation, Statuses, IncidentStatuses
  <2> QED
    BY <1>0, <2>1, <2>2, <2>3, <2>4, WorksAlone, CaseReads DEF Works
<1>5. CASE ReopenAgain(h)
  <2> DEFINE n == job[h].number
  <2>1. /\ job[h].op = "reopen" /\ Working(h) /\ UNCHANGED case
        /\ IF MayBecome("incident", n, "UNDER_REVIEW")
             THEN Reads(h, "reopen", "write", "incident", n, "UNDER_REVIEW")
             ELSE Becomes(h, Idle)
    BY <1>5 DEF ReopenAgain, At, Working, Works, Done
  <2>2. CASE Becomes(h, Idle)
    BY <2>1, <2>2, CasesIdle, CaseRead, TraceRead DEF Idle, Works
  <2>3. CASE Reads(h, "reopen", "write", "incident", n, "UNDER_REVIEW")
    <3>1. "UNDER_REVIEW" \in Statuses /\ "UNDER_REVIEW" \in AfterEscalation
      BY DEF AfterEscalation, Statuses, IncidentStatuses
    <3>2. case["incident"][n].escalated
      BY <2>1, <3>1, CasesKnown DEF KnowsCase, Working
    <3> QED
      BY <1>0, <2>1, <2>3, <3>1, <3>2, WorksAlone, CaseReads DEF Works
  <2> QED
    BY <2>1, <2>2, <2>3
<1>6. CASE RespondRead(h)
  <2>1. PICK n \in Numbers, s \in EmergencyStatuses :
          MayBecome("sos", n, s) /\ Reads(h, "respond", "write", "sos", n, s)
    BY <1>6 DEF RespondRead
  <2>2. case["sos"][n].status \in Ends => s = case["sos"][n].status
    BY <2>1 DEF MayBecome, EmergencyTransitions, Ends
  <2>3. MayWork(h) /\ UNCHANGED case
    BY <1>6 DEF RespondRead
  <2> QED
    BY <1>0, <2>1, <2>2, <2>3, WorksAlone, CaseReads DEF Works, Statuses
<1>7. CASE SupportRead(h)
  <2>1. PICK n \in Numbers, s \in SupportStatuses : Reads(h, "support", "write", "support", n, s)
    BY <1>7 DEF SupportRead
  <2>2. MayWork(h) /\ UNCHANGED case
    BY <1>7 DEF SupportRead
  <2> QED
    BY <1>0, <2>1, <2>2, WorksAlone, CaseReads DEF Works, Statuses
<1> QED
  BY <1>1, <1>2, <1>3, <1>4, <1>5, <1>6, <1>7

(* A step that ends with one row written. *)
LEMMA CaseWritten ==
  ASSUME CasesInv, NEW h \in Handlers, NEW k \in CaseKinds, NEW n \in Numbers, NEW r \in CaseRow,
         case' = [case EXCEPT ![k] = [case[k] EXCEPT ![n] = r]], Done(h), r.status # "ABSENT",
         \E m \in 0..Most : m <= Padded /\ NumbersOf(k) \cup {n} = 1..m,
         case[k][n].escalated => r.escalated,
         k = "incident" => /\ r.status \in BeforeEscalation \cup AfterEscalation
                           /\ r.status \in AfterEscalation => r.escalated
  PROVE  CasesInv'
<1>1. /\ job' \in [Handlers -> Job] /\ job'[h] = Idle
      /\ \A g \in Handlers : g # h => job'[g] = job[g]
  BY CasesIdle DEF CasesInv, CasesTypeOK, Done, Becomes
<1>2. /\ case' \in [CaseKinds -> [Numbers -> CaseRow]] /\ case'[k][n] = r
      /\ \A l \in CaseKinds, i \in Numbers : ~(l = k /\ i = n) => case'[l][i] = case[l][i]
  BY DEF CasesInv, CasesTypeOK
<1>3. /\ NumbersOf(k)' = NumbersOf(k) \cup {n}
      /\ \A l \in CaseKinds : l # k => NumbersOf(l)' = NumbersOf(l)
  BY <1>2 DEF NumbersOf
<1>4. NumberedInTurn'
  <2>1. ASSUME NEW l \in CaseKinds PROVE \E m \in 0..Most : m <= Padded /\ NumbersOf(l)' = 1..m
    <3>1. CASE l = k
      BY <1>3, <3>1
    <3>2. CASE l # k
      BY <1>3, <3>2 DEF CasesInv, NumberedInTurn
    <3> QED
      BY <3>1, <3>2
  <2> QED
    BY <2>1 DEF NumberedInTurn
<1>5. IncidentsRise'
  <2>1. "incident" \in CaseKinds
    BY DEF CaseKinds
  <2> QED
    BY <1>2, <2>1 DEF CasesInv, IncidentsRise
<1>6. ASSUME NEW g \in Handlers PROVE Counts(job[g])' /\ KnowsCase(job[g])'
  <2>1. CASE g = h
    BY <1>1, <2>1 DEF Counts, KnowsCase, Idle, Works
  <2>2. CASE g # h
    <3>1. job'[g] = job[g] /\ job[g].kind \in CaseKinds /\ Counts(job[g]) /\ KnowsCase(job[g])
      BY <1>1, <2>2, CasesKnown DEF Job
    <3>2. NumbersOf(job[g].kind) \subseteq NumbersOf(job[g].kind)'
      BY <1>3, <3>1
    <3>3. \A i \in Numbers : case["incident"][i].escalated => case'["incident"][i].escalated
      BY <1>2 DEF CaseKinds
    <3>4. NumbersOf(job[g].kind) \subseteq Numbers
      BY DEF NumbersOf
    <3>5. Counts(job[g])'
      BY <3>1, <3>2 DEF Counts
    <3>6. KnowsCase(job[g])'
      BY <3>1, <3>2, <3>3, <3>4 DEF KnowsCase
    <3> QED
      BY <3>5, <3>6
  <2> QED
    BY <2>1, <2>2
<1> QED
  BY <1>1, <1>2, <1>4, <1>5, <1>6 DEF CasesInv, CasesTypeOK

LEMMA TraceWritten ==
  ASSUME CasesInv, TraceInv, NEW h \in Handlers, NEW k \in CaseKinds, NEW n \in Numbers,
         NEW r \in CaseRow, case' = [case EXCEPT ![k] = [case[k] EXCEPT ![n] = r]], Done(h),
         OneAtATime =>
           /\ n \notin NumbersOf(k) \/ \A g \in Handlers \ {h} : ~Working(g)
           /\ k # "support" => r.last = r.status /\ r.chained
           /\ k = "incident" => (r.ended <=> r.status = "CLOSED")
           /\ k = "sos" => (r.ended <=> r.status \in Ends)
  PROVE  TraceInv'
<1> SUFFICES ASSUME OneAtATime PROVE TraceInv'
  BY CasesBounds DEF TraceInv
<1>1. /\ job' \in [Handlers -> Job] /\ job'[h] = Idle
      /\ \A g \in Handlers : g # h => job'[g] = job[g]
  BY CasesIdle DEF CasesInv, CasesTypeOK, Done, Becomes
<1>2. /\ case'[k][n] = r
      /\ \A l \in CaseKinds, i \in Numbers : ~(l = k /\ i = n) => case'[l][i] = case[l][i]
  BY DEF CasesInv, CasesTypeOK
<1>3. ~Working(h)' /\ \A g \in Handlers : Working(g)' => Working(g)
  BY <1>1 DEF Working, Idle, Works
<1>4. \A f, g \in Handlers : Working(f)' /\ Working(g)' => f = g
  BY <1>3 DEF TraceInv
<1>5. ASSUME NEW g \in Handlers PROVE KnowsStatus(job[g])'
  <2>1. CASE g = h
    BY <1>1, <2>1 DEF KnowsStatus, Idle, Works
  <2>2. CASE g # h /\ ~Working(g)
    BY <1>1, <2>2 DEF KnowsStatus, Working
  <2>3. CASE g # h /\ Working(g)
    <3>1. job'[g] = job[g] /\ job[g].kind \in CaseKinds /\ KnowsCase(job[g]) /\ KnowsStatus(job[g])
      BY <1>1, <2>3, CasesKnown DEF Job, TraceInv
    <3>2. job[g].number \in NumbersOf(job[g].kind) /\ n \notin NumbersOf(k)
      BY <2>3, <3>1 DEF KnowsCase, Working
    <3>3. case'[job[g].kind][job[g].number] = case[job[g].kind][job[g].number]
      BY <1>2, <3>1, <3>2 DEF NumbersOf
    <3> QED
      BY <3>1, <3>3 DEF KnowsStatus
  <2> QED
    BY <2>1, <2>2, <2>3
<1>6. "incident" \in CaseKinds /\ "sos" \in CaseKinds
  BY DEF CaseKinds
<1>7. LogTellsStatus'
  BY <1>2, <1>6 DEF TraceInv, LogTellsStatus
<1>8. EndIsDated'
  BY <1>2, <1>6 DEF TraceInv, EndIsDated
<1> QED
  BY <1>4, <1>5, <1>7, <1>8 DEF TraceInv

LEMMA CaseInserted ==
  ASSUME CasesInv, TraceInv, NEW h \in Handlers, Insert(h)
  PROVE  CasesInv' /\ TraceInv'
<1> DEFINE k == job[h].kind
           n == job[h].number
<1>1. /\ k \in CaseKinds /\ n \in Nat /\ n <= Most /\ job[h].among \in 0..Most /\ Done(h)
      /\ job[h].among <= Padded /\ 1..job[h].among \subseteq NumbersOf(k)
      /\ n = IF job[h].among < Padded THEN job[h].among + 1 ELSE Padded
  BY CasesKnown, CasesBounds DEF Insert, At, Job, Counts
<1>2. CASE UNCHANGED case
  BY <1>1, <1>2, CasesIdle, CaseRead, TraceRead DEF Done, Idle, Works
<1>3. CASE n \notin NumbersOf(k)
  <2>1. PICK m \in 0..Most : m <= Padded /\ NumbersOf(k) = 1..m /\ Cardinality(NumbersOf(k)) = m
    BY <1>1, NumbersCounted
  <2>2. n >= 1 /\ n \in Numbers
    BY <1>1, CasesBounds DEF Numbers
  <2>3. job[h].among <= m
    BY <1>1, <2>1, CasesBounds
  <2>4. n = m + 1 /\ m < Padded
    BY <1>1, <1>3, <2>1, <2>2, <2>3, CasesBounds
  <2>5. NumbersOf(k) \cup {n} = 1..(m + 1) /\ m + 1 \in 0..Most /\ m + 1 <= Padded
    BY <1>1, <2>1, <2>2, <2>4, CasesBounds
  <2>6. PICK s \in FirstStatuses(k) : case' = [case EXCEPT ![k][n].status = s, ![k][n].last = s]
    BY <1>3 DEF Insert
  <2> DEFINE r == [case[k][n] EXCEPT !.status = s, !.last = s]
  <2>7. case[k][n] \in CaseRow /\ case[k][n].status = "ABSENT"
    BY <1>1, <1>3, <2>2, CasesKnown DEF NumbersOf
  <2>8. case' = [case EXCEPT ![k] = [case[k] EXCEPT ![n] = r]]
    BY <1>1, <2>2, <2>6 DEF CasesInv, CasesTypeOK
  <2>9. /\ s \in Statuses /\ s # "ABSENT" /\ s # "CLOSED" /\ s \notin Ends
        /\ k = "incident" => s \in BeforeEscalation /\ s \notin AfterEscalation
    BY <1>1 DEF FirstStatuses, Statuses, IncidentStatuses, EmergencyStatuses, SupportStatuses,
                Ends, BeforeEscalation, AfterEscalation
  <2>10. /\ r \in CaseRow /\ r.status = s /\ r.last = s /\ r.chained = case[k][n].chained
         /\ r.ended = case[k][n].ended /\ r.escalated = case[k][n].escalated
    BY <2>7, <2>9 DEF CaseRow
  <2>11. OneAtATime => /\ k # "support" => case[k][n].chained
                       /\ k # "support" => ~case[k][n].ended
    BY <1>1, <2>2, <2>7 DEF TraceInv, LogTellsStatus, EndIsDated, CaseKinds, Ends
  <2> HIDE DEF r
  <2> QED
    <3>1. \E l \in 0..Most : l <= Padded /\ NumbersOf(k) \cup {n} = 1..l
      BY <2>5
    <3>2. CasesInv'
      BY <1>1, <2>2, <2>8, <2>9, <2>10, <3>1, CaseWritten
    <3>3. TraceInv'
      BY <1>1, <1>3, <2>2, <2>8, <2>9, <2>10, <2>11, TraceWritten
    <3> QED
      BY <3>2, <3>3
<1> QED
  BY <1>2, <1>3 DEF Insert

LEMMA CaseWorked ==
  ASSUME CasesInv, TraceInv, NEW h \in Handlers, Write(h)
  PROVE  CasesInv' /\ TraceInv'
<1> DEFINE k == job[h].kind
           n == job[h].number
           r == Worked(case[k][n], job[h])
<1>1. /\ job[h] \in Job /\ KnowsCase(job[h]) /\ job[h].op \in Works /\ job[h].step = "write"
      /\ Working(h) /\ Done(h) /\ k \in CaseKinds
  BY CasesKnown DEF Write, Working, Job
<1>2. n \in NumbersOf(k) /\ n \in Numbers /\ case[k][n] \in CaseRow /\ job[h].next # "ABSENT"
  BY <1>1, CasesKnown DEF KnowsCase, NumbersOf
<1>3. case' = [case EXCEPT ![k] = [case[k] EXCEPT ![n] = r]]
  BY <1>1, <1>2 DEF Write, CasesInv, CasesTypeOK
<1>4. PICK m \in 0..Most : m <= Padded /\ NumbersOf(k) = 1..m /\ Cardinality(NumbersOf(k)) = m
  BY <1>1, NumbersCounted
<1>5. NumbersOf(k) \cup {n} = 1..m
  BY <1>2, <1>4
<1>6. /\ r.status = job[h].next
      /\ r.escalated = (case[k][n].escalated \/ job[h].op = "escalate")
      /\ r \in CaseRow
  BY <1>1, <1>2 DEF Worked, CaseRow, Job
<1>7. k = "incident" => /\ r.status \in BeforeEscalation \cup AfterEscalation
                        /\ r.status \in AfterEscalation => r.escalated
  BY <1>1, <1>6 DEF KnowsCase
<1>8. ASSUME OneAtATime
      PROVE  /\ k # "support" => r.last = r.status /\ r.chained
             /\ k = "incident" => (r.ended <=> r.status = "CLOSED")
             /\ k = "sos" => (r.ended <=> r.status \in Ends)
  <2>1. /\ job[h].was = case[k][n].status
        /\ job[h].op = "close" => job[h].next = "CLOSED"
        /\ job[h].op = "escalate" => job[h].next = "ESCALATED" /\ job[h].was # "CLOSED"
        /\ job[h].op = "reopen" => job[h].next = "UNDER_REVIEW"
        /\ job[h].op = "assign" => \/ job[h].next = job[h].was
                                   \/ /\ job[h].was \in {"SUBMITTED", "NEW"}
                                      /\ job[h].next = "ACKNOWLEDGED"
        /\ job[h].op = "respond" => (job[h].was \in Ends => job[h].next = job[h].was)
        /\ (k = "incident" <=> job[h].op \in {"assign", "close", "reopen", "escalate"})
        /\ (k = "sos" <=> job[h].op = "respond")
        /\ (k = "support" <=> job[h].op = "support")
    BY <1>1, <1>8 DEF TraceInv, KnowsStatus, KnowsCase, Works
  <2>2. /\ k # "support" => case[k][n].last = case[k][n].status /\ case[k][n].chained
        /\ k = "incident" => (case[k][n].ended <=> case[k][n].status = "CLOSED")
        /\ k = "sos" => (case[k][n].ended <=> case[k][n].status \in Ends)
    BY <1>1, <1>2, <1>8 DEF TraceInv, LogTellsStatus, EndIsDated, CaseKinds
  <2>3. k # "support" => r.last = r.status /\ r.chained
    BY <1>6, <2>1, <2>2 DEF Worked, Logged
  <2>4. CASE job[h].op = "close"
    BY <1>6, <2>1, <2>3, <2>4 DEF Worked
  <2>5. CASE job[h].op = "reopen"
    BY <1>6, <2>1, <2>3, <2>5 DEF Worked
  <2>6. CASE job[h].op = "respond"
    BY <1>6, <2>1, <2>2, <2>3, <2>6 DEF Worked
  <2>7. CASE job[h].op \in {"assign", "escalate", "support"}
    BY <1>6, <2>1, <2>2, <2>3, <2>7 DEF Worked
  <2> QED
    BY <1>1, <2>4, <2>5, <2>6, <2>7 DEF Works
<1> HIDE DEF r
<1> QED
  BY <1>1, <1>2, <1>3, <1>4, <1>5, <1>6, <1>7, <1>8, WorksAlone, CaseWritten, TraceWritten

LEMMA CasesInitially == CasesInit => CasesInv /\ TraceInv
<1> SUFFICES ASSUME CasesInit PROVE CasesInv /\ TraceInv
  OBVIOUS
<1>1. CasesTypeOK
  BY CasesIdle DEF CasesInit, CasesTypeOK, CaseRow
<1>2. \A k \in CaseKinds : NumbersOf(k) = 1..0
  BY DEF CasesInit, NumbersOf
<1>3. NumberedInTurn
  <2>1. 0 \in 0..Most /\ 0 <= Padded
    BY CasesBounds
  <2> QED
    BY <1>2, <2>1 DEF NumberedInTurn
<1>4. IncidentsRise /\ LogTellsStatus /\ EndIsDated
  BY DEF CasesInit, IncidentsRise, LogTellsStatus, EndIsDated, BeforeEscalation, AfterEscalation,
         Ends, CaseKinds
<1>5. \A h \in Handlers : job[h] = Idle /\ ~Working(h)
  BY DEF CasesInit, Working, Idle, Works
<1>6. \A h \in Handlers : Counts(job[h]) /\ KnowsCase(job[h]) /\ KnowsStatus(job[h])
  BY <1>5, CasesIdle DEF Idle
<1> QED
  BY <1>1, <1>3, <1>4, <1>5, <1>6 DEF CasesInv, TraceInv

LEMMA CasesStep == CasesInv /\ TraceInv /\ [CasesNext]_caseVars => CasesInv' /\ TraceInv'
<1> SUFFICES ASSUME CasesInv, TraceInv, [CasesNext]_caseVars PROVE CasesInv' /\ TraceInv'
  OBVIOUS
<1>1. CASE UNCHANGED caseVars
  BY <1>1 DEF caseVars, CasesInv, TraceInv, CasesTypeOK, NumberedInTurn, NumbersOf, IncidentsRise,
              Counts, KnowsCase, KnowsStatus, Working, LogTellsStatus, EndIsDated
<1>2. CASE CasesNext
  <2>1. PICK h \in Handlers :
          \/ NumberRead(h) \/ Insert(h)
          \/ AssignRead(h) \/ CloseRead(h) \/ EscalateRead(h)
          \/ ReopenRead(h) \/ ReopenAgain(h) \/ RespondRead(h) \/ SupportRead(h)
          \/ Write(h)
    BY <1>2 DEF CasesNext
  <2> QED
    BY <2>1, CreateReads, CaseInserted, WorkReads, CaseWorked
<1> QED
  BY <1>1, <1>2

(* The invariant of the numbered cases, for any number of requests, kinds   *)
(* of overlap and numbers that fit the padding.                             *)
THEOREM CasesInductive == CasesSpec => [](CasesInv /\ TraceInv)
BY CasesInitially, CasesStep, PTL DEF CasesSpec

(* The numbers of a day are dense, and whoever creates a case alone is not  *)
(* refused for its number, unless the padded numbers are used up            *)
(* (nextNumber of the three services and their unique indexes).             *)
THEOREM NumbersFollow == CasesSpec => []NumbersKept
<1>1. CasesInv => NumbersKept
  <2> SUFFICES ASSUME CasesInv PROVE NumbersKept
    OBVIOUS
  <2>1. ASSUME NEW k \in CaseKinds, NEW n \in NumbersOf(k)
        PROVE  n <= Padded /\ 1..n \subseteq NumbersOf(k)
    <3>1. PICK m \in 0..Most : m <= Padded /\ NumbersOf(k) = 1..m
      BY DEF CasesInv, NumberedInTurn
    <3> QED
      BY <3>1, CasesBounds
  <2>2. ASSUME NEW h \in Handlers, At(h, "create", "write"),
               job[h].among = Cardinality(NumbersOf(job[h].kind)),
               job[h].number \in NumbersOf(job[h].kind)
        PROVE  job[h].among >= Padded
    <3>1. job[h].kind \in CaseKinds /\ job[h].among \in Nat /\ Counts(job[h])
      BY CasesKnown, CasesBounds DEF Job
    <3>2. PICK m \in 0..Most : /\ m <= Padded /\ NumbersOf(job[h].kind) = 1..m
                               /\ Cardinality(NumbersOf(job[h].kind)) = m
      BY <3>1, NumbersCounted
    <3> QED
      BY <2>2, <3>1, <3>2, CasesBounds DEF Counts, At
  <2> QED
    BY <2>1, <2>2 DEF NumbersKept, NumbersDense, AloneIsAccepted, CasesInv
<1> QED
  BY <1>1, CasesInductive, PTL

(* An incident is closed only when it was escalated, however requests       *)
(* overlap; and for requests that do not, the events of a case lead to its  *)
(* status, and closedAt and resolvedAt are set on what has ended.           *)
THEOREM TracesTell == CasesSpec => []TraceTellsStatus
<1>1. CasesInv /\ TraceInv => TraceTellsStatus
  BY DEF CasesInv, IncidentsRise, TraceInv, TraceTellsStatus, ClosedWasEscalated, AfterEscalation
<1> QED
  BY <1>1, CasesInductive, PTL
=============================================================================
