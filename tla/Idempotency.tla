---------------------------- MODULE Idempotency -----------------------------
(***************************************************************************)
(* The idempotency record of common/idempotency and the handlers that use  *)
(* it: begin, perform, complete, and fail in the catch block.  Every       *)
(* database call is an action of its own, because the handler awaits it    *)
(* and another request, of this server instance or another, may run in     *)
(* between.  No record is ever deleted: no job of the repository does.     *)
(***************************************************************************)
EXTENDS Integers

CONSTANTS
  Requests,   \* the HTTP requests; a retry is another request
  Keys,       \* the (userId, key) pairs
  Hashes,     \* the payload hashes
  KeyOf,      \* the key a request carries
  HashOf,     \* the payload hash a request carries
  NoBody,     \* null, for responseBody and requestHash of a missing record
  UniqueKeys, \* the keys whose operation a database constraint applies once
  Crashable,  \* the requests whose server may stop before they are answered
  LockTicks,  \* PROCESSING_LOCK_MS, in ticks of the clock
  MaxTime     \* bound of the clock

ASSUME KeyOfAssumption == KeyOf \in [Requests -> Keys]
ASSUME HashOfAssumption == HashOf \in [Requests -> Hashes]
ASSUME NoBodyAssumption == NoBody \notin Requests /\ NoBody \notin Hashes
ASSUME UniqueAssumption == UniqueKeys \subseteq Keys /\ Crashable \subseteq Requests
ASSUME TimeAssumption == LockTicks \in Nat \ {0} /\ MaxTime \in Nat

VARIABLES
  row,        \* the IdempotencyRecord of each key
  clock,      \* the servers' clock
  pc,         \* where each request is in its handler
  at,         \* the clock a request read at the start of begin
  effects,    \* the requests whose operation committed, by key
  answer,     \* what each request was answered
  lapsed      \* history: the requests that did not give their lock back in time

vars == <<row, clock, pc, at, effects, answer, lapsed>>

Unanswered == [kind |-> "none", body |-> NoBody]

NoRow == [status |-> "ABSENT", hash |-> NoBody, lockedUntil |-> 0, body |-> NoBody]

Row == [status : {"ABSENT", "PROCESSING", "COMPLETED", "FAILED"},
        hash : Hashes \cup {NoBody},
        lockedUntil : Nat,            \* 0 is null
        body : Requests \cup {NoBody}]

Stages == {"new", "lookup", "create", "take_over", "perform", "store",
           "record_failure", "answered", "crashed"}

Answers == [kind : {"none", "in_progress", "key_reused", "replay", "done", "error"},
            body : Requests \cup {NoBody}]

TypeOK ==
  /\ row \in [Keys -> Row]
  /\ clock \in Nat
  /\ pc \in [Requests -> Stages]
  /\ at \in [Requests -> Nat]
  /\ effects \in [Keys -> SUBSET Requests]
  /\ answer \in [Requests -> Answers]
  /\ lapsed \in SUBSET Requests

Init ==
  /\ row = [k \in Keys |-> NoRow]
  /\ clock = 0
  /\ pc = [r \in Requests |-> "new"]
  /\ at = [r \in Requests |-> 0]
  /\ effects = [k \in Keys |-> {}]
  /\ answer = [r \in Requests |-> Unanswered]
  /\ lapsed = {}

(***************************************************************************)
(* begin: one read of the record, then what the code decides from it.      *)
(***************************************************************************)
RowOf(r) == row[KeyOf[r]]

Looking(r) == pc[r] \in {"new", "lookup"}

Locked(r) == RowOf(r).status = "PROCESSING" /\ RowOf(r).lockedUntil > clock

SameHash(r) == RowOf(r).hash = HashOf[r]

Goto(r, stage) == pc' = [pc EXCEPT ![r] = stage]

Reply(r, kind, b) ==
  /\ answer' = [answer EXCEPT ![r] = [kind |-> kind, body |-> b]]
  /\ Goto(r, "answered")

Lookup(r) ==
  /\ Looking(r)
  /\ at' = [at EXCEPT ![r] = clock]
  /\ UNCHANGED <<row, clock, effects, lapsed>>

BeginAbsent(r) ==
  /\ Lookup(r)
  /\ RowOf(r).status = "ABSENT"
  /\ Goto(r, "create")
  /\ UNCHANGED answer

BeginInProgress(r) ==
  /\ Lookup(r)
  /\ Locked(r)
  /\ Reply(r, "in_progress", NoBody)

BeginReplay_AnyOutcome(r) ==       \* slip: replays a FAILED record
  /\ Lookup(r)
  /\ RowOf(r).status \in {"COMPLETED", "FAILED"}
  /\ SameHash(r)
  /\ Reply(r, "replay", RowOf(r).body)

BeginReplay_AnyPayload(r) ==       \* slip: no comparison of the hashes
  /\ Lookup(r)
  /\ RowOf(r).status = "COMPLETED"
  /\ Reply(r, "replay", RowOf(r).body)

BeginReplay(r) ==
  /\ Lookup(r)
  /\ RowOf(r).status = "COMPLETED"
  /\ SameHash(r)
  /\ Reply(r, "replay", RowOf(r).body)

BeginKeyReused(r) ==
  /\ Lookup(r)
  /\ RowOf(r).status \in {"COMPLETED", "FAILED"}
  /\ ~SameHash(r)
  /\ Reply(r, "key_reused", NoBody)

BeginTakeOver_Completed(r) ==      \* slip: every record of the payload reopens
  /\ Lookup(r)
  /\ RowOf(r).status # "ABSENT" /\ ~Locked(r) /\ SameHash(r)
  /\ Goto(r, "take_over")
  /\ UNCHANGED answer

(* An expired lock is taken over whatever its payload. *)
BeginTakeOver(r) ==
  /\ Lookup(r)
  /\ \/ RowOf(r).status = "PROCESSING" /\ ~Locked(r)
     \/ RowOf(r).status = "FAILED" /\ SameHash(r)
  /\ Goto(r, "take_over")
  /\ UNCHANGED answer

ProcessingRow(r) ==
  [status |-> "PROCESSING", hash |-> HashOf[r],
   lockedUntil |-> at[r] + LockTicks, body |-> NoBody]

(* The update names the record and nothing of what was read of it. *)
TakeOver(r) ==
  /\ pc[r] = "take_over"
  /\ row' = [row EXCEPT ![KeyOf[r]] = ProcessingRow(r)]
  /\ Goto(r, "perform")
  /\ UNCHANGED <<clock, at, effects, answer, lapsed>>

Create(r) ==
  /\ pc[r] = "create"
  /\ RowOf(r).status = "ABSENT"
  /\ row' = [row EXCEPT ![KeyOf[r]] = ProcessingRow(r)]
  /\ Goto(r, "perform")
  /\ UNCHANGED <<clock, at, effects, answer, lapsed>>

CreateLost_Proceeds(r) ==          \* slip: P2002 is taken for success
  /\ pc[r] = "create"
  /\ RowOf(r).status # "ABSENT"
  /\ Goto(r, "perform")
  /\ UNCHANGED <<row, clock, at, effects, answer, lapsed>>

(* P2002 on (userId, key): begin calls itself. *)
CreateLost(r) ==
  /\ pc[r] = "create"
  /\ RowOf(r).status # "ABSENT"
  /\ Goto(r, "lookup")
  /\ UNCHANGED <<row, clock, at, effects, answer, lapsed>>

(***************************************************************************)
(* The handler: perform the operation, then complete; fail in the catch.   *)
(***************************************************************************)
Commit(r) ==
  /\ pc[r] = "perform"
  /\ KeyOf[r] \in UniqueKeys => effects[KeyOf[r]] = {}
  /\ effects' = [effects EXCEPT ![KeyOf[r]] = @ \cup {r}]
  /\ Goto(r, "store")
  /\ UNCHANGED <<row, clock, at, answer, lapsed>>

(* The operation throws before it commits ("perform"), or the audit record *)
(* after it or complete itself does ("store").                             *)
Throw(r) ==
  /\ pc[r] \in {"perform", "store"}
  /\ Goto(r, "record_failure")
  /\ UNCHANGED <<row, clock, at, effects, answer, lapsed>>

(* complete and fail keep the record's hash, whosever it is. *)
EndedRow(r, status, b) ==
  [status |-> status, hash |-> RowOf(r).hash, lockedUntil |-> 0, body |-> b]

Complete(r) ==
  /\ pc[r] = "store"
  /\ row' = [row EXCEPT ![KeyOf[r]] = EndedRow(r, "COMPLETED", r)]
  /\ Reply(r, "done", r)
  /\ UNCHANGED <<clock, at, effects, lapsed>>

Fail(r) ==
  /\ pc[r] = "record_failure"
  /\ row' = [row EXCEPT ![KeyOf[r]] = EndedRow(r, "FAILED", NoBody)]
  /\ Reply(r, "error", NoBody)
  /\ UNCHANGED <<clock, at, effects, lapsed>>

(* fail throws too, inside the catch block: the record stays PROCESSING    *)
(* with no request behind it.                                              *)
FailLost(r) ==
  /\ pc[r] = "record_failure"
  /\ Reply(r, "error", NoBody)
  /\ lapsed' = lapsed \cup {r}
  /\ UNCHANGED <<row, clock, at, effects>>

(* The server running the request stops. *)
Crash(r) ==
  /\ r \in Crashable
  /\ pc[r] \notin {"new", "answered", "crashed"}
  /\ Goto(r, "crashed")
  /\ UNCHANGED <<row, clock, at, effects, answer, lapsed>>

Tick ==
  /\ clock < MaxTime
  /\ clock' = clock + 1
  /\ lapsed' = lapsed \cup {r \in Requests : /\ pc[r] \notin {"new", "answered"}
                                         /\ at[r] + LockTicks <= clock + 1}
  /\ UNCHANGED <<row, pc, at, effects, answer>>

Begin(r) ==
  \/ BeginAbsent(r)
  \/ BeginInProgress(r)
  \/ BeginReplay(r)
  \/ BeginKeyReused(r)
  \/ BeginTakeOver(r)
  \/ TakeOver(r)
  \/ Create(r)
  \/ CreateLost(r)

Handle(r) ==
  \/ Commit(r)
  \/ Throw(r)
  \/ Complete(r)
  \/ Fail(r)
  \/ FailLost(r)

Next ==
  \/ \E r \in Requests : Begin(r) \/ Handle(r) \/ Crash(r)
  \/ Tick

Spec == Init /\ [][Next]_vars

-----------------------------------------------------------------------------
(* A lock lapses when its request outlives it (a stopped server's request  *)
(* included) or ends without releasing it; a key is disturbed once a lock  *)
(* of it lapsed or one of its requests was answered with an error.         *)
Disturbed(k) ==
  \E r \in Requests : KeyOf[r] = k /\ (r \in lapsed \/ answer[r].kind = "error")

Lapsed(k) == \E r \in Requests : KeyOf[r] = k /\ r \in lapsed

(* A request told "done", or given a replay, learns of an operation that   *)
(* really committed under its key: the record never runs ahead of the data *)
(* and a failed attempt's record is never replayed (begin, complete).      *)
AnswersAreReal ==
  \A r \in Requests :
    /\ answer[r].kind = "done" => r \in effects[KeyOf[r]]
    /\ answer[r].kind = "replay" => answer[r].body \in effects[KeyOf[r]]

(* With no help from a constraint of the operation's own tables, the       *)
(* record alone lets a key's operation commit once, until a request of the *)
(* key fails or its lock lapses: the creation race has one winner.         *)
OneEffectUntilDisturbed ==
  \A k \in Keys : ~Disturbed(k) => \A a, b \in effects[k] : a = b

(* A replayed response answers the payload of the request it is given to,  *)
(* unless a lock of the key lapsed: retries after a failure, however they  *)
(* interleave, carry one payload.                                          *)
ReplayMatchesPayload ==
  \A r \in Requests :
    /\ answer[r].kind = "replay"
    /\ ~Lapsed(KeyOf[r])
    => HashOf[answer[r].body] = HashOf[r]

(* A stored response stays until the key is disturbed: no begin reopens a  *)
(* COMPLETED record.                                                       *)
StoredResponseKept ==
  [][\A k \in Keys : row[k].status = "COMPLETED" /\ ~Disturbed(k)
                       => row'[k] = row[k]]_vars

(* Every answer is one to its request: a real one, and to its payload.     *)
AnswersRight == AnswersAreReal /\ ReplayMatchesPayload

(* The keys promise what OncePerKey says. *)
Promise ==
  INSTANCE OncePerKey WITH disturbed <- {k \in Keys : Disturbed(k)}

ImplementsPromise == Promise!Spec

-----------------------------------------------------------------------------
(* The inductive invariant.                                                *)

Executing(r) == pc[r] \in {"perform", "store", "record_failure"}

(* No request has an answer before the step that ends it. *)
AnswerInv == \A r \in Requests : pc[r] # "answered" => answer[r] = Unanswered

(* A stored body is a committed operation's, and "store" follows a commit. *)
CommitInv ==
  /\ \A k \in Keys : row[k].status = "COMPLETED" => row[k].body \in effects[k]
  /\ \A r \in Requests : pc[r] = "store" => r \in effects[KeyOf[r]]

(* A request on its way holds an unexpired lock, or has lapsed. *)
LockInv ==
  \A r \in Requests :
    pc[r] \notin {"new", "answered"} /\ r \notin lapsed => at[r] + LockTicks > clock

(* While no lock of a key lapsed, a PROCESSING record is the lock of one   *)
(* of its requests, and one payload reaches the operation.                 *)
LeaseOf(k) ==
  /\ row[k].status = "ABSENT" =>
       /\ effects[k] = {}
       /\ \A r \in Requests :
            KeyOf[r] = k => ~Executing(r) /\ pc[r] # "take_over"
  /\ row[k].status = "PROCESSING" =>
       \E o \in Requests :
         /\ KeyOf[o] = k
         /\ Executing(o) \/ pc[o] = "crashed"
         /\ row[k].lockedUntil = at[o] + LockTicks
  /\ \A r \in Requests :
       KeyOf[r] = k /\ (Executing(r) \/ pc[r] = "take_over")
         => HashOf[r] = row[k].hash
  /\ \A b \in effects[k] : HashOf[b] = row[k].hash

LeaseInv == \A k \in Keys : ~Lapsed(k) => LeaseOf(k)

(* While a key is undisturbed, one request of it gets to the operation. *)
SoleOf(k) ==
  /\ row[k].status # "FAILED"
  /\ \A r \in Requests : KeyOf[r] = k =>
       /\ pc[r] # "take_over"
       /\ Executing(r) => row[k].status = "PROCESSING"
       /\ pc[r] = "perform" => effects[k] = {}
       /\ Executing(r) => effects[k] \subseteq {r}
       /\ \A s \in Requests :
            KeyOf[s] = k /\ Executing(r) /\ Executing(s) => r = s
  /\ \A a, b \in effects[k] : a = b

SoleInv == \A k \in Keys : ~Disturbed(k) => SoleOf(k)

IInv ==
  /\ TypeOK
  /\ AnswerInv
  /\ CommitInv
  /\ AnswersAreReal
  /\ LockInv
  /\ LeaseInv
  /\ ReplayMatchesPayload
  /\ SoleInv
=============================================================================
