-------------------------------- MODULE Sync --------------------------------
(***************************************************************************)
(* One operation a device recorded offline, and the requests that bring it *)
(* to the server: batches (sync.service) and, for an incident or an        *)
(* emergency, requests of the endpoint itself with the same operation id.  *)
(* A batch takes its operations one after another, each on its own.        *)
(*                                                                         *)
(* A batch goes through two idempotency records, `outer` under "sync:" and *)
(* the operation id, and `inner`, the endpoint's own, under the operation  *)
(* id; a support request and the update of an incident have the outer one  *)
(* alone.  The outer record has the hash of the whole payload; that of the *)
(* inner leaves fields out, such as the description of an incident or the  *)
(* accuracy and the site of an alarm.  The payload is one its endpoint     *)
(* accepts: the refusal of another is the same every time.                 *)
(***************************************************************************)
EXTENDS Integers

CONSTANTS
  Senders,    \* the requests that bring the operation; each is sent until it is settled
  Direct,     \* those that go to the endpoint
  Payloads,
  PayloadOf,  \* the payload a request carries
  Hashes,     \* the hashes an endpoint may take of the payloads: each is a function
              \* to one of those it does not tell apart
  NoPayload,
  MaxFaults   \* bound: what fails, stops or takes longer than its lock

ASSUME SyncAssumption ==
  /\ Direct \subseteq Senders /\ PayloadOf \in [Senders -> Payloads]
  /\ Hashes \subseteq [Payloads -> Payloads]
  /\ NoPayload \notin Payloads /\ MaxFaults \in Nat

(* "local" and "keyed" are incident.create and emergency.sos, with and     *)
(* without a local id; "plain" is support.request and incident.update.     *)
Entities == [kind : {"local", "keyed", "plain"}, hash : Hashes]
Keys == {"outer", "inner"}

VARIABLES
  entity,    \* what the operation is, and its endpoint's hash; it does not change
  record,    \* the IdempotencyRecord of each key; a payload stands for its hash
  row,       \* the status of the SyncOperation row
  conflicts, \* the payloads of the SyncConflict rows
  made,      \* how often each payload was applied; 2 stands for more
  request,   \* where each request is
  answer,    \* the final answer of each request, and whether it was sent
  faults,    \* the faults so far
  disturbed  \* history: the records that lost a request, see MadeOnce

syncVars == <<entity, record, row, conflicts, made, request, answer, faults, disturbed>>

Record == [status : {"ABSENT", "PROCESSING", "COMPLETED", "FAILED"},
           payload : Payloads \cup {NoPayload}, locked : BOOLEAN]

NoRecord == [status |-> "ABSENT", payload |-> NoPayload, locked |-> FALSE]

Request == [at : {"idle", "read", "begin", "begin_write", "look", "insert", "store", "complete",
              "fail", "conflict", "upsert"},
        key : Keys, saw : Record, status : {"COMPLETED", "FAILED", "CONFLICT"}]

Resting == [at |-> "idle", key |-> "outer", saw |-> NoRecord, status |-> "COMPLETED"]

Settled == {"completed", "replayed", "noted", "conflict"}

SyncTypeOK ==
  /\ entity \in Entities
  /\ record \in [Keys -> Record]
  /\ row \in {"ABSENT", "COMPLETED", "FAILED", "CONFLICT"}
  /\ conflicts \subseteq Payloads
  /\ made \in [Payloads -> 0..2]
  /\ request \in [Senders -> Request]
  /\ answer \in [Senders -> Settled \cup {"none", "sent"}]
  /\ faults \in 0..MaxFaults
  /\ disturbed \subseteq Keys

SyncInit ==
  /\ entity \in Entities
  /\ record = [k \in Keys |-> NoRecord]
  /\ row = "ABSENT" /\ conflicts = {}
  /\ made = [p \in Payloads |-> 0]
  /\ request = [s \in Senders |-> Resting]
  /\ answer = [s \in Senders |-> "none"]
  /\ faults = 0 /\ disturbed = {}

-----------------------------------------------------------------------------
InStep(s, step) == request[s].at = step

GoesWith(s, step, key) ==
  request' = [request EXCEPT ![s].at = step, ![s].key = key, ![s].saw = NoRecord]

Goes(s, step) == GoesWith(s, step, request[s].key)

Answered(s, a) ==
  /\ answer' = [answer EXCEPT ![s] = a]
  /\ request' = [request EXCEPT ![s] = Resting]

Keyed == entity.kind # "plain"

Straight(s) == s \in Direct /\ Keyed

Exists == \E p \in Payloads : made[p] > 0

(* The record that keeps the operation from being applied again. *)
Guard == IF Keyed THEN "inner" ELSE "outer"

SameHash(k, p, q) == IF k = "outer" THEN p = q ELSE entity.hash[p] = entity.hash[q]

Working(s) == InStep(s, "look") \/ InStep(s, "insert") \/ InStep(s, "store")
              \/ (~Keyed /\ InStep(s, "complete"))

Applied(s) == InStep(s, "store") \/ (~Keyed /\ InStep(s, "complete"))

Disturb(is, k) == IF is THEN disturbed \cup {k} ELSE disturbed

Faulty == faults < MaxFaults /\ faults' = faults + 1       \* bound

(* A device that has no final answer sends the operation again. *)
Send(s) ==
  /\ InStep(s, "idle") /\ answer[s] \notin Settled
  /\ IF Straight(s) THEN GoesWith(s, "begin", "inner") ELSE GoesWith(s, "read", "outer")
  /\ answer' = [answer EXCEPT ![s] = "sent"]
  /\ UNCHANGED <<entity, record, row, conflicts, made, faults, disturbed>>

(* A completed operation is a replay, whatever its payload. *)
SyncRead(s) ==
  /\ InStep(s, "read")
  /\ IF row = "COMPLETED"
       THEN Answered(s, "noted")
       ELSE Goes(s, "begin") /\ UNCHANGED answer
  /\ UNCHANGED <<entity, record, row, conflicts, made, faults, disturbed>>

(***************************************************************************)
(* begin of either record: the read, and what the caller makes of it.      *)
(***************************************************************************)
Refused(s, step) ==
  IF Straight(s)
    THEN Answered(s, IF step = "conflict" THEN "conflict" ELSE "sent")
    ELSE GoesWith(s, step, "outer") /\ UNCHANGED answer

Replayed(s) ==
  IF request[s].key = "inner" /\ ~Straight(s)
    THEN GoesWith(s, "complete", "outer") /\ UNCHANGED answer
    ELSE Answered(s, "replayed")

Begin_ReplaysFailed(s) ==          \* slip: a failed record is replayed too
  /\ InStep(s, "begin")
  /\ LET r == record[request[s].key]  same == SameHash(request[s].key, r.payload, PayloadOf[s]) IN
       \/ r.status = "PROCESSING" /\ r.locked /\ Refused(s, "fail")
       \/ r.status \in {"COMPLETED", "FAILED"} /\ ~same /\ Refused(s, "conflict")
       \/ r.status \in {"COMPLETED", "FAILED"} /\ same /\ Replayed(s)
       \/ /\ r.status = "ABSENT" \/ (r.status = "PROCESSING" /\ ~r.locked)
          /\ request' = [request EXCEPT ![s].at = "begin_write", ![s].saw = r]
          /\ UNCHANGED answer
  /\ UNCHANGED <<entity, record, row, conflicts, made, faults, disturbed>>

Begin_ConflictWhileLocked(s) ==    \* slip: every refusal is taken for a reused key
  /\ InStep(s, "begin")
  /\ LET r == record[request[s].key]  same == SameHash(request[s].key, r.payload, PayloadOf[s]) IN
       \/ r.status = "PROCESSING" /\ r.locked /\ Refused(s, "conflict")
       \/ r.status \in {"COMPLETED", "FAILED"} /\ ~same /\ Refused(s, "conflict")
       \/ r.status = "COMPLETED" /\ same /\ Replayed(s)
       \/ /\ \/ r.status = "ABSENT"
             \/ r.status = "PROCESSING" /\ ~r.locked
             \/ r.status = "FAILED" /\ same
          /\ request' = [request EXCEPT ![s].at = "begin_write", ![s].saw = r]
          /\ UNCHANGED answer
  /\ UNCHANGED <<entity, record, row, conflicts, made, faults, disturbed>>

Begin(s) ==
  /\ InStep(s, "begin")
  /\ LET r == record[request[s].key]  same == SameHash(request[s].key, r.payload, PayloadOf[s]) IN
       \/ r.status = "PROCESSING" /\ r.locked /\ Refused(s, "fail")
       \/ r.status \in {"COMPLETED", "FAILED"} /\ ~same /\ Refused(s, "conflict")
       \/ r.status = "COMPLETED" /\ same /\ Replayed(s)
       \/ /\ \/ r.status = "ABSENT"
             \/ r.status = "PROCESSING" /\ ~r.locked
             \/ r.status = "FAILED" /\ same
          /\ request' = [request EXCEPT ![s].at = "begin_write", ![s].saw = r]
          /\ UNCHANGED answer
  /\ UNCHANGED <<entity, record, row, conflicts, made, faults, disturbed>>

(* What begin leads to, once the record is this request's. *)
Begun(s) ==
  IF request[s].key = "outer" /\ Keyed THEN GoesWith(s, "begin", "inner") ELSE Goes(s, "look")

BeginWrite_TakesAny(s) ==          \* slip: the unique key is not kept
  /\ InStep(s, "begin_write")
  /\ LET k == request[s].key IN
       record' = [record EXCEPT ![k] =
                    [status |-> "PROCESSING", payload |-> PayloadOf[s], locked |-> TRUE]]
  /\ disturbed' = disturbed
  /\ Begun(s)
  /\ UNCHANGED <<entity, row, conflicts, made, answer, faults>>

(* An insert that finds the key taken reads again; a record is taken over  *)
(* by its id, whatever became of it since it was read.                     *)
BeginWrite(s) ==
  /\ InStep(s, "begin_write")
  /\ LET k == request[s].key  lost == record[k] # request[s].saw IN
       IF request[s].saw.status = "ABSENT" /\ lost
         THEN Goes(s, "begin") /\ UNCHANGED <<record, disturbed>>
         ELSE /\ record' = [record EXCEPT ![k] =
                   [status |-> "PROCESSING", payload |-> PayloadOf[s], locked |-> TRUE]]
              /\ disturbed' = Disturb(lost, k)
              /\ Begun(s)
  /\ UNCHANGED <<entity, row, conflicts, made, answer, faults>>

-----------------------------------------------------------------------------
(* The endpoint: an entity with the local id is the answer; else a new one *)
(* is inserted, and the local id is unique.                                *)
Look(s) ==
  /\ InStep(s, "look")
  /\ Goes(s, IF entity.kind = "local" /\ Exists THEN "store" ELSE "insert")
  /\ UNCHANGED <<entity, record, row, conflicts, made, answer, faults, disturbed>>

Insert(s) ==
  /\ InStep(s, "insert")
  /\ IF entity.kind = "local" /\ Exists
       THEN GoesWith(s, "fail", "inner") /\ UNCHANGED made
       ELSE /\ made' = [made EXCEPT ![PayloadOf[s]] = IF @ = 2 THEN 2 ELSE @ + 1]
            /\ Goes(s, IF Keyed THEN "store" ELSE "complete")
  /\ UNCHANGED <<entity, record, row, conflicts, answer, faults, disturbed>>

Closed(k, status) == [record EXCEPT ![k].status = status, ![k].locked = FALSE]

(* complete of the endpoint's record, then of the batch's. *)
Store(s) ==
  /\ InStep(s, "store")
  /\ record' = Closed("inner", "COMPLETED")
  /\ IF Straight(s)
       THEN Answered(s, "completed")
       ELSE GoesWith(s, "complete", "outer") /\ UNCHANGED answer
  /\ UNCHANGED <<entity, row, conflicts, made, faults, disturbed>>

Complete(s) ==
  /\ InStep(s, "complete")
  /\ record' = Closed("outer", "COMPLETED")
  /\ request' = [request EXCEPT ![s].at = "upsert", ![s].status = "COMPLETED"]
  /\ UNCHANGED <<entity, row, conflicts, made, answer, faults, disturbed>>

(* fail, in the catch blocks: a batch fails the record it was refused too, *)
(* while another request holds it or has completed it.                     *)
Fail_StaysLocked(s) ==             \* slip: fail leaves the record as it is
  /\ InStep(s, "fail")
  /\ UNCHANGED <<record, disturbed>>
  /\ IF Straight(s) THEN Answered(s, "sent")
     ELSE IF request[s].key = "inner" THEN GoesWith(s, "fail", "outer") /\ UNCHANGED answer
     ELSE /\ request' = [request EXCEPT ![s].at = "upsert", ![s].status = "FAILED"]
          /\ UNCHANGED answer
  /\ UNCHANGED <<entity, row, conflicts, made, faults>>

Fail(s) ==
  /\ InStep(s, "fail")
  /\ record' = Closed(request[s].key, "FAILED")
  /\ disturbed' = Disturb(/\ request[s].key = Guard
                          /\ \/ record[Guard].status = "COMPLETED"
                             \/ \E t \in Senders : Working(t), Guard)
  /\ IF Straight(s) THEN Answered(s, "sent")
     ELSE IF request[s].key = "inner" THEN GoesWith(s, "fail", "outer") /\ UNCHANGED answer
     ELSE /\ request' = [request EXCEPT ![s].at = "upsert", ![s].status = "FAILED"]
          /\ UNCHANGED answer
  /\ UNCHANGED <<entity, row, conflicts, made, faults>>

(* A reused key: the SyncConflict row; the outer record is left as it is.  *)
Conflict(s) ==
  /\ InStep(s, "conflict")
  /\ conflicts' = conflicts \cup {PayloadOf[s]}
  /\ request' = [request EXCEPT ![s].at = "upsert", ![s].status = "CONFLICT"]
  /\ UNCHANGED <<entity, record, row, made, answer, faults, disturbed>>

(* upsertSyncOp, and the answer. *)
Upsert(s) ==
  /\ InStep(s, "upsert")
  /\ row' = request[s].status
  /\ Answered(s, CASE request[s].status = "COMPLETED" -> "completed"
                   [] request[s].status = "CONFLICT"  -> "conflict"
                   [] OTHER -> "sent")
  /\ UNCHANGED <<entity, record, conflicts, made, faults, disturbed>>

-----------------------------------------------------------------------------
(* A step of the endpoint or of the batch throws: the number is taken, the *)
(* supervisors cannot be notified, the database is away.                   *)
Throw(s) ==
  /\ \/ Working(s) /\ GoesWith(s, "fail", Guard)
     \/ /\ InStep(s, "complete") \/ (InStep(s, "upsert") /\ request[s].status = "COMPLETED")
        /\ GoesWith(s, "fail", "outer")
  /\ Faulty
  /\ disturbed' = Disturb(Applied(s) \/ (~Keyed /\ InStep(s, "upsert")), Guard)
  /\ UNCHANGED <<entity, record, row, conflicts, made, answer>>

(* The server stops; the device gets no answer. *)
Crash(s) ==
  /\ ~InStep(s, "idle")
  /\ Faulty
  /\ Answered(s, "sent")
  /\ disturbed' = Disturb(Applied(s), Guard)
  /\ UNCHANGED <<entity, record, row, conflicts, made>>

Holds(s, k) ==
  IF k = Guard THEN Working(s) \/ (InStep(s, "fail") /\ request[s].key = k)
  ELSE ~Straight(s) /\ (request[s].key = "inner" \/ InStep(s, "complete"))

(* A lock ends in time: once its request is gone or, a fault, under it. *)
LockEnds(k) ==
  /\ record[k].locked
  /\ record' = [record EXCEPT ![k].locked = FALSE]
  /\ IF \A s \in Senders : ~Holds(s, k)
       THEN UNCHANGED <<faults, disturbed>>
       ELSE Faulty /\ disturbed' = Disturb(TRUE, k)
  /\ UNCHANGED <<entity, row, conflicts, made, request, answer>>

Handle(s) ==
  \/ SyncRead(s) \/ Begin(s) \/ BeginWrite(s) \/ Look(s) \/ Insert(s) \/ Store(s)
  \/ Complete(s) \/ Fail(s) \/ Conflict(s) \/ Upsert(s)

SyncNext ==
  \/ \E s \in Senders : Send(s) \/ Handle(s) \/ Throw(s) \/ Crash(s)
  \/ \E k \in Keys : LockEnds(k)

SyncSpec == SyncInit /\ [][SyncNext]_syncVars

(* The device sends again, a request runs on, and a lock runs out in time. *)
Fairness ==
  /\ \A s \in Senders : WF_syncVars(Send(s)) /\ WF_syncVars(Handle(s))
  /\ \A k \in Keys : WF_syncVars(LockEnds(k))

SyncFairSpec == SyncSpec /\ Fairness

-----------------------------------------------------------------------------
(* An operation is applied once, and with a local id no failure changes    *)
(* that.  Without one it may be applied again when a request ended between *)
(* its insert and its record, when a lock ran out under a request at work, *)
(* when a record was taken over that had changed since it was read and,    *)
(* for an operation with no key of its own, when a refused batch failed    *)
(* the record of the one at work; of an incident or an alarm that last     *)
(* never makes a second.                                                   *)
MadeOnce ==
  (Guard \in disturbed /\ entity.kind # "local")
    \/ \A p, q \in Payloads : made[p] <= 1 /\ (made[p] > 0 /\ made[q] > 0 => p = q)

(* It was done, and until a request was disturbed with payload p, or one   *)
(* whose hash the record that guards the operation does not tell from p's. *)
DoneFor(p) == \E q \in Payloads : made[q] > 0 /\ (disturbed # {} \/ SameHash(Guard, q, p))

(* A device told that its operation was done learns of one that was: of an *)
(* incident or alarm, until a request was disturbed, with what the         *)
(* endpoint's hash is of, though not with the rest of the payload; of      *)
(* another operation with the whole of it.  A COMPLETED row stands for one *)
(* too, but it answers any payload.                                        *)
AnswersAreReal ==
  /\ row = "COMPLETED" => Exists
  /\ \A s \in Senders :
       /\ answer[s] \in {"completed", "replayed"} => DoneFor(PayloadOf[s])
       /\ answer[s] = "noted" => Exists

(* A device is told of a conflict, and a conflict is recorded, only when   *)
(* another payload came under the operation's id: never because a request  *)
(* of the same payload is at work or failed.                               *)
ConflictIsReal ==
  \A s \in Senders :
    answer[s] = "conflict" \/ PayloadOf[s] \in conflicts =>
      \E t \in Senders : PayloadOf[t] # PayloadOf[s] /\ answer[t] # "none"

(* What a device is told is so (processOne, and the endpoint's replay):    *)
(* what it is told was done was done, up to what the hash leaves out, and  *)
(* a conflict is one of two payloads.                                      *)
AnswersKept == SyncTypeOK /\ AnswersAreReal /\ ConflictIsReal

(* A device that keeps sending gets a final answer once the faults end:    *)
(* requests that refuse and fail one another do not go on for ever.        *)
EveryOperationSettles == <>(\A s \in Senders : answer[s] \in Settled)

-----------------------------------------------------------------------------
(* What keeps these: the inductive invariant.  That a request was brought  *)
(* with another payload.                                                   *)
OtherCame(s) == \E t \in Senders : PayloadOf[t] # PayloadOf[s] /\ answer[t] # "none"

(* Where a request may be: which record it is at, which it has been at. *)
Placed(s) ==
  LET q == request[s] IN
    /\ q.at # "idle" => answer[s] # "none"
    /\ q.key = "inner" => Keyed
    /\ Straight(s) /\ q.at # "idle" =>
         q.key = "inner" /\ q.at \notin {"read", "complete", "conflict", "upsert"}
    /\ q.at \in {"read", "complete", "conflict", "upsert"} => q.key = "outer"
    /\ q.at \in {"look", "insert"} => q.key = Guard
    /\ q.at = "store" => q.key = "inner"

HoldsOuter(s) == ~Straight(s) /\ (request[s].key = "inner" \/ InStep(s, "complete"))

Present(s) ==
  LET q == request[s] IN
    /\ HoldsOuter(s) \/ q.at \in {"conflict", "upsert"} => record["outer"].status # "ABSENT"
    /\ q.at \in {"look", "insert", "store", "fail"} => record[q.key].status # "ABSENT"

(* What a request has found out: the record it is about to take over, that *)
(* the operation was done, that another payload came.                      *)
Found(s) ==
  LET q == request[s] IN
    /\ q.at = "begin_write" =>
         /\ q.saw.status = "PROCESSING" => ~q.saw.locked
         /\ q.saw.status = "FAILED" => SameHash(q.key, q.saw.payload, PayloadOf[s])
         /\ q.saw.status # "COMPLETED"
    /\ q.at \in {"store", "complete"} \/ (q.at = "upsert" /\ q.status = "COMPLETED") =>
         DoneFor(PayloadOf[s])
    /\ q.at = "conflict" \/ (q.at = "upsert" /\ q.status = "CONFLICT") => OtherCame(s)

RecordsMean ==
  \A k \in Keys :
    /\ record[k].status # "ABSENT" =>
         \E t \in Senders : PayloadOf[t] = record[k].payload /\ answer[t] # "none"
    /\ record[k].status = "COMPLETED" => DoneFor(record[k].payload)

(* Until the record that guards the operation loses a request, it is locked *)
(* for the one at work, and once the operation was done it says so, or the  *)
(* one that did it is about to say it.                                      *)
GuardStands ==
  Guard \notin disturbed =>
    /\ \A s, t \in Senders : Working(s) /\ Working(t) => s = t
    /\ \A s \in Senders : Working(s) =>
         /\ record[Guard].status = "PROCESSING" /\ record[Guard].locked
         /\ record[Guard].payload = PayloadOf[s]
    /\ Exists => record[Guard].status = "COMPLETED" \/ \E s \in Senders : Applied(s)

(* And a batch in the endpoint has the batch's record for its payload. *)
OuterStands ==
  disturbed = {} /\ Keyed =>
    \A s \in Senders : HoldsOuter(s) =>
      /\ record["outer"].status = "PROCESSING" => record["outer"].locked
      /\ record["outer"].payload = PayloadOf[s]

SyncInv ==
  /\ AnswersKept /\ MadeOnce
  /\ \A s \in Senders : Placed(s) /\ Present(s) /\ Found(s)
  /\ RecordsMean /\ GuardStands /\ OuterStands
=============================================================================
