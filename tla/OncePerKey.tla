----------------------------- MODULE OncePerKey -----------------------------
(***************************************************************************)
(* What an idempotency key promises to the caller, with no record, lock or *)
(* clock in sight.  A key is disturbed once one of its requests has been   *)
(* answered with an error or has outlived its lock: until then the key's   *)
(* operation is applied at most once, and a replay answers the payload it  *)
(* was asked with.  Whatever happens, an answer reports an applied         *)
(* operation of the same key.                                              *)
(***************************************************************************)
CONSTANTS
  Requests,   \* the HTTP requests, each carrying one key and one payload
  Keys,       \* the (userId, key) pairs
  KeyOf,      \* the key a request carries
  HashOf,     \* the hash of the payload a request carries
  NoBody      \* the answer body of a refusal

VARIABLES
  effects,    \* the requests whose operation was applied, by key
  answer,     \* what each request was answered
  disturbed   \* the keys the promise no longer covers

vars == <<effects, answer, disturbed>>

Unanswered == [kind |-> "none", body |-> NoBody]

Init ==
  /\ effects = [k \in Keys |-> {}]
  /\ answer = [r \in Requests |-> Unanswered]
  /\ disturbed = {}

(* An operation is applied once, unless its key is disturbed. *)
Apply(r) ==
  /\ effects[KeyOf[r]] = {} \/ KeyOf[r] \in disturbed
  /\ effects' = [effects EXCEPT ![KeyOf[r]] = @ \cup {r}]
  /\ UNCHANGED <<answer, disturbed>>

(* A request is answered once, with the outcome of an applied operation. *)
Report(r, kind, b) ==
  /\ answer[r] = Unanswered
  /\ b \in effects[KeyOf[r]]
  /\ kind = "done" => b = r
  /\ HashOf[b] = HashOf[r] \/ KeyOf[r] \in disturbed
  /\ answer' = [answer EXCEPT ![r] = [kind |-> kind, body |-> b]]
  /\ UNCHANGED <<effects, disturbed>>

(* ... or refused, with no outcome. *)
Refuse(r, kind) ==
  /\ answer[r] = Unanswered
  /\ answer' = [answer EXCEPT ![r] = [kind |-> kind, body |-> NoBody]]
  /\ UNCHANGED <<effects, disturbed>>

(* ... or told of an error, which leaves the key open for a retry. *)
Err(r) ==
  /\ answer[r] = Unanswered
  /\ answer' = [answer EXCEPT ![r] = [kind |-> "error", body |-> NoBody]]
  /\ disturbed' = disturbed \cup {KeyOf[r]}
  /\ UNCHANGED effects

(* Time passes the lock of some requests. *)
Outlive ==
  /\ disturbed' \in SUBSET Keys
  /\ disturbed \subseteq disturbed'
  /\ UNCHANGED <<effects, answer>>

Next ==
  \/ \E r \in Requests :
       \/ Apply(r)
       \/ Err(r)
       \/ \E kind \in {"done", "replay"}, b \in Requests : Report(r, kind, b)
       \/ \E kind \in {"in_progress", "key_reused"} : Refuse(r, kind)
  \/ Outlive

Spec == Init /\ [][Next]_vars
=============================================================================
