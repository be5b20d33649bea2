------------------------------- MODULE Cases --------------------------------
(***************************************************************************)
(* What is reported and then worked on: incidents, emergencies (SOS) and   *)
(* support requests.  One organisation on one day, for the numbers start   *)
(* again with each day and each organisation.                              *)
(*                                                                         *)
(* A case is created by a read of the greatest number and an insert that a *)
(* unique index may refuse, so a case is known by its kind and number; it  *)
(* is worked on by a read and a transaction that writes by id.  The log of *)
(* status events is kept as its last event and whether each event starts   *)
(* from where the one before it ended.  Access checks only refuse, and     *)
(* notes, titles and messages touch nothing of this: they are left out.    *)
(***************************************************************************)
EXTENDS Integers, FiniteSets

CONSTANTS
  Handlers,     \* the requests being handled at one time
  Most,         \* bound: the cases of each kind
  OneAtATime,   \* no two requests that work on a case overlap
  Base,         \* 10
  Padded        \* 10000: the first number that does not fit the padding

ASSUME CasesAssumption ==
  /\ Most \in Nat /\ OneAtATime \in BOOLEAN
  /\ Base \in Nat \ {0, 1} /\ Padded \in Nat /\ Padded % Base = 0 /\ Padded > 2

CaseKinds == {"incident", "sos", "support"}
Numbers == 1..Most

IncidentTransitions(s) ==
  CASE s = "DRAFT"        -> {"SUBMITTED", "NEW"}
    [] s = "SUBMITTED"    -> {"NEW", "ACKNOWLEDGED", "UNDER_REVIEW", "REJECTED"}
    [] s = "NEW"          -> {"ACKNOWLEDGED", "UNDER_REVIEW", "REJECTED"}
    [] s = "ACKNOWLEDGED" -> {"OFFICER_DISPATCHED", "UNDER_REVIEW", "UNDER_INVESTIGATION",
                              "ESCALATED", "RESOLVED"}
    [] s = "OFFICER_DISPATCHED" -> {"UNDER_REVIEW", "UNDER_INVESTIGATION", "ESCALATED",
                                    "RESOLVED"}
    [] s = "UNDER_REVIEW" -> {"UNDER_INVESTIGATION", "ESCALATED", "RESOLVED", "CLOSED",
                              "REJECTED"}
    [] s = "UNDER_INVESTIGATION" -> {"ESCALATED", "RESOLVED", "CLOSED"}
    [] s = "ESCALATED"    -> {"UNDER_INVESTIGATION", "RESOLVED", "CLOSED"}
    [] s = "RESOLVED"     -> {"CLOSED", "UNDER_REVIEW"}
    [] s \in {"CLOSED", "REJECTED"} -> {"UNDER_REVIEW"}
    [] OTHER              -> {}

EmergencyTransitions(s) ==
  CASE s = "CREATED"      -> {"ACCEPTED_FOR_PROCESSING", "ACKNOWLEDGED", "CANCELLED",
                              "FALSE_ALARM", "FAILED"}
    [] s = "ACCEPTED_FOR_PROCESSING" -> {"ACKNOWLEDGED", "RESPONDING", "CANCELLED",
                                         "FALSE_ALARM"}
    [] s = "ACKNOWLEDGED" -> {"RESPONDING", "RESOLVED", "CANCELLED", "FALSE_ALARM"}
    [] s = "RESPONDING"   -> {"RESOLVED", "CANCELLED", "FALSE_ALARM"}
    [] OTHER              -> {}

IncidentStatuses ==
  {"DRAFT", "SUBMITTED", "NEW", "ACKNOWLEDGED", "OFFICER_DISPATCHED", "UNDER_REVIEW",
   "UNDER_INVESTIGATION", "ESCALATED", "RESOLVED", "CLOSED", "REJECTED"}

EmergencyStatuses ==
  {"CREATED", "ACCEPTED_FOR_PROCESSING", "ACKNOWLEDGED", "RESPONDING", "RESOLVED",
   "CANCELLED", "FAILED", "FALSE_ALARM"}

SupportStatuses == {"OPEN", "ACKNOWLEDGED", "IN_PROGRESS", "RESOLVED", "CLOSED"}

Statuses == IncidentStatuses \cup EmergencyStatuses \cup SupportStatuses

(* What ends an emergency, for its resolvedAt. *)
Ends == {"RESOLVED", "FALSE_ALARM", "CANCELLED"}

VARIABLES
  case,   \* the Incident, Emergency and SupportRequest rows, by number
  job     \* what each handler is doing, and what it has read

caseVars == <<case, job>>

(* `ended` is closedAt of an incident and resolvedAt of an emergency;      *)
(* `escalated` is escalationTriggeredAt.                                   *)
CaseRow == [status : Statuses \cup {"ABSENT"}, ended : BOOLEAN, escalated : BOOLEAN,
            last : Statuses \cup {"ABSENT"}, chained : BOOLEAN]

Works == {"assign", "close", "reopen", "escalate", "respond", "support"}

Job == [op : {"idle", "create"} \cup Works, step : {"read", "again", "write"},
        kind : CaseKinds, number : 0..Most + 1, among : 0..Most,
        was : Statuses \cup {"ABSENT"}, next : Statuses \cup {"ABSENT"}]

Idle == [op |-> "idle", step |-> "read", kind |-> "incident", number |-> 0, among |-> 0,
         was |-> "ABSENT", next |-> "ABSENT"]

CasesTypeOK ==
  /\ case \in [CaseKinds -> [Numbers -> CaseRow]]
  /\ job \in [Handlers -> Job]

CasesInit ==
  /\ case = [k \in CaseKinds |-> [n \in Numbers |->
               [status |-> "ABSENT", ended |-> FALSE, escalated |-> FALSE,
                last |-> "ABSENT", chained |-> TRUE]]]
  /\ job = [h \in Handlers |-> Idle]

-----------------------------------------------------------------------------
At(h, op, step) == job[h].op = op /\ job[h].step = step

Becomes(h, j) == job' = [job EXCEPT ![h] = j]

Done(h) == Becomes(h, Idle)

NumbersOf(k) == {n \in Numbers : case[k][n].status # "ABSENT"}

(***************************************************************************)
(* Numbers are compared as strings: ORDER BY ... DESC on a text column.    *)
(* One that fits is padded with zeros to the length of Padded - 1; one     *)
(* that does not is a digit longer, and its leading digits decide.         *)
(***************************************************************************)
Leading(n) == IF n < Padded THEN n ELSE n \div Base

Before(m, n) == Leading(m) < Leading(n) \/ (Leading(m) = Leading(n) /\ m < n)

Latest(k, n) == n \in NumbersOf(k) /\ \A m \in NumbersOf(k) : m = n \/ Before(m, n)

Creating(k, n) ==
  [Idle EXCEPT !.op = "create", !.step = "write", !.kind = k, !.number = n,
               !.among = Cardinality(NumbersOf(k))]

(* nextNumber: one more than the greatest, or one. *)
NumberRead_Repeats(h) ==           \* slip: the greatest number is not increased
  /\ job[h].op = "idle"
  /\ \E k \in CaseKinds :
       \/ NumbersOf(k) = {} /\ Becomes(h, Creating(k, 1))
       \/ \E n \in Numbers : Latest(k, n) /\ Becomes(h, Creating(k, n))
  /\ UNCHANGED case

NumberRead_SkipsOne(h) ==          \* slip: the number is increased twice
  /\ job[h].op = "idle"
  /\ \E k \in CaseKinds :
       \/ NumbersOf(k) = {} /\ Becomes(h, Creating(k, 1))
       \/ \E n \in Numbers : Latest(k, n) /\ n < Most /\ Becomes(h, Creating(k, n + 2))
  /\ UNCHANGED case

NumberRead(h) ==
  /\ job[h].op = "idle"
  /\ \E k \in CaseKinds :
       \/ NumbersOf(k) = {} /\ Becomes(h, Creating(k, 1))
       \/ \E n \in Numbers : Latest(k, n) /\ Becomes(h, Creating(k, n + 1))
  /\ UNCHANGED case

FirstStatuses(k) ==
  CASE k = "incident" -> {"DRAFT", "NEW", "SUBMITTED"}
    [] k = "sos"      -> {"CREATED"}
    [] OTHER          -> {"OPEN"}

(* The number is unique in its organisation: a second insert is refused. *)
Insert_Upserts(h) ==               \* slip: a number that is taken is written over
  /\ At(h, "create", "write")
  /\ job[h].number <= Most
  /\ \E s \in FirstStatuses(job[h].kind) :
       case' = [case EXCEPT ![job[h].kind][job[h].number].status = s]
  /\ Done(h)

Insert(h) ==
  /\ At(h, "create", "write")
  /\ job[h].number <= Most         \* bound
  /\ LET k == job[h].kind  n == job[h].number IN
       IF n \in NumbersOf(k)
         THEN UNCHANGED case
         ELSE \E s \in FirstStatuses(k) :
                case' = [case EXCEPT ![k][n].status = s, ![k][n].last = s]
  /\ Done(h)

-----------------------------------------------------------------------------
Working(h) == job[h].op \in Works

MayWork(h) ==
  job[h].op = "idle" /\ (OneAtATime => \A g \in Handlers : ~Working(g))

(* assertIncidentTransition and assertEmergencyTransition let a status be  *)
(* set again.                                                              *)
MayBecome(k, n, s) ==
  \/ case[k][n].status = s
  \/ k = "incident" /\ s \in IncidentTransitions(case[k][n].status)
  \/ k = "sos" /\ s \in EmergencyTransitions(case[k][n].status)

Reads(h, op, step, k, n, s) ==
  /\ n \in NumbersOf(k)
  /\ Becomes(h, [Idle EXCEPT !.op = op, !.step = step, !.kind = k, !.number = n,
                             !.was = case[k][n].status, !.next = s])

(* assign: a case that was not taken up yet is acknowledged. *)
AssignRead(h) ==
  /\ MayWork(h)
  /\ \E n \in Numbers :
       LET s == case["incident"][n].status
       IN Reads(h, "assign", "write", "incident", n,
                IF s \in {"SUBMITTED", "NEW"} THEN "ACKNOWLEDGED" ELSE s)
  /\ UNCHANGED case

CloseRead_FromAny(h) ==            \* slip: the table is not asked
  /\ MayWork(h)
  /\ \E n \in Numbers : Reads(h, "close", "write", "incident", n, "CLOSED")
  /\ UNCHANGED case

CloseRead(h) ==
  /\ MayWork(h)
  /\ \E n \in Numbers :
       /\ MayBecome("incident", n, "CLOSED")
       /\ Reads(h, "close", "write", "incident", n, "CLOSED")
  /\ UNCHANGED case

EscalateRead(h) ==
  /\ MayWork(h)
  /\ \E n \in Numbers :
       /\ MayBecome("incident", n, "ESCALATED")
       /\ Reads(h, "escalate", "write", "incident", n, "ESCALATED")
  /\ UNCHANGED case

(* reopen reads the incident, and transition reads it again. *)
ReopenRead(h) ==
  /\ MayWork(h)
  /\ \E n \in Numbers :
       /\ case["incident"][n].status \in {"CLOSED", "REJECTED"}
       /\ Reads(h, "reopen", "again", "incident", n, "UNDER_REVIEW")
  /\ UNCHANGED case

ReopenAgain(h) ==
  /\ At(h, "reopen", "again")
  /\ IF MayBecome("incident", job[h].number, "UNDER_REVIEW")
       THEN Reads(h, "reopen", "write", "incident", job[h].number, "UNDER_REVIEW")
       ELSE Done(h)
  /\ UNCHANGED case

RespondRead(h) ==
  /\ MayWork(h)
  /\ \E n \in Numbers, s \in EmergencyStatuses :
       MayBecome("sos", n, s) /\ Reads(h, "respond", "write", "sos", n, s)
  /\ UNCHANGED case

(* A support request has no table: any status may follow any. *)
SupportRead(h) ==
  /\ MayWork(h)
  /\ \E n \in Numbers, s \in SupportStatuses : Reads(h, "support", "write", "support", n, s)
  /\ UNCHANGED case

(* One transaction writes the status and its event; assign has an event    *)
(* only for a change, a support request has none.                          *)
Logged(j) == j.kind # "support" /\ (j.op = "assign" => j.next # j.was)

Worked(row, j) ==
  [status    |-> j.next,
   escalated |-> row.escalated \/ j.op = "escalate",
   ended     |-> CASE j.op = "close"   -> TRUE
                   [] j.op = "reopen"  -> FALSE
                   [] j.op = "respond" -> row.ended \/ j.next \in Ends
                   [] OTHER            -> row.ended,
   last      |-> IF Logged(j) THEN j.next ELSE row.last,
   chained   |-> row.chained /\ (Logged(j) => row.last = j.was)]

Write_NoEvent(h) ==                \* slip: an assignment is not logged
  /\ Working(h) /\ job[h].step = "write"
  /\ LET k == job[h].kind  n == job[h].number IN
       case' = [case EXCEPT ![k][n] =
                  IF job[h].op = "assign"
                    THEN [Worked(@, job[h]) EXCEPT !.last = case[k][n].last]
                    ELSE Worked(@, job[h])]
  /\ Done(h)

Write_KeepsEnd(h) ==               \* slip: reopen leaves closedAt
  /\ Working(h) /\ job[h].step = "write"
  /\ LET k == job[h].kind  n == job[h].number IN
       case' = [case EXCEPT ![k][n] =
                  [Worked(@, job[h]) EXCEPT !.ended = @ \/ case[k][n].ended]]
  /\ Done(h)

Write(h) ==
  /\ Working(h) /\ job[h].step = "write"
  /\ case' = [case EXCEPT ![job[h].kind][job[h].number] = Worked(@, job[h])]
  /\ Done(h)

CasesNext ==
  \E h \in Handlers :
    \/ NumberRead(h) \/ Insert(h)
    \/ AssignRead(h) \/ CloseRead(h) \/ EscalateRead(h)
    \/ ReopenRead(h) \/ ReopenAgain(h)
    \/ RespondRead(h) \/ SupportRead(h)
    \/ Write(h)

CasesSpec == CasesInit /\ [][CasesNext]_caseVars

-----------------------------------------------------------------------------
(* The numbers of a day are 1 to n, without a gap, however the creations   *)
(* overlap; and n is never more than Padded, since the number that does    *)
(* not fit the padding sorts before those that do.                         *)
NumbersDense ==
  \A k \in CaseKinds :
    /\ \A n \in NumbersOf(k) : n <= Padded /\ 1..n \subseteq NumbersOf(k)

(* A creation is refused for its number only when another one of the kind  *)
(* was inserted since it looked, or the padded numbers are used up.        *)
AloneIsAccepted ==
  \A h \in Handlers :
    /\ At(h, "create", "write")
    /\ job[h].among = Cardinality(NumbersOf(job[h].kind))
    /\ job[h].number \in NumbersOf(job[h].kind)
    => job[h].among >= Padded

(* The number that follows is free: the numbers of a day have no gap, and   *)
(* whoever creates a case alone is not refused for its number.              *)
NumbersKept == CasesTypeOK /\ NumbersDense /\ AloneIsAccepted

LogTellsStatus ==
  \A k \in {"incident", "sos"}, n \in Numbers :
    case[k][n].last = case[k][n].status /\ case[k][n].chained

EndIsDated ==
  \A n \in Numbers :
    /\ case["incident"][n].ended <=> case["incident"][n].status = "CLOSED"
    /\ case["sos"][n].ended <=> case["sos"][n].status \in Ends

ClosedWasEscalated ==
  \A n \in Numbers :
    case["incident"][n].status = "CLOSED" => case["incident"][n].escalated

(* The events of a case lead, one from another, to the status it has, and  *)
(* closedAt is set on the closed incidents, resolvedAt on the emergencies  *)
(* that ended, for requests that do not overlap: assign writes back the    *)
(* status it read, an answer may be older than the one it replaces.  And   *)
(* however they overlap, the only way to close an incident leads through   *)
(* its escalation: no operation takes it from ACKNOWLEDGED to another      *)
(* status CLOSED follows.                                                  *)
TraceTellsStatus ==
  /\ ClosedWasEscalated
  /\ OneAtATime => LogTellsStatus /\ EndIsDated

-----------------------------------------------------------------------------
(* What keeps these: the numbers of a kind are 1 to m, a creation knows how *)
(* many of them there are at least, and whoever works on an incident that   *)
(* was escalated, or makes it what only such ones become, knows that it was. *)
BeforeEscalation == {"DRAFT", "SUBMITTED", "NEW", "ACKNOWLEDGED"}
AfterEscalation == {"ESCALATED", "CLOSED", "UNDER_REVIEW"}

NumberedInTurn ==
  \A k \in CaseKinds : \E m \in 0..Most : m <= Padded /\ NumbersOf(k) = 1..m

IncidentsRise ==
  \A n \in Numbers :
    /\ case["incident"][n].status \in {"ABSENT"} \cup BeforeEscalation \cup AfterEscalation
    /\ case["incident"][n].status \in AfterEscalation => case["incident"][n].escalated

Counts(j) ==
  j.op = "create" =>
    /\ j.step = "write"
    /\ j.among <= Padded /\ 1..j.among \subseteq NumbersOf(j.kind)
    /\ j.number = IF j.among < Padded THEN j.among + 1 ELSE Padded

KnowsCase(j) ==
  j.op \in Works =>
    /\ j.number \in NumbersOf(j.kind) /\ j.next # "ABSENT"
    /\ j.op = "reopen" => j.next = "UNDER_REVIEW"
    /\ j.kind = CASE j.op = "respond" -> "sos" [] j.op = "support" -> "support"
                  [] OTHER -> "incident"
    /\ j.kind = "incident" =>
         /\ j.next \in BeforeEscalation \cup AfterEscalation
         /\ j.next \in AfterEscalation => j.op = "escalate" \/ case["incident"][j.number].escalated

CasesInv ==
  /\ CasesTypeOK /\ NumberedInTurn /\ IncidentsRise
  /\ \A h \in Handlers : Counts(job[h]) /\ KnowsCase(job[h])

(* And for requests that do not overlap: what the one request has read is   *)
(* so still, and it moves the case by the tables.                           *)
KnowsStatus(j) ==
  j.op \in Works /\ j.step = "write" =>
    /\ j.was = case[j.kind][j.number].status
    /\ j.op = "close" => j.next = "CLOSED"
    /\ j.op = "escalate" => j.next = "ESCALATED" /\ j.was # "CLOSED"
    /\ j.op = "assign" =>
         j.next = j.was \/ (j.was \in {"SUBMITTED", "NEW"} /\ j.next = "ACKNOWLEDGED")
    /\ j.op = "respond" => (j.was \in Ends => j.next = j.was)

TraceInv ==
  OneAtATime =>
    /\ \A g, h \in Handlers : Working(g) /\ Working(h) => g = h
    /\ \A h \in Handlers : KnowsStatus(job[h])
    /\ LogTellsStatus /\ EndIsDated
=============================================================================
