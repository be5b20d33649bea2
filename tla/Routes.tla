------------------------------- MODULE Routes --------------------------------
(***************************************************************************)
(* Patrol routes, their checkpoints (patrol-routes.service and             *)
(* patrol-checkpoints.service) and the creation of patrols from them       *)
(* (createOneInTx of patrol-assignments.service; Patrol has the rest of a  *)
(* patrol's life).  Premises adds the sites and clients.                   *)
(*                                                                         *)
(* A handler is one action per read it decides from and one per write.     *)
(* Where a request first reads rows only to see that they are not          *)
(* archived, which they stay once they are, these reads are one action.    *)
(***************************************************************************)
EXTENDS Integers, FiniteSets

CONSTANTS
  Clients, Sites, Patrols,
  Routes, Checkpoints,   \* bound: the rows there may be
  MaxNumber,             \* bound: the sequence numbers
  Handlers,              \* the requests being handled at one time
  MaxRequests,           \* bound: the requests in all
  None

ASSUME RoutesAssumption ==
  MaxRequests \in Nat /\ MaxNumber \in Nat /\ IsFiniteSet(Checkpoints)
    /\ None \notin Clients \cup Sites \cup Routes \cup Patrols

Numbers == 1..MaxNumber
SiteStatuses == {"ACTIVE", "INACTIVE", "ARCHIVED"}
RouteStatuses == {"DRAFT", "ACTIVE", "INACTIVE", "ARCHIVED"}

RouteTransitions(s) ==
  CASE s = "DRAFT"    -> {"ACTIVE", "INACTIVE", "ARCHIVED"}
    [] s = "ACTIVE"   -> {"INACTIVE", "ARCHIVED"}
    [] s = "INACTIVE" -> {"ACTIVE", "ARCHIVED"}
    [] OTHER          -> {}

VARIABLES
  site,        \* the SecuritySite rows
  route,       \* the PatrolRoute rows
  checkpoint,  \* the PatrolCheckpoint rows
  patrol,      \* the PatrolAssignment rows: of which route, from which checkpoints
  job,         \* what each handler is doing, and what it has read
  requests,    \* the requests so far
  raced        \* history: the kinds of rows one request wrote on what another's
               \* write of that kind had overtaken

routeVars == <<site, route, checkpoint, patrol>>

SiteRow == [status : SiteStatuses \cup {"ABSENT"}, client : Clients, deleted : BOOLEAN]

RouteRow == [status : RouteStatuses \cup {"ABSENT"}, site : Sites, deleted : BOOLEAN]

CheckpointRow == [route : Routes \cup {None}, number : Numbers, active : BOOLEAN,
                  deleted : BOOLEAN]

PatrolRow == [route : Routes \cup {None}, from : SUBSET Checkpoints, over : BOOLEAN]

Job == [op : {"idle", "site", "sitestatus", "client", "create", "status", "add", "number",
              "toggle", "archive", "reorder", "patrol"},
        step : {"use", "order", "write"}, of : {"rows", "premises"},
        row : Sites \cup Routes \cup Checkpoints \cup Clients \cup {None},
        to : RouteStatuses \cup Clients \cup {None},
        checkpoints : SUBSET Checkpoints, numbers : [Checkpoints -> Numbers \cup {0}],
        asked : SUBSET Numbers,
        stale : BOOLEAN]

Idle == [op |-> "idle", step |-> "use", of |-> "rows", row |-> None, to |-> None,
         checkpoints |-> {}, numbers |-> [c \in Checkpoints |-> 0], asked |-> {},
         stale |-> FALSE]

RoutesTypeOK ==
  /\ site \in [Sites -> SiteRow]
  /\ route \in [Routes -> RouteRow]
  /\ checkpoint \in [Checkpoints -> CheckpointRow]
  /\ patrol \in [Patrols -> PatrolRow]
  /\ job \in [Handlers -> Job]
  /\ requests \in 0..MaxRequests
  /\ raced \subseteq {"rows", "premises"}

-----------------------------------------------------------------------------
At(h, op, step) == job[h].op = op /\ job[h].step = step

Request(h) ==
  /\ job[h].op = "idle"
  /\ requests < MaxRequests                                \* bound
  /\ requests' = requests + 1

Becomes(h, j) == job' = [job EXCEPT ![h] = j]

Reads == UNCHANGED <<site, route, checkpoint, patrol, raced>>

Goes(h, may, j) ==
  /\ Becomes(h, IF may THEN j ELSE Idle)
  /\ UNCHANGED requests /\ Reads

(* A write overtakes the requests that have read rows of its kind.         *)
Written(h) ==
  /\ job' = [g \in Handlers |->
               IF g = h THEN Idle
               ELSE [job[g] EXCEPT !.stale =
                       @ \/ (job[g].op # "idle" /\ job[g].of = job[h].of)]]
  /\ raced' = IF job[h].stale THEN raced \cup {job[h].of} ELSE raced

Open(row) == row.status # "ABSENT" /\ ~row.deleted

Editable(r) == Open(route[r]) /\ route[r].status # "ARCHIVED"

SiteActive(s) == Open(site[s]) /\ site[s].status = "ACTIVE"

Rows(r) == {c \in Checkpoints : checkpoint[c].route = r}
Kept(r) == {c \in Rows(r) : ~checkpoint[c].deleted}
Active(r) == {c \in Kept(r) : checkpoint[c].active}

NumbersOf(cs) == {checkpoint[c].number : c \in cs}

Underway(p) == patrol[p].route # None /\ ~patrol[p].over

(* assertNoActiveAssignments, assertNoActiveAssignmentsUsingCheckpoint *)
RouteFree(r) == \A p \in Patrols : Underway(p) => patrol[p].route # r

CheckpointFree(c) == \A p \in Patrols : Underway(p) => c \notin patrol[p].from

-----------------------------------------------------------------------------
(* Routes: create, updateStatus and archive. *)
RouteCreateRead(h) ==
  /\ Request(h)
  /\ \E s \in Sites :
       /\ SiteActive(s)
       /\ Becomes(h, [Idle EXCEPT !.op = "create", !.step = "write", !.row = s])
  /\ Reads

RouteCreateWrite(h) ==
  /\ At(h, "create", "write")
  /\ \E r \in Routes :
       /\ route[r].status = "ABSENT"
       /\ route' = [route EXCEPT ![r] = [status |-> "DRAFT", site |-> job[h].row, deleted |-> FALSE]]
  /\ Written(h)
  /\ UNCHANGED <<site, checkpoint, patrol, requests>>

RouteStatusRead(h) ==
  /\ Request(h)
  /\ \E r \in Routes : \E s \in RouteTransitions(route[r].status) :
       /\ Open(route[r])
       /\ Becomes(h, [Idle EXCEPT !.op = "status", !.row = r, !.to = s,
                                  !.step = IF s = "INACTIVE" THEN "write" ELSE "use"])
  /\ Reads

(* assertSiteActive, then assertCanActivate looks at the checkpoints. *)
RouteSiteRead(h) ==
  /\ At(h, "status", "use") /\ job[h].to = "ACTIVE"
  /\ Goes(h, SiteActive(route[job[h].row].site), [job[h] EXCEPT !.step = "order"])

InOrder(r) == Active(r) # {} /\ NumbersOf(Active(r)) = 1..Cardinality(Active(r))

RouteOrderRead(h) ==
  /\ At(h, "status", "order")
  /\ Goes(h, InOrder(job[h].row), [job[h] EXCEPT !.step = "write"])

RouteUseRead_Unasked(h) ==         \* slip: the patrols are not counted
  /\ At(h, "status", "use") /\ job[h].to = "ARCHIVED"
  /\ Goes(h, TRUE, [job[h] EXCEPT !.step = "write"])

RouteUseRead(h) ==
  /\ At(h, "status", "use") /\ job[h].to = "ARCHIVED"
  /\ Goes(h, RouteFree(job[h].row), [job[h] EXCEPT !.step = "write"])

RouteStatusWrite(h) ==
  /\ At(h, "status", "write")
  /\ route' = [route EXCEPT ![job[h].row].status = job[h].to,
                            ![job[h].row].deleted = @ \/ job[h].to = "ARCHIVED"]
  /\ Written(h)
  /\ UNCHANGED <<site, checkpoint, patrol, requests>>

-----------------------------------------------------------------------------
(* Checkpoints: create and createBatch, update (of the number, or only of  *)
(* `active`, which asks nothing), archive and reorder.  A row to be        *)
(* inserted is no other request's.                                         *)
AddRead(h) ==
  /\ Request(h)
  /\ \E r \in Routes, cs \in SUBSET {c \in Checkpoints : checkpoint[c].route = None} \ {{}} :
       /\ Editable(r)
       /\ \A g \in Handlers : job[g].op = "add" => job[g].checkpoints \cap cs = {}
       /\ \E new \in [cs -> Numbers] :
            /\ \A c, d \in cs : new[c] = new[d] => c = d
            /\ Becomes(h, [Idle EXCEPT !.op = "add", !.step = "order", !.row = r,
                             !.checkpoints = cs, !.asked = {new[c] : c \in cs},
                             !.numbers = [c \in Checkpoints |-> IF c \in cs THEN new[c] ELSE 0]])
  /\ Reads

CheckpointRead(h) ==
  /\ Request(h)
  /\ \E c \in Checkpoints :
       /\ checkpoint[c].route # None /\ ~checkpoint[c].deleted
       /\ Editable(checkpoint[c].route)
       /\ LET j == [Idle EXCEPT !.row = checkpoint[c].route, !.checkpoints = {c}] IN
            \/ \E n \in Numbers :
                 Becomes(h, [j EXCEPT !.op = "number", !.numbers[c] = n, !.asked = {n}])
            \/ Becomes(h, [j EXCEPT !.op = "toggle", !.step = "write"])
            \/ Becomes(h, [j EXCEPT !.op = "archive"])
  /\ Reads

UseRead_Unasked(h) ==              \* slip: the patrols are not asked
  /\ job[h].op \in {"number", "archive"} /\ job[h].step = "use"
  /\ Goes(h, TRUE, [job[h] EXCEPT !.step = IF job[h].op = "number" THEN "order" ELSE "write"])

UseRead(h) ==
  /\ job[h].op \in {"number", "archive"} /\ job[h].step = "use"
  /\ Goes(h, \A c \in job[h].checkpoints : CheckpointFree(c),
             [job[h] EXCEPT !.step = IF job[h].op = "number" THEN "order" ELSE "write"])

(* assertSequenceAvailable: among the checkpoints that are not archived. *)
NumberRead_Unasked(h) ==           \* slip: every number is taken to be free
  /\ job[h].op \in {"add", "number"} /\ job[h].step = "order"
  /\ Goes(h, TRUE, [job[h] EXCEPT !.step = "write"])

NumberRead(h) ==
  /\ job[h].op \in {"add", "number"} /\ job[h].step = "order"
  /\ Goes(h, \A c \in job[h].checkpoints :
               job[h].numbers[c] \notin NumbersOf(Kept(job[h].row) \ {c}),
             [job[h] EXCEPT !.step = "write"])

(* reorder: as many items as there are active checkpoints, with the        *)
(* numbers from 1 on.  Nobody asks that the checkpoints differ: one named  *)
(* more than once keeps the last of its numbers, and another is not named. *)
ReorderRead(h) ==
  /\ Request(h)
  /\ \E r \in Routes, named \in SUBSET Checkpoints \ {{}} :
       /\ Editable(r) /\ named \subseteq Active(r)
       /\ \E new \in [named -> 1..Cardinality(Active(r))] :
            /\ \A c, d \in named : new[c] = new[d] => c = d
            /\ Becomes(h, [Idle EXCEPT !.op = "reorder", !.step = "write", !.row = r,
                             !.checkpoints = named, !.asked = 1..Cardinality(Active(r)),
                             !.numbers = [c \in Checkpoints |-> IF c \in named THEN new[c] ELSE 0]])
  /\ Reads

NamesOneTwice(j) == Cardinality(j.checkpoints) < Cardinality(j.asked)

(* The unique index on route and sequence counts the archived rows too,    *)
(* and is asked at every row written, also where a later one moves it on.  *)
Taken(j) == {c \in Rows(j.row) \ j.checkpoints : checkpoint[c].number \in j.asked}

CheckpointWrite(h) ==
  /\ job[h].op \in {"add", "number", "reorder"} /\ job[h].step = "write"
  /\ IF Taken(job[h]) # {}
       THEN Becomes(h, Idle) /\ UNCHANGED <<checkpoint, raced>>
       ELSE /\ checkpoint' = [c \in Checkpoints |->
                 IF c \notin job[h].checkpoints THEN checkpoint[c]
                 ELSE IF job[h].op = "add"
                   THEN [route |-> job[h].row, number |-> job[h].numbers[c], active |-> TRUE,
                         deleted |-> FALSE]
                   ELSE [checkpoint[c] EXCEPT !.number = job[h].numbers[c]]]
            /\ Written(h)
  /\ UNCHANGED <<site, route, patrol, requests>>

CheckpointEnd(h) ==
  /\ job[h].op \in {"toggle", "archive"} /\ job[h].step = "write"
  /\ \E c \in job[h].checkpoints :
       IF job[h].op = "archive"
         THEN checkpoint' = [checkpoint EXCEPT ![c].active = FALSE, ![c].deleted = TRUE]
         ELSE \E a \in BOOLEAN : checkpoint' = [checkpoint EXCEPT ![c].active = a]
  /\ Written(h)
  /\ UNCHANGED <<site, route, patrol, requests>>

-----------------------------------------------------------------------------
(* createOneInTx: the route and its active checkpoints are read at once.   *)
PatrolRead_AnyRoute(h) ==          \* slip: a route that is not active will do
  /\ Request(h)
  /\ \E r \in Routes :
       /\ route[r].status # "ABSENT" /\ Active(r) # {}
       /\ Becomes(h, [Idle EXCEPT !.op = "patrol", !.step = "write", !.row = r,
                                  !.checkpoints = Active(r)])
  /\ Reads

PatrolRead(h) ==
  /\ Request(h)
  /\ \E r \in Routes :
       /\ Open(route[r]) /\ route[r].status = "ACTIVE" /\ Active(r) # {}
       /\ Becomes(h, [Idle EXCEPT !.op = "patrol", !.step = "write", !.row = r,
                                  !.checkpoints = Active(r)])
  /\ Reads

PatrolWrite(h) ==
  /\ At(h, "patrol", "write")
  /\ \E p \in Patrols :
       /\ patrol[p].route = None
       /\ patrol' = [patrol EXCEPT ![p] =
                       [route |-> job[h].row, from |-> job[h].checkpoints, over |-> FALSE]]
  /\ Written(h)
  /\ UNCHANGED <<site, route, checkpoint, requests>>

(* A patrol is finished, missed or cancelled: Patrol has how. *)
PatrolEnds(p) ==
  /\ Underway(p)
  /\ patrol' = [patrol EXCEPT ![p].over = TRUE]
  /\ UNCHANGED <<site, route, checkpoint, job, requests, raced>>

RoutesNext ==
  \/ \E h \in Handlers :
       \/ RouteCreateRead(h) \/ RouteCreateWrite(h)
       \/ RouteStatusRead(h) \/ RouteSiteRead(h) \/ RouteOrderRead(h) \/ RouteUseRead(h)
       \/ RouteStatusWrite(h)
       \/ AddRead(h) \/ CheckpointRead(h) \/ UseRead(h) \/ NumberRead(h) \/ ReorderRead(h)
       \/ CheckpointWrite(h) \/ CheckpointEnd(h)
       \/ PatrolRead(h) \/ PatrolWrite(h)
  \/ \E p \in Patrols : PatrolEnds(p)

-----------------------------------------------------------------------------
(* A patrol that is not over has its route, and its checkpoints are not    *)
(* archived; unless the rows of the route changed between what a request   *)
(* read and wrote.                                                         *)
PatrolKeepsItsRoute ==
  \/ "rows" \in raced
  \/ \A p \in Patrols :
       Underway(p) =>
         /\ ~route[patrol[p].route].deleted
         /\ \A c \in patrol[p].from : ~checkpoint[c].deleted

(* A request whose numbers were found free, or that gives the active       *)
(* checkpoints theirs anew, is refused by the index for three reasons      *)
(* only: a write came in between; the number belongs to an archived        *)
(* checkpoint, which never gives it back, or, for a reorder, to an         *)
(* inactive one; or the reorder names a checkpoint twice.                  *)
RefusedForThePast ==
  \A h \in Handlers :
    job[h].op \in {"add", "number", "reorder"} /\ job[h].step = "write" /\ ~job[h].stale =>
      \A c \in Taken(job[h]) :
        \/ checkpoint[c].deleted
        \/ job[h].op = "reorder" /\ (~checkpoint[c].active \/ NamesOneTwice(job[h]))

-----------------------------------------------------------------------------
(* What keeps these: the inductive invariant.                              *)
Numbering == {"add", "number", "reorder"}

(* What a request is about, from its first read to its write. *)
RowsMeant(j) ==
  /\ j.op \in {"create", "status", "patrol", "toggle", "archive"} \cup Numbering => j.of = "rows"
  /\ j.op = "create" => j.row \in Sites
  /\ j.op \in {"status", "patrol", "toggle", "archive"} \cup Numbering => j.row \in Routes
  /\ j.op = "status" =>
       j.to \in {"ACTIVE", "INACTIVE", "ARCHIVED"} /\ (j.step = "order" => j.to = "ACTIVE")
  /\ j.op \in Numbering =>
       \A c, d \in j.checkpoints :
         j.numbers[c] \in j.asked /\ (j.numbers[c] = j.numbers[d] => c = d)
  /\ j.op \in {"add", "number"} => \A n \in j.asked : \E c \in j.checkpoints : n = j.numbers[c]
  /\ j.op = "add" => \A c \in j.checkpoints : checkpoint[c].route = None
  /\ j.op \in {"number", "reorder"} => \A c \in j.checkpoints : checkpoint[c].route = j.row

(* The index: no two checkpoints of a route have one number.  And a row is *)
(* inserted by one request.                                                *)
NumbersApart ==
  /\ \A c, d \in Checkpoints :
       /\ checkpoint[c].route # None /\ checkpoint[c].route = checkpoint[d].route
       /\ checkpoint[c].number = checkpoint[d].number
       => c = d
  /\ \A g, h \in Handlers :
       job[g].op = "add" /\ job[h].op = "add" /\ g # h => job[g].checkpoints \cap job[h].checkpoints = {}

(* What a request that was not overtaken still knows when it writes. *)
RowsKnown(j) ==
  j.step = "write" /\ ~j.stale =>
    /\ j.op = "status" /\ j.to = "ARCHIVED" => RouteFree(j.row)
    /\ j.op = "archive" => \A c \in j.checkpoints : CheckpointFree(c)
    /\ j.op = "patrol" => ~route[j.row].deleted /\ \A c \in j.checkpoints : ~checkpoint[c].deleted

RoutesInv ==
  /\ NumbersApart
  /\ PatrolKeepsItsRoute /\ RefusedForThePast
  /\ \A h \in Handlers : RowsMeant(job[h]) /\ RowsKnown(job[h])
=============================================================================
