--------------------------- MODULE PremisesProofs ----------------------------
(* Proofs about Routes and Premises, for any rows, numbers and requests     *)
(* that overlap: what an archived row leaves behind, and why a checkpoint   *)
(* is refused its number.                                                   *)
EXTENDS Premises, FiniteSetTheorems, TLAPS

(* RefusedForThePast of one request. *)
ForThePast(j) ==
  j.op \in Numbering /\ j.step = "write" /\ ~j.stale =>
    \A c \in Taken(j) :
      checkpoint[c].deleted \/ (j.op = "reorder" /\ (~checkpoint[c].active \/ NamesOneTwice(j)))

Stands(j) ==
  RowsMeant(j) /\ RowsKnown(j) /\ PremisesMeant(j) /\ PremisesKnown(j) /\ ForThePast(j)

(* The types of the rows. *)
RowTypes ==
  /\ site \in [Sites -> SiteRow]
  /\ route \in [Routes -> RouteRow]
  /\ checkpoint \in [Checkpoints -> CheckpointRow]
  /\ patrol \in [Patrols -> PatrolRow]
  /\ client \in [Clients -> [status : ClientStatuses \cup {"ABSENT"}, deleted : BOOLEAN]]
  /\ requests \in 0..MaxRequests
  /\ restarted \subseteq Sites

(* What the rows owe each other. *)
RowsStand ==
  /\ \A c, d \in Checkpoints :
       /\ checkpoint[c].route # None /\ checkpoint[c].route = checkpoint[d].route
       /\ checkpoint[c].number = checkpoint[d].number
       => c = d
  /\ PatrolKeepsItsRoute
  /\ \/ "premises" \in raced
     \/ \A s \in Sites :
          SiteActive(s) /\ client[site[s].client].deleted => s \in restarted

AddsApart ==
  \A g, h \in Handlers :
    job[g].op = "add" /\ job[h].op = "add" /\ g # h => job[g].checkpoints \cap job[h].checkpoints = {}

LEMMA Parts ==
  PremisesInv <=> /\ RowTypes /\ job \in [Handlers -> Job] /\ raced \subseteq {"rows", "premises"}
                  /\ RowsStand /\ AddsApart
                  /\ \A h \in Handlers : Stands(job[h])
BY DEF PremisesInv, RoutesInv, TypeOK, RoutesTypeOK, RowTypes, RowsStand, AddsApart, NumbersApart,
       ArchivedClientHasNoSite, RefusedForThePast, Stands, ForThePast, NamesOneTwice, Numbering

LEMMA NextParts ==
  ASSUME RowTypes', job' \in [Handlers -> Job], raced' \subseteq {"rows", "premises"},
         RowsStand', AddsApart', \A h \in Handlers : Stands(job[h])'
  PROVE  PremisesInv'
BY DEF PremisesInv, RoutesInv, TypeOK, RoutesTypeOK, RowTypes, RowsStand, AddsApart, NumbersApart,
       ArchivedClientHasNoSite, RefusedForThePast, Stands, ForThePast, NamesOneTwice, Numbering

LEMMA IdleJob ==
  /\ Idle \in Job /\ Idle.op = "idle" /\ Idle.step = "use" /\ Idle.of = "rows" /\ ~Idle.stale
  /\ Idle.row = None /\ Idle.to = None /\ Idle.checkpoints = {}
  /\ Idle.numbers = [c \in Checkpoints |-> 0] /\ Idle.asked = {}
<1>1. ASSUME NEW b \in BOOLEAN
      PROVE  [op |-> "idle", step |-> "use", of |-> "rows", row |-> None, to |-> None,
              checkpoints |-> {}, numbers |-> [c \in Checkpoints |-> 0], asked |-> {},
              stale |-> b] \in Job
  BY DEF Job
<1> QED
  BY <1>1 DEF Idle

LEMMA IdleStands == Stands(Idle)
BY IdleJob DEF Stands, RowsMeant, RowsKnown, PremisesMeant, PremisesKnown, ForThePast, Numbering

(* A request that stands does so as long as the rows do not change. *)
LEMMA StandsStill ==
  ASSUME NEW j, Stands(j), UNCHANGED <<client, site, route, checkpoint, patrol>>
  PROVE  Stands(j)'
BY DEF Stands, RowsMeant, RowsKnown, PremisesMeant, PremisesKnown, ForThePast, RouteFree,
       CheckpointFree, Underway, SiteActive, Open, Taken, Rows, NamesOneTwice

(* A step that only reads: what it read stands. *)
LEMMA ReadStep ==
  ASSUME PremisesInv, NEW h \in Handlers, NEW j \in Job, Becomes(h, j), Stands(j),
         UNCHANGED <<client, site, route, checkpoint, patrol, raced, restarted>>,
         requests' \in 0..MaxRequests,
         j.op = "add" => \A g \in Handlers \ {h} :
                           job[g].op = "add" => job[g].checkpoints \cap j.checkpoints = {}
  PROVE  PremisesInv'
<1>1. job \in [Handlers -> Job]
  BY Parts
<1>2. job' \in [Handlers -> Job] /\ \A g \in Handlers : job'[g] = IF g = h THEN j ELSE job[g]
  BY <1>1 DEF Becomes
<1>3. RowTypes' /\ raced' \subseteq {"rows", "premises"}
  BY Parts DEF RowTypes
<1>4. RowsStand'
  BY Parts DEF RowsStand, PatrolKeepsItsRoute, Underway, SiteActive, Open
<1>5. AddsApart'
  BY <1>2, Parts DEF AddsApart
<1>6. ASSUME NEW g \in Handlers PROVE Stands(job[g])'
  <2>1. PICK u \in Job : u = job'[g]
    BY <1>2
  <2>2. Stands(u)
    BY <1>2, <2>1, Parts
  <2>3. Stands(u)'
    BY <2>2, StandsStill
  <2> QED
    BY <2>1, <2>3
       DEF Stands, RowsMeant, RowsKnown, PremisesMeant, PremisesKnown, ForThePast, RouteFree,
           CheckpointFree, Taken, NamesOneTwice
<1> QED
  BY <1>2, <1>3, <1>4, <1>5, <1>6, NextParts

-----------------------------------------------------------------------------
(* A write leaves its handler idle and overtakes those that read such rows. *)
LEMMA WrittenJobs ==
  ASSUME job \in [Handlers -> Job], NEW h \in Handlers, Written(h)
  PROVE  /\ job' \in [Handlers -> Job] /\ job'[h] = Idle
         /\ \A g \in Handlers \ {h} :
              /\ job'[g].op = job[g].op /\ job'[g].step = job[g].step /\ job'[g].of = job[g].of
              /\ job'[g].row = job[g].row /\ job'[g].to = job[g].to
              /\ job'[g].checkpoints = job[g].checkpoints /\ job'[g].numbers = job[g].numbers
              /\ job'[g].asked = job[g].asked
              /\ ~job'[g].stale =>
                   ~job[g].stale /\ (job[g].op = "idle" \/ job[g].of # job[h].of)
<1>2. ASSUME NEW j \in Job, NEW b \in BOOLEAN
      PROVE  LET k == [j EXCEPT !.stale = b] IN
               /\ k \in Job /\ k.stale = b /\ k.op = j.op /\ k.step = j.step /\ k.of = j.of
               /\ k.row = j.row /\ k.to = j.to /\ k.checkpoints = j.checkpoints
               /\ k.numbers = j.numbers /\ k.asked = j.asked
  BY DEF Job
<1>3. ASSUME NEW g \in Handlers \ {h}
      PROVE  \E b \in BOOLEAN :
               /\ job'[g] = [job[g] EXCEPT !.stale = b]
               /\ ~b => ~job[g].stale /\ (job[g].op = "idle" \/ job[g].of # job[h].of)
  <2> DEFINE b == job[g].stale \/ (job[g].op # "idle" /\ job[g].of = job[h].of)
  <2>1. job'[g] = [job[g] EXCEPT !.stale = b]
    BY DEF Written
  <2>2. b \in BOOLEAN /\ (~b => ~job[g].stale /\ (job[g].op = "idle" \/ job[g].of # job[h].of))
    OBVIOUS
  <2> HIDE DEF b
  <2> QED
    BY <2>1, <2>2
<1>4. ASSUME NEW g \in Handlers \ {h}
      PROVE  /\ job'[g] \in Job
             /\ job'[g].op = job[g].op /\ job'[g].step = job[g].step /\ job'[g].of = job[g].of
             /\ job'[g].row = job[g].row /\ job'[g].to = job[g].to
             /\ job'[g].checkpoints = job[g].checkpoints /\ job'[g].numbers = job[g].numbers
             /\ job'[g].asked = job[g].asked
             /\ ~job'[g].stale =>
                  ~job[g].stale /\ (job[g].op = "idle" \/ job[g].of # job[h].of)
  <2>1. PICK b \in BOOLEAN :
          /\ job'[g] = [job[g] EXCEPT !.stale = b]
          /\ ~b => ~job[g].stale /\ (job[g].op = "idle" \/ job[g].of # job[h].of)
    BY <1>3
  <2> QED
    BY <1>2, <2>1
<1>5. job'[h] = Idle
  BY DEF Written
<1>6. job' \in [Handlers -> Job]
  <2>1. \A g \in Handlers : job'[g] \in Job
    BY <1>4, <1>5, IdleJob
  <2> QED
    BY <2>1 DEF Written
<1> QED
  BY <1>4, <1>5, <1>6

LEMMA WrittenRaced ==
  ASSUME PremisesInv, NEW h \in Handlers, Written(h)
  PROVE  /\ raced' \subseteq {"rows", "premises"}
         /\ job[h].of \notin raced' => job[h].of \notin raced /\ ~job[h].stale
         /\ \A k : k \notin raced' => k \notin raced
<1>1. job[h] \in Job /\ raced \subseteq {"rows", "premises"}
  BY Parts
<1> QED
  BY <1>1 DEF Written, Job

(* A write to the routes, checkpoints or patrols overtakes every request   *)
(* that looked at them.                                                    *)
LEMMA RowsWrite ==
  ASSUME PremisesInv, NEW h \in Handlers, Written(h), job[h].of = "rows",
         UNCHANGED <<client, site>>, RowTypes', RowsStand',
         \A g \in Handlers \ {h} : RowsMeant(job[g]) =>
           /\ job[g].op = "add" => \A c \in job[g].checkpoints : checkpoint'[c].route = None
           /\ job[g].op \in {"number", "reorder"} =>
                \A c \in job[g].checkpoints : checkpoint'[c].route = job[g].row
  PROVE  PremisesInv'
<1>1. job \in [Handlers -> Job]
  BY Parts
<1>2. AddsApart'
  BY <1>1, WrittenJobs, IdleJob, Parts DEF AddsApart
<1>3. ASSUME NEW g \in Handlers PROVE Stands(job[g])'
  <2>1. CASE g = h
    <3>1. job'[g] = Idle
      BY <1>1, <2>1, WrittenJobs
    <3>2. RowsMeant(job[g])'
      BY <3>1, IdleJob DEF RowsMeant, Numbering
    <3> QED
      BY <3>1, <3>2, IdleJob DEF Stands, RowsKnown, PremisesMeant, PremisesKnown, ForThePast, Numbering
  <2>2. CASE g # h
    <3>1. Stands(job[g])
      BY Parts
    <3>2. RowsMeant(job[g])'
      BY <1>1, <2>2, <3>1, WrittenJobs DEF Stands, RowsMeant, Numbering
    <3>3. PremisesMeant(job[g])' /\ PremisesKnown(job[g])'
      BY <1>1, <2>2, <3>1, WrittenJobs DEF Stands, PremisesMeant, PremisesKnown, SiteActive, Open
    <3>4. RowsKnown(job[g])' /\ ForThePast(job[g])'
      BY <1>1, <2>2, <3>1, WrittenJobs DEF Stands, RowsMeant, RowsKnown, ForThePast, Numbering
    <3> QED
      BY <3>2, <3>3, <3>4 DEF Stands
  <2> QED
    BY <2>1, <2>2
<1> QED
  BY <1>1, <1>2, <1>3, WrittenJobs, WrittenRaced, NextParts

LEMMA PremisesWrite ==
  ASSUME PremisesInv, NEW h \in Handlers, Written(h), job[h].of = "premises",
         UNCHANGED <<route, checkpoint, patrol>>, RowTypes', RowsStand'
  PROVE  PremisesInv'
<1>1. job \in [Handlers -> Job]
  BY Parts
<1>2. AddsApart'
  BY <1>1, WrittenJobs, IdleJob, Parts DEF AddsApart
<1>3. ASSUME NEW g \in Handlers PROVE Stands(job[g])'
  <2>1. CASE g = h
    <3>1. job'[g] = Idle
      BY <1>1, <2>1, WrittenJobs
    <3>2. RowsMeant(job[g])'
      BY <3>1, IdleJob DEF RowsMeant, Numbering
    <3> QED
      BY <3>1, <3>2, IdleJob DEF Stands, RowsKnown, PremisesMeant, PremisesKnown, ForThePast, Numbering
  <2>2. CASE g # h
    <3>1. Stands(job[g])
      BY Parts
    <3>2. RowsMeant(job[g])'
      BY <1>1, <2>2, <3>1, WrittenJobs DEF Stands, RowsMeant, Numbering
    <3>3. PremisesMeant(job[g])' /\ PremisesKnown(job[g])'
      BY <1>1, <2>2, <3>1, WrittenJobs DEF Stands, PremisesMeant, PremisesKnown
    <3>4. RowsKnown(job[g])'
      BY <1>1, <2>2, <3>1, WrittenJobs DEF Stands, RowsKnown, RouteFree, CheckpointFree, Underway
    <3>5. ForThePast(job[g])'
      BY <1>1, <2>2, <3>1, WrittenJobs DEF Stands, ForThePast, Taken, Rows, NamesOneTwice
    <3> QED
      BY <3>2, <3>3, <3>4, <3>5 DEF Stands
  <2> QED
    BY <2>1, <2>2
<1> QED
  BY <1>1, <1>2, <1>3, WrittenJobs, WrittenRaced, NextParts

-----------------------------------------------------------------------------
(* The reads. *)
LEMMA Admits ==
  ASSUME PremisesInv, NEW h \in Handlers, Request(h)
  PROVE  requests' \in 0..MaxRequests
BY Parts, RoutesAssumption DEF Request, RowTypes

LEMMA JobOf ==
  ASSUME PremisesInv, NEW h \in Handlers
  PROVE  job[h] \in Job /\ Stands(job[h])
BY Parts

(* A request goes on to its next step, or is refused. *)
LEMMA NextRead ==
  ASSUME PremisesInv, NEW h \in Handlers, NEW s \in {"use", "order", "write"}, NEW j,
         j = [job[h] EXCEPT !.step = s],
         (Becomes(h, j) /\ Stands(j)) \/ Becomes(h, Idle),
         Reads, UNCHANGED <<client, restarted, requests>>
  PROVE  PremisesInv'
<1>1. /\ j \in Job /\ j.op = job[h].op /\ j.checkpoints = job[h].checkpoints
      /\ requests' \in 0..MaxRequests
  <2>1. job[h] \in Job /\ requests' \in 0..MaxRequests
    BY JobOf, Parts DEF RowTypes
  <2> QED
    BY <2>1 DEF Job
<1>2. CASE Becomes(h, j) /\ Stands(j)
  <2>1. j.op = "add" => \A g \in Handlers \ {h} :
                          job[g].op = "add" => job[g].checkpoints \cap j.checkpoints = {}
    BY <1>1, Parts DEF AddsApart
  <2> QED
    BY <1>1, <1>2, <2>1, ReadStep DEF Reads
<1>3. CASE Becomes(h, Idle)
  BY <1>1, <1>3, IdleJob, IdleStands, ReadStep DEF Reads
<1> QED
  BY <1>2, <1>3

LEMMA RouteReads ==
  ASSUME PremisesInv, NEW h \in Handlers, UNCHANGED <<client, restarted>>,
         \/ RouteCreateRead(h) \/ RouteStatusRead(h) \/ RouteSiteRead(h) \/ RouteOrderRead(h)
         \/ RouteUseRead(h)
  PROVE  PremisesInv'
<1>1. CASE RouteCreateRead(h)
  <2>1. PICK s \in Sites : Becomes(h, [Idle EXCEPT !.op = "create", !.step = "write", !.row = s])
    BY <1>1 DEF RouteCreateRead
  <2> DEFINE j == [Idle EXCEPT !.op = "create", !.step = "write", !.row = s]
  <2>2. j \in Job /\ j.op = "create" /\ j.row = s /\ j.of = "rows"
    BY IdleJob DEF Job
  <2> HIDE DEF j
  <2>3. Stands(j)
    BY <2>2 DEF Stands, RowsMeant, RowsKnown, PremisesMeant, PremisesKnown, ForThePast, Numbering
  <2> QED
    BY <1>1, <2>1, <2>2, <2>3, Admits, ReadStep DEF RouteCreateRead, Reads, j
<1>2. CASE RouteStatusRead(h)
  <2>0. \A s : RouteTransitions(s) \subseteq {"ACTIVE", "INACTIVE", "ARCHIVED"}
    BY DEF RouteTransitions
  <2>1. PICK r \in Routes, s \in {"ACTIVE", "INACTIVE", "ARCHIVED"} :
          Becomes(h, [Idle EXCEPT !.op = "status", !.row = r, !.to = s,
                                  !.step = IF s = "INACTIVE" THEN "write" ELSE "use"])
    BY <1>2, <2>0 DEF RouteStatusRead
  <2>2. s \in {"ACTIVE", "INACTIVE", "ARCHIVED"}
    OBVIOUS
  <2> DEFINE step == IF s = "INACTIVE" THEN "write" ELSE "use"
             j == [Idle EXCEPT !.op = "status", !.row = r, !.to = s, !.step = step]
  <2>3. step \in {"use", "write"} /\ (step = "write" => s = "INACTIVE")
    OBVIOUS
  <2>4. Becomes(h, j)
    BY <2>1
  <2> HIDE DEF step
  <2>5. /\ j \in Job /\ j.op = "status" /\ j.row = r /\ j.to = s /\ j.of = "rows"
        /\ j.step = step
    BY <2>2, <2>3, IdleJob DEF Job, RouteStatuses
  <2> HIDE DEF j
  <2>6. Stands(j)
    BY <2>2, <2>3, <2>5
       DEF Stands, RowsMeant, RowsKnown, PremisesMeant, PremisesKnown, ForThePast, Numbering
  <2> QED
    BY <1>2, <2>4, <2>5, <2>6, Admits, ReadStep DEF RouteStatusRead, Reads
<1>3. CASE RouteSiteRead(h)
  <2> DEFINE j == [job[h] EXCEPT !.step = "order"]
  <2>1. Becomes(h, j) \/ Becomes(h, Idle)
    BY <1>3 DEF RouteSiteRead, Goes
  <2>2. Stands(j)
    <3>1. /\ j.op = job[h].op /\ j.row = job[h].row /\ j.to = "ACTIVE" /\ j.of = job[h].of
          /\ j.step = "order" /\ j.op = "status"
      BY <1>3, JobOf DEF Job, RouteSiteRead, At
    <3> HIDE DEF j
    <3> QED
      BY <3>1, JobOf
         DEF Stands, RowsMeant, RowsKnown, PremisesMeant, PremisesKnown, ForThePast, Numbering
  <2> HIDE DEF j
  <2> QED
    BY <1>3, <2>1, <2>2, NextRead DEF RouteSiteRead, Goes, j
<1>4. CASE RouteOrderRead(h)
  <2> DEFINE j == [job[h] EXCEPT !.step = "write"]
  <2>1. Becomes(h, j) \/ Becomes(h, Idle)
    BY <1>4 DEF RouteOrderRead, Goes
  <2>2. Stands(j)
    <3>1. /\ j.op = job[h].op /\ j.row = job[h].row /\ j.to = "ACTIVE" /\ j.of = job[h].of
          /\ j.step = "write" /\ j.op = "status"
      BY <1>4, JobOf DEF Job, RouteOrderRead, At, Stands, RowsMeant
    <3> HIDE DEF j
    <3> QED
      BY <3>1, JobOf
         DEF Stands, RowsMeant, RowsKnown, PremisesMeant, PremisesKnown, ForThePast, Numbering
  <2> HIDE DEF j
  <2> QED
    BY <1>4, <2>1, <2>2, NextRead DEF RouteOrderRead, Goes, j
<1>5. CASE RouteUseRead(h)
  <2> DEFINE j == [job[h] EXCEPT !.step = "write"]
  <2>1. (RouteFree(job[h].row) /\ Becomes(h, j)) \/ Becomes(h, Idle)
    BY <1>5 DEF RouteUseRead, Goes
  <2>2. ASSUME RouteFree(job[h].row) PROVE Stands(j)
    <3>1. /\ j.op = job[h].op /\ j.row = job[h].row /\ j.to = job[h].to /\ j.of = job[h].of
          /\ j.step = "write" /\ j.op = "status"
      BY <1>5, JobOf DEF Job, RouteUseRead, At
    <3> HIDE DEF j
    <3> QED
      BY <2>2, <3>1, JobOf
         DEF Stands, RowsMeant, RowsKnown, PremisesMeant, PremisesKnown, ForThePast, Numbering
  <2> HIDE DEF j
  <2> QED
    BY <1>5, <2>1, <2>2, NextRead DEF RouteUseRead, Goes, j
<1> QED
  BY <1>1, <1>2, <1>3, <1>4, <1>5

-----------------------------------------------------------------------------
(* The reads about checkpoints.  A route has no more active checkpoints    *)
(* than there are numbers.                                                 *)
LEMMA FewActive ==
  ASSUME PremisesInv, NEW r \in Routes
  PROVE  /\ Active(r) \subseteq Checkpoints /\ IsFiniteSet(Active(r))
         /\ Cardinality(Active(r)) \in Nat /\ Cardinality(Active(r)) <= MaxNumber
<1>1. Active(r) \subseteq Checkpoints /\ \A c \in Active(r) : checkpoint[c].route = r
  BY DEF Active, Kept, Rows
<1>2. IsFiniteSet(Active(r)) /\ IsFiniteSet(1..MaxNumber) /\ Cardinality(1..MaxNumber) = MaxNumber
  <2>1. IsFiniteSet(Active(r))
    BY <1>1, FS_Subset, RoutesAssumption
  <2>2. MaxNumber \in Int /\ 1 \in Int /\ MaxNumber \in Nat
    BY RoutesAssumption
  <2>3. IsFiniteSet(1..MaxNumber)
        /\ Cardinality(1..MaxNumber) = IF 1 > MaxNumber THEN 0 ELSE MaxNumber - 1 + 1
    BY <2>2, FS_Interval
  <2> QED
    BY <2>1, <2>2, <2>3
<1>3. Cardinality(Active(r)) \in Nat
  BY <1>2, FS_CardinalityType
<1> DEFINE f == [c \in Active(r) |-> checkpoint[c].number]
<1>4. f \in Injection(Active(r), 1..MaxNumber)
  <2>1. \A c \in Active(r) : f[c] \in 1..MaxNumber
    BY <1>1, Parts DEF RowTypes, CheckpointRow, Numbers
  <2>2. r # None
    BY RoutesAssumption
  <2>3. \A c, d \in Active(r) : f[c] = f[d] => c = d
    BY <1>1, <2>2, Parts DEF RowsStand
  <2> QED
    BY <2>1, <2>3 DEF Injection, IsInjective
<1> HIDE DEF f
<1> QED
  BY <1>1, <1>2, <1>3, <1>4, FS_Injection

LEMMA FirstCheckpointReads ==
  ASSUME PremisesInv, NEW h \in Handlers, UNCHANGED <<client, restarted>>,
         AddRead(h) \/ CheckpointRead(h) \/ ReorderRead(h)
  PROVE  PremisesInv'
<1>0. Reads /\ requests' \in 0..MaxRequests
  BY Admits DEF AddRead, CheckpointRead, ReorderRead
<1>1. CASE AddRead(h)
  <2>1. PICK r \in Routes, cs \in SUBSET {c \in Checkpoints : checkpoint[c].route = None} :
          /\ \A g \in Handlers : job[g].op = "add" => job[g].checkpoints \cap cs = {}
          /\ \E new \in [cs -> Numbers] :
               /\ \A c, d \in cs : new[c] = new[d] => c = d
               /\ Becomes(h, [Idle EXCEPT !.op = "add", !.step = "order", !.row = r,
                                !.checkpoints = cs, !.asked = {new[c] : c \in cs},
                                !.numbers = [c \in Checkpoints |-> IF c \in cs THEN new[c] ELSE 0]])
    BY <1>1 DEF AddRead
  <2>2. PICK new \in [cs -> Numbers] :
          /\ \A c, d \in cs : new[c] = new[d] => c = d
          /\ Becomes(h, [Idle EXCEPT !.op = "add", !.step = "order", !.row = r,
                           !.checkpoints = cs, !.asked = {new[c] : c \in cs},
                           !.numbers = [c \in Checkpoints |-> IF c \in cs THEN new[c] ELSE 0]])
    BY <2>1
  <2> DEFINE numbers == [c \in Checkpoints |-> IF c \in cs THEN new[c] ELSE 0]
             asked == {new[c] : c \in cs}
             j == [Idle EXCEPT !.op = "add", !.step = "order", !.row = r, !.checkpoints = cs,
                               !.asked = asked, !.numbers = numbers]
  <2>3. /\ numbers \in [Checkpoints -> Numbers \cup {0}]
        /\ \A c \in cs : numbers[c] = new[c] /\ numbers[c] \in asked
        /\ asked \subseteq Numbers /\ \A n \in asked : \E c \in cs : n = numbers[c]
        /\ cs \subseteq Checkpoints /\ \A c \in cs : checkpoint[c].route = None
    OBVIOUS
  <2>4. Becomes(h, j)
    BY <2>2
  <2> HIDE DEF numbers, asked
  <2>5. /\ j \in Job /\ j.op = "add" /\ j.row = r /\ j.of = "rows" /\ j.step = "order"
        /\ j.checkpoints = cs /\ j.numbers = numbers /\ j.asked = asked
    BY <2>3, IdleJob DEF Job
  <2> HIDE DEF j
  <2>6. Stands(j)
    BY <2>2, <2>3, <2>5
       DEF Stands, RowsMeant, RowsKnown, PremisesMeant, PremisesKnown, ForThePast, Numbering
  <2> QED
    BY <1>0, <2>1, <2>4, <2>5, <2>6, ReadStep DEF Reads
<1>2. CASE CheckpointRead(h)
  <2>1. PICK c \in Checkpoints :
          /\ checkpoint[c].route # None
          /\ LET j == [Idle EXCEPT !.row = checkpoint[c].route, !.checkpoints = {c}] IN
               \/ \E n \in Numbers : Becomes(h, [j EXCEPT !.op = "number", !.numbers[c] = n, !.asked = {n}])
               \/ Becomes(h, [j EXCEPT !.op = "toggle", !.step = "write"])
               \/ Becomes(h, [j EXCEPT !.op = "archive"])
    BY <1>2 DEF CheckpointRead
  <2> DEFINE i == [Idle EXCEPT !.row = checkpoint[c].route, !.checkpoints = {c}]
  <2>2. checkpoint[c].route \in Routes
    BY <2>1, Parts DEF RowTypes, CheckpointRow
  <2>3. /\ i \in Job /\ i.row = checkpoint[c].route /\ i.checkpoints = {c} /\ i.of = "rows"
        /\ i.step = "use" /\ i.numbers \in [Checkpoints -> Numbers \cup {0}]
    BY <2>2, IdleJob DEF Job
  <2>4. \/ \E n \in Numbers : Becomes(h, [i EXCEPT !.op = "number", !.numbers[c] = n, !.asked = {n}])
        \/ Becomes(h, [i EXCEPT !.op = "toggle", !.step = "write"])
        \/ Becomes(h, [i EXCEPT !.op = "archive"])
    BY <2>1
  <2> HIDE DEF i
  <2>5. CASE \E n \in Numbers : Becomes(h, [i EXCEPT !.op = "number", !.numbers[c] = n, !.asked = {n}])
    <3>1. PICK n \in Numbers : Becomes(h, [i EXCEPT !.op = "number", !.numbers[c] = n, !.asked = {n}])
      BY <2>5
    <3> DEFINE j == [i EXCEPT !.op = "number", !.numbers[c] = n, !.asked = {n}]
    <3>2. /\ j \in Job /\ j.op = "number" /\ j.row = i.row /\ j.of = "rows" /\ j.step = "use"
          /\ j.checkpoints = {c} /\ j.numbers[c] = n /\ j.asked = {n}
      BY <2>3 DEF Job
    <3> HIDE DEF j
    <3>3. Stands(j)
      BY <2>2, <2>3, <3>2
         DEF Stands, RowsMeant, RowsKnown, PremisesMeant, PremisesKnown, ForThePast, Numbering
    <3> QED
      BY <1>0, <3>1, <3>2, <3>3, ReadStep DEF Reads, j
  <2>6. CASE Becomes(h, [i EXCEPT !.op = "toggle", !.step = "write"])
    <3> DEFINE j == [i EXCEPT !.op = "toggle", !.step = "write"]
    <3>2. j \in Job /\ j.op = "toggle" /\ j.row = i.row /\ j.of = "rows"
      BY <2>3 DEF Job
    <3> HIDE DEF j
    <3>3. Stands(j)
      BY <2>2, <2>3, <3>2
         DEF Stands, RowsMeant, RowsKnown, PremisesMeant, PremisesKnown, ForThePast, Numbering
    <3> QED
      BY <1>0, <2>6, <3>2, <3>3, ReadStep DEF Reads, j
  <2>7. CASE Becomes(h, [i EXCEPT !.op = "archive"])
    <3> DEFINE j == [i EXCEPT !.op = "archive"]
    <3>2. j \in Job /\ j.op = "archive" /\ j.row = i.row /\ j.of = "rows" /\ j.step = "use"
      BY <2>3 DEF Job
    <3> HIDE DEF j
    <3>3. Stands(j)
      BY <2>2, <2>3, <3>2
         DEF Stands, RowsMeant, RowsKnown, PremisesMeant, PremisesKnown, ForThePast, Numbering
    <3> QED
      BY <1>0, <2>7, <3>2, <3>3, ReadStep DEF Reads, j
  <2> QED
    BY <2>4, <2>5, <2>6, <2>7
<1>3. CASE ReorderRead(h)
  <2>1. PICK r \in Routes, named \in SUBSET Checkpoints :
          /\ named \subseteq Active(r)
          /\ \E new \in [named -> 1..Cardinality(Active(r))] :
               /\ \A c, d \in named : new[c] = new[d] => c = d
               /\ Becomes(h, [Idle EXCEPT !.op = "reorder", !.step = "write", !.row = r,
                                !.checkpoints = named, !.asked = 1..Cardinality(Active(r)),
                                !.numbers = [c \in Checkpoints |->
                                               IF c \in named THEN new[c] ELSE 0]])
    BY <1>3 DEF ReorderRead
  <2> DEFINE asked == 1..Cardinality(Active(r))
  <2>2. PICK new \in [named -> asked] :
          /\ \A c, d \in named : new[c] = new[d] => c = d
          /\ Becomes(h, [Idle EXCEPT !.op = "reorder", !.step = "write", !.row = r,
                           !.checkpoints = named, !.asked = asked,
                           !.numbers = [c \in Checkpoints |-> IF c \in named THEN new[c] ELSE 0]])
    BY <2>1
  <2> DEFINE numbers == [c \in Checkpoints |-> IF c \in named THEN new[c] ELSE 0]
             j == [Idle EXCEPT !.op = "reorder", !.step = "write", !.row = r,
                               !.checkpoints = named, !.asked = asked, !.numbers = numbers]
  <2>3. Cardinality(asked) = Cardinality(Active(r)) /\ asked \subseteq Numbers
    <3>1. /\ Cardinality(Active(r)) \in Nat /\ Cardinality(Active(r)) <= MaxNumber
          /\ MaxNumber \in Nat
      BY FewActive, RoutesAssumption
    <3>2. ASSUME NEW n \in Nat PROVE Cardinality(1..n) = n
      <4>1. Cardinality(1..n) = IF 1 > n THEN 0 ELSE n - 1 + 1
        BY FS_Interval
      <4> QED
        BY <4>1
    <3>3. asked \subseteq Numbers
      BY <3>1 DEF Numbers
    <3> QED
      BY <3>1, <3>2, <3>3
  <2>4. Becomes(h, j)
    BY <2>2
  <2> HIDE DEF asked
  <2>5. /\ \A c \in named : numbers[c] = new[c] /\ numbers[c] \in asked
        /\ numbers \in [Checkpoints -> Numbers \cup {0}]
    BY <2>3
  <2> HIDE DEF numbers
  <2>6. /\ j \in Job /\ j.op = "reorder" /\ j.row = r /\ j.of = "rows"
        /\ j.checkpoints = named /\ j.numbers = numbers /\ j.asked = asked
    BY <2>3, <2>5, IdleJob DEF Job
  <2> HIDE DEF j
  <2>7. \A c \in named : checkpoint[c].route = r
    BY <2>1 DEF Active, Kept, Rows
  <2>8. ASSUME NEW c \in Taken(j), ~checkpoint[c].deleted, checkpoint[c].active
        PROVE  NamesOneTwice(j)
    <3>1. c \in Active(r) /\ c \notin named
      BY <2>6, <2>8 DEF Taken, Active, Kept, Rows
    <3>2. named \subseteq Active(r) \ {c}
      BY <2>1, <3>1
    <3>3. /\ IsFiniteSet(Active(r) \ {c})
          /\ Cardinality(Active(r) \ {c}) = Cardinality(Active(r)) - 1
      BY <3>1, FewActive, FS_RemoveElement
    <3>4. /\ Cardinality(named) \in Nat
          /\ Cardinality(named) <= Cardinality(Active(r) \ {c})
      BY <3>2, <3>3, FS_Subset, FS_CardinalityType
    <3> QED
      BY <2>3, <2>6, <3>3, <3>4, FewActive DEF NamesOneTwice
  <2>9. Stands(j)
    BY <2>2, <2>5, <2>6, <2>7, <2>8
       DEF Stands, RowsMeant, RowsKnown, PremisesMeant, PremisesKnown, ForThePast, Numbering
  <2> QED
    BY <1>0, <2>4, <2>6, <2>9, ReadStep DEF Reads
<1> QED
  BY <1>1, <1>2, <1>3

LEMMA CheckpointReads ==
  ASSUME PremisesInv, NEW h \in Handlers, UNCHANGED <<client, restarted>>,
         UseRead(h) \/ NumberRead(h)
  PROVE  PremisesInv'
<1>1. CASE UseRead(h)
  <2> DEFINE step == IF job[h].op = "number" THEN "order" ELSE "write"
             j == [job[h] EXCEPT !.step = step]
  <2>1. \/ (\A c \in job[h].checkpoints : CheckpointFree(c)) /\ Becomes(h, j)
        \/ Becomes(h, Idle)
    BY <1>1 DEF UseRead, Goes
  <2>2. step \in {"use", "order", "write"} /\ (job[h].op = "number" => step = "order")
    OBVIOUS
  <2> HIDE DEF step
  <2>3. ASSUME \A c \in job[h].checkpoints : CheckpointFree(c) PROVE Stands(j)
    <3>1. /\ j.op = job[h].op /\ j.row = job[h].row /\ j.to = job[h].to /\ j.of = job[h].of
          /\ j.step = step /\ j.op \in {"number", "archive"}
          /\ j.checkpoints = job[h].checkpoints /\ j.numbers = job[h].numbers
          /\ j.asked = job[h].asked
      BY <1>1, JobOf DEF Job, UseRead
    <3> HIDE DEF j
    <3> QED
      BY <2>2, <2>3, <3>1, JobOf
         DEF Stands, RowsMeant, RowsKnown, PremisesMeant, PremisesKnown, ForThePast, Numbering
  <2> HIDE DEF j
  <2> QED
    BY <1>1, <2>1, <2>2, <2>3, NextRead DEF UseRead, Goes, j
<1>2. CASE NumberRead(h)
  <2> DEFINE j == [job[h] EXCEPT !.step = "write"]
             free == \A c \in job[h].checkpoints :
                       job[h].numbers[c] \notin NumbersOf(Kept(job[h].row) \ {c})
  <2>1. (free /\ Becomes(h, j)) \/ Becomes(h, Idle)
    BY <1>2 DEF NumberRead, Goes
  <2>3. ASSUME free PROVE Stands(j)
    <3>1. /\ j.op = job[h].op /\ j.row = job[h].row /\ j.to = job[h].to /\ j.of = job[h].of
          /\ j.step = "write" /\ j.op \in {"number", "add"}
          /\ j.checkpoints = job[h].checkpoints /\ j.numbers = job[h].numbers
          /\ j.asked = job[h].asked
      BY <1>2, JobOf DEF Job, NumberRead
    <3> HIDE DEF j
    <3>2. \A c \in Taken(j) : checkpoint[c].deleted
      <4>1. \A n \in j.asked : \E c \in j.checkpoints : n = j.numbers[c]
        BY <3>1, JobOf DEF Stands, RowsMeant
      <4> QED
        BY <2>3, <3>1, <4>1 DEF Taken, NumbersOf, Kept
    <3> QED
      BY <3>1, <3>2, JobOf
         DEF Stands, RowsMeant, RowsKnown, PremisesMeant, PremisesKnown, ForThePast, Numbering
  <2> HIDE DEF j
  <2> QED
    BY <1>2, <2>1, <2>3, NextRead DEF NumberRead, Goes, j
<1> QED
  BY <1>1, <1>2

-----------------------------------------------------------------------------
(* The reads about patrols, sites and clients. *)
LEMMA PremisesReads ==
  ASSUME PremisesInv, NEW h \in Handlers,
         \/ PatrolRead(h) /\ UNCHANGED <<client, restarted>>
         \/ SiteRead(h) \/ SiteStatusRead(h) \/ ClientRead(h)
  PROVE  PremisesInv'
<1>0. Reads /\ requests' \in 0..MaxRequests /\ UNCHANGED <<client, restarted>>
  BY Admits DEF PatrolRead, SiteRead, SiteStatusRead, ClientRead
<1>1. CASE PatrolRead(h)
  <2>1. PICK r \in Routes :
          /\ Open(route[r])
          /\ Becomes(h, [Idle EXCEPT !.op = "patrol", !.step = "write", !.row = r,
                                     !.checkpoints = Active(r)])
    BY <1>1 DEF PatrolRead
  <2> DEFINE j == [Idle EXCEPT !.op = "patrol", !.step = "write", !.row = r,
                               !.checkpoints = Active(r)]
  <2>2. /\ j \in Job /\ j.op = "patrol" /\ j.row = r /\ j.of = "rows"
        /\ j.checkpoints = Active(r)
    BY IdleJob, FewActive DEF Job
  <2> HIDE DEF j
  <2>3. ~route[r].deleted /\ \A c \in Active(r) : ~checkpoint[c].deleted
    BY <2>1 DEF Open, Active, Kept
  <2>4. Stands(j)
    BY <2>2, <2>3
       DEF Stands, RowsMeant, RowsKnown, PremisesMeant, PremisesKnown, ForThePast, Numbering
  <2> QED
    BY <1>0, <2>1, <2>2, <2>4, ReadStep DEF Reads, j
<1>2. CASE SiteRead(h)
  <2>1. PICK s \in Sites, k \in Clients :
          /\ Open(client[k])
          /\ Becomes(h, [Idle EXCEPT !.op = "site", !.step = "write", !.of = "premises",
                                     !.row = s, !.to = k])
    BY <1>2 DEF SiteRead
  <2> DEFINE j == [Idle EXCEPT !.op = "site", !.step = "write", !.of = "premises",
                               !.row = s, !.to = k]
  <2>2. j \in Job /\ j.op = "site" /\ j.row = s /\ j.of = "premises" /\ j.to = k
    BY IdleJob DEF Job
  <2> HIDE DEF j
  <2>3. Stands(j)
    BY <2>1, <2>2
       DEF Stands, RowsMeant, RowsKnown, PremisesMeant, PremisesKnown, ForThePast, Numbering, Open
  <2> QED
    BY <1>0, <2>1, <2>2, <2>3, ReadStep DEF Reads, j
<1>3. CASE SiteStatusRead(h)
  <2>1. PICK s \in Sites, to \in SiteStatuses :
          Becomes(h, [Idle EXCEPT !.op = "sitestatus", !.step = "write", !.of = "premises",
                                  !.row = s, !.to = to])
    BY <1>3 DEF SiteStatusRead
  <2> DEFINE j == [Idle EXCEPT !.op = "sitestatus", !.step = "write", !.of = "premises",
                               !.row = s, !.to = to]
  <2>2. j \in Job /\ j.op = "sitestatus" /\ j.row = s /\ j.of = "premises" /\ j.to = to
    BY IdleJob DEF Job, SiteStatuses, RouteStatuses
  <2> HIDE DEF j
  <2>3. Stands(j)
    BY <2>1, <2>2
       DEF Stands, RowsMeant, RowsKnown, PremisesMeant, PremisesKnown, ForThePast, Numbering
  <2> QED
    BY <1>0, <2>1, <2>2, <2>3, ReadStep DEF Reads, j
<1>4. CASE ClientRead(h)
  <2>1. PICK k \in Clients, to \in ClientStatuses :
          Becomes(h, [Idle EXCEPT !.op = "client", !.of = "premises", !.row = k, !.to = to,
                                  !.step = IF to = "ARCHIVED" THEN "use" ELSE "write"])
    BY <1>4 DEF ClientRead
  <2> DEFINE step == IF to = "ARCHIVED" THEN "use" ELSE "write"
             j == [Idle EXCEPT !.op = "client", !.of = "premises", !.row = k, !.to = to,
                               !.step = step]
  <2>2. step \in {"use", "write"} /\ (step = "write" => to # "ARCHIVED")
    OBVIOUS
  <2>3. Becomes(h, j)
    BY <2>1
  <2> HIDE DEF step
  <2>4. /\ j \in Job /\ j.op = "client" /\ j.row = k /\ j.of = "premises" /\ j.to = to
        /\ j.step = step
    BY <2>2, IdleJob DEF Job, ClientStatuses, RouteStatuses
  <2> HIDE DEF j
  <2>5. Stands(j)
    BY <2>2, <2>4
       DEF Stands, RowsMeant, RowsKnown, PremisesMeant, PremisesKnown, ForThePast, Numbering
  <2> QED
    BY <1>0, <2>3, <2>4, <2>5, ReadStep DEF Reads
<1> QED
  BY <1>1, <1>2, <1>3, <1>4

LEMMA ClientSites ==
  ASSUME PremisesInv, NEW h \in Handlers, ClientSitesRead(h)
  PROVE  PremisesInv'
<1> DEFINE j == [job[h] EXCEPT !.step = "write"]
           unused == \A s \in Sites : SiteActive(s) => site[s].client # job[h].row
<1>1. (unused /\ Becomes(h, j)) \/ Becomes(h, Idle)
  BY DEF ClientSitesRead, Goes
<1>2. ASSUME unused PROVE Stands(j)
  <2>1. /\ j.op = "client" /\ j.row = job[h].row /\ j.to = job[h].to /\ j.of = job[h].of
        /\ job[h].op = "client"
    BY JobOf DEF Job, ClientSitesRead, At
  <2> HIDE DEF j
  <2> QED
    BY <1>2, <2>1, JobOf
       DEF Stands, RowsMeant, RowsKnown, PremisesMeant, PremisesKnown, ForThePast, Numbering
<1> HIDE DEF j
<1> QED
  BY <1>1, <1>2, NextRead DEF ClientSitesRead, Goes, j

-----------------------------------------------------------------------------
(* The writes. *)
SitesStand ==
  \/ "premises" \in raced
  \/ \A s \in Sites :
       SiteActive(s) /\ client[site[s].client].deleted => s \in restarted

Apart ==
  \A c, d \in Checkpoints :
    /\ checkpoint[c].route # None /\ checkpoint[c].route = checkpoint[d].route
    /\ checkpoint[c].number = checkpoint[d].number
    => c = d

LEMMA SitesStandStill ==
  ASSUME PremisesInv, NEW h \in Handlers, Written(h), UNCHANGED <<client, site, restarted>>
  PROVE  SitesStand'
BY WrittenRaced, Parts DEF SitesStand, RowsStand, SiteActive, Open

LEMMA RouteWrites ==
  ASSUME PremisesInv, NEW h \in Handlers, UNCHANGED <<client, restarted>>,
         RouteCreateWrite(h) \/ RouteStatusWrite(h)
  PROVE  PremisesInv'
<1>0. /\ Written(h) /\ UNCHANGED <<site, checkpoint, patrol, requests>>
      /\ job[h] \in Job /\ Stands(job[h])
  BY JobOf DEF RouteCreateWrite, RouteStatusWrite
<1>1. CASE RouteCreateWrite(h)
  <2>1. PICK r \in Routes :
          route' = [route EXCEPT ![r] = [status |-> "DRAFT", site |-> job[h].row,
                                         deleted |-> FALSE]]
    BY <1>1 DEF RouteCreateWrite
  <2>2. job[h].of = "rows" /\ job[h].row \in Sites
    BY <1>0, <1>1 DEF RouteCreateWrite, At, Stands, RowsMeant
  <2>3. RowTypes'
    BY <1>0, <2>1, <2>2, Parts DEF RowTypes, RouteRow, RouteStatuses
  <2>4. RowsStand'
    <3>1. \A p \in Routes : route'[p].deleted => route[p].deleted
      BY <2>1, Parts DEF RowTypes, RouteRow
    <3>2. PatrolKeepsItsRoute'
      BY <1>0, <3>1, WrittenRaced, Parts
         DEF RowsStand, PatrolKeepsItsRoute, Underway, RowTypes, PatrolRow
    <3> QED
      BY <1>0, <3>2, SitesStandStill, Parts DEF RowsStand, SitesStand
  <2> QED
    BY <1>0, <2>2, <2>3, <2>4, RowsWrite DEF RowsMeant
<1>2. CASE RouteStatusWrite(h)
  <2> DEFINE r == job[h].row
  <2>1. /\ job[h].op = "status" /\ job[h].step = "write" /\ job[h].of = "rows" /\ r \in Routes
        /\ job[h].to \in {"ACTIVE", "INACTIVE", "ARCHIVED"}
    BY <1>0, <1>2 DEF RouteStatusWrite, At, Stands, RowsMeant
  <2>2. PICK b \in BOOLEAN :
          /\ b <=> route[r].deleted \/ job[h].to = "ARCHIVED"
          /\ route' = [route EXCEPT ![r].status = job[h].to, ![r].deleted = b]
    <3> DEFINE b == route[r].deleted \/ job[h].to = "ARCHIVED"
    <3>1. route' = [route EXCEPT ![r].status = job[h].to, ![r].deleted = b]
      BY <1>2, <2>1, Parts DEF RouteStatusWrite, RowTypes, RouteRow
    <3>2. b \in BOOLEAN /\ (b <=> route[r].deleted \/ job[h].to = "ARCHIVED")
      OBVIOUS
    <3> HIDE DEF b
    <3> QED
      BY <3>1, <3>2
  <2>3. RowTypes'
    BY <1>0, <2>1, <2>2, Parts DEF RowTypes, RouteRow, RouteStatuses
  <2>4. RowsStand'
    <3>1. \A p \in Routes : route'[p].deleted =>
            route[p].deleted \/ (p = r /\ job[h].to = "ARCHIVED")
      BY <2>1, <2>2, Parts DEF RowTypes, RouteRow
    <3>2. ASSUME "rows" \notin raced', NEW p \in Patrols, Underway(p)
          PROVE  ~route'[patrol[p].route].deleted
      <4>1. "rows" \notin raced /\ ~job[h].stale
        BY <1>0, <2>1, <3>2, WrittenRaced
      <4>2. job[h].to = "ARCHIVED" => patrol[p].route # r
        BY <1>0, <2>1, <3>2, <4>1 DEF Stands, RowsKnown, RouteFree
      <4>3. patrol[p].route \in Routes /\ ~route[patrol[p].route].deleted
        BY <3>2, <4>1, Parts DEF RowsStand, PatrolKeepsItsRoute, Underway, RowTypes, PatrolRow
      <4> QED
        BY <3>1, <4>2, <4>3
    <3>3. PatrolKeepsItsRoute'
      <4>1. "rows" \notin raced' => "rows" \notin raced
        BY WrittenRaced, <1>0
      <4> QED
        BY <1>0, <3>2, <4>1, Parts DEF RowsStand, PatrolKeepsItsRoute, Underway
    <3> QED
      BY <1>0, <3>3, SitesStandStill, Parts DEF RowsStand, SitesStand
  <2> QED
    BY <1>0, <2>1, <2>3, <2>4, RowsWrite DEF RowsMeant
<1> QED
  BY <1>1, <1>2

LEMMA PatrolWrites ==
  ASSUME PremisesInv, NEW h \in Handlers, UNCHANGED <<client, restarted>>, PatrolWrite(h)
  PROVE  PremisesInv'
<1>0. /\ Written(h) /\ UNCHANGED <<site, route, checkpoint, requests>>
      /\ job[h] \in Job /\ Stands(job[h]) /\ job[h].op = "patrol" /\ job[h].step = "write"
  BY JobOf DEF PatrolWrite, At
<1>1. PICK p \in Patrols :
        patrol' = [patrol EXCEPT ![p] = [route |-> job[h].row, from |-> job[h].checkpoints,
                                         over |-> FALSE]]
  BY DEF PatrolWrite
<1>2. job[h].of = "rows" /\ job[h].row \in Routes /\ job[h].checkpoints \subseteq Checkpoints
  BY <1>0 DEF Stands, RowsMeant, Job
<1>3. RowTypes'
  BY <1>0, <1>1, <1>2, Parts DEF RowTypes, PatrolRow
<1>4. RowsStand'
  <2>1. ASSUME "rows" \notin raced', NEW q \in Patrols, Underway(q)'
        PROVE  /\ ~route[patrol'[q].route].deleted
               /\ \A c \in patrol'[q].from : ~checkpoint[c].deleted
    <3>1. "rows" \notin raced /\ ~job[h].stale
      BY <1>0, <1>2, <2>1, WrittenRaced
    <3>2. CASE q = p
      <4>1. patrol'[q].route = job[h].row /\ patrol'[q].from = job[h].checkpoints
        BY <1>1, <3>2, Parts DEF RowTypes
      <4> QED
        BY <1>0, <3>1, <4>1 DEF Stands, RowsKnown
    <3>3. CASE q # p
      <4>1. patrol'[q] = patrol[q]
        BY <1>1, <3>3, Parts DEF RowTypes
      <4> QED
        BY <2>1, <3>1, <4>1, Parts DEF RowsStand, PatrolKeepsItsRoute, Underway
    <3> QED
      BY <3>2, <3>3
  <2>2. PatrolKeepsItsRoute'
    BY <1>0, <2>1 DEF PatrolKeepsItsRoute
  <2> QED
    BY <1>0, <2>2, SitesStandStill, Parts DEF RowsStand, SitesStand
<1> QED
  BY <1>0, <1>2, <1>3, <1>4, RowsWrite DEF RowsMeant

LEMMA CheckpointWrites ==
  ASSUME PremisesInv, NEW h \in Handlers, UNCHANGED <<client, restarted>>, CheckpointWrite(h)
  PROVE  PremisesInv'
<1> DEFINE j == job[h]
<1>0. /\ UNCHANGED <<site, route, patrol, requests>>
      /\ j \in Job /\ Stands(j) /\ j.op \in Numbering /\ j.step = "write"
  BY JobOf DEF CheckpointWrite, Numbering
<1>1. /\ j.of = "rows" /\ j.row \in Routes /\ j.row # None /\ j.checkpoints \subseteq Checkpoints
      /\ \A c, d \in j.checkpoints :
           /\ j.numbers[c] \in j.asked /\ j.numbers[c] \in Numbers
           /\ j.numbers[c] = j.numbers[d] => c = d
      /\ j.op = "add" => \A c \in j.checkpoints : checkpoint[c].route = None
      /\ j.op # "add" => \A c \in j.checkpoints : checkpoint[c].route = j.row
  <2>1. j.row \in Routes
    BY <1>0 DEF Stands, RowsMeant, Numbering
  <2>2. j.row # None
    BY <2>1, RoutesAssumption
  <2>3. j.op # "add" => j.op \in {"number", "reorder"}
    BY <1>0 DEF Numbering
  <2>4. j.checkpoints \subseteq Checkpoints /\ j.asked \subseteq Numbers
    BY <1>0 DEF Job
  <2> QED
    BY <1>0, <2>1, <2>2, <2>3, <2>4 DEF Stands, RowsMeant, Numbering
<1>2. CASE Taken(j) # {}
  <2>1. Becomes(h, Idle) /\ UNCHANGED <<checkpoint, raced>>
    BY <1>2 DEF CheckpointWrite
  <2>2. requests' \in 0..MaxRequests
    BY <1>0, Parts DEF RowTypes
  <2> QED
    BY <1>0, <2>1, <2>2, IdleJob, IdleStands, ReadStep
<1>3. CASE Taken(j) = {}
  <2>1. /\ Written(h)
        /\ checkpoint' = [c \in Checkpoints |->
             IF c \notin j.checkpoints THEN checkpoint[c]
             ELSE IF j.op = "add"
               THEN [route |-> j.row, number |-> j.numbers[c], active |-> TRUE, deleted |-> FALSE]
               ELSE [checkpoint[c] EXCEPT !.number = j.numbers[c]]]
    BY <1>3 DEF CheckpointWrite
  <2>2. ASSUME NEW c \in Checkpoints
        PROVE  /\ checkpoint'[c] \in CheckpointRow
               /\ c \notin j.checkpoints => checkpoint'[c] = checkpoint[c]
               /\ c \in j.checkpoints =>
                    checkpoint'[c].route = j.row /\ checkpoint'[c].number = j.numbers[c]
               /\ checkpoint'[c].deleted => checkpoint[c].deleted
    <3>1. checkpoint[c] \in CheckpointRow
      BY Parts DEF RowTypes
    <3>2. CASE c \notin j.checkpoints
      BY <2>1, <3>1, <3>2
    <3>3. CASE c \in j.checkpoints /\ j.op = "add"
      <4>1. checkpoint'[c] = [route |-> j.row, number |-> j.numbers[c], active |-> TRUE,
                              deleted |-> FALSE]
        BY <2>1, <3>3
      <4> QED
        BY <1>1, <3>1, <3>3, <4>1 DEF CheckpointRow
    <3>4. CASE c \in j.checkpoints /\ j.op # "add"
      <4>1. checkpoint'[c] = [checkpoint[c] EXCEPT !.number = j.numbers[c]]
        BY <2>1, <3>4
      <4> QED
        BY <1>1, <3>1, <3>4, <4>1 DEF CheckpointRow
    <3> QED
      BY <3>2, <3>3, <3>4
  <2>3. RowTypes'
    <3>1. checkpoint' \in [Checkpoints -> CheckpointRow]
      BY <2>1, <2>2
    <3> QED
      BY <1>0, <3>1, Parts DEF RowTypes
  <2>4. Apart'
    <3> SUFFICES ASSUME NEW c \in Checkpoints, NEW d \in Checkpoints,
                        checkpoint'[c].route # None,
                        checkpoint'[c].route = checkpoint'[d].route,
                        checkpoint'[c].number = checkpoint'[d].number
                 PROVE  c = d
      BY DEF Apart
    <3>0. /\ checkpoint[c] \in CheckpointRow /\ checkpoint[d] \in CheckpointRow
      BY Parts DEF RowTypes
    <3>1. CASE c \in j.checkpoints /\ d \in j.checkpoints
      BY <1>1, <2>2, <3>1
    <3>2. CASE c \notin j.checkpoints /\ d \notin j.checkpoints
      BY <2>2, <3>2, Parts DEF RowsStand
    <3>3. CASE c \in j.checkpoints /\ d \notin j.checkpoints
      <4>1. d \in Taken(j)
        BY <2>2, <3>3, <1>1 DEF Taken, Rows
      <4> QED
        BY <1>3, <4>1
    <3>4. CASE c \notin j.checkpoints /\ d \in j.checkpoints
      <4>1. c \in Taken(j)
        BY <2>2, <3>4, <1>1 DEF Taken, Rows
      <4> QED
        BY <1>3, <4>1
    <3> QED
      BY <3>1, <3>2, <3>3, <3>4
  <2>5. RowsStand'
    <3>1. PatrolKeepsItsRoute'
      <4>1. \A p \in Patrols : patrol[p].from \subseteq Checkpoints
        BY Parts DEF RowTypes, PatrolRow
      <4>2. \A p \in Patrols : Underway(p)' => Underway(p)
        BY <1>0 DEF Underway
      <4>3. "rows" \notin raced' => "rows" \notin raced
        BY <2>1, WrittenRaced
      <4> QED
        BY <1>0, <2>2, <4>1, <4>2, <4>3, Parts DEF RowsStand, PatrolKeepsItsRoute
    <3> QED
      BY <1>0, <2>1, <2>4, <3>1, SitesStandStill DEF RowsStand, SitesStand, Apart
  <2>6. ASSUME NEW g \in Handlers \ {h}, RowsMeant(job[g])
        PROVE  /\ job[g].op = "add" => \A c \in job[g].checkpoints : checkpoint'[c].route = None
               /\ job[g].op \in {"number", "reorder"} =>
                    \A c \in job[g].checkpoints : checkpoint'[c].route = job[g].row
    <3>0. job[g].checkpoints \subseteq Checkpoints
      BY JobOf DEF Job
    <3>1. ASSUME job[g].op = "add", NEW c \in job[g].checkpoints
          PROVE  checkpoint'[c].route = None
      <4>1. checkpoint[c].route = None
        BY <2>6, <3>1 DEF RowsMeant
      <4>2. c \notin j.checkpoints
        BY <1>1, <3>1, <4>1, Parts DEF AddsApart
      <4> QED
        BY <2>2, <3>0, <4>1, <4>2
    <3>2. ASSUME job[g].op \in {"number", "reorder"}, NEW c \in job[g].checkpoints
          PROVE  checkpoint'[c].route = job[g].row
      <4>1. checkpoint[c].route = job[g].row /\ job[g].row \in Routes
        BY <2>6, <3>2 DEF RowsMeant, Numbering
      <4>2. job[g].row # None
        BY <4>1, RoutesAssumption
      <4>3. c \in j.checkpoints => checkpoint[c].route = j.row
        BY <1>1, <4>1, <4>2
      <4> QED
        BY <2>2, <3>0, <4>1, <4>3
    <3> QED
      BY <3>1, <3>2
  <2> QED
    BY <1>0, <1>1, <2>1, <2>3, <2>5, <2>6, RowsWrite
<1> QED
  BY <1>2, <1>3

LEMMA CheckpointEnds ==
  ASSUME PremisesInv, NEW h \in Handlers, UNCHANGED <<client, restarted>>, CheckpointEnd(h)
  PROVE  PremisesInv'
<1> DEFINE j == job[h]
<1>0. /\ Written(h) /\ UNCHANGED <<site, route, patrol, requests>>
      /\ j \in Job /\ Stands(j) /\ j.op \in {"toggle", "archive"} /\ j.step = "write"
  BY JobOf DEF CheckpointEnd
<1>1. j.of = "rows" /\ j.row \in Routes /\ j.checkpoints \subseteq Checkpoints
  BY <1>0 DEF Stands, RowsMeant, Job
<1>2. PICK c \in j.checkpoints :
        \/ /\ j.op = "archive"
           /\ checkpoint' = [checkpoint EXCEPT ![c].active = FALSE, ![c].deleted = TRUE]
        \/ /\ j.op # "archive"
           /\ \E a \in BOOLEAN : checkpoint' = [checkpoint EXCEPT ![c].active = a]
  BY DEF CheckpointEnd
<1>3. c \in Checkpoints /\ checkpoint \in [Checkpoints -> CheckpointRow]
  BY <1>1, Parts DEF RowTypes
<1>4. /\ checkpoint' \in [Checkpoints -> CheckpointRow]
      /\ \A d \in Checkpoints :
           /\ checkpoint'[d].route = checkpoint[d].route
           /\ checkpoint'[d].number = checkpoint[d].number
           /\ checkpoint'[d].deleted => checkpoint[d].deleted \/ (d = c /\ j.op = "archive")
  <2>1. CASE j.op = "archive"
    <3>1. checkpoint' = [checkpoint EXCEPT ![c].active = FALSE, ![c].deleted = TRUE]
      BY <1>2, <2>1
    <3> QED
      BY <1>3, <2>1, <3>1 DEF CheckpointRow
  <2>2. CASE j.op # "archive"
    <3>1. PICK a \in BOOLEAN : checkpoint' = [checkpoint EXCEPT ![c].active = a]
      BY <1>2, <2>2
    <3> QED
      BY <1>3, <3>1 DEF CheckpointRow
  <2> QED
    BY <2>1, <2>2
<1>5. RowTypes'
  BY <1>0, <1>4, Parts DEF RowTypes
<1>6. Apart'
  BY <1>4, Parts DEF Apart, RowsStand
<1>7. PatrolKeepsItsRoute'
  <2>1. ASSUME "rows" \notin raced', NEW p \in Patrols, Underway(p)'
        PROVE  /\ ~route'[patrol'[p].route].deleted
               /\ \A d \in patrol'[p].from : ~checkpoint'[d].deleted
    <3>1. "rows" \notin raced /\ ~j.stale
      BY <1>0, <1>1, <2>1, WrittenRaced
    <3>2. Underway(p) /\ patrol' = patrol /\ patrol[p].from \subseteq Checkpoints
      BY <1>0, <2>1, Parts DEF Underway, RowTypes, PatrolRow
    <3>3. j.op = "archive" => c \notin patrol[p].from
      BY <1>0, <3>1, <3>2 DEF Stands, RowsKnown, CheckpointFree
    <3>4. /\ ~route[patrol[p].route].deleted
          /\ \A d \in patrol[p].from : ~checkpoint[d].deleted
      BY <3>1, <3>2, Parts DEF RowsStand, PatrolKeepsItsRoute
    <3> QED
      BY <1>0, <1>4, <3>2, <3>3, <3>4
  <2> QED
    BY <2>1 DEF PatrolKeepsItsRoute
<1>8. RowsStand'
  BY <1>0, <1>6, <1>7, SitesStandStill DEF RowsStand, SitesStand, Apart
<1>9. ASSUME NEW g \in Handlers \ {h}, RowsMeant(job[g])
      PROVE  /\ job[g].op = "add" => \A d \in job[g].checkpoints : checkpoint'[d].route = None
             /\ job[g].op \in {"number", "reorder"} =>
                  \A d \in job[g].checkpoints : checkpoint'[d].route = job[g].row
  <2>1. job[g].checkpoints \subseteq Checkpoints
    BY JobOf DEF Job
  <2> QED
    BY <1>4, <1>9, <2>1 DEF RowsMeant
<1> QED
  BY <1>0, <1>1, <1>5, <1>8, <1>9, RowsWrite

LEMMA PatrolsStandStill ==
  ASSUME PremisesInv, NEW h \in Handlers, Written(h), UNCHANGED <<route, checkpoint, patrol>>
  PROVE  PatrolKeepsItsRoute' /\ Apart'
BY WrittenRaced, Parts DEF RowsStand, PatrolKeepsItsRoute, Underway, Apart

LEMMA SiteWrites ==
  ASSUME PremisesInv, NEW h \in Handlers, SiteWrite(h) \/ SiteStatusWrite(h)
  PROVE  PremisesInv'
<1> DEFINE j == job[h]
           s == job[h].row
<1>0. /\ Written(h) /\ UNCHANGED <<client, route, checkpoint, patrol, requests>>
      /\ j \in Job /\ Stands(j) /\ j.op \in {"site", "sitestatus"} /\ j.step = "write"
  BY JobOf DEF SiteWrite, SiteStatusWrite, At
<1>1. /\ j.of = "premises" /\ s \in Sites /\ site \in [Sites -> SiteRow]
      /\ client \in [Clients -> [status : ClientStatuses \cup {"ABSENT"}, deleted : BOOLEAN]]
  BY <1>0, Parts DEF Stands, PremisesMeant, RowTypes
<1>2. "premises" \notin raced' =>
        /\ ~j.stale
        /\ \A r \in Sites : SiteActive(r) /\ client[site[r].client].deleted => r \in restarted
  BY <1>0, <1>1, WrittenRaced, Parts DEF RowsStand
<1>3. CASE SiteWrite(h)
  <2>1. j.op = "site" /\ j.to \in Clients /\ restarted' = restarted
    BY <1>0, <1>3 DEF SiteWrite, At, Stands, PremisesMeant
  <2> DEFINE status == IF site[s].status = "ABSENT" THEN "ACTIVE" ELSE site[s].status
  <2>2. site' = [site EXCEPT ![s].client = j.to, ![s].status = status]
    BY <1>1, <1>3 DEF SiteWrite, SiteRow
  <2>3. status \in SiteStatuses \cup {"ABSENT"}
    BY <1>1 DEF SiteRow, SiteStatuses
  <2> HIDE DEF status
  <2>4. /\ site' \in [Sites -> SiteRow]
        /\ \A r \in Sites \ {s} : site'[r] = site[r]
        /\ site'[s].client = j.to
    BY <1>1, <2>1, <2>2, <2>3 DEF SiteRow
  <2>5. SitesStand'
    <3>1. "premises" \notin raced' => ~client[j.to].deleted
      BY <1>0, <1>2, <2>1 DEF Stands, PremisesKnown
    <3> QED
      BY <1>0, <1>2, <2>1, <2>4, <3>1 DEF SitesStand, SiteActive, Open
  <2>6. RowTypes'
    BY <1>0, <2>1, <2>4, Parts DEF RowTypes
  <2>7. RowsStand'
    BY <1>0, <2>5, PatrolsStandStill DEF RowsStand, SitesStand, Apart
  <2> QED
    BY <1>0, <1>1, <2>6, <2>7, PremisesWrite
<1>4. CASE SiteStatusWrite(h)
  <2>1. j.op = "sitestatus" /\ j.to \in SiteStatuses
    BY <1>0, <1>4 DEF SiteStatusWrite, At, Stands, PremisesMeant
  <2>2. PICK b \in BOOLEAN : site' = [site EXCEPT ![s].status = j.to, ![s].deleted = b]
    <3> DEFINE b == site[s].deleted \/ j.to = "ARCHIVED"
    <3>1. site' = [site EXCEPT ![s].status = j.to, ![s].deleted = b]
      BY <1>1, <1>4 DEF SiteStatusWrite, SiteRow
    <3>2. b \in BOOLEAN
      OBVIOUS
    <3> HIDE DEF b
    <3> QED
      BY <3>1, <3>2
  <2>3. /\ site' \in [Sites -> SiteRow]
        /\ \A r \in Sites \ {s} : site'[r] = site[r]
        /\ site'[s].client = site[s].client /\ site'[s].status = j.to
    BY <1>1, <2>1, <2>2 DEF SiteRow
  <2>4. restarted' = IF j.to = "ACTIVE" /\ client[site[s].client].deleted
                       THEN restarted \cup {s} ELSE restarted
    BY <1>4 DEF SiteStatusWrite
  <2>5. SitesStand'
    BY <1>0, <1>2, <2>3, <2>4 DEF SitesStand, SiteActive, Open
  <2>6. RowTypes'
    BY <1>0, <1>1, <2>3, <2>4, Parts DEF RowTypes
  <2>7. RowsStand'
    BY <1>0, <2>5, PatrolsStandStill DEF RowsStand, SitesStand, Apart
  <2> QED
    BY <1>0, <1>1, <2>6, <2>7, PremisesWrite
<1> QED
  BY <1>3, <1>4

LEMMA ClientWrites ==
  ASSUME PremisesInv, NEW h \in Handlers, ClientWrite(h)
  PROVE  PremisesInv'
<1> DEFINE j == job[h]
           k == job[h].row
<1>0. /\ Written(h) /\ UNCHANGED <<site, route, checkpoint, patrol, requests, restarted>>
      /\ j \in Job /\ Stands(j) /\ j.op = "client" /\ j.step = "write"
  BY JobOf DEF ClientWrite, At
<1>1. /\ j.of = "premises" /\ k \in Clients /\ j.to \in ClientStatuses
      /\ site \in [Sites -> SiteRow]
      /\ client \in [Clients -> [status : ClientStatuses \cup {"ABSENT"}, deleted : BOOLEAN]]
  BY <1>0, Parts DEF Stands, PremisesMeant, RowTypes
<1>2. PICK b \in BOOLEAN :
        /\ b <=> client[k].deleted \/ j.to = "ARCHIVED"
        /\ client' = [client EXCEPT ![k].status = j.to, ![k].deleted = b]
  <2> DEFINE b == client[k].deleted \/ j.to = "ARCHIVED"
  <2>1. client' = [client EXCEPT ![k].status = j.to, ![k].deleted = b]
    BY <1>1 DEF ClientWrite
  <2>2. b \in BOOLEAN /\ (b <=> client[k].deleted \/ j.to = "ARCHIVED")
    OBVIOUS
  <2> HIDE DEF b
  <2> QED
    BY <2>1, <2>2
<1>3. /\ client' \in [Clients -> [status : ClientStatuses \cup {"ABSENT"}, deleted : BOOLEAN]]
      /\ \A c \in Clients : client'[c].deleted =>
           client[c].deleted \/ (c = k /\ j.to = "ARCHIVED")
  BY <1>1, <1>2
<1>4. SitesStand'
  <2>1. ASSUME "premises" \notin raced', NEW s \in Sites, SiteActive(s)',
               client'[site'[s].client].deleted
        PROVE  s \in restarted'
    <3>1. /\ ~j.stale
          /\ \A r \in Sites : SiteActive(r) /\ client[site[r].client].deleted => r \in restarted
      BY <1>0, <1>1, <2>1, WrittenRaced, Parts DEF RowsStand
    <3>2. SiteActive(s) /\ site' = site /\ site[s].client \in Clients
      BY <1>0, <1>1, <2>1 DEF SiteActive, Open, SiteRow
    <3>3. j.to = "ARCHIVED" => site[s].client # k
      BY <1>0, <3>1, <3>2 DEF Stands, PremisesKnown
    <3> QED
      BY <1>0, <1>3, <2>1, <3>1, <3>2, <3>3
  <2> QED
    BY <2>1 DEF SitesStand
<1>5. RowTypes'
  BY <1>0, <1>3, Parts DEF RowTypes
<1>6. RowsStand'
  BY <1>0, <1>4, PatrolsStandStill DEF RowsStand, SitesStand, Apart
<1> QED
  BY <1>0, <1>1, <1>5, <1>6, PremisesWrite

(* The two steps no request makes the others know of. *)
LEMMA ClientCreates ==
  ASSUME PremisesInv, NEW h \in Handlers, ClientCreate(h)
  PROVE  PremisesInv'
<1>0. /\ UNCHANGED <<site, route, checkpoint, patrol, job, raced, restarted>>
      /\ requests' \in 0..MaxRequests
  BY Admits DEF ClientCreate
<1>1. PICK k \in Clients : client' = [client EXCEPT ![k].status = "ACTIVE"]
  BY DEF ClientCreate
<1>2. /\ client' \in [Clients -> [status : ClientStatuses \cup {"ABSENT"}, deleted : BOOLEAN]]
      /\ \A c \in Clients : client'[c].deleted = client[c].deleted
  BY <1>1, Parts DEF RowTypes, ClientStatuses
<1>3. RowTypes' /\ AddsApart'
  BY <1>0, <1>2, Parts DEF RowTypes, AddsApart
<1>4. RowsStand'
  <2>1. \A s \in Sites : site[s].client \in Clients
    BY Parts DEF RowTypes, SiteRow
  <2> QED
    BY <1>0, <1>2, <2>1, Parts DEF RowsStand, PatrolKeepsItsRoute, Underway, SiteActive, Open
<1>5. ASSUME NEW g \in Handlers PROVE Stands(job[g])'
  <2>1. Stands(job[g])
    BY Parts
  <2>2. RowsMeant(job[g])' /\ RowsKnown(job[g])' /\ ForThePast(job[g])' /\ PremisesMeant(job[g])'
    BY <1>0, <2>1
       DEF Stands, RowsMeant, RowsKnown, ForThePast, PremisesMeant, RouteFree, CheckpointFree,
           Underway, Taken, Rows
  <2>3. PremisesKnown(job[g])'
    BY <1>0, <1>2, <2>1 DEF Stands, PremisesKnown, PremisesMeant, SiteActive, Open
  <2> QED
    BY <2>2, <2>3 DEF Stands
<1> QED
  BY <1>0, <1>3, <1>4, <1>5, Parts, NextParts

LEMMA PatrolOver ==
  ASSUME PremisesInv, NEW p \in Patrols, PatrolEnds(p), UNCHANGED <<client, restarted>>
  PROVE  PremisesInv'
<1>0. UNCHANGED <<site, route, checkpoint, job, requests, raced>>
  BY DEF PatrolEnds
<1>1. /\ patrol' \in [Patrols -> PatrolRow]
      /\ \A q \in Patrols : /\ patrol'[q].route = patrol[q].route
                            /\ patrol'[q].from = patrol[q].from
                            /\ Underway(q)' => Underway(q)
  <2>1. patrol \in [Patrols -> PatrolRow] /\ patrol' = [patrol EXCEPT ![p].over = TRUE]
    BY Parts DEF PatrolEnds, RowTypes
  <2> QED
    BY <2>1 DEF PatrolRow, Underway
<1>2. RowTypes' /\ AddsApart'
  BY <1>0, <1>1, Parts DEF RowTypes, AddsApart
<1>3. RowsStand'
  BY <1>0, <1>1, Parts DEF RowsStand, PatrolKeepsItsRoute, SiteActive, Open
<1>4. ASSUME NEW g \in Handlers PROVE Stands(job[g])'
  <2>1. Stands(job[g])
    BY Parts
  <2>2. RowsMeant(job[g])' /\ ForThePast(job[g])' /\ PremisesMeant(job[g])' /\ PremisesKnown(job[g])'
    BY <1>0, <2>1
       DEF Stands, RowsMeant, ForThePast, PremisesMeant, PremisesKnown, SiteActive, Open, Taken, Rows
  <2>3. RowsKnown(job[g])'
    BY <1>0, <1>1, <2>1 DEF Stands, RowsKnown, RouteFree, CheckpointFree
  <2> QED
    BY <2>2, <2>3 DEF Stands
<1> QED
  BY <1>0, <1>2, <1>3, <1>4, Parts, NextParts

-----------------------------------------------------------------------------
(* The beginning: numbers that count up to how many there are, are apart. *)
LEMMA CountedApart ==
  ASSUME NEW r \in Routes, NumbersOf(Rows(r)) = 1..Cardinality(Rows(r)),
         NEW c \in Rows(r), NEW d \in Rows(r), checkpoint[c].number = checkpoint[d].number
  PROVE  c = d
<1> DEFINE S == Rows(r)
           n == Cardinality(S)
           f == [e \in S |-> checkpoint[e].number]
<1>1. IsFiniteSet(S) /\ n \in Nat
  <2>1. S \subseteq Checkpoints
    BY DEF Rows
  <2>2. IsFiniteSet(S)
    BY <2>1, FS_Subset, RoutesAssumption
  <2> QED
    BY <2>2, FS_CardinalityType
<1>2. 1..n = {checkpoint[e].number : e \in S}
  BY DEF NumbersOf
<1> HIDE DEF S
<1>3. Cardinality(1..n) = n
  <2> HIDE DEF n
  <2>1. Cardinality(1..n) = IF 1 > n THEN 0 ELSE n - 1 + 1
    BY <1>1, FS_Interval
  <2> QED
    BY <1>1, <2>1
<1>4. f \in Surjection(S, 1..n)
  <2>1. f \in [S -> 1..n] /\ \A m \in 1..n : \E e \in S : f[e] = m
    BY <1>2
  <2> QED
    BY <2>1 DEF Surjection
<1>5. f \in Injection(S, 1..n)
  BY <1>1, <1>3, <1>4, FS_Surjection
<1> QED
  <2>1. c \in S /\ d \in S /\ f[c] = f[d]
    BY DEF S
  <2> QED
    BY <1>5, <2>1 DEF Injection, IsInjective

LEMMA Initially ==
  ASSUME Init
  PROVE  PremisesInv
<1>1. PICK of \in [Checkpoints -> Routes \cup {None}], number \in [Checkpoints -> Numbers] :
        checkpoint = [c \in Checkpoints |->
          [route |-> of[c], number |-> number[c], active |-> of[c] # None, deleted |-> FALSE]]
  BY DEF Init
<1>2. \A c \in Checkpoints : checkpoint[c] \in CheckpointRow /\ checkpoint[c].route = of[c]
  <2> SUFFICES ASSUME NEW c \in Checkpoints
               PROVE  checkpoint[c] \in CheckpointRow /\ checkpoint[c].route = of[c]
    OBVIOUS
  <2> DEFINE b == of[c] # None
  <2>1. checkpoint[c] = [route |-> of[c], number |-> number[c], active |-> b, deleted |-> FALSE]
    BY <1>1
  <2>2. b \in BOOLEAN
    OBVIOUS
  <2> HIDE DEF b
  <2> QED
    BY <2>1, <2>2 DEF CheckpointRow
<1>3. RowTypes
  <2>1. site \in [Sites -> SiteRow] /\ route \in [Routes -> RouteRow]
    BY DEF Init, SiteRow, RouteRow, SiteStatuses, RouteStatuses
  <2>2. checkpoint \in [Checkpoints -> CheckpointRow]
    BY <1>1, <1>2
  <2>3. patrol \in [Patrols -> PatrolRow]
    BY DEF Init, PatrolRow
  <2>4. client \in [Clients -> [status : ClientStatuses \cup {"ABSENT"}, deleted : BOOLEAN]]
    BY DEF Init, ClientStatuses
  <2>5. requests \in 0..MaxRequests /\ restarted \subseteq Sites
    BY RoutesAssumption DEF Init
  <2> QED
    BY <2>1, <2>2, <2>3, <2>4, <2>5 DEF RowTypes
<1>4. job \in [Handlers -> Job] /\ \A h \in Handlers : job[h] = Idle
  BY IdleJob DEF Init
<1>5. AddsApart /\ raced \subseteq {"rows", "premises"} /\ \A h \in Handlers : Stands(job[h])
  BY <1>4, IdleJob, IdleStands DEF AddsApart, Init
<1>6. RowsStand
  <2>1. ASSUME NEW c \in Checkpoints, NEW d \in Checkpoints, checkpoint[c].route # None,
               checkpoint[c].route = checkpoint[d].route,
               checkpoint[c].number = checkpoint[d].number
        PROVE  c = d
    <3>1. PICK r \in Routes : checkpoint[c].route = r
      BY <1>2, <2>1
    <3>2. c \in Rows(r) /\ d \in Rows(r) /\ NumbersOf(Rows(r)) = 1..Cardinality(Rows(r))
      BY <2>1, <3>1 DEF Rows, Init
    <3> QED
      BY <2>1, <3>2, CountedApart
  <2>2. PatrolKeepsItsRoute
    BY DEF Init, PatrolKeepsItsRoute, Underway
  <2>3. \A s \in Sites : ~client[site[s].client].deleted
    BY DEF Init
  <2> QED
    BY <2>1, <2>2, <2>3 DEF RowsStand
<1> QED
  BY <1>3, <1>4, <1>5, <1>6, Parts

(* The invariant of Premises holds in every state, and with it: the types   *)
(* of the rows; that the index keeps the numbers of a route apart; and what *)
(* a request that no write overtook still knows when it writes.             *)
THEOREM Inductive == Spec => []PremisesInv
<1>1. Init => PremisesInv
  BY Initially
<1>2. PremisesInv /\ [Next]_vars => PremisesInv'
  <2> SUFFICES ASSUME PremisesInv, [Next]_vars PROVE PremisesInv'
    OBVIOUS
  <2>1. CASE UNCHANGED vars
    <3>1. RowTypes' /\ job' \in [Handlers -> Job] /\ raced' \subseteq {"rows", "premises"}
      BY <2>1, Parts DEF vars, RowTypes
    <3>2. RowsStand' /\ AddsApart'
      BY <2>1, Parts
         DEF vars, RowsStand, AddsApart, PatrolKeepsItsRoute, Underway, SiteActive, Open
    <3>3. \A g \in Handlers : Stands(job[g])'
      BY <2>1, Parts
         DEF vars, Stands, RowsMeant, RowsKnown, PremisesMeant, PremisesKnown, ForThePast,
             RouteFree, CheckpointFree, Underway, SiteActive, Open, Taken, Rows
    <3> QED
      BY <3>1, <3>2, <3>3, NextParts
  <2>2. CASE RoutesNext /\ UNCHANGED <<client, restarted>>
    <3>1. CASE \E p \in Patrols : PatrolEnds(p)
      BY <2>2, <3>1, PatrolOver
    <3>2. CASE \E h \in Handlers :
                 \/ RouteCreateRead(h) \/ RouteStatusRead(h) \/ RouteSiteRead(h)
                 \/ RouteOrderRead(h) \/ RouteUseRead(h)
      BY <2>2, <3>2, RouteReads
    <3>3. CASE \E h \in Handlers : RouteCreateWrite(h) \/ RouteStatusWrite(h)
      BY <2>2, <3>3, RouteWrites
    <3>4. CASE \E h \in Handlers : AddRead(h) \/ CheckpointRead(h) \/ ReorderRead(h)
      BY <2>2, <3>4, FirstCheckpointReads
    <3>5. CASE \E h \in Handlers : UseRead(h) \/ NumberRead(h)
      BY <2>2, <3>5, CheckpointReads
    <3>6. CASE \E h \in Handlers : CheckpointWrite(h) \/ CheckpointEnd(h)
      BY <2>2, <3>6, CheckpointWrites, CheckpointEnds
    <3>7. CASE \E h \in Handlers : PatrolRead(h) \/ PatrolWrite(h)
      BY <2>2, <3>7, PremisesReads, PatrolWrites
    <3> QED
      BY <2>2, <3>1, <3>2, <3>3, <3>4, <3>5, <3>6, <3>7 DEF RoutesNext
  <2>3. CASE \E h \in Handlers :
               ClientCreate(h) \/ ClientRead(h) \/ ClientSitesRead(h) \/ ClientWrite(h)
    BY <2>3, ClientCreates, PremisesReads, ClientSites, ClientWrites
  <2>4. CASE \E h \in Handlers :
               SiteRead(h) \/ SiteWrite(h) \/ SiteStatusRead(h) \/ SiteStatusWrite(h)
    BY <2>4, PremisesReads, SiteWrites
  <2> QED
    BY <2>1, <2>2, <2>3, <2>4 DEF Next
<1> QED
  BY <1>1, <1>2, PTL DEF Spec

(* A patrol under way keeps its route and its checkpoints from being       *)
(* archived, unless a request wrote on what another's write had overtaken. *)
THEOREM PatrolKept == Spec => []PatrolKeepsItsRoute
<1>1. PremisesInv => PatrolKeepsItsRoute
  BY DEF PremisesInv, RoutesInv
<1> QED
  BY <1>1, Inductive, PTL

(* A checkpoint whose number was found free is refused it only for the     *)
(* sake of rows that are gone, or after a write came in between; and one   *)
(* to be reordered also for the sake of an active one that the request     *)
(* leaves out, but only when it names another twice.                       *)
THEOREM Refusals == Spec => []RefusedForThePast
<1>1. PremisesInv => RefusedForThePast
  BY DEF PremisesInv, RoutesInv
<1> QED
  BY <1>1, Inductive, PTL

(* An archived client has no active site but those made active again       *)
(* afterwards, unless a site or client was written in between.             *)
THEOREM ArchivedClient == Spec => []ArchivedClientHasNoSite
<1>1. PremisesInv => ArchivedClientHasNoSite
  BY DEF PremisesInv
<1> QED
  BY <1>1, Inductive, PTL
=============================================================================
