----------------------------- MODULE StaffProofs -----------------------------
(* Proofs about Staff and Access, for any users, relations, requests and    *)
(* handlers that overlap: who is left in charge, who supervises whom, and   *)
(* that the lists, the reads and the counts agree about who is shown what.  *)
EXTENDS Access, TLAPS

LEMMA IdleJob ==
  Idle \in Job /\ Means(Idle) /\ Idle.op = "idle" /\ Idle.step = "find" /\ ~Idle.stale
<1>1. ASSUME NEW b \in BOOLEAN
      PROVE  [op |-> "idle", step |-> "find", actor |-> NoUser, user |-> NoUser, to |-> "-",
              officers |-> {}, relation |-> NoRelation, stale |-> b] \in Job
  BY DEF Job, Operations
<1> QED
  BY <1>1 DEF Idle, Means, OnAccount

(* What a handler is doing has its type and its meaning. *)
LEMMA JobOf ==
  ASSUME TInv, NEW h \in Handlers
  PROVE  job[h] \in Job /\ Means(job[h])
BY DEF TInv, TypeOK

(* A write leaves its handler idle and every other that has read stale. *)
LEMMA WrittenJobs ==
  ASSUME TInv, NEW h \in Handlers, Written(h)
  PROVE  /\ job' \in [Handlers -> Job] /\ job'[h] = Idle /\ raced' \in BOOLEAN
         /\ raced' <=> raced \/ job[h].stale
         /\ \A g \in Handlers \ {h} :
              /\ job'[g].op = job[g].op /\ job'[g].step = job[g].step
              /\ job'[g].user = job[g].user /\ job'[g].to = job[g].to
              /\ job'[g].officers = job[g].officers /\ job'[g].relation = job[g].relation
              /\ job[g].step # "find" => job'[g].stale
<1>1. job \in [Handlers -> Job]
  BY DEF TInv, TypeOK
<1>2. ASSUME NEW j \in Job, NEW b \in BOOLEAN
      PROVE  /\ [j EXCEPT !.stale = b] \in Job /\ [j EXCEPT !.stale = b].stale = b
             /\ [j EXCEPT !.stale = b].op = j.op /\ [j EXCEPT !.stale = b].step = j.step
             /\ [j EXCEPT !.stale = b].user = j.user /\ [j EXCEPT !.stale = b].to = j.to
             /\ [j EXCEPT !.stale = b].officers = j.officers
             /\ [j EXCEPT !.stale = b].relation = j.relation
  BY DEF Job
<1>3. ASSUME NEW g \in Handlers \ {h}
      PROVE  \E b \in BOOLEAN : /\ job'[g] = [job[g] EXCEPT !.stale = b]
                                /\ job[g].step # "find" => b
  <2> DEFINE b == job[g].stale \/ job[g].step # "find"
  <2>1. job'[g] = [job[g] EXCEPT !.stale = b]
    BY DEF Written
  <2>2. b \in BOOLEAN /\ (job[g].step # "find" => b)
    OBVIOUS
  <2> HIDE DEF b
  <2> QED
    BY <2>1, <2>2
<1>4. ASSUME NEW g \in Handlers PROVE job'[g] \in Job
  <2>1. CASE g = h
    BY <2>1, IdleJob DEF Written
  <2>2. CASE g # h
    <3>1. PICK b \in BOOLEAN : job'[g] = [job[g] EXCEPT !.stale = b]
      BY <1>3, <2>2
    <3> QED
      BY <1>1, <1>2, <3>1
  <2> QED
    BY <2>1, <2>2
<1>5. job' \in [Handlers -> Job] /\ job'[h] = Idle
  BY <1>4 DEF Written
<1>6. raced' \in BOOLEAN /\ (raced' <=> raced \/ job[h].stale)
  <2>1. raced' = (raced \/ job[h].stale)
    BY DEF Written
  <2>2. (raced \/ job[h].stale) \in BOOLEAN
    OBVIOUS
  <2> QED
    BY <2>1, <2>2
<1>7. ASSUME NEW g \in Handlers \ {h}
      PROVE  /\ job'[g].op = job[g].op /\ job'[g].step = job[g].step
             /\ job'[g].user = job[g].user /\ job'[g].to = job[g].to
             /\ job'[g].officers = job[g].officers /\ job'[g].relation = job[g].relation
             /\ job[g].step # "find" => job'[g].stale
  <2>1. PICK b \in BOOLEAN : /\ job'[g] = [job[g] EXCEPT !.stale = b]
                             /\ job[g].step # "find" => b
    BY <1>3
  <2> QED
    BY <1>1, <1>2, <2>1
<1> QED
  BY <1>5, <1>6, <1>7

(* Whoever was overtaken by a write knows nothing for certain. *)
LEMMA WrittenStands ==
  ASSUME TInv, NEW h \in Handlers, Written(h)
  PROVE  \A g \in Handlers : AccountStands(job[g])' /\ SupervisionStands(job[g])'
<1> SUFFICES ASSUME NEW g \in Handlers
             PROVE  AccountStands(job[g])' /\ SupervisionStands(job[g])'
  OBVIOUS
<1>1. CASE g = h
  BY <1>1, WrittenJobs, IdleJob DEF AccountStands, SupervisionStands, OnAccount
<1>2. CASE g # h
  BY <1>2, WrittenJobs, JobOf DEF AccountStands, SupervisionStands, OnAccount, Means
<1> QED
  BY <1>1, <1>2

(* The rows have their types. *)
RowTypes ==
  /\ user \in [Users -> UserRow]
  /\ officer \in [Users -> Profile]
  /\ supervisor \in [Users -> {"none", "live", "archived"}]
  /\ relation \in [Relations -> RelationRow]
  /\ requests \in 0..MaxRequests
  /\ unseated \in BOOLEAN

RowsNamed ==
  \A r \in Relations :
    relation[r].active =>
      /\ relation[r].supervisor \in Users /\ relation[r].officer \in Users
      /\ officer[relation[r].officer] # NoProfile

ProfilesStay == \A u \in Users : officer[u] # NoProfile => officer'[u] # NoProfile

LEMMA TypesOf ==
  ASSUME TInv
  PROVE  RowTypes /\ RowsNamed
BY DEF TInv, TypeOK, RowTypes, RelationsNamed, RowsNamed

LEMMA WriteTypes ==
  ASSUME TInv, NEW h \in Handlers, Written(h), RowTypes', RowsNamed', ProfilesStay
  PROVE  TInv'
<1>1. TypeOK'
  BY WrittenJobs DEF RowTypes, TypeOK
<1>2. ASSUME NEW g \in Handlers PROVE Means(job[g])'
  <2>1. CASE g = h
    <3>1. job'[g] = Idle
      BY <2>1, WrittenJobs
    <3> QED
      BY <3>1, IdleJob DEF Means
  <2>2. CASE g # h
    BY <2>2, WrittenJobs, JobOf DEF Means
  <2> QED
    BY <2>1, <2>2
<1>3. ASSUME NEW g \in Handlers, At(g, "assign", "write")'
      PROVE  \A o \in job'[g].officers : officer'[o] # NoProfile
  <2>1. g # h
    BY <1>3, WrittenJobs, IdleJob DEF At
  <2>2. At(g, "assign", "write") /\ job'[g].officers = job[g].officers /\ job[g] \in Job
    BY <1>3, <2>1, WrittenJobs, JobOf DEF At
  <2> QED
    BY <2>2 DEF TInv, RelationsNamed, ProfilesStay, Job
<1> QED
  BY <1>1, <1>2, <1>3 DEF TInv, RelationsNamed, RowsNamed

(* A step that only reads: what it read stands. *)
LEMMA ReadStep ==
  ASSUME TInv, NEW h \in Handlers, NEW j \in Job, Becomes(h, j), Means(j), Unchanged,
         requests' \in 0..MaxRequests,
         j.op = "assign" /\ j.step = "write" => \A o \in j.officers : officer[o] # NoProfile
  PROVE  /\ TInv'
         /\ StaffInv /\ AccountStands(j) /\ SupervisionStands(j) => StaffInv'
<1>0. /\ UNCHANGED <<user, officer, supervisor, relation, raced, unseated>>
      /\ job \in [Handlers -> Job] /\ job' = [job EXCEPT ![h] = j]
  BY DEF Unchanged, Becomes, TInv, TypeOK
<1>1. job' \in [Handlers -> Job] /\ \A g \in Handlers : job'[g] = IF g = h THEN j ELSE job[g]
  BY <1>0
<1>2. TypeOK'
  BY <1>0, <1>1 DEF TInv, TypeOK
<1>3. ASSUME NEW g \in Handlers PROVE Means(job[g])'
  <2>1. Means(job'[g])
    BY <1>1 DEF TInv
  <2> QED
    BY <2>1 DEF Means
<1>4. RelationsNamed'
  BY <1>0, <1>1 DEF TInv, RelationsNamed, At
<1>5. ASSUME StaffInv, AccountStands(j), SupervisionStands(j) PROVE StaffInv'
  <2>1. \A g \in Handlers : AccountStands(job[g])' /\ SupervisionStands(job[g])'
    <3> SUFFICES ASSUME NEW g \in Handlers
                 PROVE  AccountStands(job[g])' /\ SupervisionStands(job[g])'
      OBVIOUS
    <3>1. AccountStands(job'[g]) /\ SupervisionStands(job'[g])
      BY <1>1, <1>5 DEF StaffInv
    <3> QED
      BY <1>0, <3>1 DEF AccountStands, SupervisionStands, Seated, Related
  <2> QED
    BY <1>0, <1>5, <2>1
       DEF StaffInv, AdministratorRemains, OneSupervisorPerOfficer,
           ArchivedSupervisorHasNoOfficer, ArchivedProfileEndsAccount, Seated
<1> QED
  BY <1>2, <1>3, <1>4, <1>5 DEF TInv

-----------------------------------------------------------------------------
(* The requests that begin with a read. *)
LEMMA FirstReads ==
  ASSUME TInv, NEW h \in Handlers,
         Admitted(h) \/ ProfileFind(h) \/ AssignFind(h) \/ UnassignFind(h)
  PROVE  TInv' /\ (StaffInv => StaffInv')
<1>0. Unchanged /\ requests' \in 0..MaxRequests
  <2>1. Unchanged /\ requests' = requests + 1 /\ requests < MaxRequests
    BY DEF Admitted, ProfileFind, AssignFind, UnassignFind, Request
  <2> QED
    BY <2>1, StaffAssumption DEF TInv, TypeOK
<1>e. ASSUME NEW j \in Job, Becomes(h, j), Means(j), j.op \notin OnAccount,
             j.op = "assign" => supervisor[j.user] = "live" /\ j.step = "count"
      PROVE  TInv' /\ (StaffInv => StaffInv')
  <2>1. AccountStands(j) /\ SupervisionStands(j)
    BY <1>e DEF AccountStands, SupervisionStands
  <2> QED
    BY <1>0, <1>e, <2>1, ReadStep
<1>1. CASE Admitted(h)
  <2>1. PICK a \in Users : Becomes(h, [Idle EXCEPT !.op = "account", !.actor = a])
    BY <1>1 DEF Admitted
  <2> DEFINE j == [Idle EXCEPT !.op = "account", !.actor = a]
  <2>2. j \in Job /\ j.op = "account" /\ j.step = "find"
    BY IdleJob DEF Job, Operations
  <2>3. Means(j)
    BY <2>2 DEF Means, OnAccount
  <2> HIDE DEF j
  <2> QED
    BY <1>e, <2>1, <2>2, <2>3 DEF j, OnAccount
<1>2. CASE ProfileFind(h)
  <2>1. CASE \E u \in Users, e \in Employments :
               Becomes(h, [Idle EXCEPT !.op = "employ", !.step = "write", !.user = u, !.to = e])
    <3>1. PICK u \in Users, e \in Employments :
            Becomes(h, [Idle EXCEPT !.op = "employ", !.step = "write", !.user = u, !.to = e])
      BY <2>1
    <3> DEFINE j == [Idle EXCEPT !.op = "employ", !.step = "write", !.user = u, !.to = e]
    <3>2. j \in Job /\ j.op = "employ" /\ j.step = "write" /\ j.user = u /\ j.to = e
      BY IdleJob DEF Job, Operations
    <3>3. Means(j)
      BY <3>2 DEF Means, OnAccount
    <3> HIDE DEF j
    <3> QED
      BY <1>e, <3>1, <3>2, <3>3 DEF j, OnAccount
  <2>2. CASE \E u \in Users, op \in {"officer", "supervisor"} :
               Becomes(h, [Idle EXCEPT !.op = op, !.step = "write", !.user = u])
    <3>1. PICK u \in Users, op \in {"officer", "supervisor"} :
            Becomes(h, [Idle EXCEPT !.op = op, !.step = "write", !.user = u])
      BY <2>2
    <3> DEFINE j == [Idle EXCEPT !.op = op, !.step = "write", !.user = u]
    <3>2. j \in Job /\ j.op = op /\ j.step = "write" /\ j.user = u
      BY IdleJob DEF Job, Operations
    <3>3. Means(j)
      BY <3>2 DEF Means, OnAccount
    <3> HIDE DEF j
    <3> QED
      BY <1>e, <3>1, <3>2, <3>3 DEF j, OnAccount
  <2> QED
    BY <1>2, <2>1, <2>2 DEF ProfileFind
<1>3. CASE AssignFind(h)
  <2>1. PICK u \in Users, os \in SUBSET Users :
          /\ supervisor[u] = "live"
          /\ Becomes(h, [Idle EXCEPT !.op = "assign", !.step = "count", !.user = u,
                                     !.officers = os])
    BY <1>3 DEF AssignFind
  <2> DEFINE j == [Idle EXCEPT !.op = "assign", !.step = "count", !.user = u, !.officers = os]
  <2>2. j \in Job /\ j.op = "assign" /\ j.step = "count" /\ j.user = u
    BY IdleJob DEF Job, Operations
  <2>3. Means(j)
    BY <2>2 DEF Means, OnAccount
  <2> HIDE DEF j
  <2> QED
    BY <1>e, <2>1, <2>2, <2>3 DEF j, OnAccount
<1>4. CASE UnassignFind(h)
  <2>1. PICK r \in Relations :
          Becomes(h, [Idle EXCEPT !.op = "unassign", !.step = "write", !.relation = r])
    BY <1>4 DEF UnassignFind
  <2> DEFINE j == [Idle EXCEPT !.op = "unassign", !.step = "write", !.relation = r]
  <2>2. j \in Job /\ j.op = "unassign" /\ j.step = "write" /\ j.relation = r
    BY IdleJob DEF Job, Operations
  <2>3. Means(j)
    BY <2>2 DEF Means, OnAccount
  <2> HIDE DEF j
  <2> QED
    BY <1>e, <2>1, <2>2, <2>3 DEF j, OnAccount
<1> QED
  BY <1>1, <1>2, <1>3, <1>4

(* Where an administrator is to be unseated, another is counted before. *)
LEMMA AccountReads ==
  ASSUME TInv, NEW h \in Handlers, AccountFind(h) \/ Count(h)
  PROVE  TInv' /\ (StaffInv => StaffInv')
<1>0. Unchanged /\ requests' \in 0..MaxRequests
  BY DEF AccountFind, Count, TInv, TypeOK
<1>j. job[h] \in Job /\ Means(job[h])
  BY JobOf
<1>e. ASSUME NEW j \in Job, Becomes(h, j), Means(j), j.op # "assign", AccountStands(j)
      PROVE  TInv' /\ (StaffInv => StaffInv')
  <2>1. SupervisionStands(j)
    BY <1>e DEF SupervisionStands
  <2> QED
    BY <1>0, <1>e, <2>1, ReadStep
<1>i. Becomes(h, Idle) => TInv' /\ (StaffInv => StaffInv')
  BY <1>e, IdleJob DEF AccountStands, OnAccount
<1>1. CASE AccountFind(h)
  <2>1. PICK u \in Users \ {job[h].actor}, op \in OnAccount, to \in Roles \cup Statuses :
          /\ Found(h, u, op, to)
          /\ op = "role" => to \in Roles
          /\ op = "status" => to \in {"ACTIVE", "SUSPENDED", "DISABLED"}
          /\ op = "remove" => to = "ARCHIVED"
    <3>1. \A s : StatusTransitions(s) \subseteq {"ACTIVE", "SUSPENDED", "DISABLED"}
      BY DEF StatusTransitions
    <3> QED
      BY <1>1, <3>1 DEF AccountFind, OnAccount, Statuses
  <2> DEFINE step == IF Seated(u) /\ Ends(op, to) THEN "count" ELSE "write"
             j == [job[h] EXCEPT !.op = op, !.user = u, !.to = to, !.step = step]
  <2>2. step \in {"count", "write"} /\ (step = "write" => ~(Seated(u) /\ Ends(op, to)))
    OBVIOUS
  <2>3. Becomes(h, j)
    BY <2>1 DEF Found
  <2> HIDE DEF step
  <2>4. /\ j \in Job /\ j.op = op /\ j.step = step /\ j.user = u /\ j.to = to
    BY <1>j, <2>2 DEF Job, Operations, OnAccount
  <2> HIDE DEF j
  <2>5. Means(j)
    BY <2>1, <2>2, <2>4 DEF Means, OnAccount
  <2>6. AccountStands(j)
    BY <2>2, <2>4 DEF AccountStands
  <2> QED
    BY <1>e, <2>3, <2>4, <2>5, <2>6 DEF OnAccount
<1>2. CASE Count(h)
  <2>1. CASE \E u \in Users \ {job[h].user} : Seated(u)
    <3> DEFINE j == [job[h] EXCEPT !.step = "write"]
    <3>1. /\ j \in Job /\ j.op = job[h].op /\ j.step = "write" /\ j.user = job[h].user
          /\ j.to = job[h].to
      BY <1>j DEF Job
    <3>2. Becomes(h, j) /\ j.op \in OnAccount
      BY <1>2, <2>1, <3>1 DEF Count, OnAccount
    <3> HIDE DEF j
    <3>3. Means(j)
      BY <1>2, <1>j, <3>1, <3>2 DEF Means, OnAccount, Count
    <3>4. AccountStands(j)
      BY <2>1, <3>1 DEF AccountStands
    <3> QED
      BY <1>e, <3>1, <3>2, <3>3, <3>4 DEF OnAccount
  <2>2. CASE ~(\E u \in Users \ {job[h].user} : Seated(u))
    BY <1>2, <1>i, <2>2 DEF Count
  <2> QED
    BY <2>1, <2>2
<1> QED
  BY <1>1, <1>2

(* The officers are looked at before their relations are written. *)
LEMMA AssignReads ==
  ASSUME TInv, NEW h \in Handlers, AssignCheck(h)
  PROVE  TInv' /\ (StaffInv => StaffInv')
<1>0. Unchanged /\ requests' \in 0..MaxRequests
  BY DEF AssignCheck, TInv, TypeOK
<1>j. job[h] \in Job /\ Means(job[h]) /\ job[h].op = "assign" /\ job[h].step = "count"
  BY JobOf DEF AssignCheck, At
<1>1. CASE \A o \in job[h].officers : Assignable(o) /\ ~Related(o)
  <2> DEFINE j == [job[h] EXCEPT !.step = "write"]
  <2>1. /\ j \in Job /\ j.op = "assign" /\ j.step = "write" /\ j.user = job[h].user
        /\ j.officers = job[h].officers /\ j.stale = job[h].stale
    BY <1>j DEF Job
  <2>2. Becomes(h, j)
    BY <1>1 DEF AssignCheck
  <2> HIDE DEF j
  <2>3. Means(j)
    BY <1>j, <2>1 DEF Means, OnAccount
  <2>4. AccountStands(j)
    BY <2>1 DEF AccountStands, OnAccount
  <2>5. StaffInv => SupervisionStands(j)
    BY <1>1, <1>j, <2>1 DEF StaffInv, SupervisionStands
  <2>6. \A o \in j.officers : officer[o] # NoProfile
    BY <1>1, <2>1 DEF Assignable
  <2> QED
    BY <1>0, <2>1, <2>2, <2>3, <2>4, <2>5, <2>6, ReadStep
<1>2. CASE ~(\A o \in job[h].officers : Assignable(o) /\ ~Related(o))
  <2>1. Becomes(h, Idle)
    BY <1>2 DEF AssignCheck
  <2>2. AccountStands(Idle) /\ SupervisionStands(Idle)
    BY IdleJob DEF AccountStands, SupervisionStands, OnAccount
  <2> QED
    BY <1>0, <2>1, <2>2, IdleJob, ReadStep
<1> QED
  BY <1>1, <1>2

-----------------------------------------------------------------------------
(* What an update of an account gives; deletedAt is never cleared. *)
LEMMA AccountAfter ==
  ASSUME user \in [Users -> UserRow], NEW u \in Users, NEW s \in Statuses, NEW b \in BOOLEAN,
         user' = [user EXCEPT ![u].status = s, ![u].deleted = b]
  PROVE  /\ user' \in [Users -> UserRow]
         /\ user'[u].role = user[u].role /\ user'[u].status = s /\ user'[u].deleted = b
         /\ \A v \in Users \ {u} : user'[v] = user[v]
BY DEF UserRow

LEMMA AccountDeleted ==
  ASSUME user \in [Users -> UserRow], NEW u \in Users, NEW s \in Statuses, NEW c \in BOOLEAN,
         user' = [user EXCEPT ![u].status = s, ![u].deleted = @ \/ c]
  PROVE  /\ user' \in [Users -> UserRow]
         /\ user'[u].role = user[u].role /\ user'[u].status = s
         /\ user'[u].deleted <=> user[u].deleted \/ c
         /\ \A v \in Users \ {u} : user'[v] = user[v]
<1> DEFINE b == user[u].deleted \/ c
<1>1. b \in BOOLEAN /\ (b <=> user[u].deleted \/ c)
  OBVIOUS
<1>2. [user EXCEPT ![u].status = s][u].deleted = user[u].deleted
  BY DEF UserRow
<1>3. user' = [user EXCEPT ![u].status = s, ![u].deleted = b]
  BY <1>2
<1> HIDE DEF b
<1>4. /\ user' \in [Users -> UserRow]
      /\ user'[u].role = user[u].role /\ user'[u].status = s /\ user'[u].deleted = b
      /\ \A v \in Users \ {u} : user'[v] = user[v]
  BY <1>1, <1>3, AccountAfter
<1> QED
  BY <1>1, <1>4

(* Relations only end. *)
RelationsEnd ==
  \A r \in Relations : relation'[r].active => relation'[r] = relation[r]

LEMMA NamesStay ==
  ASSUME TInv, RelationsEnd, ProfilesStay
  PROVE  RowsNamed'
BY DEF TInv, RelationsNamed, RowsNamed, RelationsEnd, ProfilesStay

LEMMA SupervisionStays ==
  ASSUME TInv, StaffInv, RelationsEnd, raced => raced',
         \A r \in Relations : relation'[r].active =>
            (supervisor[relation[r].supervisor] = "live"
              => supervisor'[relation[r].supervisor] = "live")
  PROVE  raced' \/ (OneSupervisorPerOfficer' /\ ArchivedSupervisorHasNoOfficer')
BY DEF StaffInv, RelationsEnd, OneSupervisorPerOfficer, ArchivedSupervisorHasNoOfficer

(* ensureRoleProfile only makes profiles, and takes none back. *)
LEMMA ProfileMade ==
  ASSUME RowTypes, NEW u \in Users, NEW role \in Roles, WithProfile(u, role)
  PROVE  /\ officer' \in [Users -> Profile]
         /\ supervisor' \in [Users -> {"none", "live", "archived"}]
         /\ ProfilesStay
         /\ \A v \in Users : /\ supervisor[v] = "live" => supervisor'[v] = "live"
                             /\ supervisor'[v] = "archived" => supervisor[v] = "archived"
                             /\ officer'[v].deleted => officer[v].deleted
<1> DEFINE new == [employment |-> "ACTIVE", deleted |-> FALSE]
<1>1. new \in Profile /\ new # NoProfile /\ ~new.deleted
  <2>1. \A b \in BOOLEAN : [employment |-> "ACTIVE", deleted |-> b] \in Profile
    BY DEF Profile, Employments
  <2> QED
    BY <2>1 DEF NoProfile
<1>2. officer' = officer \/ officer' = [officer EXCEPT ![u] = new]
  BY DEF WithProfile
<1>3. supervisor' = supervisor \/ supervisor' = [supervisor EXCEPT ![u] = "live"]
  BY DEF WithProfile
<1> HIDE DEF new
<1> QED
  BY <1>1, <1>2, <1>3 DEF RowTypes, ProfilesStay

(* The rows after a write that closes no relation. *)
LEMMA CreateKeeps ==
  ASSUME TInv, NEW h \in Handlers, Create(h)
  PROVE  TInv' /\ (StaffInv => StaffInv')
<1>t. RowTypes /\ RowsNamed
  BY TypesOf
<1>1. PICK u \in Users, role \in Roles :
        /\ user[u].status = "ABSENT"
        /\ user' = [user EXCEPT ![u].role = role, ![u].status = "ACTIVE"]
        /\ \/ WithProfile(u, role)
           \/ /\ \E e \in Employments :
                   officer' = [officer EXCEPT ![u] = [NoProfile EXCEPT !.employment = e]]
              /\ UNCHANGED supervisor
  BY DEF Create
<1>2. Written(h) /\ UNCHANGED <<relation, unseated>> /\ requests' \in 0..MaxRequests
  <2>1. requests' = requests + 1 /\ requests < MaxRequests
    BY DEF Create, Request
  <2> QED
    BY <2>1, StaffAssumption DEF Create, TInv, TypeOK
<1>3. /\ user' \in [Users -> UserRow] /\ user'[u].deleted = user[u].deleted
      /\ \A v \in Users \ {u} : user'[v] = user[v]
  BY <1>1, <1>t DEF RowTypes, UserRow, Statuses
<1>4. /\ officer' \in [Users -> Profile]
      /\ supervisor' \in [Users -> {"none", "live", "archived"}]
      /\ ProfilesStay
      /\ \A v \in Users : /\ supervisor[v] = "live" => supervisor'[v] = "live"
                          /\ supervisor'[v] = "archived" => supervisor[v] = "archived"
                          /\ officer'[v].deleted => officer[v].deleted
  <2>1. CASE WithProfile(u, role)
    BY <1>t, <2>1, ProfileMade
  <2>2. CASE /\ \E e \in Employments :
                  officer' = [officer EXCEPT ![u] = [NoProfile EXCEPT !.employment = e]]
             /\ UNCHANGED supervisor
    <3>1. PICK e \in Employments :
            officer' = [officer EXCEPT ![u] = [NoProfile EXCEPT !.employment = e]]
      BY <2>2
    <3> DEFINE new == [NoProfile EXCEPT !.employment = e]
    <3>2. new \in Profile /\ new # NoProfile /\ ~new.deleted
      <4>1. NoProfile \in Profile /\ NoProfile.employment = "NONE" /\ ~NoProfile.deleted
        <5>1. \A b \in BOOLEAN : [employment |-> "NONE", deleted |-> b] \in Profile
          BY DEF Profile
        <5> QED
          BY <5>1 DEF NoProfile
      <4> QED
        BY <4>1 DEF Profile, Employments
    <3> HIDE DEF new
    <3> QED
      BY <1>t, <2>2, <3>1, <3>2 DEF RowTypes, ProfilesStay, new
  <2> QED
    BY <1>1, <2>1, <2>2
<1>5. RelationsEnd
  BY <1>2 DEF RelationsEnd
<1>6. TInv'
  BY <1>t, <1>2, <1>3, <1>4, <1>5, NamesStay, WriteTypes DEF RowTypes
<1>7. ASSUME StaffInv PROVE StaffInv'
  <2>1. raced => raced'
    BY <1>2, WrittenJobs
  <2>2. AdministratorRemains'
    BY <1>1, <1>2, <1>3, <1>7, <2>1 DEF StaffInv, AdministratorRemains, Seated
  <2>3. raced' \/ (OneSupervisorPerOfficer' /\ ArchivedSupervisorHasNoOfficer')
    BY <1>4, <1>5, <1>7, <2>1, <1>t, SupervisionStays DEF RowsNamed, RelationsEnd
  <2>4. ArchivedProfileEndsAccount'
    BY <1>3, <1>4, <1>7 DEF StaffInv, ArchivedProfileEndsAccount
  <2> QED
    BY <1>2, <2>2, <2>3, <2>4, WrittenStands DEF StaffInv
<1> QED
  BY <1>6, <1>7

(* An account whose role or status is written.  The last administrator is  *)
(* not unseated, because another was counted and no write came between.    *)
LEMMA AccountKeeps ==
  ASSUME TInv, NEW h \in Handlers, RoleWrite(h) \/ StatusWrite(h)
  PROVE  TInv' /\ (StaffInv => StaffInv')
<1>t. RowTypes /\ RowsNamed
  BY TypesOf
<1>u. PICK u \in Users : u = job[h].user
  BY JobOf DEF RoleWrite, StatusWrite, At, Means, OnAccount
<1>j. /\ job[h].op \in OnAccount /\ job[h].step = "write"
      /\ job[h].op = "role" => job[h].to \in Roles
      /\ job[h].op = "status" => job[h].to \in {"ACTIVE", "SUSPENDED", "DISABLED"}
      /\ job[h].op = "remove" => job[h].to = "ARCHIVED"
  BY JobOf DEF RoleWrite, StatusWrite, At, Means, OnAccount
<1>1. Written(h) /\ UNCHANGED <<relation, unseated>> /\ requests' \in 0..MaxRequests
  BY DEF RoleWrite, StatusWrite, TInv, TypeOK
<1>2. /\ user' \in [Users -> UserRow] /\ (user[u].deleted => user'[u].deleted)
      /\ \A v \in Users \ {u} : user'[v] = user[v]
      /\ Seated(u) /\ ~Ends(job[h].op, job[h].to) => Seated(u)'
  <2>1. CASE RoleWrite(h)
    <3>1. user' = [user EXCEPT ![u].role = job[h].to] /\ job[h].op = "role"
      BY <1>u, <2>1 DEF RoleWrite, At
    <3>2. /\ user' \in [Users -> UserRow] /\ user'[u].deleted = user[u].deleted
          /\ user'[u].status = user[u].status /\ user'[u].role = job[h].to
          /\ \A v \in Users \ {u} : user'[v] = user[v]
      BY <1>t, <1>j, <3>1 DEF RowTypes, UserRow
    <3> QED
      BY <3>1, <3>2 DEF Ends, Seated
  <2>2. CASE StatusWrite(h)
    <3> DEFINE c == job[h].op = "remove"
    <3>1. job[h].to \in Statuses /\ c \in BOOLEAN /\ job[h].op \in {"status", "remove"}
      BY <1>j, <2>2 DEF StatusWrite, Statuses
    <3>2. user' = [user EXCEPT ![u].status = job[h].to, ![u].deleted = @ \/ c]
      BY <1>u, <2>2 DEF StatusWrite
    <3>3. ~c => job[h].op = "status"
      BY <3>1
    <3>4. c => Ends(job[h].op, job[h].to)
      BY DEF Ends
    <3> HIDE DEF c
    <3>5. /\ user' \in [Users -> UserRow] /\ user'[u].role = user[u].role
          /\ user'[u].status = job[h].to /\ (user'[u].deleted <=> user[u].deleted \/ c)
          /\ \A v \in Users \ {u} : user'[v] = user[v]
      BY <1>t, <1>j, <3>1, <3>2, AccountDeleted DEF RowTypes
    <3>6. ~Ends(job[h].op, job[h].to) => job[h].to = "ACTIVE" /\ ~c
      BY <1>j, <3>3, <3>4 DEF Ends
    <3> QED
      BY <3>5, <3>6 DEF Seated
  <2> QED
    BY <2>1, <2>2
<1>3. /\ officer' \in [Users -> Profile]
      /\ supervisor' \in [Users -> {"none", "live", "archived"}]
      /\ ProfilesStay
      /\ \A v \in Users : /\ supervisor[v] = "live" => supervisor'[v] = "live"
                          /\ supervisor'[v] = "archived" => supervisor[v] = "archived"
                          /\ officer'[v].deleted => officer[v].deleted
  <2>1. CASE RoleWrite(h)
    BY <1>t, <1>u, <1>j, <2>1, ProfileMade DEF RoleWrite, At
  <2>2. CASE StatusWrite(h)
    BY <1>t, <2>2 DEF StatusWrite, RowTypes, ProfilesStay
  <2> QED
    BY <2>1, <2>2
<1>4. RelationsEnd
  BY <1>1 DEF RelationsEnd
<1>5. TInv'
  BY <1>t, <1>1, <1>2, <1>3, <1>4, NamesStay, WriteTypes DEF RowTypes
<1>6. ASSUME StaffInv PROVE StaffInv'
  <2>1. raced' <=> raced \/ job[h].stale
    BY <1>1, WrittenJobs
  <2>2. AdministratorRemains'
    <3>1. CASE raced' \/ unseated'
      BY <3>1 DEF AdministratorRemains
    <3>2. CASE ~raced' /\ ~unseated'
      <4>1. PICK v \in Users : Seated(v)
        BY <1>1, <1>6, <2>1, <3>2 DEF StaffInv, AdministratorRemains
      <4>2. AccountStands(job[h])
        BY <1>6 DEF StaffInv
      <4>3. Seated(u) /\ Ends(job[h].op, job[h].to) => \E w \in Users \ {u} : Seated(w)
        BY <1>u, <1>j, <2>1, <3>2, <4>2 DEF AccountStands
      <4>4. \A w \in Users \ {u} : Seated(w) => Seated(w)'
        BY <1>2 DEF Seated
      <4> QED
        BY <1>2, <1>j, <4>1, <4>3, <4>4 DEF AdministratorRemains
    <3> QED
      BY <3>1, <3>2
  <2>3. raced' \/ (OneSupervisorPerOfficer' /\ ArchivedSupervisorHasNoOfficer')
    BY <1>3, <1>4, <1>6, <2>1, <1>1, <1>t, SupervisionStays DEF RowsNamed, RelationsEnd
  <2>4. ArchivedProfileEndsAccount'
    BY <1>2, <1>3, <1>6 DEF StaffInv, ArchivedProfileEndsAccount
  <2> QED
    BY <1>1, <2>2, <2>3, <2>4, WrittenStands DEF StaffInv
<1> QED
  BY <1>5, <1>6

(* An account that ends, or is put at another status, by way of a profile. *)
LEMMA EndKeeps ==
  ASSUME TInv, NEW h \in Handlers, Written(h),
         NEW u \in Users, NEW s \in Statuses, NEW c \in BOOLEAN, c => s # "ACTIVE",
         user' = [user EXCEPT ![u].status = s, ![u].deleted = @ \/ c], Unseats(u, s),
         requests' \in 0..MaxRequests,
         officer' \in [Users -> Profile],
         supervisor' \in [Users -> {"none", "live", "archived"}],
         relation' \in [Relations -> RelationRow],
         ProfilesStay, RelationsEnd,
         \A v \in Users : officer'[v].deleted \/ supervisor'[v] = "archived" =>
           officer[v].deleted \/ supervisor[v] = "archived" \/ (v = u /\ c),
         \A r \in Relations : relation'[r].active =>
           (supervisor[relation[r].supervisor] = "live" =>
             supervisor'[relation[r].supervisor] = "live")
  PROVE  TInv' /\ (StaffInv => StaffInv')
<1>t. RowTypes /\ RowsNamed
  BY TypesOf
<1>1. /\ user' \in [Users -> UserRow]
      /\ user'[u].role = user[u].role /\ user'[u].status = s
      /\ user'[u].deleted <=> user[u].deleted \/ c
      /\ \A v \in Users \ {u} : user'[v] = user[v]
  BY <1>t, AccountDeleted DEF RowTypes
<1>2. /\ unseated' \in BOOLEAN
      /\ unseated' <=> unseated \/ (Seated(u) /\ s # "ACTIVE")
  <2> DEFINE b == unseated \/ (Seated(u) /\ s # "ACTIVE")
  <2>1. unseated' = b
    BY DEF Unseats
  <2>2. b \in BOOLEAN /\ (b <=> unseated \/ (Seated(u) /\ s # "ACTIVE"))
    OBVIOUS
  <2> HIDE DEF b
  <2> QED
    BY <2>1, <2>2
<1>3. TInv'
  BY <1>1, <1>2, NamesStay, WriteTypes DEF RowTypes
<1>4. ASSUME StaffInv PROVE StaffInv'
  <2>1. raced => raced'
    BY WrittenJobs
  <2>2. AdministratorRemains'
    <3>1. CASE raced' \/ unseated'
      BY <3>1 DEF AdministratorRemains
    <3>2. CASE ~raced' /\ ~unseated'
      <4>1. PICK v \in Users : Seated(v)
        BY <1>2, <1>4, <2>1, <3>2 DEF StaffInv, AdministratorRemains
      <4>2. Seated(v)'
        BY <1>1, <1>2, <3>2, <4>1 DEF Seated
      <4> QED
        BY <4>2 DEF AdministratorRemains
    <3> QED
      BY <3>1, <3>2
  <2>3. raced' \/ (OneSupervisorPerOfficer' /\ ArchivedSupervisorHasNoOfficer')
    BY <1>4, <2>1, SupervisionStays
  <2>4. ArchivedProfileEndsAccount'
    BY <1>1, <1>4 DEF StaffInv, ArchivedProfileEndsAccount
  <2> QED
    BY <2>2, <2>3, <2>4, WrittenStands DEF StaffInv
<1> QED
  BY <1>3, <1>4

(* A relation that is closed stays as it was but for that. *)
LEMMA ClosedRows ==
  ASSUME RowTypes, NEW rows, relation' = Closed(rows)
  PROVE  /\ relation' \in [Relations -> RelationRow] /\ RelationsEnd
         /\ \A r \in Relations : r \in rows => ~relation'[r].active
BY DEF RowTypes, Closed, RelationsEnd, RelationRow

LEMMA ProfileKeeps ==
  ASSUME TInv, NEW h \in Handlers,
         EmploymentWrite(h) \/ OfficerArchive(h) \/ SupervisorArchive(h)
  PROVE  TInv' /\ (StaffInv => StaffInv')
<1>t. RowTypes /\ RowsNamed
  BY TypesOf
<1>u. PICK u \in Users : u = job[h].user
  BY JobOf DEF EmploymentWrite, OfficerArchive, SupervisorArchive, At, Means
<1>w. Written(h) /\ requests' \in 0..MaxRequests
  BY <1>t DEF EmploymentWrite, OfficerArchive, SupervisorArchive, RowTypes
<1>p. ASSUME NEW e \in Employments, NEW b \in BOOLEAN
      PROVE  /\ [employment |-> e, deleted |-> b] \in Profile
             /\ [employment |-> e, deleted |-> b] # NoProfile
  BY DEF Profile, NoProfile, Employments
<1>1. CASE EmploymentWrite(h)
  <2>1. PICK e \in Employments : e = job[h].to
    BY <1>1, JobOf DEF EmploymentWrite, At, Means
  <2> DEFINE c == e = "ARCHIVED"
             b == officer[u].deleted \/ c
             new == [employment |-> e, deleted |-> b]
  <2>2. /\ user' = [user EXCEPT ![u].status = AccountOf(e), ![u].deleted = @ \/ c]
        /\ officer' = [officer EXCEPT ![u] = new]
        /\ Unseats(u, AccountOf(e)) /\ UNCHANGED <<supervisor, relation>>
    BY <1>1, <1>u, <2>1 DEF EmploymentWrite
  <2>3. c \in BOOLEAN /\ b \in BOOLEAN /\ (b <=> officer[u].deleted \/ c)
    OBVIOUS
  <2>4. AccountOf(e) \in Statuses /\ (c => AccountOf(e) # "ACTIVE")
    BY DEF AccountOf, Employments, Statuses
  <2> HIDE DEF c, b
  <2>5. new \in Profile /\ new # NoProfile /\ new.deleted = b
    BY <1>p, <2>3
  <2> HIDE DEF new
  <2>6. officer' \in [Users -> Profile] /\ ProfilesStay
    BY <1>t, <2>2, <2>5 DEF RowTypes, ProfilesStay
  <2>7. \A v \in Users : officer'[v].deleted \/ supervisor'[v] = "archived" =>
          officer[v].deleted \/ supervisor[v] = "archived" \/ (v = u /\ c)
    BY <1>t, <2>2, <2>3, <2>5 DEF RowTypes
  <2> DEFINE s == AccountOf(e)
  <2> HIDE DEF s
  <2>8. /\ s \in Statuses /\ (c => s # "ACTIVE") /\ Unseats(u, s)
        /\ user' = [user EXCEPT ![u].status = s, ![u].deleted = @ \/ c]
    BY <2>2, <2>4 DEF s
  <2> QED
    BY <1>t, <1>w, <2>2, <2>3, <2>6, <2>7, <2>8, EndKeeps DEF RowTypes, RelationsEnd
<1>e. ASSUME user' = [user EXCEPT ![u].status = "ARCHIVED", ![u].deleted = TRUE],
             Unseats(u, "ARCHIVED"),
             officer' \in [Users -> Profile],
             supervisor' \in [Users -> {"none", "live", "archived"}],
             relation' \in [Relations -> RelationRow],
             ProfilesStay, RelationsEnd,
             \A v \in Users : officer'[v].deleted \/ supervisor'[v] = "archived" =>
               officer[v].deleted \/ supervisor[v] = "archived" \/ v = u,
             \A r \in Relations : relation'[r].active =>
               (supervisor[relation[r].supervisor] = "live" =>
                 supervisor'[relation[r].supervisor] = "live")
      PROVE  TInv' /\ (StaffInv => StaffInv')
  <2>1. ASSUME NEW b \in BOOLEAN PROVE (b \/ TRUE) = TRUE
    OBVIOUS
  <2>2. [user EXCEPT ![u].status = "ARCHIVED"][u].deleted \in BOOLEAN
    BY <1>t DEF RowTypes, UserRow
  <2>3. user' = [user EXCEPT ![u].status = "ARCHIVED", ![u].deleted = @ \/ TRUE]
    BY <1>e
  <2>4. "ARCHIVED" \in Statuses
    BY DEF Statuses
  <2> QED
    BY <1>e, <1>w, <2>3, <2>4, EndKeeps
<1>2. CASE OfficerArchive(h)
  <2>1. /\ user' = [user EXCEPT ![u].status = "ARCHIVED", ![u].deleted = TRUE]
        /\ officer' = [officer EXCEPT ![u] = [employment |-> "ARCHIVED", deleted |-> TRUE]]
        /\ relation' = Closed({r \in Relations : relation[r].officer = u})
        /\ Unseats(u, "ARCHIVED") /\ UNCHANGED supervisor
    BY <1>2, <1>u DEF OfficerArchive
  <2>2. relation' \in [Relations -> RelationRow] /\ RelationsEnd
    BY <1>t, <2>1, ClosedRows
  <2>3. officer' \in [Users -> Profile] /\ ProfilesStay
    BY <1>t, <1>p, <2>1 DEF RowTypes, ProfilesStay, Employments
  <2> QED
    BY <1>e, <1>t, <2>1, <2>2, <2>3 DEF RowTypes
<1>3. CASE SupervisorArchive(h)
  <2>1. /\ user' = [user EXCEPT ![u].status = "ARCHIVED", ![u].deleted = TRUE]
        /\ supervisor' = [supervisor EXCEPT ![u] = "archived"]
        /\ relation' = Closed({r \in Relations : relation[r].supervisor = u})
        /\ Unseats(u, "ARCHIVED") /\ UNCHANGED officer
    BY <1>3, <1>u DEF SupervisorArchive
  <2> DEFINE rows == {r \in Relations : relation[r].supervisor = u}
  <2>2. /\ relation' \in [Relations -> RelationRow] /\ RelationsEnd
        /\ \A r \in Relations : r \in rows => ~relation'[r].active
    BY <1>t, <2>1, ClosedRows
  <2>3. /\ supervisor' \in [Users -> {"none", "live", "archived"}]
        /\ officer' \in [Users -> Profile] /\ ProfilesStay
    BY <1>t, <2>1 DEF RowTypes, ProfilesStay
  <2>4. \A r \in Relations : relation'[r].active =>
          (supervisor[relation[r].supervisor] = "live" =>
            supervisor'[relation[r].supervisor] = "live")
    BY <1>t, <2>1, <2>2 DEF RowTypes, RowsNamed, RelationsEnd
  <2> QED
    BY <1>e, <1>t, <2>1, <2>2, <2>3, <2>4 DEF RowTypes
<1> QED
  BY <1>1, <1>2, <1>3

(* A relation that ends, by hand or in time, takes nothing away from what   *)
(* the others know.                                                        *)
LEMMA UnassignKeeps ==
  ASSUME TInv, NEW h \in Handlers, UnassignWrite(h)
  PROVE  TInv' /\ (StaffInv => StaffInv')
<1>t. RowTypes /\ RowsNamed
  BY TypesOf
<1>1. PICK q \in Relations : q = job[h].relation
  BY JobOf DEF UnassignWrite, At, Means
<1>2. /\ relation' = [relation EXCEPT ![q].active = FALSE] /\ Written(h)
      /\ UNCHANGED <<user, officer, supervisor, requests, unseated>>
  BY <1>1 DEF UnassignWrite
<1>3. relation' \in [Relations -> RelationRow] /\ RelationsEnd /\ ProfilesStay
  BY <1>t, <1>2 DEF RowTypes, RelationRow, RelationsEnd, ProfilesStay
<1>4. TInv'
  BY <1>t, <1>2, <1>3, NamesStay, WriteTypes DEF RowTypes
<1>5. ASSUME StaffInv PROVE StaffInv'
  <2>1. raced => raced'
    BY <1>2, WrittenJobs
  <2>2. raced' \/ (OneSupervisorPerOfficer' /\ ArchivedSupervisorHasNoOfficer')
    BY <1>2, <1>3, <1>5, <2>1, SupervisionStays
  <2>3. AdministratorRemains' /\ ArchivedProfileEndsAccount'
    BY <1>2, <1>5, <2>1
       DEF StaffInv, AdministratorRemains, ArchivedProfileEndsAccount, Seated
  <2> QED
    BY <1>2, <2>2, <2>3, WrittenStands DEF StaffInv
<1> QED
  BY <1>4, <1>5

LEMMA LapseKeeps ==
  ASSUME TInv, NEW q \in Relations, Lapse(q)
  PROVE  TInv' /\ (StaffInv => StaffInv')
<1>t. RowTypes /\ RowsNamed
  BY TypesOf
<1>2. /\ relation' = [relation EXCEPT ![q].active = FALSE]
      /\ UNCHANGED <<user, officer, supervisor, job, requests, raced, unseated>>
  BY DEF Lapse
<1>3. relation' \in [Relations -> RelationRow] /\ RelationsEnd /\ ProfilesStay
  BY <1>t, <1>2 DEF RowTypes, RelationRow, RelationsEnd, ProfilesStay
<1>4. TInv'
  <2>1. RowsNamed'
    BY <1>3, NamesStay
  <2>2. TypeOK'
    BY <1>2, <1>3 DEF TInv, TypeOK
  <2>3. \A h \in Handlers : Means(job[h])'
    BY <1>2 DEF TInv, Means
  <2> QED
    BY <1>2, <2>1, <2>2, <2>3 DEF TInv, RelationsNamed, RowsNamed, At
<1>5. ASSUME StaffInv PROVE StaffInv'
  <2>2. raced' \/ (OneSupervisorPerOfficer' /\ ArchivedSupervisorHasNoOfficer')
    BY <1>2, <1>3, <1>5, SupervisionStays
  <2>3. AdministratorRemains' /\ ArchivedProfileEndsAccount'
    BY <1>2, <1>5 DEF StaffInv, AdministratorRemains, ArchivedProfileEndsAccount, Seated
  <2>4. \A o : Related(o)' => Related(o)
    BY <1>3 DEF Related, RelationsEnd
  <2>5. \A h \in Handlers : AccountStands(job[h])' /\ SupervisionStands(job[h])'
    BY <1>2, <1>5, <2>4 DEF StaffInv, AccountStands, SupervisionStands, Seated, Related
  <2> QED
    BY <2>2, <2>3, <2>5 DEF StaffInv
<1> QED
  BY <1>4, <1>5

(* The rows that are created are of officers who had none, if no write      *)
(* came between, and of one live supervisor.                               *)
LEMMA AssignKeeps ==
  ASSUME TInv, NEW h \in Handlers, AssignWrite(h)
  PROVE  TInv' /\ (StaffInv => StaffInv')
<1>t. RowTypes /\ RowsNamed
  BY TypesOf
<1> DEFINE u == job[h].user
           os == job[h].officers
<1>u. u \in Users /\ os \in SUBSET Users
  BY JobOf DEF AssignWrite, At, Means, Job
<1>n. PICK new \in [os -> Unused] :
        relation' = [r \in Relations |->
          IF \E o \in os : new[o] = r
            THEN [supervisor |-> u, active |-> TRUE, officer |-> CHOOSE o \in os : new[o] = r]
            ELSE relation[r]]
  BY Zenon DEF AssignWrite
<1> DEFINE who(r) == CHOOSE o \in os : new[o] = r
<1>w. \A r \in Relations : (\E o \in os : new[o] = r) => who(r) \in os /\ new[who(r)] = r
  OBVIOUS
<1>1. relation' = [r \in Relations |->
        IF \E o \in os : new[o] = r
          THEN [supervisor |-> u, active |-> TRUE, officer |-> who(r)]
          ELSE relation[r]]
  BY <1>n, Zenon
<1> HIDE DEF who
<1>2. /\ Written(h) /\ UNCHANGED <<user, officer, supervisor, requests, unseated>>
      /\ job[h].op = "assign" /\ job[h].step = "write"
  BY DEF AssignWrite, At
<1>3. \A r \in Relations :
        \/ relation'[r] = relation[r]
        \/ /\ relation'[r].supervisor = u /\ relation'[r].active /\ relation'[r] \in RelationRow
           /\ relation'[r].officer \in os /\ new[relation'[r].officer] = r
  <2> SUFFICES ASSUME NEW r \in Relations, NEW o \in os, new[o] = r
               PROVE  /\ relation'[r].supervisor = u /\ relation'[r].active
                      /\ relation'[r] \in RelationRow
                      /\ relation'[r].officer \in os /\ new[relation'[r].officer] = r
    BY <1>1
  <2>1. who(r) \in os /\ new[who(r)] = r
    BY <1>w
  <2>2. relation'[r] = [supervisor |-> u, active |-> TRUE, officer |-> who(r)]
    BY <1>1
  <2>3. PICK b \in BOOLEAN : b = TRUE
    OBVIOUS
  <2>4. relation'[r] = [supervisor |-> u, active |-> b, officer |-> who(r)]
    BY <2>2, <2>3
  <2>5. relation'[r] \in RelationRow
    BY <1>u, <2>1, <2>4 DEF RelationRow
  <2> QED
    BY <2>1, <2>3, <2>4, <2>5
<1>4. relation' \in [Relations -> RelationRow]
  BY <1>t, <1>1, <1>3 DEF RowTypes
<1>5. \A o \in os : officer[o] # NoProfile
  BY <1>2 DEF TInv, RelationsNamed, At
<1>6. RowsNamed' /\ ProfilesStay
  BY <1>t, <1>u, <1>2, <1>3, <1>5 DEF RowsNamed, ProfilesStay
<1>7. TInv'
  BY <1>t, <1>2, <1>4, <1>6, WriteTypes DEF RowTypes
<1>8. ASSUME StaffInv PROVE StaffInv'
  <2>1. raced' <=> raced \/ job[h].stale
    BY <1>2, WrittenJobs
  <2>2. raced' \/ (OneSupervisorPerOfficer' /\ ArchivedSupervisorHasNoOfficer')
    <3> SUFFICES ASSUME ~raced'
                 PROVE  OneSupervisorPerOfficer' /\ ArchivedSupervisorHasNoOfficer'
      OBVIOUS
    <3>1. supervisor[u] = "live" /\ \A o \in os : ~Related(o)
      BY <1>u, <1>2, <1>8, <2>1 DEF StaffInv, SupervisionStands
    <3>2. OneSupervisorPerOfficer /\ ArchivedSupervisorHasNoOfficer
      BY <1>8, <2>1 DEF StaffInv
    <3>3. ArchivedSupervisorHasNoOfficer'
      BY <1>2, <1>3, <3>1, <3>2 DEF ArchivedSupervisorHasNoOfficer
    <3>4. OneSupervisorPerOfficer'
      BY <1>3, <3>1, <3>2 DEF OneSupervisorPerOfficer, Related
    <3> QED
      BY <3>3, <3>4
  <2>3. AdministratorRemains' /\ ArchivedProfileEndsAccount'
    BY <1>2, <1>8, <2>1
       DEF StaffInv, AdministratorRemains, ArchivedProfileEndsAccount, Seated
  <2> QED
    BY <1>2, <2>2, <2>3, WrittenStands DEF StaffInv
<1> QED
  BY <1>7, <1>8

-----------------------------------------------------------------------------
LEMMA Begins ==
  ASSUME Init
  PROVE  TInv /\ StaffInv
<1>1. PICK role \in [Users -> Roles], there \in SUBSET Users :
        /\ \E u \in there : role[u] = "ADMINISTRATOR"
        /\ user = [u \in Users |->
             [role |-> role[u], status |-> IF u \in there THEN "ACTIVE" ELSE "ABSENT",
              deleted |-> FALSE]]
        /\ officer = [u \in Users |->
             IF u \in there /\ role[u] = "SECURITY_OFFICER"
               THEN [NoProfile EXCEPT !.employment = "ACTIVE"] ELSE NoProfile]
        /\ supervisor = [u \in Users |->
             IF u \in there /\ role[u] = "SUPERVISOR" THEN "live" ELSE "none"]
  BY DEF Init
<1>2. /\ relation = [r \in Relations |->
                       [supervisor |-> NoUser, officer |-> NoUser, active |-> FALSE]]
      /\ job = [h \in Handlers |-> Idle]
      /\ requests = 0 /\ raced = FALSE /\ unseated = FALSE
  BY DEF Init
<1>b. PICK no \in BOOLEAN : no = FALSE
  OBVIOUS
<1>3. user \in [Users -> UserRow] /\ \A u \in Users : ~user[u].deleted
  <2>1. \A u \in Users :
          user[u] = [role |-> role[u], status |-> IF u \in there THEN "ACTIVE" ELSE "ABSENT",
                     deleted |-> no]
    BY <1>1, <1>b
  <2>2. ASSUME NEW u \in Users PROVE user[u] \in UserRow /\ ~user[u].deleted
    <3>1. PICK s \in {"ACTIVE", "ABSENT"} :
            user[u] = [role |-> role[u], status |-> s, deleted |-> no]
      BY <2>1
    <3> QED
      BY <1>b, <3>1 DEF UserRow, Statuses
  <2> QED
    BY <1>1, <2>2
<1>4. officer \in [Users -> Profile] /\ \A u \in Users : ~officer[u].deleted
  <2>1. NoProfile \in Profile /\ ~NoProfile.deleted
    <3>1. NoProfile = [employment |-> "NONE", deleted |-> no]
      BY <1>b DEF NoProfile
    <3> QED
      BY <1>b, <3>1 DEF Profile
  <2> DEFINE new == [NoProfile EXCEPT !.employment = "ACTIVE"]
  <2>2. new \in Profile /\ ~new.deleted
    BY <2>1 DEF Profile, Employments
  <2>3. officer = [u \in Users |->
          IF u \in there /\ role[u] = "SECURITY_OFFICER" THEN new ELSE NoProfile]
    BY <1>1
  <2> HIDE DEF new
  <2> QED
    BY <2>1, <2>2, <2>3
<1>5. supervisor \in [Users -> {"none", "live", "archived"}]
      /\ \A u \in Users : supervisor[u] # "archived"
  BY <1>1
<1>6. relation \in [Relations -> RelationRow] /\ \A r \in Relations : ~relation[r].active
  <2>1. \A r \in Relations :
          relation[r] = [supervisor |-> NoUser, officer |-> NoUser, active |-> no]
    BY <1>2, <1>b
  <2>2. \A r \in Relations : relation[r] \in RelationRow /\ ~relation[r].active
    BY <1>b, <2>1 DEF RelationRow
  <2> QED
    BY <1>2, <2>2
<1>7. job \in [Handlers -> Job] /\ \A h \in Handlers : job[h] = Idle
  BY <1>2, IdleJob
<1>8. TInv
  <2>0. requests \in 0..MaxRequests
    BY <1>2, StaffAssumption
  <2>1. TypeOK
    BY <1>2, <1>3, <1>4, <1>5, <1>6, <1>7, <2>0, Zenon DEF TypeOK
  <2> QED
    BY <1>6, <1>7, <2>1, IdleJob DEF TInv, RelationsNamed, At
<1>9. StaffInv
  <2>1. AdministratorRemains
    <3>1. PICK u \in there : role[u] = "ADMINISTRATOR"
      BY <1>1
    <3>2. u \in Users /\ user[u].role = "ADMINISTRATOR" /\ user[u].status = "ACTIVE"
      BY <1>1, <3>1
    <3> QED
      BY <1>3, <3>2 DEF AdministratorRemains, Seated
  <2>2. OneSupervisorPerOfficer /\ ArchivedSupervisorHasNoOfficer
    BY <1>6 DEF OneSupervisorPerOfficer, ArchivedSupervisorHasNoOfficer
  <2>3. ArchivedProfileEndsAccount
    BY <1>4, <1>5 DEF ArchivedProfileEndsAccount
  <2>4. \A h \in Handlers : AccountStands(job[h]) /\ SupervisionStands(job[h])
    BY <1>7, IdleJob DEF AccountStands, SupervisionStands, OnAccount
  <2> QED
    BY <2>1, <2>2, <2>3, <2>4 DEF StaffInv
<1> QED
  BY <1>8, <1>9

LEMMA Steps ==
  ASSUME TInv, [Next]_vars
  PROVE  TInv' /\ (StaffInv => StaffInv')
<1>1. CASE UNCHANGED vars
  <2>1. TInv'
    BY <1>1 DEF TInv, vars, TypeOK, RelationsNamed, At, Means
  <2>2. \A h \in Handlers : StaffInv => AccountStands(job[h])' /\ SupervisionStands(job[h])'
    BY <1>1 DEF StaffInv, vars, AccountStands, SupervisionStands, Seated, Related
  <2> QED
    BY <1>1, <2>1, <2>2
       DEF vars, StaffInv, AdministratorRemains, Seated, OneSupervisorPerOfficer,
           ArchivedSupervisorHasNoOfficer, ArchivedProfileEndsAccount
<1>2. ASSUME NEW h \in Handlers,
             Admitted(h) \/ ProfileFind(h) \/ AssignFind(h) \/ UnassignFind(h)
      PROVE  TInv' /\ (StaffInv => StaffInv')
  BY <1>2, FirstReads
<1>3. ASSUME NEW h \in Handlers, AccountFind(h) \/ Count(h) \/ AssignCheck(h)
      PROVE  TInv' /\ (StaffInv => StaffInv')
  BY <1>3, AccountReads, AssignReads
<1>4. ASSUME NEW h \in Handlers, Create(h) \/ RoleWrite(h) \/ StatusWrite(h)
      PROVE  TInv' /\ (StaffInv => StaffInv')
  BY <1>4, CreateKeeps, AccountKeeps
<1>5. ASSUME NEW h \in Handlers,
             EmploymentWrite(h) \/ OfficerArchive(h) \/ SupervisorArchive(h)
      PROVE  TInv' /\ (StaffInv => StaffInv')
  BY <1>5, ProfileKeeps
<1>6. ASSUME NEW h \in Handlers, AssignWrite(h) \/ UnassignWrite(h)
      PROVE  TInv' /\ (StaffInv => StaffInv')
  BY <1>6, AssignKeeps, UnassignKeeps
<1>7. ASSUME NEW r \in Relations, Lapse(r)
      PROVE  TInv' /\ (StaffInv => StaffInv')
  BY <1>7, LapseKeeps
<1> QED
  BY <1>1, <1>2, <1>3, <1>4, <1>5, <1>6, <1>7 DEF Next

(* Whatever the requests that overlap, the inductive invariant stands.     *)
THEOREM Inductive == Spec => [](TInv /\ StaffInv)
<1>1. Init => TInv /\ StaffInv
  BY Begins
<1>2. TInv /\ StaffInv /\ [Next]_vars => TInv' /\ StaffInv'
  BY Steps
<1> QED
  BY <1>1, <1>2, PTL DEF Spec

(* Every row, every profile and all that a handler has read has its type.  *)
THEOREM TypeCorrect == Spec => []TypeOK
<1>1. TInv => TypeOK
  BY DEF TInv
<1> QED
  BY <1>1, Inductive, PTL

(* The organisation keeps an active administrator, for any number of       *)
(* administrators who end each other's accounts, unless a write came       *)
(* between a request's count and its write or went by way of a profile.    *)
THEOREM Remains == Spec => []AdministratorRemains
<1>1. StaffInv => AdministratorRemains
  BY DEF StaffInv
<1> QED
  BY <1>1, Inductive, PTL

(* An officer has at most one active supervisor, and a live one, unless a  *)
(* write came between what a request read and wrote.                       *)
THEOREM Supervision == Spec => []SupervisionKept
<1>1. TInv /\ StaffInv => SupervisionKept
  BY DEF TInv, StaffInv, SupervisionKept
<1> QED
  BY <1>1, Inductive, PTL

(* Who has an archived profile has a deleted account, whatever overlaps.   *)
THEOREM Archived == Spec => []ArchivedProfileEndsAccount
<1>1. StaffInv => ArchivedProfileEndsAccount
  BY DEF StaffInv
<1> QED
  BY <1>1, Inductive, PTL

-----------------------------------------------------------------------------
(* Who is shown what.  A role's permissions, where one service asks for one *)
(* and another service for another.                                        *)
LEMMA Rights ==
  ASSUME TInv, NEW u \in Users
  PROVE  /\ user[u].role \in Roles
         /\ Is(u, "SECURITY_OFFICER") => \A p : Can(u, p) <=> p \in OfficerPermissions
         /\ Is(u, "SUPERVISOR") => \A p : Can(u, p) <=> p \in SupervisorPermissions
         /\ Is(u, "ADMINISTRATOR") => \A p : Can(u, p) <=> p \in AdministratorPermissions
<1>1. user[u].role \in Roles
  BY DEF TInv, TypeOK, UserRow
<1>2. Permissions["SECURITY_OFFICER"] = OfficerPermissions
  BY DEF Permissions
<1>3. Permissions["SUPERVISOR"] = SupervisorPermissions
  BY DEF Permissions
<1>4. Permissions["ADMINISTRATOR"] = AdministratorPermissions
  BY DEF Permissions
<1> QED
  BY <1>1, <1>2, <1>3, <1>4 DEF Can, Is

(* What officers have, supervisors have; what those have, administrators.  *)
LEMMA Ranked ==
  OfficerPermissions \subseteq SupervisorPermissions
    /\ SupervisorPermissions \subseteq AdministratorPermissions
BY DEF SupervisorPermissions, AdministratorPermissions

(* The team of the lists is the link of the single reads. *)
LEMMA TeamLinked ==
  ASSUME NEW u, NEW o
  PROVE  o \in Team(u) <=> Linked(u, o)
BY DEF Team, Linked

(* What no officer may: the lists of others, decisions and reports.        *)
LEMMA OnlyAbove ==
  ASSUME TInv, NEW u \in Users, Is(u, "SECURITY_OFFICER")
  PROVE  /\ \A p \in {"assignment:read", "attendance:read", "attendance:review", "break:read",
                      "patrol-assignment:read", "patrol-assignment:review", "patrol-visit:read",
                      "patrol-visit:override", "incident:manage", "incident:read",
                      "incident:read:assigned", "incident:update", "officer:read",
                      "supervisor:read", "site:read", "shift:read", "client:read",
                      "report:read", "device:read", "evidence:read", "evidence:manage"} :
              ~Can(u, p)
         /\ \A p \in {"officer:read:self", "device:read:self", "shift:read:self",
                      "assignment:read:self", "attendance:read:self", "break:read:self",
                      "patrol-route:read", "patrol-checkpoint:read",
                      "patrol-assignment:read:self", "patrol-visit:read:self",
                      "incident:create:self", "incident:read:self"} : Can(u, p)
BY Rights DEF OfficerPermissions

(* What every supervisor and every administrator may.                      *)
LEMMA Above ==
  ASSUME TInv, NEW u \in Users, ~Is(u, "SECURITY_OFFICER")
  PROVE  \A p \in {"assignment:read", "attendance:read", "attendance:review", "break:read",
                   "patrol-assignment:read", "patrol-assignment:review", "patrol-visit:read",
                   "incident:read", "incident:read:assigned", "incident:update",
                   "incident:read:self", "officer:read", "supervisor:read", "site:read",
                   "shift:read", "report:read", "evidence:read", "emergency:read",
                   "emergency:manage", "support:read", "officer:read:self", "shift:read:self",
                   "assignment:read:self", "patrol-route:read", "patrol-checkpoint:read"} :
           Can(u, p)
BY Rights, Ranked DEF OfficerPermissions, SupervisorPermissions, Is, Roles

(* What only an administrator may. *)
LEMMA Topmost ==
  ASSUME TInv, NEW u \in Users
  PROVE  /\ \A p \in {"incident:manage", "attendance:correct", "patrol-visit:override",
                      "client:read", "device:read"} : Can(u, p) => Is(u, "ADMINISTRATOR")
         /\ Is(u, "SECURITY_OFFICER") \/ Is(u, "SUPERVISOR") \/ Is(u, "ADMINISTRATOR")
         /\ \A q, r \in Roles : Is(u, q) /\ Is(u, r) => q = r
BY Rights DEF OfficerPermissions, SupervisorPermissions, Is, Roles

LEMMA Listed ==
  ASSUME TInv, NEW u \in Users, NEW o \in Users, officer[o] # NoProfile,
         NEW named \in Filters, NEW wanted \in Filters
  PROVE  ListedOpens(u, o, named, wanted)
<1>t. \A p : p \in Team(u) <=> Linked(u, p)
  BY TeamLinked
<1>r. NoUser \notin Users /\ {"SECURITY_OFFICER", "SUPERVISOR", "ADMINISTRATOR"} = Roles
  BY StaffAssumption DEF Roles
<1>1. CASE Is(u, "SECURITY_OFFICER")
  <2>1. ~Is(u, "SUPERVISOR") /\ ~Is(u, "ADMINISTRATOR")
    BY <1>1 DEF Is
  <2>2. /\ ~AssignmentListed(u, o, named, wanted)
        /\ ~AttendanceListed(u, o, named, wanted, FALSE) /\ ~BreakListed(u, o, wanted)
        /\ ~PatrolListed(u, o, named, wanted) /\ ~VisitListed(u, o, wanted)
        /\ ~OfficerListed(u, o, wanted, FALSE)
    BY <1>1, OnlyAbove
       DEF AssignmentListed, AttendanceListed, BreakListed, PatrolListed, VisitListed,
           OfficerListed
  <2>3. IncidentListed(u, o, wanted, FALSE) => IncidentOpens(u, o, wanted)
    BY <1>1, <2>1, OnlyAbove DEF IncidentListed, IncidentScope, IncidentOpens
  <2> QED
    BY <2>2, <2>3 DEF ListedOpens
<1>2. CASE Is(u, "SUPERVISOR")
  <2>1. ~Is(u, "SECURITY_OFFICER") /\ ~Is(u, "ADMINISTRATOR")
    BY <1>2 DEF Is
  <2>2. OfTeamOrNamed(u, o, named, wanted) =>
          Supervises(u) /\ (named = u \/ Linked(u, o))
    BY <1>2, <1>t DEF OfTeamOrNamed
  <2>3. /\ AssignmentListed(u, o, named, wanted) => AssignmentOpens(u, o, named)
        /\ AttendanceListed(u, o, named, wanted, FALSE) =>
             AttendanceOpens(u, o, named) /\ AssignmentOpens(u, o, named)
        /\ BreakListed(u, o, wanted) => BreakOpens(u, o) /\ AttendanceOpens(u, o, named)
    BY <1>2, <2>1, <2>2, Above
       DEF AssignmentListed, AssignmentOpens, AttendanceListed, AttendanceOpens,
           BreakListed, BreakOpens
  <2>4. /\ PatrolListed(u, o, named, wanted) => PatrolOpens(u, o) \/ named = u
        /\ VisitListed(u, o, wanted) => VisitOpens(u, o)
    BY <1>2, <1>t, <2>2 DEF PatrolListed, PatrolOpens, VisitListed, VisitOpens
  <2>5. OfficerListed(u, o, wanted, FALSE) => OfficerOpens(u, o)
    BY <1>2, <1>t, <2>1 DEF OfficerListed, OfficerOpens, HasOfficer
  <2>6. IncidentListed(u, o, wanted, FALSE) => IncidentOpens(u, o, wanted)
    BY <1>2, <1>t, <2>1, Above, Topmost DEF IncidentListed, IncidentScope, IncidentOpens
  <2> QED
    BY <2>3, <2>4, <2>5, <2>6 DEF ListedOpens
<1>3. CASE Is(u, "ADMINISTRATOR")
  <2>1. ~Is(u, "SECURITY_OFFICER") /\ ~Is(u, "SUPERVISOR")
    BY <1>3 DEF Is
  <2>2. /\ AssignmentOpens(u, o, named) /\ AttendanceOpens(u, o, named)
        /\ BreakOpens(u, o) /\ PatrolOpens(u, o) /\ VisitOpens(u, o)
    BY <2>1, Above DEF AssignmentOpens, AttendanceOpens, BreakOpens, PatrolOpens, VisitOpens
  <2>3. OfficerListed(u, o, wanted, FALSE) => OfficerOpens(u, o)
    BY <1>3, <2>1 DEF OfficerListed, OfficerOpens, HasOfficer
  <2>4. IncidentOpens(u, o, wanted)
    BY <1>3 DEF IncidentOpens
  <2> QED
    BY <2>2, <2>3, <2>4 DEF ListedOpens
<1> QED
  BY <1>1, <1>2, <1>3, Topmost

LEMMA Counted ==
  ASSUME TInv, NEW u \in Users, NEW o \in Users, NEW named \in Filters
  PROVE  CountedListed(u, o, named)
<1>1. CASE Is(u, "SECURITY_OFFICER")
  BY <1>1, OnlyAbove
     DEF CountedListed, AttendanceCounted, PatrolCounted, EmergencyCounted, IncidentCounted,
         SupportCounted, OfficerScope
<1>2. CASE ~Is(u, "SECURITY_OFFICER")
  <2>1. o \in Team(u) => Supervises(u)
    BY DEF Team
  <2>2. OfficerScope(u, o) => OfTeamOrNamed(u, o, named, NoUser)
    BY <2>1 DEF OfficerScope, OfTeamOrNamed
  <2>3. /\ AttendanceCounted(u, o) => AttendanceListed(u, o, named, NoUser, FALSE)
        /\ PatrolCounted(u, o) => PatrolListed(u, o, named, NoUser)
    BY <1>2, <2>2, Above
       DEF AttendanceCounted, AttendanceListed, PatrolCounted, PatrolListed
  <2>4. /\ EmergencyListed(u, o)
        /\ IncidentCounted(u, o, named) => IncidentListed(u, o, named, FALSE)
        /\ SupportListed(u, o)
    BY <1>2, Above, Topmost
       DEF EmergencyListed, IncidentCounted, IncidentListed, IncidentScope, SupportListed
  <2> QED
    BY <2>3, <2>4 DEF CountedListed
<1> QED
  BY <1>1, <1>2

LEMMA Own ==
  ASSUME TInv, NEW u \in Users, NEW named \in Filters
  PROVE  OwnOpens(u, named)
<1> SUFFICES ASSUME Is(u, "SECURITY_OFFICER") PROVE OwnOpens(u, named)
  BY DEF OwnOpens
<1>1. ~Is(u, "SUPERVISOR") /\ ~Is(u, "ADMINISTRATOR")
  BY DEF Is
<1>2. HasOfficer(u) => AssignmentOpens(u, u, named) /\ OfficerOpens(u, u) /\ OfficerMe(u)
  BY <1>1, OnlyAbove DEF AssignmentOpens, OfficerOpens, OfficerMe, Owns
<1>3. /\ OwnAttendance(u, u) => AttendanceOpens(u, u, named)
      /\ OwnBreak(u, u) => BreakOpens(u, u)
      /\ OwnPatrol(u, u) => PatrolOpens(u, u)
      /\ OwnVisit(u, u) => VisitOpens(u, u)
      /\ OwnDevice(u, u) => DeviceOpens(u, u)
  BY <1>1, OnlyAbove
     DEF OwnAttendance, AttendanceOpens, OwnBreak, BreakOpens, OwnPatrol, PatrolOpens,
         OwnVisit, VisitOpens, OwnDevice, DeviceOpens
<1> QED
  BY <1>2, <1>3 DEF OwnOpens

LEMMA Managed ==
  ASSUME TInv, NEW u \in Users, NEW o \in Users, NEW named \in Filters
  PROVE  ManagedOpens(u, o, named)
<1>1. AttendanceReviewed(u, o, named) => AttendanceOpens(u, o, named)
  BY OnlyAbove, Above DEF AttendanceReviewed, AttendanceOpens
<1>2. PatrolReviewed(u, o) => PatrolOpens(u, o)
  BY Above, Topmost, OnlyAbove DEF PatrolReviewed, PatrolOpens, Is
<1>3. /\ IncidentManaged(u, o, named) => IncidentOpens(u, o, named)
      /\ IncidentEdited(u, o, named, TRUE) => IncidentOpens(u, o, named)
      /\ NoteAdded(u, o, named) => NoteShown(u, o, named, u, "INTERNAL")
      /\ EvidenceListed(u, o, named, u) => IncidentOpens(u, o, named)
  BY OnlyAbove, Above
     DEF IncidentManaged, IncidentOpens, IncidentEdited, NoteAdded, NoteShown, EvidenceListed
<1>4. /\ EmergencyListed(u, o) => EmergencyOpens(u, o)
      /\ SupportListed(u, o) => SupportOpens(u, o)
      /\ DeviceListed(u) => DeviceOpens(u, o)
  BY DEF EmergencyListed, EmergencyOpens, SupportListed, SupportOpens, DeviceListed, DeviceOpens
<1> QED
  BY <1>1, <1>2, <1>3, <1>4 DEF ManagedOpens

LEMMA Places ==
  ASSUME TInv, NEW u \in Users, NEW w \in Worlds
  PROVE  PlacesOpen(u, w)
<1>w. w.o \in Users /\ w.named \in Filters /\ w.gone \in BOOLEAN /\ w.walked \in BOOLEAN
  <2>1. PICK r \in Rows, g \in BOOLEAN, p \in BOOLEAN :
          w = [o |-> r.o, named |-> r.named, gone |-> g, walked |-> p]
    BY DEF Worlds
  <2> QED
    BY <2>1 DEF Rows, Filters
<1>r. /\ Is(u, "SECURITY_OFFICER") => ~Is(u, "SUPERVISOR")
      /\ Is(u, "SECURITY_OFFICER") \/ ~Is(u, "SECURITY_OFFICER")
      /\ w.o \in Team(u) <=> Linked(u, w.o)
  BY TeamLinked DEF Is
<1>1. /\ SiteListed(u, w, FALSE, FALSE) => SiteOpens(u, w, FALSE)
      /\ ClientListed(u, w, FALSE, FALSE) => ClientOpens(u, w, FALSE)
      /\ RouteListed(u, w, FALSE, FALSE) => RouteOpens(u, w, FALSE)
  BY DEF SiteListed, SiteOpens, ClientListed, ClientOpens, RouteListed, RouteOpens
<1>2. \A q \in {NoUser, w.o} : ShiftListed(u, w, q, FALSE) => ShiftOpens(u, w)
  BY DEF ShiftListed, ShiftOpens
<1>3. AssignmentOpens(u, w.o, w.named) => w.gone \/ ShiftOpens(u, w)
  BY <1>r, OnlyAbove, Above DEF AssignmentOpens, ShiftOpens, OwnOrTeam
<1>4. ShiftOpens(u, w) /\ Can(u, "site:read") => SiteOpens(u, w, FALSE)
  BY DEF ShiftOpens, SiteOpens, InScope
<1>5. ShiftOpens(u, w) /\ HasOfficer(u) /\ w.o = u => AssignmentForShift(u, w)
  BY OnlyAbove, Above DEF AssignmentForShift, Owns
<1>6. w.walked /\ PatrolOpens(u, w.o) =>
        /\ RouteOpens(u, w, FALSE) /\ CheckpointsListed(u, FALSE)
        /\ Can(u, "site:read") => SiteOpens(u, w, FALSE)
  <2>1. w.walked /\ PatrolOpens(u, w.o) => InScope(u, w)
    BY <1>r DEF PatrolOpens, InScope
  <2> QED
    BY <2>1, OnlyAbove, Above DEF RouteOpens, CheckpointsListed, SiteOpens
<1> QED
  BY <1>1, <1>2, <1>3, <1>4, <1>5, <1>6 DEF PlacesOpen

LEMMA Teams ==
  ASSUME TInv, NEW u \in Users
  PROVE  TeamShown(u)
<1> SUFFICES ASSUME NEW s \in Users
             PROVE  /\ SupervisorListed(u, s, FALSE) => SupervisorOpens(u, s)
                    /\ \A o \in Users : TeamListed(u, s, o, TRUE) =>
                         /\ officer[o].deleted \/ OfficerOpens(u, o)
                         /\ OfficerListed(u, o, s, TRUE)
  BY DEF TeamShown
<1>1. SupervisorListed(u, s, FALSE) => SupervisorOpens(u, s)
  BY OnlyAbove, Topmost DEF SupervisorListed, SupervisorOpens
<1>2. ASSUME NEW o \in Users, TeamListed(u, s, o, TRUE)
      PROVE  (officer[o].deleted \/ OfficerOpens(u, o)) /\ OfficerListed(u, o, s, TRUE)
  <2>1. SupervisorOpens(u, s)
    BY <1>2 DEF TeamListed
  <2>2. PICK r \in Relations :
          relation[r].supervisor = s /\ relation[r].officer = o /\ relation[r].active
    BY <1>2 DEF TeamListed
  <2>3. officer[o] # NoProfile
    BY <2>2, TypesOf DEF RowsNamed
  <2>4. Linked(s, o) /\ s # NoUser
    BY <2>1, <2>2, StaffAssumption DEF SupervisorOpens, Linked, Supervises
  <2>5. ~Is(u, "SECURITY_OFFICER")
    BY <2>1, OnlyAbove DEF SupervisorOpens
  <2>6. officer[o].deleted \/ OfficerOpens(u, o)
    BY <2>1, <2>3, <2>4, <2>5, Above DEF OfficerOpens, HasOfficer, SupervisorOpens, Is
  <2>7. OfficerListed(u, o, s, TRUE)
    <3>1. Is(u, "SUPERVISOR") => o \in Team(u)
      BY <2>1, <2>4, TeamLinked DEF SupervisorOpens, Is
    <3> QED
      BY <2>2, <2>3, <2>5, <3>1, Above DEF OfficerListed
  <2> QED
    BY <2>6, <2>7
<1> QED
  BY <1>1, <1>2

(* The lists, the single reads, the counts and the rows they name agree     *)
(* about who is shown what, for any accounts, profiles and relations.      *)
THEOREM Reading == Spec => []ReadingAgrees
<1>1. ASSUME TInv PROVE ReadingAgrees
  <2> SUFFICES ASSUME NEW u \in Readers
               PROVE  /\ TeamShown(u)
                      /\ \A r \in Rows :
                           /\ \A q \in Filters : ListedOpens(u, r.o, r.named, q)
                           /\ CountedListed(u, r.o, r.named) /\ ManagedOpens(u, r.o, r.named)
                           /\ r.o = u => OwnOpens(u, r.named)
                      /\ \A w \in Worlds : PlacesOpen(u, w)
    BY DEF ReadingAgrees
  <2>1. u \in Users
    BY DEF Readers
  <2>2. \A r \in Rows : r.o \in Users /\ officer[r.o] # NoProfile /\ r.named \in Filters
    BY DEF Rows, Known, Filters
  <2> QED
    BY <1>1, <2>1, <2>2, Teams, Listed, Counted, Managed, Own, Places
<1> QED
  BY <1>1, Inductive, PTL
=============================================================================
