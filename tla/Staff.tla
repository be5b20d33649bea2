-------------------------------- MODULE Staff --------------------------------
(***************************************************************************)
(* The people of one organisation: their accounts (users.service), their   *)
(* profiles as officers and supervisors (officers.service and              *)
(* supervisors.service), and which supervisor has which officer.           *)
(*                                                                         *)
(* A handler reads what it decides from, one action per read, and then     *)
(* writes by id in one transaction.  Contact data, passwords and avatars   *)
(* are left out; Sessions has what becomes of the sessions.                *)
(***************************************************************************)
EXTENDS Integers, FiniteSets

CONSTANTS
  Users,
  Relations,    \* bound: the SupervisorOfficer rows there may be
  Handlers,     \* the requests being handled at one time
  MaxRequests,  \* bound: the requests in all
  NoUser, NoRelation

ASSUME StaffAssumption ==
  /\ MaxRequests \in Nat /\ NoUser \notin Users /\ NoRelation \notin Relations

Roles == {"SECURITY_OFFICER", "SUPERVISOR", "ADMINISTRATOR"}
Statuses == {"INVITED", "ACTIVE", "SUSPENDED", "DISABLED", "ARCHIVED"}
Employments == {"ACTIVE", "ON_LEAVE", "SUSPENDED", "TERMINATED", "ARCHIVED"}

StatusTransitions(s) ==
  CASE s \in {"INVITED", "SUSPENDED", "DISABLED"} -> {"ACTIVE"}
    [] s = "ACTIVE" -> {"SUSPENDED", "DISABLED"}
    [] OTHER -> {}

(* mapEmploymentToAccountStatus *)
AccountOf(e) ==
  CASE e \in {"ACTIVE", "ON_LEAVE"} -> "ACTIVE"
    [] e = "TERMINATED" -> "DISABLED"
    [] OTHER -> e

VARIABLES
  user,        \* the User rows
  officer,     \* the OfficerProfile of each user
  supervisor,  \* the SupervisorProfile of each user
  relation,    \* the SupervisorOfficer rows
  job,         \* what each handler is doing, and what it has read
  requests,    \* the requests so far
  raced,       \* history: a handler wrote what another's write had overtaken
  unseated     \* history: a change of a profile ended an administrator's account

vars == <<user, officer, supervisor, relation, job, requests, raced, unseated>>

UserRow == [role : Roles, status : Statuses \cup {"ABSENT"}, deleted : BOOLEAN]

Profile == [employment : Employments \cup {"NONE"}, deleted : BOOLEAN]

NoProfile == [employment |-> "NONE", deleted |-> FALSE]

RelationRow == [supervisor : Users \cup {NoUser}, officer : Users \cup {NoUser},
                active : BOOLEAN]

Operations == {"idle", "account", "role", "status", "remove", "employ", "officer",
               "supervisor", "assign", "unassign"}

Job == [op : Operations, step : {"find", "count", "write"},
        actor : Users \cup {NoUser}, user : Users \cup {NoUser},
        to : Roles \cup Statuses \cup Employments \cup {"-"},
        officers : SUBSET Users, relation : Relations \cup {NoRelation}, stale : BOOLEAN]

Idle == [op |-> "idle", step |-> "find", actor |-> NoUser, user |-> NoUser, to |-> "-",
         officers |-> {}, relation |-> NoRelation, stale |-> FALSE]

TypeOK ==
  /\ user \in [Users -> UserRow]
  /\ officer \in [Users -> Profile]
  /\ supervisor \in [Users -> {"none", "live", "archived"}]
  /\ relation \in [Relations -> RelationRow]
  /\ job \in [Handlers -> Job]
  /\ requests \in 0..MaxRequests
  /\ raced \in BOOLEAN /\ unseated \in BOOLEAN

(* The seed: an administrator, and any others, with their profiles. *)
Init ==
  /\ \E role \in [Users -> Roles], there \in SUBSET Users :
       /\ \E u \in there : role[u] = "ADMINISTRATOR"
       /\ user = [u \in Users |->
            [role |-> role[u], status |-> IF u \in there THEN "ACTIVE" ELSE "ABSENT",
             deleted |-> FALSE]]
       /\ officer = [u \in Users |->
            IF u \in there /\ role[u] = "SECURITY_OFFICER"
              THEN [NoProfile EXCEPT !.employment = "ACTIVE"] ELSE NoProfile]
       /\ supervisor = [u \in Users |->
            IF u \in there /\ role[u] = "SUPERVISOR" THEN "live" ELSE "none"]
  /\ relation = [r \in Relations |->
                   [supervisor |-> NoUser, officer |-> NoUser, active |-> FALSE]]
  /\ job = [h \in Handlers |-> Idle]
  /\ requests = 0 /\ raced = FALSE /\ unseated = FALSE

-----------------------------------------------------------------------------
At(h, op, step) == job[h].op = op /\ job[h].step = step

Request(h) ==
  /\ job[h].op = "idle"
  /\ requests < MaxRequests                                \* bound
  /\ requests' = requests + 1

Becomes(h, j) == job' = [job EXCEPT ![h] = j]

Unchanged == UNCHANGED <<user, officer, supervisor, relation, raced, unseated>>

(* A write overtakes the handlers that have read and not written.  One     *)
(* that has been overtaken itself is a race.                               *)
Written(h) ==
  /\ job' = [g \in Handlers |->
               IF g = h THEN Idle
               ELSE [job[g] EXCEPT !.stale = @ \/ job[g].step # "find"]]
  /\ raced' = (raced \/ job[h].stale)

Seated(u) ==
  /\ user[u].role = "ADMINISTRATOR" /\ user[u].status = "ACTIVE" /\ ~user[u].deleted

Unseats(u, s) == unseated' = (unseated \/ (Seated(u) /\ s # "ACTIVE"))

(* ensureRoleProfile: a missing profile is created, a deleted one revived. *)
WithProfile(u, role) ==
  /\ officer' =
       IF role = "SECURITY_OFFICER" /\ (officer[u] = NoProfile \/ officer[u].deleted)
         THEN [officer EXCEPT ![u] = [employment |-> "ACTIVE", deleted |-> FALSE]]
         ELSE officer
  /\ supervisor' =
       IF role = "SUPERVISOR" THEN [supervisor EXCEPT ![u] = "live"] ELSE supervisor

(* create of users, officers and supervisors.  An officer's employment may *)
(* be anything; the account is active.                                     *)
Create(h) ==
  /\ Request(h)
  /\ \E u \in Users :
       /\ user[u].status = "ABSENT"
       /\ \E role \in Roles :
            /\ user' = [user EXCEPT ![u].role = role, ![u].status = "ACTIVE"]
            /\ \/ WithProfile(u, role)
               \/ /\ role = "SECURITY_OFFICER"
                  /\ \E e \in Employments :
                       officer' = [officer EXCEPT ![u] = [NoProfile EXCEPT !.employment = e]]
                  /\ UNCHANGED supervisor
  /\ Written(h)
  /\ UNCHANGED <<relation, unseated>>

-----------------------------------------------------------------------------
(* updateRole, updateStatus and archive of an account.  The request is     *)
(* admitted while its actor is an administrator; what follows looks at the *)
(* actor no more.                                                          *)
Admitted(h) ==
  /\ Request(h)
  /\ \E a \in Users : Seated(a) /\ Becomes(h, [Idle EXCEPT !.op = "account", !.actor = a])
  /\ Unchanged

Ends(op, to) ==
  \/ op = "role" /\ to # "ADMINISTRATOR"
  \/ op = "status" /\ to \in {"SUSPENDED", "DISABLED"}
  \/ op = "remove"

Found(h, u, op, to) ==
  Becomes(h, [job[h] EXCEPT !.op = op, !.user = u, !.to = to,
                            !.step = IF Seated(u) /\ Ends(op, to) THEN "count" ELSE "write"])

AccountFind_Uncounted(h) ==        \* slip: assertNotLastActiveAdmin is not called
  /\ At(h, "account", "find")
  /\ \E u \in Users \ {job[h].actor} :
       /\ user[u].status # "ABSENT" /\ ~user[u].deleted
       /\ \E to \in Roles :
            Becomes(h, [job[h] EXCEPT !.op = "role", !.user = u, !.to = to, !.step = "write"])
  /\ UNCHANGED requests /\ Unchanged

AccountFind(h) ==
  /\ At(h, "account", "find")
  /\ \E u \in Users \ {job[h].actor} :
       /\ user[u].status # "ABSENT" /\ ~user[u].deleted
       /\ \/ \E to \in Roles : Found(h, u, "role", to)
          \/ \E to \in StatusTransitions(user[u].status) : Found(h, u, "status", to)
          \/ user[u].status # "ARCHIVED" /\ Found(h, u, "remove", "ARCHIVED")
  /\ UNCHANGED requests /\ Unchanged

(* assertNotLastActiveAdmin *)
Count(h) ==
  /\ job[h].op \in {"role", "status", "remove"} /\ job[h].step = "count"
  /\ Becomes(h, IF \E u \in Users \ {job[h].user} : Seated(u)
                  THEN [job[h] EXCEPT !.step = "write"] ELSE Idle)
  /\ UNCHANGED requests /\ Unchanged

RoleWrite(h) ==
  /\ At(h, "role", "write")
  /\ user' = [user EXCEPT ![job[h].user].role = job[h].to]
  /\ WithProfile(job[h].user, job[h].to)
  /\ Written(h)
  /\ UNCHANGED <<relation, requests, unseated>>

StatusWrite(h) ==
  /\ job[h].op \in {"status", "remove"} /\ job[h].step = "write"
  /\ user' = [user EXCEPT ![job[h].user].status = job[h].to,
                          ![job[h].user].deleted = @ \/ job[h].op = "remove"]
  /\ Written(h)
  /\ UNCHANGED <<officer, supervisor, relation, requests, unseated>>

-----------------------------------------------------------------------------
(* updateEmploymentStatus and archive of an officer, and archive of a      *)
(* supervisor: the profile, the account and, for archive, the relations.   *)
HasOfficer(u) == officer[u] # NoProfile /\ ~officer[u].deleted

ProfileFind(h) ==
  /\ Request(h)
  /\ \E u \in Users :
       \/ /\ HasOfficer(u)
          /\ \E e \in Employments :
               Becomes(h, [Idle EXCEPT !.op = "employ", !.step = "write", !.user = u, !.to = e])
       \/ /\ HasOfficer(u)
          /\ Becomes(h, [Idle EXCEPT !.op = "officer", !.step = "write", !.user = u])
       \/ /\ supervisor[u] = "live"
          /\ Becomes(h, [Idle EXCEPT !.op = "supervisor", !.step = "write", !.user = u])
  /\ Unchanged

EmploymentWrite_KeepsAccount(h) == \* slip: archiving leaves the account's deletedAt
  /\ At(h, "employ", "write")
  /\ LET u == job[h].user  e == job[h].to IN
       /\ officer' = [officer EXCEPT ![u] = [employment |-> e, deleted |-> @.deleted \/ e = "ARCHIVED"]]
       /\ user' = [user EXCEPT ![u].status = AccountOf(e)]
       /\ Unseats(u, AccountOf(e))
  /\ Written(h)
  /\ UNCHANGED <<supervisor, relation, requests>>

EmploymentWrite(h) ==
  /\ At(h, "employ", "write")
  /\ LET u == job[h].user  e == job[h].to IN
       /\ officer' = [officer EXCEPT ![u] =
                        [employment |-> e, deleted |-> @.deleted \/ e = "ARCHIVED"]]
       /\ user' = [user EXCEPT ![u].status = AccountOf(e),
                               ![u].deleted = @ \/ e = "ARCHIVED"]
       /\ Unseats(u, AccountOf(e))
  /\ Written(h)
  /\ UNCHANGED <<supervisor, relation, requests>>

Closed(rows) ==
  [r \in Relations |-> IF r \in rows THEN [relation[r] EXCEPT !.active = FALSE]
                       ELSE relation[r]]

OfficerArchive(h) ==
  /\ At(h, "officer", "write")
  /\ LET u == job[h].user IN
        /\ officer' = [officer EXCEPT ![u] = [employment |-> "ARCHIVED", deleted |-> TRUE]]
        /\ user' = [user EXCEPT ![u].status = "ARCHIVED", ![u].deleted = TRUE]
        /\ relation' = Closed({r \in Relations : relation[r].officer = u})
        /\ Unseats(u, "ARCHIVED")
  /\ Written(h)
  /\ UNCHANGED <<supervisor, requests>>

SupervisorArchive_KeepsOfficers(h) ==    \* slip: the relations stay active
  /\ At(h, "supervisor", "write")
  /\ LET u == job[h].user IN
       /\ supervisor' = [supervisor EXCEPT ![u] = "archived"]
       /\ user' = [user EXCEPT ![u].status = "ARCHIVED", ![u].deleted = TRUE]
       /\ Unseats(u, "ARCHIVED")
  /\ Written(h)
  /\ UNCHANGED <<officer, relation, requests>>

SupervisorArchive(h) ==
  /\ At(h, "supervisor", "write")
  /\ LET u == job[h].user IN
        /\ supervisor' = [supervisor EXCEPT ![u] = "archived"]
        /\ user' = [user EXCEPT ![u].status = "ARCHIVED", ![u].deleted = TRUE]
        /\ relation' = Closed({r \in Relations : relation[r].supervisor = u})
        /\ Unseats(u, "ARCHIVED")
  /\ Written(h)
  /\ UNCHANGED <<officer, requests>>

-----------------------------------------------------------------------------
(* assignOfficers: the supervisor is found, and in the transaction the     *)
(* officers and their relations are looked at before the rows are created. *)
AssignFind(h) ==
  /\ Request(h)
  /\ \E u \in Users, os \in SUBSET Users \ {{}} :
       /\ supervisor[u] = "live"
       /\ Becomes(h, [Idle EXCEPT !.op = "assign", !.step = "count", !.user = u,
                                  !.officers = os])
  /\ Unchanged

Related(o) == \E r \in Relations : relation[r].officer = o /\ relation[r].active

Assignable(o) ==
  officer[o] # NoProfile /\ ~officer[o].deleted
    /\ officer[o].employment \notin {"ARCHIVED", "TERMINATED"}

AssignCheck_SameSupervisor(h) ==   \* slip: only a relation of this supervisor counts
  /\ At(h, "assign", "count")
  /\ Becomes(h, IF \A o \in job[h].officers :
                     Assignable(o) /\ ~(\E r \in Relations :
                       relation[r].officer = o /\ relation[r].active
                         /\ relation[r].supervisor = job[h].user)
                  THEN [job[h] EXCEPT !.step = "write"] ELSE Idle)
  /\ UNCHANGED requests /\ Unchanged

AssignCheck(h) ==
  /\ At(h, "assign", "count")
  /\ Becomes(h, IF \A o \in job[h].officers : Assignable(o) /\ ~Related(o)
                  THEN [job[h] EXCEPT !.step = "write"] ELSE Idle)
  /\ UNCHANGED requests /\ Unchanged

Unused == {r \in Relations : relation[r].officer = NoUser}

AssignWrite(h) ==
  /\ At(h, "assign", "write")
  /\ \E new \in [job[h].officers -> Unused] :
       /\ \A o, p \in job[h].officers : new[o] = new[p] => o = p
       /\ relation' = [r \in Relations |->
            IF \E o \in job[h].officers : new[o] = r
              THEN [supervisor |-> job[h].user, active |-> TRUE,
                    officer |-> CHOOSE o \in job[h].officers : new[o] = r]
              ELSE relation[r]]
  /\ Written(h)
  /\ UNCHANGED <<user, officer, supervisor, requests, unseated>>

(* unassignOfficer: any active relation of the two. *)
UnassignFind(h) ==
  /\ Request(h)
  /\ \E r \in Relations :
       /\ relation[r].active /\ supervisor[relation[r].supervisor] = "live"
       /\ Becomes(h, [Idle EXCEPT !.op = "unassign", !.step = "write", !.relation = r])
  /\ Unchanged

UnassignWrite(h) ==
  /\ At(h, "unassign", "write")
  /\ relation' = [relation EXCEPT ![job[h].relation].active = FALSE]
  /\ Written(h)
  /\ UNCHANGED <<user, officer, supervisor, requests, unseated>>

(* activeUntil passes, where the assignment gave one. *)
Lapse(r) ==
  /\ relation[r].active
  /\ relation' = [relation EXCEPT ![r].active = FALSE]
  /\ UNCHANGED <<user, officer, supervisor, job, requests, raced, unseated>>

Next ==
  \/ \E h \in Handlers :
       \/ Create(h)
       \/ Admitted(h) \/ AccountFind(h) \/ Count(h) \/ RoleWrite(h) \/ StatusWrite(h)
       \/ ProfileFind(h) \/ EmploymentWrite(h) \/ OfficerArchive(h) \/ SupervisorArchive(h)
       \/ AssignFind(h) \/ AssignCheck(h) \/ AssignWrite(h)
       \/ UnassignFind(h) \/ UnassignWrite(h)
  \/ \E r \in Relations : Lapse(r)

Spec == Init /\ [][Next]_vars

-----------------------------------------------------------------------------
(* The organisation keeps an active administrator, also when an            *)
(* administrator whose own account was ended has a request still to be     *)
(* handled; unless a write came between what a request read and wrote, or  *)
(* an administrator's account was ended by way of a profile it has.        *)
AdministratorRemains == raced \/ unseated \/ \E u \in Users : Seated(u)

OneSupervisorPerOfficer ==
  \A q, r \in Relations :
    relation[q].active /\ relation[r].active /\ relation[q].officer = relation[r].officer
      => q = r

ArchivedSupervisorHasNoOfficer ==
  \A r \in Relations : relation[r].active => supervisor[relation[r].supervisor] = "live"

(* An officer has at most one active supervisor, and it is not an archived *)
(* one; unless a write came between what a request read and wrote.         *)
SupervisionKept ==
  TypeOK /\ (raced \/ (OneSupervisorPerOfficer /\ ArchivedSupervisorHasNoOfficer))

(* Who has an archived profile has a deleted account, whatever overlaps:   *)
(* so no later request finds the account, and an archived profile comes    *)
(* back only in a role change that overlapped with the archiving.          *)
ArchivedProfileEndsAccount ==
  \A u \in Users :
    officer[u].deleted \/ supervisor[u] = "archived" => user[u].deleted

-----------------------------------------------------------------------------
(* What keeps these: the inductive invariant.                              *)
OnAccount == {"role", "status", "remove"}

(* What a request is about, from its find to its write. *)
Means(j) ==
  /\ j.op \in {"idle", "account"} <=> j.step = "find"
  /\ j.op \in {"employ", "officer", "supervisor", "unassign"} => j.step = "write"
  /\ j.op \in OnAccount \cup {"employ", "officer", "supervisor", "assign"} => j.user \in Users
  /\ j.op = "role" => j.to \in Roles
  /\ j.op = "status" => j.to \in {"ACTIVE", "SUSPENDED", "DISABLED"}
  /\ j.op = "remove" => j.to = "ARCHIVED"
  /\ j.op = "employ" => j.to \in Employments
  /\ j.op = "unassign" => j.relation \in Relations

(* An active relation names two users, and the officer has a profile; so   *)
(* have the officers a request has checked.                                *)
RelationsNamed ==
  /\ \A r \in Relations :
       relation[r].active =>
         /\ relation[r].supervisor \in Users /\ relation[r].officer \in Users
         /\ officer[relation[r].officer] # NoProfile
  /\ \A h \in Handlers :
       At(h, "assign", "write") => \A o \in job[h].officers : officer[o] # NoProfile

TInv == TypeOK /\ RelationsNamed /\ \A h \in Handlers : Means(job[h])

(* What a request that was not overtaken still knows when it writes. *)
AccountStands(j) ==
  j.op \in OnAccount /\ j.step = "write" /\ ~j.stale /\ Seated(j.user) /\ Ends(j.op, j.to)
    => \E u \in Users \ {j.user} : Seated(u)

SupervisionStands(j) ==
  j.op = "assign" /\ ~j.stale =>
    /\ supervisor[j.user] = "live"
    /\ j.step = "write" => \A o \in j.officers : ~Related(o)

StaffInv ==
  /\ AdministratorRemains
  /\ raced \/ (OneSupervisorPerOfficer /\ ArchivedSupervisorHasNoOfficer)
  /\ ArchivedProfileEndsAccount
  /\ \A h \in Handlers : AccountStands(job[h]) /\ SupervisionStands(job[h])
=============================================================================
