------------------------------- MODULE Access -------------------------------
(***************************************************************************)
(* Who is shown what: the lists and the single reads of every service, for *)
(* the accounts, profiles and supervisor relations of Staff.  A list takes *)
(* its scope from one query and a single read from another, often in       *)
(* another service; both are operators over the reader and the columns     *)
(* they look at.  A profile is known by its user.                          *)
(*                                                                         *)
(* Paging, sorting and the filters that only narrow a list are left out.   *)
(* `wanted` is the filter by officer, NoUser without one; `archived` is    *)
(* includeArchived; `searched` is a filter that brings an OR of its own.   *)
(***************************************************************************)
EXTENDS Staff

OfficerPermissions ==
  {"officer:read:self", "device:read:self", "shift:read:self", "assignment:read:self",
   "attendance:read:self", "break:read:self", "patrol-route:read",
   "patrol-checkpoint:read", "patrol-assignment:read:self", "patrol-visit:read:self",
   "incident:create:self", "incident:read:self", "support:read:self"}

SupervisorPermissions == OfficerPermissions \cup
  {"officer:read", "officer:read:assigned", "supervisor:read", "site:read", "shift:read",
   "assignment:read", "attendance:read", "attendance:review", "break:read", "patrol-assignment:read",
   "patrol-assignment:review", "patrol-visit:read", "incident:read:assigned",
   "incident:read", "incident:update", "evidence:read", "emergency:read",
   "emergency:manage", "support:read", "report:read"}

AdministratorPermissions == SupervisorPermissions \cup
  {"client:read", "device:read", "attendance:correct", "patrol-visit:override",
   "incident:manage", "evidence:manage", "support:manage"}

Permissions ==
  [SECURITY_OFFICER |-> OfficerPermissions, SUPERVISOR |-> SupervisorPermissions,
   ADMINISTRATOR |-> AdministratorPermissions]

(* userHasPermission *)
Can(u, permission) == permission \in Permissions[user[u].role]

Is(u, role) == user[u].role = role

(* resolveOfficerProfileId refuses who has none. *)
Owns(u, o) == HasOfficer(u) /\ o = u

(* resolveSupervisorProfileId *)
Supervises(u) == supervisor[u] = "live"

(* listAssignedOfficerIds; nobody without a supervisor's profile. *)
Team_Ever(u) ==                    \* slip: activeUntil is not looked at
  IF ~Supervises(u) THEN {}
  ELSE {relation[r].officer : r \in {q \in Relations : relation[q].supervisor = u}}

Team(u) ==
  IF ~Supervises(u) THEN {}
  ELSE {relation[r].officer :
          r \in {q \in Relations : relation[q].active /\ relation[q].supervisor = u}}

(* supervisorOfficer.findFirst, as each single read asks it. *)
Linked(u, o) ==
  /\ Supervises(u)
  /\ \E r \in Relations :
       relation[r].active /\ relation[r].supervisor = u /\ relation[r].officer = o

-----------------------------------------------------------------------------
(* Assignments, and the rows that have one.  A supervisor's list is of the *)
(* team and of the assignments that name the supervisor.                   *)
OfTeamOrNamed(u, o, named, wanted) ==
  IF Is(u, "SUPERVISOR")
    THEN /\ Supervises(u) /\ (wanted = NoUser \/ wanted \in Team(u))
         /\ named = u \/ (IF wanted = NoUser THEN o \in Team(u) ELSE o = wanted)
    ELSE wanted = NoUser \/ o = wanted

AssignmentListed(u, o, named, wanted) ==
  Can(u, "assignment:read") /\ OfTeamOrNamed(u, o, named, wanted)

AssignmentOpens(u, o, named) ==
  IF Is(u, "SUPERVISOR") THEN Supervises(u) /\ (named = u \/ Linked(u, o))
  ELSE Can(u, "assignment:read") \/ (Can(u, "assignment:read:self") /\ Owns(u, o))

AttendanceListed(u, o, named, wanted, searched) ==
  /\ Can(u, "attendance:read")
  /\ \/ OfTeamOrNamed(u, o, named, wanted)
     \/ Is(u, "SUPERVISOR") /\ searched      \* outsideGeofence takes the place of the scope

OwnAttendance(u, o) == Can(u, "attendance:read:self") /\ Owns(u, o)

AttendanceOpens(u, o, named) ==
  \/ Can(u, "attendance:read")
  \/ Can(u, "attendance:read:self") /\ Owns(u, o)
  \/ AssignmentOpens(u, o, named)

(* assertCanReviewAttendance *)
AttendanceReviewed(u, o, named) ==
  /\ Can(u, "attendance:review")
  /\ Can(u, "attendance:correct") \/ (Supervises(u) /\ named = u) \/ Linked(u, o)

(* The selfies of an attendance, by whoever may open it. *)
SelfiesListed(u, o, named) == AttendanceOpens(u, o, named)

BreakListed(u, o, wanted) ==
  /\ Can(u, "break:read")
  /\ IF Is(u, "SUPERVISOR") THEN o \in (IF wanted \in Team(u) THEN {wanted} ELSE Team(u))
     ELSE wanted = NoUser \/ o = wanted

OwnBreak(u, o) == Can(u, "break:read:self") /\ Owns(u, o)

BreakOpens(u, o) == Can(u, "break:read") \/ Owns(u, o)

-----------------------------------------------------------------------------
(* Patrols and their visits.  Only a link opens them to a supervisor, not  *)
(* an assignment that names one.                                           *)
PatrolListed(u, o, named, wanted) ==
  Can(u, "patrol-assignment:read") /\ OfTeamOrNamed(u, o, named, wanted)

(* current and upcoming *)
OwnPatrol(u, o) == Can(u, "patrol-assignment:read:self") /\ Owns(u, o)

PatrolOpens(u, o) ==
  IF Is(u, "SUPERVISOR") THEN Linked(u, o)
  ELSE \/ Can(u, "patrol-assignment:read")
       \/ Can(u, "patrol-assignment:read:self") /\ Owns(u, o)
       \/ Linked(u, o)

(* assertCanReviewPatrol *)
PatrolReviewed(u, o) ==
  \/ Can(u, "patrol-visit:override")
  \/ Can(u, "patrol-assignment:review") /\ Linked(u, o)

VisitListed(u, o, wanted) ==
  /\ Can(u, "patrol-visit:read")
  /\ IF Is(u, "SUPERVISOR") THEN o \in (IF wanted \in Team(u) THEN {wanted} ELSE Team(u))
     ELSE wanted = NoUser \/ o = wanted

OwnVisit(u, o) == Can(u, "patrol-visit:read:self") /\ Owns(u, o)

VisitOpens(u, o) == PatrolOpens(u, o)

-----------------------------------------------------------------------------
(* A place: a site with its client and its route, one shift there (which   *)
(* may be archived) with its one assignment (of o, naming a supervisor or  *)
(* not), and perhaps a patrol of that assignment.                          *)
OwnOrTeam(u, w) == (Supervises(u) /\ w.named = u) \/ w.o \in Team(u)

(* resolveSupervisorOperationalScope, and everything for who is none.      *)
InScope_OnlyShifts(u, w) ==        \* slip: the patrols are forgotten
  Is(u, "SUPERVISOR") => ~w.gone /\ OwnOrTeam(u, w)

InScope(u, w) ==
  Is(u, "SUPERVISOR") => (~w.gone /\ OwnOrTeam(u, w)) \/ (w.walked /\ w.o \in Team(u))

ShiftListed(u, w, wanted, archived) ==
  /\ Can(u, "shift:read")
  /\ Is(u, "SUPERVISOR") => /\ OwnOrTeam(u, w)
                            /\ wanted # NoUser => wanted \in Team(u)
  /\ wanted = NoUser \/ w.o = wanted
  /\ archived \/ ~w.gone

ShiftOpens(u, w) ==
  /\ Can(u, "shift:read") \/ Can(u, "shift:read:self")
  /\ ~w.gone
  /\ Is(u, "SUPERVISOR") => OwnOrTeam(u, w)
  /\ Is(u, "SUPERVISOR") \/ Can(u, "shift:read") \/ Owns(u, w.o)

AssignmentForShift(u, w) ==
  Can(u, "assignment:read:self") /\ ShiftOpens(u, w) /\ Owns(u, w.o)

SiteListed(u, w, closed, archived) ==
  Can(u, "site:read") /\ InScope(u, w) /\ (archived \/ ~closed)

SiteOpens(u, w, closed) == Can(u, "site:read") /\ ~closed /\ InScope(u, w)

ClientListed(u, w, closed, archived) ==
  Can(u, "client:read") /\ InScope(u, w) /\ (archived \/ ~closed)

ClientOpens(u, w, closed) == Can(u, "client:read") /\ ~closed /\ InScope(u, w)

RouteListed(u, w, closed, archived) ==
  Can(u, "patrol-route:read") /\ InScope(u, w) /\ (archived \/ ~closed)

RouteOpens(u, w, closed) == Can(u, "patrol-route:read") /\ ~closed /\ InScope(u, w)

(* The checkpoints of a route, without a look at the site. *)
CheckpointsListed(u, closed) == Can(u, "patrol-checkpoint:read") /\ ~closed

-----------------------------------------------------------------------------
(* Incidents, by whom they were reported and to whom they were assigned.   *)
(* A search brings an OR that takes the place of the scope's.              *)
IncidentScope(u, by, assigned) ==
  IF Can(u, "incident:manage") \/ Is(u, "ADMINISTRATOR") THEN TRUE
  ELSE IF Can(u, "incident:read:assigned") \/ Can(u, "incident:read")
    THEN assigned = u \/ by \in Team(u) \/ by = u
    ELSE HasOfficer(u) /\ by = u

IncidentListed(u, by, assigned, searched) == searched \/ IncidentScope(u, by, assigned)

IncidentOpens(u, by, assigned) ==
  \/ Can(u, "incident:manage") \/ Is(u, "ADMINISTRATOR")
  \/ Can(u, "incident:read:self") /\ by = u
  \/ /\ Can(u, "incident:read") \/ Can(u, "incident:read:assigned")
     /\ assigned = u \/ Linked(u, by)

IncidentManaged(u, by, assigned) ==
  \/ Can(u, "incident:manage") \/ Is(u, "ADMINISTRATOR")
  \/ Can(u, "incident:update") /\ (assigned = u \/ Linked(u, by))

(* update, while the report is still open to who made it. *)
IncidentEdited(u, by, assigned, open) ==
  \/ by = u /\ Can(u, "incident:create:self") /\ open
  \/ IncidentManaged(u, by, assigned)

NoteAdded(u, by, assigned) ==
  (by = u \/ IncidentManaged(u, by, assigned)) /\ IncidentOpens(u, by, assigned)

NoteShown(u, by, assigned, author, visibility) ==
  /\ IncidentOpens(u, by, assigned)
  /\ CASE visibility = "OFFICER_VISIBLE" -> TRUE
       [] visibility = "ADMIN_ONLY" -> Is(u, "ADMINISTRATOR")
       [] OTHER -> ~Is(u, "SECURITY_OFFICER") \/ author = u

EvidenceListed(u, by, assigned, uploader) ==
  /\ IncidentOpens(u, by, assigned)
  /\ Can(u, "evidence:read") \/ Can(u, "evidence:manage") \/ uploader = u

EmergencyListed(u, o) ==
  IF Can(u, "emergency:manage") \/ Is(u, "ADMINISTRATOR") THEN TRUE
  ELSE IF Is(u, "SUPERVISOR") THEN o \in Team(u)
  ELSE Can(u, "emergency:read") \/ o = u

EmergencyOpens(u, o) ==
  IF Can(u, "emergency:manage") \/ Is(u, "ADMINISTRATOR") THEN TRUE
  ELSE IF Is(u, "SUPERVISOR") THEN o \in Team(u)
  ELSE Can(u, "emergency:read") \/ o = u

SupportListed(u, o) == Can(u, "support:read") \/ Can(u, "support:manage") \/ o = u

SupportOpens(u, o) == o = u \/ Can(u, "support:read") \/ Can(u, "support:manage")

-----------------------------------------------------------------------------
(* People and devices. *)
DeviceListed(u) == Can(u, "device:read")

OwnDevice(u, o) == Can(u, "device:read:self") /\ o = u

DeviceOpens(u, o) == o = u \/ Can(u, "device:read")

(* `of` is the filter by supervisor; a supervisor's own takes its place.   *)
OfficerListed(u, o, of, archived) ==
  /\ Can(u, "officer:read") /\ officer[o] # NoProfile
  /\ archived \/ ~officer[o].deleted
  /\ IF Is(u, "SUPERVISOR") THEN o \in Team(u)
     ELSE of # NoUser => \E r \in Relations :
            relation[r].active /\ relation[r].supervisor = of /\ relation[r].officer = o

OfficerMe(u) == Can(u, "officer:read:self") /\ HasOfficer(u)

OfficerOpens(u, o) ==
  /\ Can(u, "officer:read") \/ Can(u, "officer:read:self")
  /\ HasOfficer(o)
  /\ CASE Is(u, "ADMINISTRATOR") -> TRUE
       [] Is(u, "SECURITY_OFFICER") -> o = u
       [] Is(u, "SUPERVISOR") -> Linked(u, o)

SupervisorListed(u, s, archived) ==
  /\ Can(u, "supervisor:read") /\ supervisor[s] # "none"
  /\ archived \/ supervisor[s] = "live"
  /\ Is(u, "SUPERVISOR") => s = u

SupervisorOpens(u, s) ==
  /\ Can(u, "supervisor:read") /\ supervisor[s] = "live"
  /\ Is(u, "ADMINISTRATOR") \/ (Is(u, "SUPERVISOR") /\ s = u)

(* listOfficers of one supervisor *)
TeamListed(u, s, o, activeOnly) ==
  /\ SupervisorOpens(u, s)
  /\ \E r \in Relations :
       relation[r].supervisor = s /\ relation[r].officer = o
         /\ (activeOnly => relation[r].active)

-----------------------------------------------------------------------------
(* What the reports and the dashboard count: a supervisor's officers, and  *)
(* for support requests only the supervisor's own.                         *)
OfficerScope(u, o) == Can(u, "report:read") /\ (Is(u, "SUPERVISOR") => o \in Team(u))

AttendanceCounted(u, o) == OfficerScope(u, o)

PatrolCounted(u, o) == OfficerScope(u, o)

EmergencyCounted(u, o) == OfficerScope(u, o)

IncidentCounted(u, by, assigned) ==
  /\ Can(u, "report:read")
  /\ Is(u, "SUPERVISOR") => assigned = u \/ by \in Team(u) \/ by = u

SupportCounted(u, o) == Can(u, "report:read") /\ (Is(u, "SUPERVISOR") => o = u)

-----------------------------------------------------------------------------
Readers == {u \in Users : user[u].status = "ACTIVE" /\ ~user[u].deleted}

Known(u) == u \in Users /\ officer[u] # NoProfile

Rows == [o : {u \in Users : Known(u)},
         named : {NoUser} \cup {u \in Users : supervisor[u] # "none"}]

Worlds == {[o |-> r.o, named |-> r.named, gone |-> g, walked |-> p] :
             r \in Rows, g \in BOOLEAN, p \in BOOLEAN}

Filters == Users \cup {NoUser}

(* Whatever a list shows, its reader may open, and the assignment or the   *)
(* attendance it names too; except a patrol of an officer of another team, *)
(* which an assignment's supervisor is shown.                              *)
ListedOpens(u, o, named, wanted) ==
  /\ AssignmentListed(u, o, named, wanted) => AssignmentOpens(u, o, named)
  /\ AttendanceListed(u, o, named, wanted, FALSE) =>
       AttendanceOpens(u, o, named) /\ AssignmentOpens(u, o, named)
  /\ BreakListed(u, o, wanted) => BreakOpens(u, o) /\ AttendanceOpens(u, o, named)
  /\ PatrolListed(u, o, named, wanted) => PatrolOpens(u, o) \/ named = u
  /\ VisitListed(u, o, wanted) => VisitOpens(u, o)
  /\ OfficerListed(u, o, wanted, FALSE) => OfficerOpens(u, o)
  /\ IncidentListed(u, o, wanted, FALSE) => IncidentOpens(u, o, wanted)

(* What is counted is listed.                                              *)
CountedListed(u, o, named) ==
  /\ AttendanceCounted(u, o) => AttendanceListed(u, o, named, NoUser, FALSE)
  /\ PatrolCounted(u, o) => PatrolListed(u, o, named, NoUser)
  /\ EmergencyCounted(u, o) => EmergencyListed(u, o)
  /\ IncidentCounted(u, o, named) => IncidentListed(u, o, named, FALSE)
  /\ SupportCounted(u, o) => SupportListed(u, o)

(* What officers are shown as their own, they may open.                    *)
OwnOpens(u, named) ==
  Is(u, "SECURITY_OFFICER") =>
    /\ HasOfficer(u) => AssignmentOpens(u, u, named) /\ OfficerOpens(u, u) /\ OfficerMe(u)
    /\ OwnAttendance(u, u) => AttendanceOpens(u, u, named)
    /\ OwnBreak(u, u) => BreakOpens(u, u)
    /\ OwnPatrol(u, u) => PatrolOpens(u, u)
    /\ OwnVisit(u, u) => VisitOpens(u, u)
    /\ OwnDevice(u, u) => DeviceOpens(u, u)

(* What a reader may decide on or edit, that reader may open; and who adds *)
(* a note sees it, unless it was left for administrators.                  *)
ManagedOpens(u, o, named) ==
  /\ AttendanceReviewed(u, o, named) => AttendanceOpens(u, o, named)
  /\ PatrolReviewed(u, o) => PatrolOpens(u, o)
  /\ IncidentManaged(u, o, named) => IncidentOpens(u, o, named)
  /\ IncidentEdited(u, o, named, TRUE) => IncidentOpens(u, o, named)
  /\ NoteAdded(u, o, named) => NoteShown(u, o, named, u, "INTERNAL")
  /\ EvidenceListed(u, o, named, u) => IncidentOpens(u, o, named)
  /\ EmergencyListed(u, o) => EmergencyOpens(u, o)
  /\ SupportListed(u, o) => SupportOpens(u, o)
  /\ DeviceListed(u) => DeviceOpens(u, o)

(* A shift, a site, a client or a route that is listed may be opened; and  *)
(* so the shift of an assignment unless it was archived, the site of a     *)
(* shift, and the route and the site of a patrol.                          *)
PlacesOpen(u, w) ==
  /\ \A q \in {NoUser, w.o} : ShiftListed(u, w, q, FALSE) => ShiftOpens(u, w)
  /\ SiteListed(u, w, FALSE, FALSE) => SiteOpens(u, w, FALSE)
  /\ ClientListed(u, w, FALSE, FALSE) => ClientOpens(u, w, FALSE)
  /\ RouteListed(u, w, FALSE, FALSE) => RouteOpens(u, w, FALSE)
  /\ AssignmentOpens(u, w.o, w.named) => w.gone \/ ShiftOpens(u, w)
  /\ ShiftOpens(u, w) /\ Can(u, "site:read") => SiteOpens(u, w, FALSE)
  /\ ShiftOpens(u, w) /\ HasOfficer(u) /\ w.o = u => AssignmentForShift(u, w)
  /\ w.walked /\ PatrolOpens(u, w.o) =>
       /\ RouteOpens(u, w, FALSE) /\ CheckpointsListed(u, FALSE)
       /\ Can(u, "site:read") => SiteOpens(u, w, FALSE)

(* A supervisor's team is the officers the supervisor is shown, and each   *)
(* of them may be opened, unless the profile was archived.                 *)
TeamShown(u) ==
  \A s \in Users :
    /\ SupervisorListed(u, s, FALSE) => SupervisorOpens(u, s)
    /\ \A o \in Users : TeamListed(u, s, o, TRUE) =>
         /\ officer[o].deleted \/ OfficerOpens(u, o)
         /\ OfficerListed(u, o, s, TRUE)

(* The lists, the single reads, the counts and the rows they name agree    *)
(* about who is shown what, between any two changes of accounts, profiles  *)
(* and relations: each asks a query of its own, in a service of its own.   *)
ReadingAgrees ==
  (\A h \in Handlers : job[h].op = "idle") =>
    \A u \in Readers :
      /\ TeamShown(u)
      /\ \A r \in Rows :
           /\ \A q \in Filters : ListedOpens(u, r.o, r.named, q)
           /\ CountedListed(u, r.o, r.named) /\ ManagedOpens(u, r.o, r.named)
           /\ r.o = u => OwnOpens(u, r.named)
      /\ \A w \in Worlds : PlacesOpen(u, w)
=============================================================================
