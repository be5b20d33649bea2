# GuardTrak API: a verification project

GuardTrak is a NestJS server (TypeScript, Prisma on PostgreSQL) for security
companies: officers clock in on shifts with their phones, take breaks, walk
patrols, raise alarms and send reports; supervisors review; administrators
plan. This directory holds TLA+ models of the parts where requests interfere,
the TLC runs that check them, and the TLAPS proofs about them.

The server is one or several Node processes in front of one database. There is
no lock in the code: a handler reads rows, decides in JavaScript, and updates
rows **by their id** in a transaction at READ COMMITTED. Each `await` of a
database call is a point where any other request may run. The models keep
exactly this: *a handler is one action per database read it decides from and
one action per transaction it writes with*, and what it read is kept in the
handler's state until it is used.

## 1. Inventory

Paths are under `src/src/`.

| Component | State | Operations | Hard behaviour | What makes it correct | Module |
|---|---|---|---|---|---|
| Idempotent operations (`common/idempotency`) | `IdempotencyRecord` by (user, key): status, request hash, `lockedUntil`, response | `begin`, `complete`, `fail`; the handlers' begin – perform – complete/fail | races of retries, expired locks, servers that stop between commit and `complete` | a key's operation commits once; a replay is the response of a committed operation for the same payload | `Idempotency` |
| Attendance (`modules/attendance`) | `Attendance` by (assignment, day), its events | clock-in, clock-out, request-review, approve, reject, void, correct | devices of one officer, reviewers and planners at once | one attendance a day; a clock-out stays; the status follows its table; the breaks paid out are real | `Attendance`, `Duty` |
| Breaks (`modules/breaks`) | `ShiftBreak` rows; `totalBreakMinutes` of the attendance | start, end, cancel | read and insert without a constraint; sums over rows others are changing | one break at a time, none on a finished attendance; the total is the sum of the completed ones | `Attendance` |
| Assignments (`modules/assignments`) | `Assignment` (shift, officer, status) and its events | create, batch, confirm, update-status, reassign, cancel; the cards current, upcoming, history | checks and inserts that overlap; moves from stale statuses | no two active assignments of an officer overlap; a finished one releases the officer; work is on one card | `Schedule`, `Attendance`, `MyWork` |
| Shifts and recurrence (`modules/shifts`, `common/utils/timezone.util`) | `Shift` with times, time zone, recurrence, status | create, update, update-status (cascade), archive; the recurrence calculus | cascade against clock-in; local days, overnight occurrences, clock changes | a cancelled shift has no active assignment; who is on duty is found to be | `Schedule`, `Recurrence`, `Duty` |
| Patrols (`modules/patrol-assignments`, `patrol-visits`, `patrols`) | `PatrolAssignment` (status, counters, snapshots), `PatrolCheckpointVisit` | create, batch, start, visit, approve/reject/override, complete, mark-missed, cancel | progress computed from rows that other requests are writing | visits in order on a sequential route; a completed patrol was walked; counters and review status agree with the visits | `Patrol` |
| Patrol routes and checkpoints (`modules/patrol-routes`, `patrol-checkpoints`) | routes, checkpoints with a sequence number | create, activate, reorder, archive | two-phase reordering; archiving against creation of patrols | a patrol keeps its route; the index refuses only what it must | `Routes` |
| Job queue, in memory (`infrastructure/queues/in-memory-queue.service.ts`) | array of waiting jobs, dead letters, counters, `destroyed` | enqueue, `processNext`, retry, stop | any number of `processNext` calls between their awaits | no job is stranded, run twice at once or lost; the metrics are true | `JobQueue` |
| Job queue, BullMQ, and the processor | Redis (library); expired rows | enqueue; clean-up jobs | external library | clean-ups delete only what is over | `Sessions` (clean-ups) |
| Auth sessions (`modules/auth`, `users`) | refresh sessions in families, one-time codes, reset tokens, login attempts | login, refresh (rotation, reuse detection), logout, password change and reset | refresh and login against logout, block and suspension; a stop between two writes | one live session per family; a reuse ends the family; a new password ends the sessions; guesses are bounded | `Sessions` |
| Devices (`modules/devices`) | `Device` status | register, approve, block, revoke | a request admitted before the block | a blocked device has no session | `Sessions` |
| Emergencies, incidents, support | rows with a day-wise number, status, events | raise, acknowledge, assign, escalate, resolve, close, reopen | number = greatest + 1 in string order; status read before it is written | numbers are dense; the events lead to the status | `Cases` |
| Evidence and storage (`modules/evidence`, `storage`) | `Evidence` rows, bytes used; objects in a store (external) | request upload, upload, complete, verify, delete | object and row disagree; the quota is looked at before it is charged | the charge is that of the files; a row describes its object | `Evidence` |
| Offline sync (`modules/sync`) | `SyncOperation`, `SyncConflict` | batch: each operation through two idempotency records | a batch and the endpoint at once; refusals that fail another's record | an operation is applied once, and settles | `Sync` |
| Notifications and push (`modules/notifications`, `push`) | notification and delivery rows, preferences, push tokens | notify, broadcast, the pushes nobody awaits, read, archive, clear | a fault in the middle of the recipients; dead tokens; a stop | an answer has told everyone; deliveries settle | `Notices` |
| Accounts, officers, supervisors (`modules/users`, `officers`, `supervisors`) | users with role and status, profiles, relations | create, role, status, archive, employment, assign, unassign | five handlers of three services move two rows of one person | an administrator remains; one supervisor per officer; an archived profile has no account | `Staff` |
| Clients and sites (`modules/clients`, `sites`) | rows with a status | create, update, status, archive | archived against what still uses them | an archived client has no active site | `Premises` |
| Permissions and tenant scope (`auth/permissions`, `common/tenant`, every service's lists) | none of its own | list, open, count | each list and each read has its own query | they agree about who is shown what | `Access` |
| Reports (`modules/reports`) | none | hours, rows by site, payroll, counts | ranges of local days; a row with two days | every hour is counted once, missed shifts are missed | `Duty`, `Access` |
| Cache, in-memory Redis, metrics, API keys, e-mail, realtime, audit log, admin, HTTP layer, configuration | none that decides anything | | | | none |

How they interact. Every state-changing officer operation runs **inside an
idempotent operation** (`begin` before, `complete` or `fail` after). Clock-in
and clock-out move the **assignment** and, for one-off shifts, the **shift**;
a shift's cancellation moves its assignments; a break writes the total of its
**attendance**, which clock-out and correction read, and reports add up. Patrol
creation reads the **route** and its checkpoints, routes their **site**, sites
their **client**. Sync calls the incident, emergency and support services
through idempotency; these raise **notices**, whose pushes go to the **devices**
that auth registers. What anybody is shown of all this depends on their account,
profile and supervisor relations (**Staff**). Jobs are enqueued by services and
run by the queue. Nothing else is shared.

## 2. Plan

Everything planned is written, in this order: the mechanism that every operation
goes through, the records that pay and safety depend on, then what surrounds
them.

| Step | Modules | Theorems in |
|---|---|---|
| 1 | `OncePerKey` (abstract), `Idempotency` (detailed, refines it) | `InfrastructureProofs` |
| 2 | `StatusRules` (the transition tables of attendance, assignments, shifts and patrols), `Attendance` | `AttendanceProofs` |
| 3 | `JobQueue` | `InfrastructureProofs` |
| 4 | `Patrol` | `PatrolProofs` |
| 5 | `Recurrence` (occurrences and their overlap, as operators), `Schedule` | `ScheduleProofs` |
| 6 | `Sessions`: refresh families with devices, codes, logout and passwords | `SessionsProofs` |
| 7 | `Cases`: numbers, tables and events of incidents, alarms and support requests | `InfrastructureProofs` |
| 8 | `Sync`: an operation through two idempotency records, with liveness | `PatrolProofs` |
| 9 | `Staff`, and `Access` upon it: who is shown what | `StaffProofs` |
| 10 | `Routes`, and `Premises` upon it: sites and clients | `PremisesProofs` |
| 11 | `Evidence`: quota and content | `EvidenceProofs` |
| 12 | `MyWork` upon `Attendance`, `Duty` upon `Recurrence`: cards, occurrences in zones whose clock changes, and reports | `AttendanceProofs` (`MyWork`), `ScheduleProofs` (`Duty`) |
| 13 | `Notices`: recipients, deliveries, tokens | `EvidenceProofs` |

Section 6 ends with what is only model-checked and what could be proved next.

## 3. The modules

### Idempotency

`row[k]` is the record of a (user, key) pair; `pc[r]`, `at[r]`, `answer[r]`
belong to a request; `effects[k]` is the set of requests whose operation
committed; `clock` is the time that `lockedUntil` is compared with.

| Action | Code |
|---|---|
| `BeginAbsent`, `BeginInProgress`, `BeginReplay`, `BeginKeyReused`, `BeginTakeOver` | the read in `begin` and what each status leads to |
| `Create`, `CreateLost` | `create` of the record; P2002, after which `begin` calls itself |
| `TakeOver` | the update by id to PROCESSING of a FAILED or expired record |
| `Commit`, `Throw` | the handler's own work, or its exception (for `UniqueKeys` a constraint of the operation's tables refuses a second effect) |
| `Complete` | `complete`, and the response |
| `Fail`, `FailLost` | `fail` in the catch block and the answer with the error; `fail` failing too |
| `Crash` | the server stops |
| `Tick` | time passes |

`lapsed` is a history variable: the requests that did not release their lock
in time (they outlived it, or stopped, or failed to record their failure). No
code reads it; the properties do.

`OncePerKey` is the promise without records, locks and clock: until a key is
*disturbed* (a request of it was answered with an error, or lapsed) its
operation is applied at most once and replays answer the payload they were
asked with; always, an answer reports an applied operation. `Idempotency`
implements it with `disturbed` mapped to `{k \in Keys : Disturbed(k)}`.

Properties: `AnswersRight` (answers are real, replays answer their payload),
`OneEffectUntilDisturbed`, `StoredResponseKept`, `ImplementsPromise`
(refinement). They say how far the mechanism carries, and need their conditions
because the code takes a record over without looking at it again (section 7).

### Attendance and MyWork

One assignment of an officer to a shift. `att[d]` is the attendance of day
`d`, `brk` the break rows, `assignment` and `shift` the two statuses, `today`
the day whose occurrence is open, `job[h]` what handler `h` is doing and has
read. A break's duration is abstract: `counted` is the *set of breaks* whose
durations `totalBreakMinutes` adds up, `deducted` the set that
`payableMinutes` leaves out. The geofence is the nondeterministic choice of
the status that results (`ClockInResults`, and the two results of a clock-out).
One-off shifts have several days too: `resolveClockInOccurrence` projects them
on each day, and clock-in refuses only once the assignment is COMPLETED.

| Action | Code |
|---|---|
| `ClockInRead`, `ClockInFind`, `ClockInWrite`, `ClockInLost` | `performClockIn`: the assignment, the attendance of the day, the transaction, P2002 on (assignment, day) |
| `ClockOutRead`, `ClockOutWrite` | `performClockOut` |
| `StatusRead`, `StatusWrite` | `requestReview`, `approve`, `reject`, `voidAttendance` |
| `CorrectRead`, `CorrectSum`, `CorrectWrite` | `correct` |
| `StartBreakRead`, `StartBreakFind`, `StartBreakWrite` | `performStart` |
| `BreakRead`, `EndBreakSum`, `EndBreakCommit`, `CancelBreakWrite` | `performEnd` (its transaction: what it sees, its commit; it holds the row's lock in between), `cancel` |
| `AssignmentRead`, `AssignmentWrite` | `confirm`, `updateStatus`, `cancel` of assignments |
| `ShiftRead`, `ShiftFind`, `ShiftWrite` | `updateStatus` and `archive` of shifts, with the cascade |
| `NextDay` | the next occurrence opens |

`MyWork` adds, as operators over the same state, what the officer is shown of
it: `FindCurrent`, `FindUpcoming`, `FindHistory` of assignments.service and the
current attendance and break.

Under every interleaving: `NeverBackOnDuty`, `ClockedOutIsSettled`. With the
officer's requests one at a time (one phone; reviewers work in parallel):
`BreaksInTurn` (one active break, none on a clocked-out day),
`FinishedAssignmentReleased`, `WorkShown`. With no two requests overlapping:
`BreakTotalExactAlone`, `PlanFollowsWorkAlone`. These three levels are the
finding of the model: each property is stated at the strongest level where the
code has it.

### JobQueue

`queue` is the array, `calls` the number of `setImmediate` callbacks not yet
run, `running` the jobs whose processor is awaited, `stats` the counters.
`Enqueue`, `Idle`, `Start`, `Succeed`, `Retry`, `DeadLetter`, `Stop` are the
runs of JavaScript between two awaits. `CallPerJob`, the half of `JobsPlaced`
that matters most, says that until `stop` there are at least as many calls as
waiting jobs.

### Patrol

The patrols of one route on one shift assignment. `patrol[p]` holds status and
`completedCheckpointCount`, `visits[p][c]` the status of the visit to each
checkpoint; `job[h]` as above. The transaction of `performVisit` and
`reviewVisit` is two actions, `VisitSees`/`ReviewSees` (its progress: committed
visits and its own) and `VisitCommit`/`ReviewCommit`; in between it holds the
lock of the visit's row. `LateVisits` says whether a visit may be put to review
at all: only when `PATROL_DEVICE_TIME_TOLERANCE_MINUTES` exceeds
`PATROL_OFFLINE_REVIEW_THRESHOLD_MINUTES`, which the defaults (10 and 30) do
not; the run takes `TRUE`, which allows everything `FALSE` does.

| Action | Code |
|---|---|
| `CreateRead`, `CreateWrite` | `createOneInTx` |
| `StartRead`, `CancelRead`, `StatusWrite` | `performStart`, `cancel` |
| `VisitRead`, `VisitSees`, `VisitLost`, `VisitCommit` | `performVisit`; `VisitLost` is P2002 |
| `ReviewRead`, `ReviewSees`, `ReviewCommit` | `approve`, `reject`, `override` |
| `CompleteRead`, `MissRead`, `FinishWrite` | `performComplete`, `markMissed` |

`VisitedHonestly` (visits in order, and COMPLETED or PARTIALLY_COMPLETED only
upon visits) holds under every race; `PatrolsTrueAlone` (counter and review
status are those of the visits, one active patrol) for requests that do not
overlap.

### Recurrence and Schedule

`Recurrence` has no state. Time is cut into days of `DayLength` instants and
weeks of `Week` days; a shift keeps its first times and a rule, and
`ExpandOccurrences`, `RecurrencesOverlap` and `Collides` decide as
`expandOccurrences`, `recurrencesOverlap` and `assertNoOverlap` do: a cursor
that starts on the local day of the lower bound, an inclusive window, at most
`Horizon` occurrences (62 in the code, for days and for occurrences), the window
cut at `recurrenceEndAt`. `OnDuty` is the meaning they are checked against.
`Schedule` uses it in one zone whose clock does not change; `Duty` has the
clocks that do.

In `Schedule`, `shift[s]` is a row of shifts (status, `deletedAt`, times,
rule), `row[r]` a row of assignments (status, shift, officer, `replaces` for
`replacedAssignmentId`), `job[h]` what handler `h` is doing, the plan of the
shift it loaded, and the officers it has yet to check (`left`).

| Action | Code |
|---|---|
| `Init` | `create` of shifts, which checks nothing but its input |
| `CreateRead`, `CreateWrite` | `create` and `createBatch` of assignments: `loadAssignableShift`, and the inserts of one transaction |
| `ReassignRead`, `ReassignLoad`, `ReassignWrite` | `reassign` |
| `FindDuplicate`, `FindOverlap` | `assertNoDuplicate` and `assertNoOverlap`, for one officer each |
| `UpdateRead`, `UpdateFind`, `UpdateConflicts`, `UpdateWrite` | `update` of shifts with `assertNoAssignmentConflictsOnReschedule`, one read per officer |
| `AssignmentRead`, `AssignmentWrite` | `updateStatus`, `confirm`, `cancel` of assignments |
| `ShiftRead`, `ShiftFind`, `ShiftWrite` | `updateStatus` and `archive` of shifts, with the cascade |

An update gives both times or neither, and the three fields of the rule or
none. Clock-in and clock-out, which also move these statuses, are in
`Attendance`; here the same moves are `AssignmentWrite` and `ShiftWrite`.

`BookingsKept` (one active assignment per shift and officer, and no double
booking) and `ReplacedOnce` are stated for requests that do not overlap; the
code keeps them by checks only, and a second handler breaks each. Double booking
is about one-off shifts, because a reschedule of a recurring one compares first
occurrences (section 7). `AcceptedIsFree` is about the moment an assignment is
created, for all shifts: the accepted officer is on duty for one shift at a
time, in every occurrence that the check looks at, but for the night before the
first.

### Duty

A zone is two offsets and the instant its clock changes. `Wall` is
`zonedParts`, `ZonedDateTime` the four corrections of a guess (`Corrected`; the
loop's `break` saves only corrections by nothing), and on them rest
`StartOfDay`, `EndOfDay` and the occurrence of a shift on a day.
`CurrentOccurrence`, `TodayOccurrence`, `OccurrenceFromClientDate`,
`ResolveClockIn` and `ResolveActiveOrUpcomingToday` choose the day as
`shift-recurrence.util` does; `ClockIn` and `ClockOut` make a row with the times
`calculateTotals` gives, counted from `StartFor` and `EndFor` of the row's day,
which are the shift's own times where it has no occurrence that day; `Move` gives
the shift another site. `Records`,
`BySite`, `OfficerAllSites`, `ScheduledShifts`, `MissedShifts` are the report.
`DutyFound`: who is on duty is shown that occurrence and may clock in to it.
`HoursCountedOnce`: every instant is in one day, and rows and hours of the
reports add up.

### Sessions

One user. `session` are the rows of refresh sessions with their family, `code`
and `token` the one-time codes and reset tokens, `device` the statuses of the
devices; a password is the number of the change that set it.

| Action | Code |
|---|---|
| `LoginRead`, `LoginFailed`, `LoginDevice`, `LoginDeviceWrite`, `LoginRehash`, `LoginSession`, `LoginDone` | `login` with `registerFailedLogin` and `upsertForLogin` |
| `RefreshRead`, `RefreshFamily`, `RefreshUser`, `RefreshDevice`, `Rotate` | `refresh`, `revokeFamily`, `rotate` |
| `Logout`, `LogoutAll` | `logout`, `logoutAll` |
| `ChangeRead`, `ChangeWrite`, `ResetRead`, `ResetWrite`, `RevokeAll` | `changePassword`, `resetWithToken`: the password, then the sessions |
| `IssueCode`, `VerifyRead`, `VerifyWrite`, `AttemptRead`, `AttemptWrite` | the one-time codes |
| `DeviceRead`, `DeviceWrite`, `UserRead`, `UserWrite`, `Unlock` | the administrator |
| `LockExpires`, `SessionExpires`, `CodeExpires`, `CleanUp...` | time, and the clean-up jobs |
| `Crash` | the server stops within a request |

`late`, `reused`, `unfinished`, `guessed` are history. `FamiliesKept`: one good
token of a family, none after a reuse. `PasswordEndsSessions`: a good session
was opened under the present password unless its end is under way or was cut
off. `PermittedOrLate`: a blocked device or account has no good session but one
whose request was admitted before. `CodesBounded`: one open code, one token per
code, bounded guesses.

### Cases

Incidents, alarms (SOS) and support requests of one day, by number. `NumberRead`
is `nextNumber` with its order of **strings** (`Before`), `Insert` the insert
that the unique index may refuse; the other actions are a read and `Write`, one
transaction with the event and the dates. `NumbersKept`: numbers have no gap,
and a creation is refused only if another one of its kind came in between or
the padded numbers are used up. `TraceTellsStatus`: the events lead from one to
the next up to the status, and the end is dated on what ended; however requests
overlap, only an incident that was escalated is ever closed.

### Sync

One operation recorded offline, brought by batches and by the endpoint itself.
A batch takes the `outer` record (`sync:` and the operation id), the endpoint
the `inner` one. The outer hash is of the whole payload, the inner one leaves
fields out: `entity.hash`, any of `Hashes`, says which payloads it does not tell
apart, and `SameHash` is what `begin` compares. `Begin` and `BeginWrite` are `begin` for either, `Look`,
`Insert`, `Store` the endpoint's work, `Complete`, `Fail`, `Conflict`, `Upsert`
what `sync.service` does with the outcome; `Throw`, `Crash` and an early
`LockEnds` are the faults. `MadeOnce` says when an operation may be applied
twice: with a local id never. `AnswersKept`: a device told "done" learns of
something done, undisturbed with a payload that the record guarding the
operation does not tell from its own, and a conflict is one of two payloads. `EveryOperationSettles`
is liveness: a device that keeps sending gets a final answer.

### Staff and Access

`Staff` has accounts, profiles and supervisor relations, with the handlers of
`users.service`, `officers.service` and `supervisors.service`: `Create`,
`AccountFind`, `Count` (the other administrators), `RoleWrite`, `StatusWrite`;
`ProfileFind`, `EmploymentWrite`, `OfficerArchive`, `SupervisorArchive`;
`AssignFind`, `AssignCheck`, `AssignWrite`, `UnassignFind`, `UnassignWrite`;
`Admitted` is the guard that looked at the actor before the handler began.
`raced` and `unseated` are history, for the two ways the code lets an invariant
go (section 7). `AdministratorRemains`, `SupervisionKept`,
`ArchivedProfileEndsAccount`.

`Access` has no action: for each list, count and single read of every service it
has an operator over the reader and the columns the query looks at.
`ReadingAgrees` compares them in every state `Staff` reaches: what is listed
opens, what is counted is listed, what is one's own opens, what one may decide
on one may open, what a shown row names may be opened. Its exceptions are listed
in section 7.

### Routes and Premises

`Routes` has routes, checkpoints and the creation of patrols from them,
`Premises` the sites and clients around them; one action per read that decides,
one per write. `raced` is history: a write came between what a request read and
wrote. A reorder names as many items as there are active checkpoints, but not
necessarily different ones (`named`). `PatrolKeepsItsRoute`: a patrol that is not over has its route and
checkpoints, unless raced. `RefusedForThePast`: the unique index on sequence
numbers refuses a request whose check passed only for an archived checkpoint's
number or after a race, and a reorder also for an inactive checkpoint's or, when
it names one twice, for that of one it leaves out. `ArchivedClientHasNoSite`, but for sites restarted
later.

### Evidence and Notices

`Evidence`: `AskRead`, `AskWrite` (`requestUpload` with the quota), `Upload` (to
the store, at any time while its URL is good), `CompleteRead`, `CompleteStore`,
`CompleteLook`, `CompleteWrite` (`completeUpload`, with the local and with a
remote store), `VerifyRead`, `VerifyWrite`, `DeleteRead`, `DeleteWrite`.
`QuotaKept`: what is charged is what was completed, and the quota holds unless
`loose` (files asked for at once, larger than said, or completed twice).
`ContentKept`: a row describes its object unless the object was written to
later.

`Notices`: a request tells its recipients one after the other (`NextRecipient`,
`CreateRow`, `CreateInApp`, `CreatePush`); each push is a promise of its own
(`FindTokens`, `Send`, `HandleTokenResult`, `PushEnds`, `PushFails`); the
recipient reads, archives and clears. `NoticesTold`: an answer has told
everybody and nobody else, a push is waited for only while it is under way or
was lost to a stop, tokens given up were dead, a notice is cleared only when
read.

### What the models share and leave out

A Prisma query with its `include`s is one read. A refused request changes
nothing and is not a step, unless an earlier read was. Audit records and event
rows are append-only and left out where no property is about them.
Authorisation (but for `Access`), validation, GPS and QR codes only refuse, and
are left out. `CreateWrite` (Patrol), `StartBreakWrite` (Attendance) and the
inserts of the other modules wait once the bound on rows is used up. Each module
has *slips* (`Name_What`, marked `slip:`): the definition with a plausible
mistake in it, used to see that a property notices the mistake.

## 4. The runs

| Run | Instance | Distinct states | Shows |
|---|---|---|---|
| `idempotency_leases` | one key, two payloads, two requests each, two servers that may stop, locks of 1 tick, `MaxTime` 1, symmetric | 475 153 | all safety and the refinement, with locks that expire under a running request |
| `attendance_officer` | 2 days, recurring, 2 breaks, officer and reviewer (who does not reject) | 2 618 884 | the officer-level properties, and the cards |
| `attendance_one_off` | one-off, two kinds of behaviours: one handler with all 14 operations over 2 days with 2 breaks, or two phones and a reviewer on 1 day with 1 break | 1 284 613 | the serial properties; `NeverBackOnDuty` under every race |
| `jobs` | 3 jobs, 3 attempts, stop at any time; fair | 8 162 | safety and liveness of the queue |
| `patrol` | 2 checkpoints, sequential, two kinds of behaviours: one handler with 2 patrols, or two phones and a supervisor with 1 | 606 985 | the serial properties; order and honest completion under every race |
| `schedule` | 4 shifts (two one-off, a daily series, one of odd days that may have ended before it began), 2 officers, 3 assignments, one handler, symmetric; `DayLength` 4, `Week` 2, `Horizon` 3 | 1 249 408 | double booking over sequences of requests; the overlap calculus |
| `sessions` | one client, one administrator, one device, 2 rows to come in all of sessions and codes, one wrong login or code allowed | 2 019 099 | families, passwords, blocks and codes |
| `cases` | two parts: 2 handlers and 4 numbers of which 2 fit the padding; an officer on one of 4 shifts in one of 6 zones over 10 ticks, `DayLength` 4 | 40 904 | numbers and traces; occurrences and hours |
| `sync` | two batches and the endpoint, one of the three with another payload, which the endpoint's hash tells apart or does not; one fault at any point; fair | 567 940 | how often an operation is applied, what is answered, that it settles |
| `staff` | 3 users of any roles, 2 relations, 2 handlers, 4 requests, symmetric | 2 774 263 | administrators, supervision, archived profiles, who is shown what |
| `premises` | 2 clients, 2 sites, 1 route, 3 checkpoints, 1 patrol, 2 handlers, 4 requests, symmetric | 2 555 199 | archiving against use; the numbers of checkpoints |
| `evidence` | two parts: 2 files of 1 or 2 bytes, quota 2, 2 handlers, 5 requests; an alarm and a broadcast to 2 users with 2 devices, one change beside | 874 334 | the quota and the content; recipients, pushes and tokens |

Where a run has two parts or two kinds of behaviours, a variable of its MC
module that never changes (`part`, `alone`) says which; the properties that hold
for requests in turn only start with `alone =>`, and the parts share nothing.

Why the bounds are enough to be interesting. Two requests per payload and two
payloads give every pair of a retry and a reuse of a key; `MaxTime` 1 with
locks of 1 tick lets a lock expire at any point of any request. Two breaks are
what "one at a time" and sums are about, two days what recurrence is about; a
third concurrent handler is needed for a race that a second one observes. Two
checkpoints make an order; two patrols a duplicate. Three jobs with three
attempts let a retried job be overtaken. Three assignments are a booked
officer, one replaced, and its replacement; the one-off shifts have times that
meet and times that do not, one runs over midnight, and the horizon of three
days is shorter than the daily series, so that the limit bites. Which statuses
a shift and its assignments are moved to is bounded per shift (`Asked`).

Two sessions are a token and the one that replaces it, or a login beside a live
session; the rows of the past are there already deleted, so that codes and
sessions share a budget. Two numbers that fit the padding and two that do not
are a number that sorts before the one it follows, taken once, and then again.
Two payloads with the identity and a constant are the two things a hash can do
with a pair. Three senders are a holder, one that is refused and fails it, and a third that
gets in. Four requests of staff are two pairs that overlap; three users are an
administrator, one to be demoted and the one who does it. Two checkpoints and a
third to come are the numbers of an order, one of them archived. Five requests
of evidence are two files asked for, completed, and one of them once more. The
days of `Duty` are four ticks: a change of the clock, the window before a shift
and the grace after it are one tick each, the least that can matter. `Small` and
`Few` bound the two composed runs further: at most one incident and one alarm,
and no support request beside them, since kinds of cases share nothing; and of
the changes beside a message (an account, a device, a token, preferences, a
notice read or archived) one at a time.

Deadlock is not checked: all these systems stop when no request is left
(`CHECK_DEADLOCK FALSE` in each configuration), and where a request must not
hang, a liveness property says it.

Symmetry (requests of one key and payload, break rows, officers, assignment
rows, handlers, files, relations) is used in safety runs only.

## 5. Fairness

`QueueFairSpec` of `JobQueue`: weak fairness of "a scheduled call runs" (`Idle \/
Start`): Node runs every `setImmediate` callback; and of "the processor of job
j returns or throws" (`Settle(j)`), which the code's processors do, their work
being database calls that time out. Not fair: `Enqueue` and `Stop`.

`SyncFairSpec` of `Sync`: weak fairness of `Send` (a device keeps an operation in its
outbox and sends it until it has a final answer), of `Handle` (the event loop
runs every callback whose promise settled, and the database answers or fails),
and of `LockEnds` (time passes). Not fair: the faults, of which there are at
most `MaxFaults`.

The other modules have no liveness property: nothing in them waits.

## 6. The proofs

All theorems hold for every value of the constants under the assumptions named
in the modules (types of the parameters; `LockTicks > 0`; `Days` are positive
numbers; the sets of jobs, of files and of checkpoints are finite; and so on),
and some under a named condition that the property is about, such as
`OneOfficer`. Each rests on an inductive invariant, which the component's module
states after its properties and which TLC has checked on the instance of its
run.

- `InfrastructureProofs`, of `Idempotency`: `Inductive` proves `IInv`: types,
  `AnswerInv` (no answer before the end), `CommitInv` (a stored body is a
  committed operation's), `LockInv` (a request on its way holds an unexpired
  lock or has lapsed), `LeaseInv` (while no lock of a key lapsed, a PROCESSING
  record belongs to a request on its way, and one payload reaches the
  operation), `SoleInv` (while the key is undisturbed one request executes). The
  last two are why the invariant is needed: `OneEffectUntilDisturbed` says
  nothing of requests between their read and their write. From it `TypeCorrect`,
  `AnswersAllRight`, `OneEffect`, `StoredKept`, and `KeepsPromise`, the
  refinement: each action maps to a step of `OncePerKey` or a stutter.
  Of `JobQueue`: `Placed` (`JobsPlaced`), `MetricsTrue` (with cardinalities),
  `StoppedForGood`. Of `Cases`: `NumbersFollow` and `TracesTell`.
  `NumberedInTurn` says that the numbers of a kind are 1 to some `m <= Padded`,
  and `Counts` that a creation holds the number after as many as it saw; the
  greatest number *as a string* is `m` until `m = Padded`, and `Padded - 1` from
  then on, because `Padded \div Base < Padded - 1`. That only escalated
  incidents are closed needs no order of requests: `KnowsCase` says that whoever
  is about to write a status that follows the escalation knows of it, and
  `escalationTriggeredAt` is never taken back.
- `AttendanceProofs`: `Inductive` proves `IInv = TypeOK /\ BreakInv /\ JobInv
  /\ ClockedOutIsSettled`; `JobInv` says what a handler may still rely on of
  what it read (breaks it counts are ended, and never un-end). `TypeCorrect`,
  `Settled` and `NotBackOnDuty` follow for any interleaving of any handlers.
  `BreaksOfOneOfficer` assumes `OneOfficer` (the officer's operations come
  from one handler) and adds `OfficerInv`: what `performClockOut` and
  `performStart` saw still holds when they write, because only they could
  change it. `ShownToTheOfficer` adds `WorkInv` (no attendance, and no request
  about one, is of a day that has not come; only worked days have an end or
  breaks), and that a finite set of days has a last one (`LastDay`).
  `ReleasedWhenFinished` adds `ReleaseInv` and needs, beside `OneOfficer`,
  `PlanLeftAlone`: a cancellation read before the clock-in and written after it
  leaves the assignment CANCELLED for good. `TotalsExactAlone` and
  `PlansFollowAlone` are for requests in turn: `AloneInv` of
  `MCAttendanceOneOff` says that the one request that is not idle read what is
  still so.
- `PatrolProofs`: `IInv` adds to types and the two halves of `VisitedHonestly`
  `JobOf`: what a handler read of the visits stays good enough, since a visit is
  never removed. `TypeCorrect`, `VisitsHonest`. `PatrolsTrue` is for requests in
  turn (`AloneInv` of `MCPatrol`: `Current`, the progress a transaction counted
  is that of the visits with its own; `NoDuplicateActive`).
  Of `Sync`, for any number of requests, payloads and faults: `SyncInductive`
  proves `SyncInv`, from which `AppliedOnce` (`MadeOnce`) and `ToldWhatIsSo`
  (`AnswersKept`). `GuardStands` says which one request may be between its look
  and the record that keeps others out: until that record has lost a request, it
  is PROCESSING, locked and of this one's payload while a request works, and
  once the operation was done it is COMPLETED or the one that did it is about to
  say so. `OuterStands` says that while nothing was disturbed a batch in the
  endpoint still has the batch's record for its own payload: without it a
  COMPLETED outer record could stand for a payload that the endpoint's hash tells
  from the one done. `DoneFor` is what survives of "with its own payload" once the
  endpoint's record does not see all of it: `SyncDone` and its use need of a hash
  only that it is a function of the payload. `Found` and
  `RecordsMean` say what a request and a record are evidence of; neither can
  cease to be so (`SyncGrows`), so requests that do not move need no argument.
- `ScheduleProofs`: with `OneHandler`, `Inductive` proves `IInv`, whose heart is
  `JobKnown`: what the one request has found so far still holds when it writes
  (`BookingChecked`: each officer checked has no duplicate and no overlap;
  `TimesChecked`: the new times collide with no assignment of the officers
  checked), because nobody else writes. `ReadStep` and `WriteStep` split the
  actions in those that add to what is found and those that use it.
  `BookedOnce` and `HandedOverOnce` follow, for any number of shifts, officers
  and rows and any batch, times and rules. `AcceptedAreFree` (`AcceptedIsFree`)
  is what the check is worth: `BookingChecked` says that the series compared do
  not overlap, and `CollisionFound` that if the officer were on duty twice at
  some instant up to the horizon, the expansions would hold both occurrences
  (`Expanded`, `OneOffTimes`), because neither day is before the cursor and no
  day within the horizon is beyond the limit (`WithinLimit`); `OnTimes` says
  that an occurrence of a day has that day's times.
  Of `Duty`, for any zone, shift and minutes: `Clock` is what a clock of two
  offsets shows, `Instant` that the four corrections end at the wanted time less
  one of the two, and from them `Found`: no day but yesterday, today and tomorrow
  can be the one on duty, if `WithinADay` (the shift and the change of the clock
  take no more than a day together). `DutyIsFound` (`DutyFound`) follows.
  `HoursAreCounted` (`HoursCountedOnce`) rests on `DutyInv`, whose heart is
  `StartFor(r.day) <= r.in`: the clock-out counts from a start that lies before
  the clock-in, though the row may have been made for an occurrence found
  another way (`Resolved`). It needs that the clock shows the start of a one-off
  shift once (`StartShownOnce`). Sums of minutes are proved to add up without
  induction over data, from the smallest counterexample (`TotalsAdd`,
  `SumIsTotal`); that the days tile the time (`DaysTiled`) is for clocks that do
  not change at midnight, as the property says. Both conditions are needed
  (section 7), and both hold of every zone and shift of the run `cases`.
- `SessionsProofs`: types for any number of clients; the rest for `OneClient`, a
  user who sends one request at a time, beside any number of administrators,
  clean-ups and stops. `RowsKept` and `FamiliesNamed` (a family is named by its
  first row), `KnowsSessions` (no row but the one a refresh has read can be good
  in its family, and no reuse of it was found meanwhile; a sign-in that found
  its device not ACTIVE knows of no session on it but those admitted before)
  and, for the codes, `CodesCounted` and `KnowsCodes` (while a code can be
  tried its attempts count every wrong answer). `Families`, `Passwords`,
  `Permission`, `CodesStayBounded`. Requests of one user that overlap fork a
  family, and count two guesses as one (section 7).
- `StaffProofs`: `TInv` (`Means`: what a request is about; `RelationsNamed`) and
  `StaffInv`: `AccountStands` (a request not overtaken that takes an
  administrator away knows another) and `SupervisionStands`. `Remains`,
  `Supervision`, `Archived` for any interleaving, the first two up to the
  history of what overtook. `Reading` (`ReadingAgrees`) is no induction: it is
  the case analysis by role that a reviewer of the queries would make, on the
  fact that a team is what the active relations link, for any accounts,
  relations, places and rows.
- `PremisesProofs`, of `Routes` and `Premises` together: what a request has
  read stands unless it was overtaken (`RowsKnown`, `PremisesKnown`), and the
  checkpoints of a route, archived ones too, have different numbers
  (`NumbersApart`); that a route has no more active checkpoints than there are
  numbers, for a reorder, is the pigeonhole principle on a finite set, and that
  one which leaves an active checkpoint out names another twice is a count of the
  same set. `PatrolKept`, `Refusals`, `ArchivedClient`.
- `EvidenceProofs`: `FilesInductive` proves `EvidenceInv`: `SeenStands` (what a
  completion looked at is there still, unless replaced) and `RoomLeft` (while
  nothing is `loose`, one file at most is still to be counted and the quota has
  room for it). The bytes used are a sum over the files; that a sum over a finite
  set changes by what one file changes is proved without induction over data,
  from the smallest set for which it would fail (`Smallest`, `SumsAdd`,
  `SumsSame`). `Quotas`, `Contented`. Of `Notices`: `ToldInTurn` (the recipients
  a request has been through were told, but for the one it is about to tell)
  and `PushStands`; `Told`.

Only model-checked: liveness (`JobsFinish`, `EveryOperationSettles`), which is
beyond the prover. Every other property that a run checks is stated by a theorem.

Two things would be worth proving next: that `ZonedDateTime` returns an instant
that shows the wanted time whenever there is one, wherever the clock that the
first guess reads has not gone back (`Instant` is the first half of it); and an abstract
specification of `Schedule`, a calendar of each officer that bookings are entered
in, which `AcceptedIsFree` is a step towards.

## 7. Known disagreements

Where the code does other than its documents say, or keeps a property only under
the condition that the property states. Each was met while modelling; it can be
seen by dropping the condition, or by giving the instance another handler, and
checking the property again.

Idempotency

- `docs/idempotency.md:32` has duplicates of a request in progress refused until
  it completes; but two retries of a failed request can both read FAILED, both
  take the record over, and both execute (`prisma-idempotency.store.ts:88`).
- An expired lock lets a request with another payload take a key over, and a
  request that outlived its lock overwrites the stored response.

Attendance, breaks and the plan

- An attendance whose clock-out was put to review is in an "active" status,
  which the comment at `attendance-transitions.util.ts:84` calls not yet clocked
  out (`attendance.service.ts:1389` sets it).
- `BreaksInTurn` fails with two phones of one officer: two starts, or a start
  and a clock-out, overlap (`docs/break-api.md` lines 18 and 21).
- `PlanFollowsWorkAlone` and the transition table fail when reviewers or
  planners overlap with the officer: every write is by id, from a status read
  before. A clock-in that overlaps a cancellation makes the assignment active
  again.
- A break that is ended and cancelled at once is CANCELLED and counted; a break
  ended after the clock-out changes `totalBreakMinutes` and not
  `payableMinutes`.
- `docs/attendance-calculations.md:9` subtracts `unpaidBreakMinutes`; the code
  subtracts `totalBreakMinutes`.
- A correction that gives a CLOCKED_IN day its end leaves it CLOCKED_IN: it
  stays current and is not in the history. Clock-in does not ask whether the
  officer is still clocked in for another day.
- One-off shifts are repeated every day by `findCurrent` and by clock-in, and
  are upcoming on their own day only. The clock-out of such a repeated day takes
  late, early and overtime minutes from the shift's own first day
  (`attendance.service.ts:1418`), though the comment of `shift-recurrence.util`
  has one-off shifts keep working every day.

- An occurrence is looked for on yesterday, today and tomorrow
  (`shift-recurrence.util.ts:187`). A shift that takes, with the hour by which
  the clock goes forward, more than 24 hours is not found in its last hours: one
  of a whole day in spring, or a longer one, since
  `SHIFT_MAX_DURATION_HOURS` may be 72. `DutyIsFound` has `WithinADay`; a daily
  shift of a whole day that starts late in the day and a clock that goes
  forward meanwhile violate `DutyFound` without it.
- A one-off shift that starts at an hour the clock shows twice is repeated, by
  the search that has it every day, from the later of the two instants. If its
  grace period is shorter than that hour, a clock-in of the next day records
  late minutes counted from there, and its row has the shift's own day, whose
  start is the earlier one. `HoursAreCounted` has `StartShownOnce`; a grace period
  of no minutes violates `HoursCountedOnce` without it.

Schedule

- `BookingsKept` and `ReplacedOnce` fail for overlapping creations,
  reassignments and reschedules: the checks are reads, the writes follow, and no
  index stands behind them (`schema.prisma:873` leaves uniqueness to the
  services).
- A recurring night shift that began on the evening before the proposed shift is
  not seen by the overlap check: the cursor starts on the proposed shift's own
  day. `AcceptedIsFree` excepts this night.
- A reschedule compares the first occurrences of both shifts only, and a change
  of the recurrence rule alone is not compared with anything, so that officers
  of recurring shifts can come to be booked twice. Nothing is compared beyond
  62 days or 62 occurrences, or where the last occurrence of a series runs past
  `recurrenceEndAt`.

Patrols and routes

- Approving the last visit under review takes a patrol from REQUIRES_REVIEW to
  IN_PROGRESS (`patrol-visits.service.ts:682`), a move the table of
  `docs/patrol-state-machine.md` (lines 3 and 21) does not have.
- `PatrolsTrueAlone` fails for overlapping visits: each transaction counts the
  committed visits and its own, and the counter stays one short until it is
  next recalculated; and for overlapping creations, which leave two active
  patrols. A visit can be recorded on a patrol cancelled meanwhile.
- `docs/patrol-assignment-api.md:47` omits that REQUIRES_REVIEW patrols can be
  cancelled; `OUTSIDE_GEOFENCE` is a visit status no handler writes.
- `assertSequenceAvailable` passes over archived checkpoints, whose numbers the
  unique index still counts. Setting `active: false` and reordering do not ask
  for running patrols, and an edit may break the numbering of an ACTIVE route.
- `reorder` (`patrol-checkpoints.service.ts:317-351`, and its DTO) asks that the
  numbers are 1 to n and the ids those of active checkpoints, not that the ids
  differ. `[{c1,1},{c1,2}]` passes: with the unnamed checkpoint at one of these
  numbers the index refuses it, with nobody else about; otherwise c1 ends with
  the last of its numbers, the unnamed one keeps its own, and the numbering has a
  gap, though the message for a wrong count says that a reorder "must include
  every active checkpoint".
- An inactive site of an archived client can be made ACTIVE again; a status
  written by id after an archive that overlapped leaves ACTIVE with `deletedAt`.

Sessions

- Two refreshes of one token that overlap both rotate it: the family has two
  good tokens.
- A login writes the status of its device from an earlier read, over a block
  that overlapped; its last update clears a lock set meanwhile; its rehash can
  write the old password over a change that overlapped.
- A server that stops between a new password and `revokeAllForUser` leaves the
  sessions of the old one; `changePassword` leaves reset tokens open.
- Attempts at a code that overlap count once, and write `consumedAt: null` back.

Cases and notices

- After number 9999 of a day, 10000 is taken once, and then computed again for
  every later creation of that day, which the index refuses.
- No operation submits a DRAFT incident, and none leads to RESOLVED, REJECTED,
  UNDER_INVESTIGATION or OFFICER_DISPATCHED; so `close` follows `escalate` only.
  Support requests have no transition table. Both tables let a status be set
  again.
- `assign` and answers that overlap write back a status they read before, and
  the trace then has an event that does not start where the last one ended.
- A fault at one recipient refuses the request and leaves the later ones untold
  after the alarm is committed. A stop leaves pushes QUEUED for good: no job
  takes them up. A push without a token, or with the provider disabled, is
  recorded SENT. Quiet hours and the mail and text preferences are stored and
  not read. Support requests are told to administrators whatever the status of
  their account.

Sync

- A COMPLETED row answers any payload, though `docs/sync-api.md` has mismatches
  write a `SyncConflict` row.
- The hash of a batch's record is of the whole payload (`sync.service.ts:95`), the
  one its endpoint takes leaves out the description (`incidents.service.ts:92`) or
  the accuracy and the site (`emergencies.service.ts:61`). A batch whose payload
  differs only there from one the endpoint already COMPLETED is told "completed",
  without any fault, and what it brought is never stored; a request of the
  endpoint is told of a replay. `docs/sync-api.md:24` has payload mismatches write
  a `SyncConflict` row.
- `asIncidentDto` (`sync.service.ts:264-297`) drops `assignmentId`, without which
  `incidents.service.ts` refuses a security officer. So an officer's
  `incident.create` in a batch is refused every time it is sent, and never
  settles. `EveryOperationSettles` is about payloads the endpoint accepts (an
  incident of one who is not a security officer, alarms, support requests,
  updates).
- A batch refused as in progress fails the record that the other request holds,
  and its upsert of FAILED may come after the other's COMPLETED; after an inner
  conflict the outer record stays PROCESSING until its lock ends.

Staff and access

- Two administrators who demote each other at once leave none (`raced`), and a
  profile operation on an administrator's profile does not count administrators
  (`unseated`). The count matters only for a request admitted before its actor
  was demoted.
- Two assignments that overlap give an officer two supervisors. Employment set to
  ARCHIVED or TERMINATED leaves the relations active, and may make an archived
  user ACTIVE with `deletedAt` kept; `officers.create` may store employment
  ARCHIVED with an ACTIVE account. `ensureRoleProfile` brings a profile back only
  in a role change that overlaps its archiving.
- Where lists and single reads differ, `ReadingAgrees` says so: the search of
  incidents and the `outsideGeofence` filter of attendance bring an OR that
  replaces that of the scope; lists with `includeArchived` show rows the single
  read refuses; a patrol of an officer outside the team is listed to the
  supervisor its assignment names, and does not open; a list of breaks filtered
  by an officer outside the team is the whole team's; assignments filtered by an
  officer also hold those of others that name the supervisor; an ADMIN_ONLY note
  is not shown to its author who is none; a supervisor's dashboard counts the
  team's emergencies, the list shows all. The comment at
  `incidents.service.ts:283` foresees a reporter without an officer profile,
  whom `resolveOfficerProfileId` refuses.

Evidence

- `completeUpload` accepts a completed row and adds its bytes again; a soft
  delete frees neither bytes nor object, and one that overlaps a completion
  leaves AVAILABLE with `deletedAt`. Two files asked for at once are both within
  the quota. A completion refused for its checksum has already replaced the
  object. A verified mark outlives a completion that follows. The remote store
  answers its ETag, so that a completion that declares a checksum is refused.

Reports

- A row clocked in on another day than its occurrence's is in the reports of
  both days. `missedShifts` is scheduled less completed, and rows of other days'
  occurrences hide missed ones. A one-off shift over midnight is scheduled in
  both periods.
- The four corrections of `zonedDateTime` end an hour early in zones west of
  Greenwich whose clock goes forward at midnight, and lose the repeated hour
  before midnight where it goes back; `HoursCountedOnce` excepts clocks that
  change at midnight.

## 8. Not modelled

Listed with their reasons in `PROJECT.json`. BullMQ, the object store, the mail
transport and the push providers are external; the socket gateway passes on
what it is given. `incr` of the in-memory Redis awaits its read before it
writes, but nothing in the code counts with it. Cache, metrics and API keys
decide nothing; audit log and admin are append-only records and reads; the HTTP
layer, configuration, validation, mappers, scripts and the seed keep no state.
Of modelled parts, left out are: batch creation of patrols, positions and QR
codes, the content of notes and edits, downloads, and reports grouped by
officer.
