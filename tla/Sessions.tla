------------------------------ MODULE Sessions ------------------------------
(***************************************************************************)
(* How one user signs in and stays signed in: auth.service with its        *)
(* session, device and password-reset services, the administrator's        *)
(* operations on the device (devices.service) and on the account           *)
(* (users.service), and the clean-up jobs that delete what is over.        *)
(*                                                                         *)
(* A refresh session is a row; the sessions that replace one another form  *)
(* a family.  A handler is one action per read it decides from and one per *)
(* writing transaction; a refused request goes back to idle.  Tokens and   *)
(* passwords are known by their hashes only: a password is the number of   *)
(* the change that set it, a presented token names its row.                *)
(***************************************************************************)
EXTENDS Integers, FiniteSets

CONSTANTS
  Clients,       \* the user's requests being handled at one time
  Admins,        \* the administrators' requests being handled at one time
  Devices, NoDevice,
  AutoApprove,   \* newDeviceAutoApprove
  MaxFailed,     \* auth.maxFailedAttempts
  MaxAttempts,   \* auth.passwordResetMaxAttempts
  Asked,         \* bound: the statuses an administrator asks for
  MaxSessions,   \* bound: the RefreshSession rows
  MaxPassword,   \* bound: the changes of the password
  MaxCodes       \* bound: the codes, and the reset tokens

Rows == 1..MaxSessions
Codes == 1..MaxCodes
Handlers == Clients \cup Admins

AccountStatuses == {"INVITED", "ACTIVE", "SUSPENDED", "DISABLED", "ARCHIVED"}
DeviceStatuses == {"PENDING", "ACTIVE", "REVOKED", "BLOCKED"}

ASSUME SessionsAssumption ==
  /\ Clients \cap Admins = {} /\ NoDevice \notin Devices
  /\ AutoApprove \in BOOLEAN
  /\ Asked \subseteq AccountStatuses \cup DeviceStatuses \cup {"RESET"}
  /\ {MaxFailed, MaxAttempts} \subseteq Nat \ {0}
  /\ {MaxSessions, MaxPassword, MaxCodes} \subseteq Nat

VARIABLES
  user,        \* the User row
  device,      \* the status of the Device rows
  session,     \* the RefreshSession rows
  code,        \* the PasswordResetToken rows with purpose OTP
  token,       \* the PasswordResetToken rows with purpose RESET_TOKEN
  job,         \* what each handler is doing, and what it has read
  late,        \* history: sessions made when the user or the device was already refused
  reused,      \* history: families ended because a revoked token came back
  unfinished,  \* history: a server stopped between a new password and the end of the sessions
  guessed      \* history: the wrong codes answered while a code was the latest

vars == <<user, device, session, code, token, job, late, reused, unfinished, guessed>>
history == <<late, reused, unfinished, guessed>>

UserRow == [status : AccountStatuses, deleted : BOOLEAN, password : 0..MaxPassword,
            failed : 0..MaxFailed + 1, locked : BOOLEAN]

SessionRow == [state : {"absent", "live", "revoked", "deleted"}, family : 0..MaxSessions,
               device : Devices \cup {NoDevice}, made : 0..MaxPassword, expired : BOOLEAN]

(* `from` is the code a reset token was given for. *)
CodeRow == [state : {"absent", "open", "used", "deleted"}, expired : BOOLEAN,
            attempts : 0..MaxAttempts]
TokenRow == [state : {"absent", "open", "used", "deleted"}, expired : BOOLEAN,
             from : 0..MaxCodes]

Job == [at : {"idle", "login_failed", "login_device", "login_write", "login_rehash",
              "login_session", "login_done", "refresh_family", "refresh_user",
              "refresh_device", "rotate", "change_write", "revoke_all", "verify_write",
              "attempt", "attempt_write", "reset_write", "device_write", "user_write"},
        device : Devices \cup {NoDevice}, row : 0..MaxSessions + MaxCodes,
        seen : 0..MaxPassword + MaxFailed + MaxAttempts + 1,
        was : DeviceStatuses \cup {"ABSENT"},
        next : AccountStatuses \cup DeviceStatuses \cup {"RESET"}]

TypeOK ==
  /\ user \in UserRow
  /\ device \in [Devices -> DeviceStatuses \cup {"ABSENT"}]
  /\ session \in [Rows -> SessionRow]
  /\ code \in [Codes -> CodeRow]
  /\ token \in [Codes -> TokenRow]
  /\ job \in [Handlers -> Job]
  /\ late \subseteq Rows
  /\ reused \subseteq Rows
  /\ unfinished \in BOOLEAN
  /\ guessed \in [Codes -> Nat]

Idle == [at |-> "idle", device |-> NoDevice, row |-> 0, seen |-> 0, was |-> "ABSENT",
         next |-> "ACTIVE"]

Past(is) == IF is THEN "deleted" ELSE "absent"

(* The rows of the user's earlier sessions and codes have been cleaned up. *)
Init ==
  /\ user = [status |-> "ACTIVE", deleted |-> FALSE, password |-> 0, failed |-> 0,
             locked |-> FALSE]
  /\ device = [d \in Devices |-> "ABSENT"]
  /\ \E past \in 0..MaxSessions :
       session = [s \in Rows |-> [state |-> Past(s <= past), family |-> 0, device |-> NoDevice,
                                  made |-> 0, expired |-> FALSE]]
  /\ \E past \in 0..MaxCodes :
       /\ code = [c \in Codes |-> [state |-> Past(c <= past), expired |-> FALSE, attempts |-> 0]]
       /\ token = [c \in Codes |-> [state |-> Past(c <= past), expired |-> FALSE, from |-> 0]]
  /\ job = [h \in Handlers |-> Idle]
  /\ late = {} /\ reused = {} /\ unfinished = FALSE
  /\ guessed = [c \in Codes |-> 0]

-----------------------------------------------------------------------------
At(h, step) == job[h].at = step

Becomes(h, j) == job' = [job EXCEPT ![h] = j]

Goes(h, step) == Becomes(h, [job[h] EXCEPT !.at = step])

Ends(h) == Becomes(h, Idle)

Live(s) == session[s].state = "live"

(* assertAccountCanAuthenticate: an invited user may sign in. *)
MayAuthenticate == user.status \in {"INVITED", "ACTIVE"}

Permitted(s) == MayAuthenticate /\ device[session[s].device] = "ACTIVE"

(* The access guard of an authenticated request: validateAccessUser. *)
Accepted(s) == ~user.deleted /\ Live(s) /\ Permitted(s)

(* The first row not yet used: rows are inserted with fresh ids. *)
IsNext(row, n) == row[n].state = "absent" /\ \A m \in DOMAIN row : m < n => row[m].state # "absent"

Ended(s) == IF s.state = "live" THEN [s EXCEPT !.state = "revoked"] ELSE s

(* revokeAllForUser, and the updateMany of the administrator's transactions. *)
AllEnded == [s \in Rows |-> Ended(session[s])]

EndedOn(d) == [s \in Rows |-> IF session[s].device = d THEN Ended(session[s]) ELSE session[s]]

(* createRefreshSession *)
New(family, d, made) ==
  [state |-> "live", family |-> family, device |-> d, made |-> made, expired |-> FALSE]

NoteLate(n, d) ==
  late' = IF MayAuthenticate /\ device[d] = "ACTIVE" THEN late ELSE late \cup {n}

-----------------------------------------------------------------------------
(***************************************************************************)
(* login: the account and the password, the device, the session, and last  *)
(* the counter of failures.                                                *)
(***************************************************************************)
LoginRead(h) ==
  /\ At(h, "idle") /\ ~user.deleted
  /\ MayAuthenticate /\ ~user.locked
  /\ \/ \E d \in Devices :
          Becomes(h, [Idle EXCEPT !.at = "login_device", !.device = d, !.seen = user.password])
     \/ /\ user.failed <= MaxFailed          \* bound
        /\ Becomes(h, [Idle EXCEPT !.at = "login_failed", !.seen = user.failed + 1])
  /\ UNCHANGED <<user, device, session, code, token, history>>

(* registerFailedLogin *)
LoginFailed(h) ==
  /\ At(h, "login_failed")
  /\ user' = [user EXCEPT !.failed = job[h].seen, !.locked = job[h].seen >= MaxFailed]
  /\ Ends(h)
  /\ UNCHANGED <<device, session, code, token, history>>

(* upsertForLogin finds the device by its installation. *)
LoginDevice(h) ==
  /\ At(h, "login_device")
  /\ IF device[job[h].device] \in {"REVOKED", "BLOCKED"}
       THEN Ends(h)
       ELSE Becomes(h, [job[h] EXCEPT !.at = "login_write", !.was = device[job[h].device]])
  /\ UNCHANGED <<user, device, session, code, token, history>>

(* The status is that of the device as it was found; installationId is     *)
(* unique, so a second insert fails.                                       *)
LoginDeviceWrite(h) ==
  /\ At(h, "login_write")
  /\ LET d == job[h].device
         status == IF job[h].was = "ACTIVE" \/ AutoApprove THEN "ACTIVE" ELSE "PENDING"
     IN IF job[h].was = "ABSENT" /\ device[d] # "ABSENT"
          THEN Ends(h) /\ UNCHANGED device
          ELSE /\ device' = [device EXCEPT ![d] = status]
               /\ IF status = "PENDING" THEN Ends(h)
                  ELSE \/ Goes(h, "login_session")
                       \/ Goes(h, "login_rehash")      \* needsRehash
  /\ UNCHANGED <<user, session, code, token, history>>

LoginRehash(h) ==
  /\ At(h, "login_rehash")
  /\ user' = [user EXCEPT !.password = job[h].seen]
  /\ Goes(h, "login_session")
  /\ UNCHANGED <<device, session, code, token, history>>

LoginSession(h) ==
  /\ At(h, "login_session")
  /\ \E n \in Rows :
       /\ IsNext(session, n)
       /\ session' = [session EXCEPT ![n] = New(n, job[h].device, job[h].seen)]
       /\ NoteLate(n, job[h].device)
  /\ Goes(h, "login_done")
  /\ UNCHANGED <<user, device, code, token, reused, unfinished, guessed>>

LoginDone(h) ==
  /\ At(h, "login_done")
  /\ user' = [user EXCEPT !.failed = 0, !.locked = FALSE]
  /\ Ends(h)
  /\ UNCHANGED <<device, session, code, token, history>>

-----------------------------------------------------------------------------
(***************************************************************************)
(* refresh: a token is replaced by the next of its family.  A revoked one  *)
(* that comes back ends the family, and so may a changed fingerprint.      *)
(***************************************************************************)
RefreshRead(h) ==
  /\ At(h, "idle")
  /\ \E s \in Rows :
       /\ session[s].state \in {"live", "revoked"}
       /\ IF session[s].state = "revoked"
            THEN Becomes(h, [Idle EXCEPT !.at = "refresh_family", !.row = s])
            ELSE /\ ~session[s].expired
                 /\ \E next \in {"refresh_user", "refresh_family"} :    \* fingerprint
                      Becomes(h, [Idle EXCEPT !.at = next, !.row = s])
  /\ UNCHANGED <<user, device, session, code, token, history>>

RefreshFamily_OneOnly(h) ==        \* slip: revokes the token that came back
  /\ At(h, "refresh_family")
  /\ session' = [session EXCEPT ![job[h].row] = Ended(session[job[h].row])]
  /\ reused' = reused \cup {session[job[h].row].family}
  /\ Ends(h)
  /\ UNCHANGED <<user, device, code, token, late, unfinished, guessed>>

(* revokeFamily *)
RefreshFamily(h) ==
  /\ At(h, "refresh_family")
  /\ LET f == session[job[h].row].family IN
       /\ session' = [s \in Rows |-> IF session[s].family = f THEN Ended(session[s])
                                     ELSE session[s]]
       /\ reused' = reused \cup {f}
  /\ Ends(h)
  /\ UNCHANGED <<user, device, code, token, late, unfinished, guessed>>

RefreshUser(h) ==
  /\ At(h, "refresh_user")
  /\ IF MayAuthenticate THEN Goes(h, "refresh_device") ELSE Ends(h)
  /\ UNCHANGED <<user, device, session, code, token, history>>

RefreshDevice(h) ==
  /\ At(h, "refresh_device")
  /\ IF device[session[job[h].row].device] = "ACTIVE" THEN Goes(h, "rotate") ELSE Ends(h)
  /\ UNCHANGED <<user, device, session, code, token, history>>

Rotate_KeepsOld(h) ==              \* slip: the token presented stays good
  /\ At(h, "rotate")
  /\ \E n \in Rows :
       /\ IsNext(session, n)
       /\ session' = [session EXCEPT ![n] = New(session[job[h].row].family,
                        session[job[h].row].device, session[job[h].row].made)]
       /\ NoteLate(n, session[job[h].row].device)
  /\ Ends(h)
  /\ UNCHANGED <<user, device, code, token, reused, unfinished, guessed>>

(* rotate: the row read is revoked whatever became of it; when the clean-up *)
(* has deleted it the update fails, and the insert with it.                 *)
Rotate(h) ==
  /\ At(h, "rotate")
  /\ LET s == job[h].row IN
       IF session[s].state = "deleted"
         THEN UNCHANGED <<session, late>>
         ELSE \E n \in Rows :
                /\ IsNext(session, n)
                /\ session' = [session EXCEPT
                     ![n] = New(session[s].family, session[s].device, session[s].made),
                     ![s].state = "revoked"]
                /\ NoteLate(n, session[s].device)
  /\ Ends(h)
  /\ UNCHANGED <<user, device, code, token, reused, unfinished, guessed>>

(* revokeSession; LogoutAll is revokeAllForUser. *)
Logout(h) ==
  /\ At(h, "idle")
  /\ \E s \in Rows : Accepted(s) /\ session' = [session EXCEPT ![s].state = "revoked"]
  /\ UNCHANGED <<user, device, code, token, job, history>>

LogoutAll(h) ==
  /\ At(h, "idle")
  /\ \E s \in Rows : Accepted(s)
  /\ session' = AllEnded
  /\ UNCHANGED <<user, device, code, token, job, history>>

-----------------------------------------------------------------------------
(***************************************************************************)
(* changePassword and resetWithToken write the password in a transaction   *)
(* and end the sessions after it.                                          *)
(***************************************************************************)
NewPassword ==
  [user EXCEPT !.password = @ + 1, !.failed = 0, !.locked = FALSE]

ChangeRead(h) ==
  /\ At(h, "idle")
  /\ \E s \in Rows : Accepted(s)
  /\ user.password < MaxPassword
  /\ Becomes(h, [Idle EXCEPT !.at = "change_write"])
  /\ UNCHANGED <<user, device, session, code, token, history>>

ChangeWrite_Ends(h) ==             \* slip: the other sessions are left
  /\ At(h, "change_write")
  /\ user.password < MaxPassword
  /\ user' = NewPassword
  /\ Ends(h)
  /\ UNCHANGED <<device, session, code, token, history>>

ChangeWrite(h) ==
  /\ At(h, "change_write")
  /\ user.password < MaxPassword         \* bound
  /\ user' = NewPassword
  /\ Goes(h, "revoke_all")
  /\ UNCHANGED <<device, session, code, token, history>>

RevokeAll(h) ==
  /\ At(h, "revoke_all")
  /\ session' = AllEnded
  /\ unfinished' = FALSE
  /\ Ends(h)
  /\ UNCHANGED <<user, device, code, token, late, reused, guessed>>

(* issueOtp: the codes still open are used up and a new one is inserted. *)
IssueCode_KeepsOld(h) ==           \* slip: earlier codes stay good
  /\ At(h, "idle")
  /\ ~user.deleted /\ user.status # "ARCHIVED"
  /\ \E n \in Codes :
       IsNext(code, n) /\ code' = [code EXCEPT ![n].state = "open"]
  /\ UNCHANGED <<user, device, session, token, job, history>>

IssueCode(h) ==
  /\ At(h, "idle")
  /\ ~user.deleted /\ user.status # "ARCHIVED"
  /\ \E n \in Codes :
       /\ IsNext(code, n)
       /\ code' = [c \in Codes |->
                     IF c = n THEN [code[c] EXCEPT !.state = "open"]
                     ELSE IF code[c].state = "open" THEN [code[c] EXCEPT !.state = "used"]
                     ELSE code[c]]
  /\ UNCHANGED <<user, device, session, token, job, history>>

(* verifyOtp with the code of a row, or with a code that no row has; any   *)
(* refusal but that of too many attempts counts as an attempt.             *)
VerifyRead(h) ==
  /\ At(h, "idle") /\ ~user.deleted
  /\ \/ \E c \in Codes :
          /\ code[c].state \in {"open", "used"}
          /\ IF code[c].state = "used" \/ code[c].expired
               THEN Becomes(h, [Idle EXCEPT !.at = "attempt"])
               ELSE /\ code[c].attempts < MaxAttempts
                    /\ Becomes(h, [Idle EXCEPT !.at = "verify_write", !.row = c])
     \/ Becomes(h, [Idle EXCEPT !.at = "attempt"])
  /\ UNCHANGED <<user, device, session, code, token, history>>

VerifyWrite(h) ==
  /\ At(h, "verify_write")
  /\ IF code[job[h].row].state = "deleted"
       THEN UNCHANGED <<code, token>>
       ELSE \E n \in Codes :
              /\ IsNext(token, n)
              /\ code' = [code EXCEPT ![job[h].row].state = "used"]
              /\ token' = [token EXCEPT ![n].state = "open", ![n].from = job[h].row]
  /\ Ends(h)
  /\ UNCHANGED <<user, device, session, history>>

(* registerInvalidOtpAttempt reads the latest open code, expired or not, *)
(* and writes its attempts, and consumedAt, back.                        *)
Latest(c) ==
  code[c].state = "open" /\ \A b \in Codes : b > c => code[b].state # "open"

AttemptRead(h) ==
  /\ At(h, "attempt")
  /\ IF \E c \in Codes : Latest(c)
       THEN \E c \in Codes :
              /\ Latest(c)
              /\ Becomes(h, [Idle EXCEPT !.at = "attempt_write", !.row = c,
                                         !.seen = code[c].attempts + 1])
       ELSE Ends(h)
  /\ UNCHANGED <<user, device, session, code, token, history>>

AttemptWrite(h) ==
  /\ At(h, "attempt_write")
  /\ IF code[job[h].row].state = "deleted"
       THEN UNCHANGED code
       ELSE code' = [code EXCEPT
              ![job[h].row].attempts = job[h].seen,
              ![job[h].row].state = IF job[h].seen >= MaxAttempts THEN "used" ELSE "open"]
  /\ guessed' = [guessed EXCEPT ![job[h].row] = @ + 1]
  /\ Ends(h)
  /\ UNCHANGED <<user, device, session, token, late, reused, unfinished>>

ResetRead(h) ==
  /\ At(h, "idle")
  /\ \E t \in Codes :
       /\ token[t].state = "open" /\ ~token[t].expired
       /\ Becomes(h, [Idle EXCEPT !.at = "reset_write", !.row = t])
  /\ UNCHANGED <<user, device, session, code, token, history>>

ResetWrite(h) ==
  /\ At(h, "reset_write")
  /\ user.password < MaxPassword         \* bound
  /\ IF token[job[h].row].state = "deleted"
       THEN Ends(h) /\ UNCHANGED <<user, token>>
       ELSE /\ token' = [token EXCEPT ![job[h].row].state = "used"]
            /\ user' = NewPassword
            /\ Goes(h, "revoke_all")
  /\ UNCHANGED <<device, session, code, history>>

-----------------------------------------------------------------------------
(***************************************************************************)
(* The administrator: updateStatus and retire of a device; updateStatus,   *)
(* archive, forcePasswordReset and unlock of the account.                  *)
(***************************************************************************)
DeviceTransitions ==
  [PENDING |-> {"ACTIVE", "BLOCKED"}, ACTIVE |-> {"REVOKED", "BLOCKED"},
   REVOKED |-> {"ACTIVE"}, BLOCKED |-> {"ACTIVE"}]

DeviceRead(h) ==
  /\ At(h, "idle")
  /\ \E d \in Devices, to \in Asked \cap DeviceStatuses :
       /\ device[d] # "ABSENT"
       /\ to \in DeviceTransitions[device[d]] \cup ({"REVOKED"} \ {device[d]})
       /\ Becomes(h, [Idle EXCEPT !.at = "device_write", !.device = d, !.next = to])
  /\ UNCHANGED <<user, device, session, code, token, history>>

DeviceWrite_KeepsSessions(h) ==    \* slip: a blocked device keeps its sessions
  /\ At(h, "device_write")
  /\ device' = [device EXCEPT ![job[h].device] = job[h].next]
  /\ session' = IF job[h].next = "REVOKED" THEN EndedOn(job[h].device) ELSE session
  /\ Ends(h)
  /\ UNCHANGED <<user, code, token, history>>

DeviceWrite(h) ==
  /\ At(h, "device_write")
  /\ device' = [device EXCEPT ![job[h].device] = job[h].next]
  /\ session' = IF job[h].next \in {"REVOKED", "BLOCKED"}
                  THEN EndedOn(job[h].device) ELSE session
  /\ Ends(h)
  /\ UNCHANGED <<user, code, token, history>>

AccountTransitions ==
  [INVITED |-> {"ACTIVE"}, ACTIVE |-> {"SUSPENDED", "DISABLED"}, SUSPENDED |-> {"ACTIVE"},
   DISABLED |-> {"ACTIVE"}, ARCHIVED |-> {}]

UserRead(h) ==
  /\ At(h, "idle") /\ ~user.deleted
  /\ \E to \in Asked \cap (AccountTransitions[user.status]
                          \cup ({"ARCHIVED"} \ {user.status}) \cup {"RESET"}) :
       Becomes(h, [Idle EXCEPT !.at = "user_write", !.next = to])
  /\ UNCHANGED <<user, device, session, code, token, history>>

UserWrite_Status(h) ==             \* slip: a forced reset is written as a status
  /\ At(h, "user_write")
  /\ user' = [user EXCEPT !.status = job[h].next, !.deleted = @ \/ job[h].next = "ARCHIVED"]
  /\ session' = IF job[h].next = "ACTIVE" THEN session ELSE AllEnded
  /\ Ends(h)
  /\ UNCHANGED <<device, code, token, history>>

UserWrite(h) ==
  /\ At(h, "user_write")
  /\ user' = CASE job[h].next = "RESET"    -> user      \* mustChangePassword
               [] job[h].next = "ARCHIVED" -> [user EXCEPT !.status = "ARCHIVED",
                                                           !.deleted = TRUE]
               [] OTHER                    -> [user EXCEPT !.status = job[h].next]
  /\ session' = IF job[h].next = "ACTIVE" THEN session ELSE AllEnded
  /\ Ends(h)
  /\ UNCHANGED <<device, code, token, history>>

Unlock(h) ==
  /\ At(h, "idle") /\ ~user.deleted
  /\ user' = [user EXCEPT !.failed = 0, !.locked = FALSE]
  /\ UNCHANGED <<device, session, code, token, job, history>>

-----------------------------------------------------------------------------
(* Time passes: a lock, a session, a code or a reset token runs out. *)
LockExpires ==
  /\ user.locked
  /\ user' = [user EXCEPT !.locked = FALSE]
  /\ UNCHANGED <<device, session, code, token, job, history>>

SessionExpires ==
  /\ \E s \in Rows : Live(s) /\ session' = [session EXCEPT ![s].expired = TRUE]
  /\ UNCHANGED <<user, device, code, token, job, history>>

CodeExpires ==
  /\ \/ /\ \E c \in Codes : code[c].state = "open" /\ code' = [code EXCEPT ![c].expired = TRUE]
        /\ UNCHANGED token
     \/ /\ \E t \in Codes : token[t].state = "open" /\ token' = [token EXCEPT ![t].expired = TRUE]
        /\ UNCHANGED code
  /\ UNCHANGED <<user, device, session, job, history>>

(* The clean-up jobs, at any time: sessions that are expired or were revoked *)
(* thirty days ago, codes and tokens that are expired or used, and devices   *)
(* that have been pending for ninety days.                                   *)
CleanUpSessions ==
  /\ \E old \in SUBSET {s \in Rows : session[s].state = "revoked"} :
       session' = [s \in Rows |->
                     IF s \in old \/ session[s].expired
                       THEN [session[s] EXCEPT !.state = "deleted", !.expired = FALSE]
                       ELSE session[s]]
  /\ UNCHANGED <<user, device, code, token, job, history>>

Over(row) ==
  IF row.state = "used" \/ row.expired
    THEN [row EXCEPT !.state = "deleted", !.expired = FALSE] ELSE row

CleanUpCodes ==
  /\ code' = [c \in Codes |-> Over(code[c])]
  /\ token' = [t \in Codes |-> Over(token[t])]
  /\ UNCHANGED <<user, device, session, job, history>>

CleanUpDevices ==
  /\ \E old \in SUBSET {d \in Devices : device[d] = "PENDING"} :
       device' = [d \in Devices |-> IF d \in old THEN "REVOKED" ELSE device[d]]
  /\ UNCHANGED <<user, session, code, token, job, history>>

(* The server that handles a request stops. *)
Crash(h) ==
  /\ ~At(h, "idle")
  /\ unfinished' = (unfinished \/ At(h, "revoke_all"))
  /\ Ends(h)
  /\ UNCHANGED <<user, device, session, code, token, late, reused, guessed>>

ClientStep(h) ==
  \/ LoginRead(h) \/ LoginFailed(h) \/ LoginDevice(h) \/ LoginDeviceWrite(h)
  \/ LoginRehash(h) \/ LoginSession(h) \/ LoginDone(h)
  \/ RefreshRead(h) \/ RefreshFamily(h) \/ RefreshUser(h) \/ RefreshDevice(h) \/ Rotate(h)
  \/ Logout(h) \/ LogoutAll(h)
  \/ ChangeRead(h) \/ ChangeWrite(h) \/ RevokeAll(h)
  \/ IssueCode(h) \/ VerifyRead(h) \/ VerifyWrite(h) \/ AttemptRead(h) \/ AttemptWrite(h)
  \/ ResetRead(h) \/ ResetWrite(h)

AdminStep(h) ==
  DeviceRead(h) \/ DeviceWrite(h) \/ UserRead(h) \/ UserWrite(h) \/ Unlock(h)

Time ==
  LockExpires \/ SessionExpires \/ CodeExpires
  \/ CleanUpSessions \/ CleanUpCodes \/ CleanUpDevices

Next ==
  \/ \E h \in Clients : ClientStep(h)
  \/ \E h \in Admins : AdminStep(h)
  \/ \E h \in Handlers : Crash(h)
  \/ Time

Spec == Init /\ [][Next]_vars

-----------------------------------------------------------------------------
(* One token of a family is good at a time: a refresh hands out the next    *)
(* and revokes the one presented.  For a user who sends one request at a    *)
(* time (two refreshes of one token that overlap fork the family).          *)
OneHeadPerFamily ==
  \A s, t \in Rows : Live(s) /\ Live(t) /\ session[s].family = session[t].family => s = t

(* Once a revoked token has come back, no session of its family is good,    *)
(* then or later, whatever the administrator and the clean-up do.           *)
ReuseEndsFamily ==
  \A s \in Rows : Live(s) => session[s].family \notin reused

(* A family has one good token at most, and none once a revoked one of it   *)
(* has come back: the reuse of a token is seen, and ends what it led to.    *)
FamiliesKept == TypeOK /\ OneHeadPerFamily /\ ReuseEndsFamily

(* A good session was opened under the present password, unless the         *)
(* request that set it is about to end the others, or its server stopped.   *)
PasswordEndsSessions ==
  \A s \in Rows :
    Live(s) => \/ session[s].made = user.password
               \/ unfinished
               \/ \E h \in Clients : At(h, "revoke_all")

(* A session is good only while the account may sign in and its device is   *)
(* active: blocking either ends the sessions, and only one made by a        *)
(* request whose checks came before the block can outlive it.               *)
PermittedOrLate ==
  \A s \in Rows : Live(s) => Permitted(s) \/ s \in late

(* At most one code of the user is open, it gives one reset token, and it   *)
(* is used up by the last wrong code allowed.                               *)
CodesBounded ==
  /\ \A b, c \in Codes : code[b].state = "open" /\ code[c].state = "open" => b = c
  /\ \A s, t \in Codes :
       token[s].from = token[t].from /\ token[s].from # 0 => s = t
  /\ \A c \in Codes : guessed[c] <= MaxAttempts

-----------------------------------------------------------------------------
(* What keeps these: the inductive invariant.                              *)
Refreshing == {"refresh_user", "refresh_device", "rotate"}
LoggingIn == {"login_device", "login_write", "login_rehash", "login_session"}

(* A row that was ever given out has a family and a device, and a code is   *)
(* used up by its last attempt.                                             *)
RowsKept ==
  /\ \A s \in Rows :
       /\ session[s].state \in {"live", "revoked"} => session[s].family # 0
       /\ session[s].state = "absent" => session[s].family = 0 /\ ~session[s].expired
       /\ session[s].family # 0 => session[s].device \in Devices
  /\ \A c \in Codes :
       /\ code[c].state = "open" => code[c].attempts < MaxAttempts
       /\ code[c].state = "absent" => code[c].attempts = 0 /\ ~code[c].expired
       /\ token[c].state = "absent" => token[c].from = 0 /\ ~token[c].expired

(* What a handler knows, whatever the others do. *)
Knows(h, j) ==
  /\ h \in Clients => j.at \notin {"device_write", "user_write"}
  /\ h \in Admins => j.at \in {"idle", "device_write", "user_write"}
  /\ j.at = "login_failed" => j.seen <= MaxFailed + 1
  /\ j.at \in LoggingIn => j.device \in Devices /\ j.seen <= MaxPassword
  /\ j.at \in Refreshing \cup {"refresh_family"} =>
       j.row \in Rows /\ session[j.row].family # 0
  /\ j.at \in {"verify_write", "attempt_write"} =>
       j.row \in Codes /\ code[j.row].state # "absent"
  /\ j.at = "attempt_write" => j.seen \in 1..MaxAttempts
  /\ j.at = "reset_write" => j.row \in Codes
  /\ j.at = "device_write" =>
       j.device \in Devices /\ j.next \in {"ACTIVE", "REVOKED", "BLOCKED"}
  /\ j.at = "user_write" =>
       j.next \in {"ACTIVE", "SUSPENDED", "DISABLED", "ARCHIVED", "RESET"}

TInv == TypeOK /\ RowsKept /\ \A h \in Handlers : Knows(h, job[h])

(* The first session of a family is its name, and was given out before the *)
(* others and before the family was ended.                                 *)
FamiliesNamed ==
  /\ \A s \in Rows : session[s].family # 0 => session[session[s].family].state # "absent"
  /\ \A f \in reused : session[f].state # "absent"

(* What a client alone among the clients still knows of the sessions when   *)
(* it comes to write.                                                       *)
KnowsSessions(j) ==
  /\ j.at \in Refreshing =>
       LET r == j.row IN
         /\ \A s \in Rows : Live(s) /\ session[s].family = session[r].family => s = r
         /\ session[r].family \notin reused
         /\ session[r].made = user.password \/ unfinished
  /\ j.at \in LoggingIn => j.seen = user.password
  /\ j.at = "login_write" /\ j.was # "ACTIVE" =>
       \A s \in Rows : Live(s) /\ session[s].device = j.device => s \in late

SessionsInv ==
  /\ OneHeadPerFamily /\ ReuseEndsFamily /\ PasswordEndsSessions /\ PermittedOrLate
  /\ FamiliesNamed
  /\ \A h \in Clients : KnowsSessions(job[h])

(* A code that gave a token is closed, and while a code can be tried its   *)
(* attempts count every wrong answer.                                      *)
CodesCounted ==
  /\ \A t \in Codes : token[t].from # 0 => code[token[t].from].state \in {"used", "deleted"}
  /\ \A c \in Codes : code[c].state # "deleted" => guessed[c] <= code[c].attempts

KnowsCodes(j) ==
  /\ j.at = "verify_write" => code[j.row].state \in {"open", "deleted"}
  /\ j.at = "attempt_write" =>
       LET c == j.row IN
         /\ code[c].state \in {"open", "deleted"}
         /\ code[c].state = "open" => j.seen = code[c].attempts + 1
         /\ \A b \in Codes : code[b].state = "open" => b = c
         /\ guessed[c] < MaxAttempts

CodesInv == CodesBounded /\ CodesCounted /\ \A h \in Clients : KnowsCodes(job[h])

(* The user sends one request at a time: racing requests fork a family. *)
OneClient == \A g, h \in Clients : g = h
=============================================================================
