--------------------------- MODULE SessionsProofs ---------------------------
(* Proofs about Sessions: the types for any number of clients, and what a   *)
(* user who sends one request at a time can rely on, beside any number of   *)
(* administrators and for any number of devices, sessions and codes.       *)
EXTENDS Sessions, TLAPS

(* The rows have their types. *)
RowTypes ==
  /\ user \in UserRow
  /\ device \in [Devices -> DeviceStatuses \cup {"ABSENT"}]
  /\ session \in [Rows -> SessionRow]
  /\ code \in [Codes -> CodeRow]
  /\ token \in [Codes -> TokenRow]
  /\ late \subseteq Rows
  /\ reused \subseteq Rows
  /\ unfinished \in BOOLEAN
  /\ guessed \in [Codes -> Nat]

(* A row that was given out keeps its family, and a code inserted stays so. *)
RowsStay ==
  /\ \A s \in Rows : session[s].family # 0 => session'[s].family # 0
  /\ \A c \in Codes : code[c].state # "absent" => code'[c].state # "absent"

(* A bound of the constants, in the form the provers need. *)
LEMMA Bounds ==
  /\ MaxFailed \in Nat /\ MaxFailed > 0
  /\ MaxAttempts \in Nat /\ MaxAttempts > 0
  /\ MaxSessions \in Nat /\ MaxPassword \in Nat /\ MaxCodes \in Nat
BY SessionsAssumption

(* What fits in a job: the number of a row, a password, a count. *)
LEMMA Fits ==
  /\ Rows \cup Codes \subseteq 0..MaxSessions + MaxCodes
  /\ 0..MaxPassword \subseteq 0..MaxPassword + MaxFailed + MaxAttempts + 1
  /\ \A n \in 0..MaxFailed : n + 1 \in 0..MaxPassword + MaxFailed + MaxAttempts + 1
  /\ \A n \in 0..MaxAttempts : n + 1 \in 0..MaxPassword + MaxFailed + MaxAttempts + 1
BY Bounds DEF Rows, Codes

(* A handler that ends knows nothing. *)
LEMMA IdleKnows ==
  ASSUME NEW h \in Handlers
  PROVE  Idle \in Job /\ Knows(h, Idle) /\ Knows(h, Idle)'
<1>1. Idle \in Job
  BY Bounds DEF Idle, Job, DeviceStatuses, AccountStatuses
<1> QED
  BY <1>1 DEF Knows, Idle, Refreshing, LoggingIn

(* A step that goes on with one handler and keeps the rows keeps what every *)
(* handler knows.                                                           *)
LEMMA WriteStep ==
  ASSUME TInv, NEW h \in Handlers, NEW j \in Job, Knows(h, j), Becomes(h, j),
         RowTypes', RowsKept', RowsStay
  PROVE  TInv'
<1>1. job' \in [Handlers -> Job]
  BY DEF TInv, TypeOK, Becomes
<1>2. ASSUME NEW g \in Handlers, NEW k \in Job, Knows(g, k) PROVE Knows(g, k)'
  BY <1>2 DEF Knows, RowsStay
<1>3. ASSUME NEW g \in Handlers PROVE Knows(g, job[g])'
  <2>1. CASE g = h
    <3>1. job'[g] = j
      BY <2>1 DEF Becomes, TInv, TypeOK
    <3> QED
      BY <1>2, <2>1, <3>1 DEF Knows
  <2>2. CASE g # h
    <3>1. job'[g] = job[g] /\ job[g] \in Job
      BY <2>2 DEF Becomes, TInv, TypeOK
    <3>2. Knows(g, job[g])
      BY DEF TInv
    <3> QED
      BY <1>2, <3>1, <3>2 DEF Knows
  <2> QED
    BY <2>1, <2>2
<1> QED
  BY <1>1, <1>3 DEF TInv, TypeOK, RowTypes

(* The rows of a state that has its types. *)
LEMMA RowsOf ==
  ASSUME TInv
  PROVE  RowTypes /\ RowsKept
BY DEF TInv, TypeOK, RowTypes

(* A step that only reads. *)
LEMMA ReadStep ==
  ASSUME TInv, NEW h \in Handlers, NEW j \in Job, Knows(h, j), Becomes(h, j),
         UNCHANGED <<user, device, session, code, token, history>>
  PROVE  TInv'
<1>1. RowTypes' /\ RowsKept'
  BY RowsOf DEF RowTypes, RowsKept, history
<1>2. RowsStay
  BY DEF RowsStay
<1> QED
  BY <1>1, <1>2, WriteStep

(* A step in which no handler takes part. *)
LEMMA RowStep ==
  ASSUME TInv, RowTypes', RowsKept', RowsStay, UNCHANGED job
  PROVE  TInv'
<1>1. ASSUME NEW g \in Handlers PROVE Knows(g, job[g])'
  BY DEF Knows, RowsStay, TInv
<1> QED
  BY <1>1 DEF TInv, TypeOK, RowTypes

-----------------------------------------------------------------------------
(* What a handler that has its types has read. *)
LEMMA JobOf ==
  ASSUME TInv, NEW h \in Handlers
  PROVE  job[h] \in Job /\ Knows(h, job[h])
BY DEF TInv, TypeOK

(* The requests of the user and of the administrators are different ones. *)
LEMMA Actors ==
  /\ Clients \subseteq Handlers /\ Admins \subseteq Handlers
  /\ \A h \in Clients : h \notin Admins
BY SessionsAssumption DEF Handlers

(* The handlers' reads. *)
LEMMA ClientReads ==
  ASSUME TInv, NEW h \in Clients,
         \/ LoginRead(h) \/ LoginDevice(h) \/ RefreshRead(h) \/ RefreshUser(h)
         \/ RefreshDevice(h) \/ ChangeRead(h) \/ VerifyRead(h) \/ AttemptRead(h)
         \/ ResetRead(h)
  PROVE  TInv'
<1>0. h \in Handlers /\ h \notin Admins
  BY Actors
<1>j. job[h] \in Job /\ Knows(h, job[h]) /\ Idle \in Job /\ Knows(h, Idle)
  BY <1>0, JobOf, IdleKnows
<1>r. RowTypes /\ RowsKept
  BY RowsOf
<1>e. ASSUME NEW j \in Job, Knows(h, j), Becomes(h, j),
             UNCHANGED <<user, device, session, code, token, history>>
      PROVE  TInv'
  BY <1>0, <1>e, ReadStep
<1>1. CASE LoginRead(h)
  <2>1. CASE \E d \in Devices :
               Becomes(h, [Idle EXCEPT !.at = "login_device", !.device = d, !.seen = user.password])
    <3>1. PICK d \in Devices :
            Becomes(h, [Idle EXCEPT !.at = "login_device", !.device = d, !.seen = user.password])
      BY <2>1
    <3> DEFINE j == [Idle EXCEPT !.at = "login_device", !.device = d, !.seen = user.password]
    <3>2. j \in Job
      BY <1>j, <1>r, Bounds, Fits DEF RowTypes, UserRow, Job
    <3>3. Knows(h, j)
      BY <1>0, <1>r, Bounds DEF RowTypes, UserRow, Knows, Idle, LoggingIn, Refreshing
    <3> QED
      BY <1>1, <1>e, <3>1, <3>2, <3>3 DEF LoginRead
  <2>2. CASE /\ user.failed <= MaxFailed
             /\ Becomes(h, [Idle EXCEPT !.at = "login_failed", !.seen = user.failed + 1])
    <3> DEFINE j == [Idle EXCEPT !.at = "login_failed", !.seen = user.failed + 1]
    <3>1. user.failed \in 0..MaxFailed
      BY <1>r, <2>2, Bounds DEF RowTypes, UserRow
    <3>2. j \in Job
      BY <1>j, <3>1, Fits DEF Job
    <3>3. Knows(h, j)
      BY <1>0, <1>r, <2>2, Bounds DEF RowTypes, UserRow, Knows, Idle, LoggingIn, Refreshing
    <3> QED
      BY <1>1, <1>e, <2>2, <3>2, <3>3 DEF LoginRead
  <2> QED
    BY <1>1, <2>1, <2>2 DEF LoginRead
<1>2. CASE LoginDevice(h)
  <2> DEFINE j == [job[h] EXCEPT !.at = "login_write", !.was = device[job[h].device]]
  <2>1. job[h].device \in Devices /\ job[h].at = "login_device"
    BY <1>2, <1>j DEF LoginDevice, At, Knows, LoggingIn
  <2>2. j \in Job
    BY <1>j, <1>r, <2>1 DEF RowTypes, Job
  <2>3. Knows(h, j)
    BY <1>0, <1>j, <2>1 DEF Knows, LoggingIn, Refreshing, Job
  <2> QED
    BY <1>2, <1>e, <1>j, <2>2, <2>3 DEF LoginDevice, Ends
<1>3. CASE RefreshRead(h)
  <2>1. PICK s \in Rows, next \in {"refresh_user", "refresh_family"} :
          /\ session[s].state \in {"live", "revoked"}
          /\ Becomes(h, [Idle EXCEPT !.at = next, !.row = s])
    BY <1>3 DEF RefreshRead
  <2> DEFINE j == [Idle EXCEPT !.at = next, !.row = s]
  <2>2. j \in Job
    BY <1>j, Fits DEF Job
  <2>3. Knows(h, j)
    BY <1>0, <1>r, <2>1 DEF RowsKept, Knows, Idle, LoggingIn, Refreshing
  <2> QED
    BY <1>3, <1>e, <2>1, <2>2, <2>3 DEF RefreshRead
<1>4. CASE RefreshUser(h) \/ RefreshDevice(h)
  <2>1. ASSUME NEW next \in {"refresh_device", "rotate"}, job[h].at \in Refreshing
        PROVE  [job[h] EXCEPT !.at = next] \in Job /\ Knows(h, [job[h] EXCEPT !.at = next])
    <3> DEFINE j == [job[h] EXCEPT !.at = next]
    <3>1. j \in Job
      BY <1>j DEF Job
    <3>2. Knows(h, j)
      BY <1>0, <1>j, <2>1 DEF Knows, LoggingIn, Refreshing, Job
    <3> QED
      BY <3>1, <3>2
  <2> QED
    BY <1>4, <1>e, <1>j, <2>1 DEF RefreshUser, RefreshDevice, Ends, Goes, At, Refreshing
<1>5. CASE ChangeRead(h)
  <2> DEFINE j == [Idle EXCEPT !.at = "change_write"]
  <2>1. j \in Job /\ Knows(h, j)
    BY <1>0, <1>j DEF Job, Idle, Knows, LoggingIn, Refreshing
  <2> QED
    BY <1>5, <1>e, <2>1 DEF ChangeRead
<1>6. CASE VerifyRead(h)
  <2>1. [Idle EXCEPT !.at = "attempt"] \in Job /\ Knows(h, [Idle EXCEPT !.at = "attempt"])
    BY <1>0, <1>j DEF Job, Idle, Knows, LoggingIn, Refreshing
  <2>2. ASSUME NEW c \in Codes, code[c].state \in {"open", "used"}
        PROVE  /\ [Idle EXCEPT !.at = "verify_write", !.row = c] \in Job
               /\ Knows(h, [Idle EXCEPT !.at = "verify_write", !.row = c])
    <3> DEFINE j == [Idle EXCEPT !.at = "verify_write", !.row = c]
    <3>1. j \in Job
      BY <1>j, Fits DEF Job
    <3>2. Knows(h, j)
      BY <1>0, <2>2 DEF Knows, Idle, LoggingIn, Refreshing
    <3> QED
      BY <3>1, <3>2
  <2> QED
    BY <1>6, <1>e, <2>1, <2>2 DEF VerifyRead
<1>7. CASE AttemptRead(h)
  <2>1. ASSUME NEW c \in Codes, Latest(c)
        PROVE  /\ [Idle EXCEPT !.at = "attempt_write", !.row = c,
                               !.seen = code[c].attempts + 1] \in Job
               /\ Knows(h, [Idle EXCEPT !.at = "attempt_write", !.row = c,
                                        !.seen = code[c].attempts + 1])
    <3> DEFINE j == [Idle EXCEPT !.at = "attempt_write", !.row = c,
                                 !.seen = code[c].attempts + 1]
    <3>0. code[c].state = "open" /\ code[c].attempts \in Nat /\ code[c].attempts < MaxAttempts
      BY <1>r, <2>1, Bounds DEF Latest, RowTypes, RowsKept, CodeRow
    <3>a. code[c].attempts \in 0..MaxAttempts
      BY <3>0, Bounds
    <3>1. j \in Job
      BY <1>j, <3>a, Fits DEF Job
    <3>2. Knows(h, j)
      BY <1>0, <3>0, Bounds DEF Knows, Idle, LoggingIn, Refreshing
    <3> QED
      BY <3>1, <3>2
  <2> QED
    BY <1>7, <1>e, <1>j, <2>1 DEF AttemptRead, Ends
<1>8. CASE ResetRead(h)
  <2>1. PICK t \in Codes : Becomes(h, [Idle EXCEPT !.at = "reset_write", !.row = t])
    BY <1>8 DEF ResetRead
  <2> DEFINE j == [Idle EXCEPT !.at = "reset_write", !.row = t]
  <2>2. j \in Job
    BY <1>j, Fits DEF Job
  <2>3. Knows(h, j)
    BY <1>0 DEF Knows, Idle, LoggingIn, Refreshing
  <2> QED
    BY <1>8, <1>e, <2>1, <2>2, <2>3 DEF ResetRead
<1> QED
  BY <1>1, <1>2, <1>3, <1>4, <1>5, <1>6, <1>7, <1>8

(* The administrators' reads. *)
LEMMA AdminReads ==
  ASSUME TInv, NEW h \in Admins, DeviceRead(h) \/ UserRead(h)
  PROVE  TInv'
<1>0. h \in Handlers /\ h \notin Clients
  BY Actors
<1>j. Idle \in Job
  BY <1>0, IdleKnows
<1>r. RowTypes /\ RowsKept
  BY RowsOf
<1>1. CASE DeviceRead(h)
  <2>1. PICK d \in Devices, to \in {"ACTIVE", "REVOKED", "BLOCKED"} :
          Becomes(h, [Idle EXCEPT !.at = "device_write", !.device = d, !.next = to])
    <3>1. PICK d \in Devices, to \in DeviceStatuses :
            /\ device[d] # "ABSENT"
            /\ to \in DeviceTransitions[device[d]] \cup ({"REVOKED"} \ {device[d]})
            /\ Becomes(h, [Idle EXCEPT !.at = "device_write", !.device = d, !.next = to])
      BY <1>1 DEF DeviceRead
    <3>2. device[d] \in DeviceStatuses
      BY <1>r, <3>1 DEF RowTypes
    <3>3. to \in {"ACTIVE", "REVOKED", "BLOCKED"}
      BY <3>1, <3>2 DEF DeviceTransitions, DeviceStatuses
    <3> QED
      BY <3>1, <3>3
  <2> DEFINE j == [Idle EXCEPT !.at = "device_write", !.device = d, !.next = to]
  <2>2. j \in Job
    BY <1>j, Bounds DEF Job, AccountStatuses, DeviceStatuses
  <2>3. Knows(h, j)
    BY <1>0 DEF Knows, Idle, LoggingIn, Refreshing
  <2> QED
    BY <1>0, <1>1, <2>1, <2>2, <2>3, ReadStep DEF DeviceRead
<1>2. CASE UserRead(h)
  <2>1. PICK to \in {"ACTIVE", "SUSPENDED", "DISABLED", "ARCHIVED", "RESET"} :
          Becomes(h, [Idle EXCEPT !.at = "user_write", !.next = to])
    <3>1. user.status \in AccountStatuses
      BY <1>r DEF RowTypes, UserRow
    <3> QED
      <4>1. PICK to \in AccountTransitions[user.status] \cup {"ARCHIVED", "RESET"} :
              Becomes(h, [Idle EXCEPT !.at = "user_write", !.next = to])
        BY <1>2 DEF UserRead
      <4>2. to \in {"ACTIVE", "SUSPENDED", "DISABLED", "ARCHIVED", "RESET"}
        BY <3>1, <4>1 DEF AccountTransitions, AccountStatuses
      <4> QED
        BY <4>1, <4>2
  <2> DEFINE j == [Idle EXCEPT !.at = "user_write", !.next = to]
  <2>2. j \in Job
    BY <1>j, Bounds DEF Job, AccountStatuses, DeviceStatuses
  <2>3. Knows(h, j)
    BY <1>0 DEF Knows, Idle, LoggingIn, Refreshing
  <2> QED
    BY <1>0, <1>2, <2>1, <2>2, <2>3, ReadStep DEF UserRead
<1> QED
  BY <1>1, <1>2

-----------------------------------------------------------------------------
(* Sessions only close: none is given out, none comes back. *)
Closing ==
  /\ session' \in [Rows -> SessionRow]
  /\ \A s \in Rows :
       /\ session'[s].family = session[s].family
       /\ session'[s].device = session[s].device
       /\ session'[s].made = session[s].made
       /\ session'[s].state = "live" => session[s].state = "live"
       /\ session'[s].state = "revoked" => session[s].state \in {"live", "revoked"}
       /\ session'[s].state = "absent" <=> session[s].state = "absent"
       /\ session'[s].state = "absent" => session'[s] = session[s]

(* Revoking one session, or those of any set, only closes. *)
LEMMA EndedRow ==
  ASSUME NEW s \in SessionRow
  PROVE  /\ Ended(s) \in SessionRow
         /\ Ended(s).family = s.family /\ Ended(s).device = s.device /\ Ended(s).made = s.made
         /\ Ended(s).state # "live"
         /\ Ended(s).state = "revoked" => s.state \in {"live", "revoked"}
         /\ Ended(s).state = "absent" <=> s.state = "absent"
         /\ Ended(s).state = "absent" => Ended(s) = s
BY DEF Ended, SessionRow

LEMMA EndedRows ==
  ASSUME TInv, NEW E,
         session' = [s \in Rows |-> IF s \in E THEN Ended(session[s]) ELSE session[s]]
  PROVE  Closing
<1>1. session \in [Rows -> SessionRow]
  BY DEF TInv, TypeOK
<1>2. ASSUME NEW s \in Rows
      PROVE  /\ session'[s] \in SessionRow
             /\ session'[s] = IF s \in E THEN Ended(session[s]) ELSE session[s]
  BY <1>1, EndedRow
<1> QED
  BY <1>1, <1>2, EndedRow DEF Closing

(* revokeAllForUser, the revocation of a device and revokeFamily. *)
LEMMA AllClose ==
  ASSUME TInv
  PROVE  /\ session' = AllEnded => Closing /\ \A s \in Rows : session'[s].state # "live"
         /\ \A d : session' = EndedOn(d) =>
              Closing /\ \A s \in Rows : session[s].device = d => session'[s].state # "live"
<1>1. session \in [Rows -> SessionRow]
  BY DEF TInv, TypeOK
<1>2. ASSUME session' = AllEnded
      PROVE  Closing /\ \A s \in Rows : session'[s].state # "live"
  <2>1. Closing
    BY <1>2, EndedRows DEF AllEnded
  <2> QED
    BY <1>1, <1>2, <2>1, EndedRow DEF AllEnded
<1>3. ASSUME NEW d, session' = EndedOn(d)
      PROVE  Closing /\ \A s \in Rows : session[s].device = d => session'[s].state # "live"
  <2>1. session' = [s \in Rows |-> IF s \in {t \in Rows : session[t].device = d}
                                   THEN Ended(session[s]) ELSE session[s]]
    BY <1>3 DEF EndedOn
  <2>2. Closing
    BY <2>1, EndedRows
  <2> QED
    BY <1>1, <1>3, <2>2, EndedRow DEF EndedOn
<1> QED
  BY <1>2, <1>3

(* What closing keeps. *)
LEMMA ClosingKeeps ==
  ASSUME TInv, Closing, UNCHANGED <<code, token>>
  PROVE  RowsKept' /\ RowsStay
BY DEF TInv, RowsKept, RowsStay, Closing

LEMMA UnchangedCloses ==
  ASSUME TInv, session' = session
  PROVE  Closing
BY DEF TInv, TypeOK, Closing

(* A new session in the first free row, and perhaps an old one closed. *)
Opening(n, family, d, made) ==
  /\ session' \in [Rows -> SessionRow]
  /\ session[n].state = "absent" /\ session'[n] = New(family, d, made)
  /\ \A s \in Rows \ {n} :
       /\ session'[s].family = session[s].family
       /\ session'[s].device = session[s].device
       /\ session'[s].made = session[s].made
       /\ session'[s].state = "live" => session[s].state = "live"
       /\ session'[s].state = "revoked" => session[s].state # "absent" /\ session[s].family # 0
       /\ session'[s].state = "absent" <=> session[s].state = "absent"
       /\ session'[s].state = "absent" => session'[s] = session[s]

LEMMA NewRow ==
  ASSUME NEW family \in Rows, NEW d \in Devices, NEW made \in 0..MaxPassword
  PROVE  /\ New(family, d, made) \in SessionRow
         /\ New(family, d, made).state = "live" /\ New(family, d, made).family = family
         /\ New(family, d, made).device = d /\ New(family, d, made).made = made
BY Bounds DEF New, SessionRow, Rows

LEMMA OpeningKeeps ==
  ASSUME TInv, NEW n \in Rows, NEW family \in Rows, NEW d \in Devices,
         NEW made \in 0..MaxPassword, Opening(n, family, d, made), UNCHANGED <<code, token>>
  PROVE  RowsKept' /\ RowsStay
<1>1. /\ session'[n].state = "live" /\ session'[n].family = family
      /\ session'[n].device = d /\ family # 0
  BY NewRow, Bounds DEF Opening, Rows
<1>2. session[n].family = 0
  BY DEF TInv, RowsKept, Opening
<1> QED
  BY <1>1, <1>2 DEF TInv, RowsKept, RowsStay, Opening

(* createRefreshSession at a sign-in: the session begins its family. *)
LEMMA LoginOpens ==
  ASSUME TInv, NEW h \in Clients, LoginSession(h)
  PROVE  \E n \in Rows : /\ Opening(n, n, job[h].device, job[h].seen)
                         /\ NoteLate(n, job[h].device)
                         /\ job[h].device \in Devices /\ job[h].seen \in 0..MaxPassword
<1>1. job[h].device \in Devices /\ job[h].seen \in 0..MaxPassword
  BY Actors, JobOf, Bounds DEF LoginSession, At, Knows, LoggingIn, Job
<1>2. PICK n \in Rows :
        /\ IsNext(session, n)
        /\ session' = [session EXCEPT ![n] = New(n, job[h].device, job[h].seen)]
        /\ NoteLate(n, job[h].device)
  BY DEF LoginSession
<1>3. session \in [Rows -> SessionRow] /\ New(n, job[h].device, job[h].seen) \in SessionRow
  BY <1>1, NewRow DEF TInv, TypeOK
<1>4. \A s \in Rows : session[s].state \in {"live", "revoked"} => session[s].family # 0
  BY DEF TInv, RowsKept
<1>5. Opening(n, n, job[h].device, job[h].seen)
  BY <1>2, <1>3, <1>4 DEF Opening, IsNext
<1> QED
  BY <1>1, <1>2, <1>5

(* rotate: the new session is of the family of the row it closes. *)
LEMMA RotateOpens ==
  ASSUME TInv, NEW h \in Clients, Rotate(h), session[job[h].row].state # "deleted"
  PROVE  LET s == job[h].row IN
           /\ s \in Rows /\ session[s].family \in Rows /\ session[s].device \in Devices
           /\ session[s].made \in 0..MaxPassword
           /\ \E n \in Rows \ {s} :
                /\ Opening(n, session[s].family, session[s].device, session[s].made)
                /\ session'[s].state = "revoked"
                /\ NoteLate(n, session[s].device)
<1> DEFINE s == job[h].row
<1>1. s \in Rows /\ session[s].family # 0
  BY Actors, JobOf DEF Rotate, At, Knows, Refreshing
<1>2. session \in [Rows -> SessionRow]
  BY DEF TInv, TypeOK
<1>3. session[s].family \in Rows /\ session[s].made \in 0..MaxPassword
  BY <1>1, <1>2, Bounds DEF SessionRow, Rows
<1>4. session[s].device \in Devices /\ session[s].state # "absent"
  BY <1>1 DEF TInv, RowsKept
<1> DEFINE new == New(session[s].family, session[s].device, session[s].made)
<1>5. PICK n \in Rows :
        /\ IsNext(session, n)
        /\ session' = [session EXCEPT ![n] = new, ![s].state = "revoked"]
        /\ NoteLate(n, session[s].device)
  BY DEF Rotate
<1>6. n # s
  BY <1>4, <1>5 DEF IsNext
<1>7. new \in SessionRow
  BY <1>3, <1>4, NewRow
<1> HIDE DEF new
<1>8. /\ session' \in [Rows -> SessionRow]
      /\ session'[n] = new
      /\ session'[s] = [session[s] EXCEPT !.state = "revoked"]
      /\ \A r \in Rows \ {n, s} : session'[r] = session[r]
  <2>1. [session[s] EXCEPT !.state = "revoked"] \in SessionRow
    BY <1>1, <1>2 DEF SessionRow
  <2>2. session' = [[session EXCEPT ![n] = new] EXCEPT ![s] = [session[s] EXCEPT !.state = "revoked"]]
    BY <1>1, <1>2, <1>5, <1>6
  <2> QED
    BY <1>1, <1>2, <1>5, <1>6, <1>7, <2>1, <2>2
<1>9. Opening(n, session[s].family, session[s].device, session[s].made)
  <2>1. \A r \in Rows : session[r].state = "revoked" => session[r].family # 0
    BY DEF TInv, RowsKept
  <2>2. session[s] \in SessionRow
    BY <1>1, <1>2
  <2> QED
    BY <1>1, <1>4, <1>5, <1>6, <1>8, <2>1, <2>2 DEF Opening, IsNext, new, SessionRow
<1>10. n \in Rows \ {s} /\ session'[s].state = "revoked"
  <2>1. session[s] \in SessionRow
    BY <1>1, <1>2
  <2> QED
    BY <1>6, <1>8, <2>1 DEF SessionRow
<1> QED
  BY <1>1, <1>3, <1>4, <1>5, <1>9, <1>10

-----------------------------------------------------------------------------
(* What an update of the counter of failures, or of the password, gives. *)
LEMMA UserFields ==
  ASSUME NEW u \in UserRow, NEW n \in 0..MaxFailed + 1, NEW b \in BOOLEAN
  PROVE  /\ [u EXCEPT !.failed = n, !.locked = b] \in UserRow
         /\ \A p \in 0..MaxPassword :
              [u EXCEPT !.password = p, !.failed = n, !.locked = b] \in UserRow
BY DEF UserRow

LEMMA NewPasswordType ==
  ASSUME user \in UserRow, user.password < MaxPassword
  PROVE  NewPassword \in UserRow
<1>1. user.password + 1 \in 0..MaxPassword /\ 0 \in 0..MaxFailed + 1 /\ FALSE \in BOOLEAN
  BY Bounds DEF UserRow
<1> QED
  BY <1>1, UserFields DEF NewPassword

(* The steps that write the account, the devices or the sessions. *)
LEMMA AccountWrites ==
  ASSUME TInv, NEW h \in Clients,
         \/ LoginFailed(h) \/ LoginDeviceWrite(h) \/ LoginRehash(h) \/ LoginDone(h)
         \/ ChangeWrite(h)
  PROVE  TInv'
<1>0. h \in Handlers /\ h \notin Admins
  BY Actors
<1>j. job[h] \in Job /\ Knows(h, job[h]) /\ Idle \in Job /\ Knows(h, Idle)
  BY <1>0, JobOf, IdleKnows
<1>r. RowTypes /\ RowsKept
  BY RowsOf
<1>g. ASSUME NEW step \in {"login_session", "login_rehash", "revoke_all"},
             job[h].at \in LoggingIn \cup {"change_write"}, step # "revoke_all" => job[h].at \in LoggingIn
      PROVE  [job[h] EXCEPT !.at = step] \in Job /\ Knows(h, [job[h] EXCEPT !.at = step])
  <2> DEFINE j == [job[h] EXCEPT !.at = step]
  <2>1. j \in Job
    BY <1>j DEF Job
  <2>2. Knows(h, j)
    BY <1>0, <1>j, <1>g DEF Knows, LoggingIn, Refreshing, Job
  <2> QED
    BY <2>1, <2>2
<1>w. ASSUME NEW j \in Job, Knows(h, j), Becomes(h, j), user' \in UserRow,
             device' \in [Devices -> DeviceStatuses \cup {"ABSENT"}],
             UNCHANGED <<session, code, token, history>>
      PROVE  TInv'
  <2>1. RowTypes' /\ RowsKept' /\ RowsStay
    BY <1>r, <1>w DEF RowTypes, RowsKept, RowsStay, history
  <2> QED
    BY <1>0, <1>w, <2>1, WriteStep
<1>u. user \in UserRow /\ device \in [Devices -> DeviceStatuses \cup {"ABSENT"}]
  BY <1>r DEF RowTypes
<1>1. CASE LoginFailed(h)
  <2>1. job[h].seen \in 0..MaxFailed + 1
    BY <1>1, <1>j, Bounds DEF LoginFailed, At, Knows, Job
  <2>2. user' \in UserRow
    <3>1. (job[h].seen >= MaxFailed) \in BOOLEAN
      OBVIOUS
    <3> QED
      BY <1>1, <1>u, <2>1, <3>1, UserFields DEF LoginFailed
  <2> QED
    BY <1>1, <1>w, <1>j, <1>u, <2>2 DEF LoginFailed, Ends
<1>2. CASE LoginDeviceWrite(h)
  <2>1. job[h].device \in Devices /\ job[h].at \in LoggingIn
    BY <1>2, <1>j DEF LoginDeviceWrite, At, Knows, LoggingIn
  <2>2. device' \in [Devices -> DeviceStatuses \cup {"ABSENT"}]
    BY <1>2, <1>u, <2>1 DEF LoginDeviceWrite, DeviceStatuses
  <2>3. user' = user /\ UNCHANGED <<session, code, token, history>>
    BY <1>2 DEF LoginDeviceWrite
  <2>4. \/ Becomes(h, Idle)
        \/ \E step \in {"login_session", "login_rehash"} :
             Becomes(h, [job[h] EXCEPT !.at = step])
    BY <1>2 DEF LoginDeviceWrite, Ends, Goes
  <2> QED
    BY <1>w, <1>g, <1>j, <1>u, <2>1, <2>2, <2>3, <2>4
<1>3. CASE LoginRehash(h)
  <2>1. job[h].at \in LoggingIn /\ job[h].seen \in 0..MaxPassword
    BY <1>3, <1>j, Bounds DEF LoginRehash, At, Knows, LoggingIn, Job
  <2>2. user' \in UserRow
    BY <1>3, <1>u, <2>1 DEF LoginRehash, UserRow
  <2> QED
    BY <1>3, <1>w, <1>g, <1>u, <2>1, <2>2 DEF LoginRehash, Goes
<1>4. CASE LoginDone(h)
  <2>1. user' \in UserRow
    <3>1. 0 \in 0..MaxFailed + 1 /\ FALSE \in BOOLEAN
      BY Bounds
    <3> QED
      BY <1>4, <1>u, <3>1, UserFields DEF LoginDone
  <2> QED
    BY <1>4, <1>w, <1>j, <1>u, <2>1 DEF LoginDone, Ends
<1>5. CASE ChangeWrite(h)
  <2>1. user' \in UserRow
    BY <1>5, <1>u, NewPasswordType DEF ChangeWrite
  <2> QED
    BY <1>5, <1>w, <1>g, <1>u, <2>1 DEF ChangeWrite, Goes, At
<1> QED
  BY <1>1, <1>2, <1>3, <1>4, <1>5

LEMMA SessionWrites ==
  ASSUME TInv, NEW h \in Clients,
         \/ LoginSession(h) \/ RefreshFamily(h) \/ Rotate(h) \/ RevokeAll(h)
  PROVE  TInv'
<1>0. h \in Handlers /\ h \notin Admins
  BY Actors
<1>j. job[h] \in Job /\ Knows(h, job[h]) /\ Idle \in Job /\ Knows(h, Idle)
  BY <1>0, JobOf, IdleKnows
<1>r. RowTypes /\ RowsKept
  BY RowsOf
<1>w. ASSUME NEW j \in Job, Knows(h, j), Becomes(h, j), session' \in [Rows -> SessionRow],
             RowsKept', RowsStay, late' \subseteq Rows, reused' \subseteq Rows,
             unfinished' \in BOOLEAN, UNCHANGED <<user, device, code, token, guessed>>
      PROVE  TInv'
  <2>1. RowTypes'
    BY <1>r, <1>w DEF RowTypes
  <2> QED
    BY <1>0, <1>w, <2>1, WriteStep
<1>1. CASE LoginSession(h)
  <2> DEFINE j == [job[h] EXCEPT !.at = "login_done"]
  <2>1. j \in Job
    BY <1>j DEF Job
  <2>2. Knows(h, j)
    BY <1>0, <1>j, <2>1 DEF Knows, LoggingIn, Refreshing, Job
  <2>3. PICK n \in Rows : /\ Opening(n, n, job[h].device, job[h].seen)
                         /\ NoteLate(n, job[h].device)
                         /\ job[h].device \in Devices /\ job[h].seen \in 0..MaxPassword
    BY <1>1, LoginOpens
  <2>4. RowsKept' /\ RowsStay
    BY <1>1, <2>3, OpeningKeeps DEF LoginSession
  <2>5. late' \subseteq Rows
    BY <1>r, <2>3 DEF NoteLate, RowTypes
  <2> QED
    BY <1>1, <1>r, <1>w, <2>1, <2>2, <2>3, <2>4, <2>5 DEF LoginSession, Goes, Opening, RowTypes
<1>2. CASE RefreshFamily(h)
  <2> DEFINE f == session[job[h].row].family
  <2>1. job[h].row \in Rows /\ f # 0
    BY <1>2, <1>j DEF RefreshFamily, At, Knows
  <2>2. f \in Rows
    BY <1>r, <2>1, Bounds DEF RowTypes, SessionRow, Rows
  <2>3. session' = [s \in Rows |-> IF s \in {t \in Rows : session[t].family = f}
                                   THEN Ended(session[s]) ELSE session[s]]
    BY <1>2 DEF RefreshFamily
  <2>4. Closing
    BY <2>3, EndedRows
  <2> QED
    BY <1>2, <1>j, <1>r, <1>w, <2>2, <2>4, ClosingKeeps
       DEF RefreshFamily, Ends, Closing, RowTypes
<1>3. CASE Rotate(h)
  <2>1. CASE session[job[h].row].state = "deleted"
    <3>1. Closing
      BY <1>3, <2>1, UnchangedCloses DEF Rotate
    <3> QED
      BY <1>3, <1>j, <1>r, <1>w, <2>1, <3>1, ClosingKeeps DEF Rotate, Ends, Closing, RowTypes
  <2>2. CASE session[job[h].row].state # "deleted"
    <3> DEFINE s == job[h].row
    <3>1. PICK n \in Rows \ {s} :
            /\ Opening(n, session[s].family, session[s].device, session[s].made)
            /\ NoteLate(n, session[s].device)
      BY <1>3, <2>2, RotateOpens
    <3>2. /\ session[s].family \in Rows /\ session[s].device \in Devices
          /\ session[s].made \in 0..MaxPassword
      BY <1>3, <2>2, RotateOpens
    <3>3. RowsKept' /\ RowsStay
      BY <1>3, <3>1, <3>2, OpeningKeeps DEF Rotate
    <3>4. late' \subseteq Rows
      BY <1>r, <3>1 DEF NoteLate, RowTypes
    <3> QED
      BY <1>3, <1>j, <1>r, <1>w, <3>1, <3>3, <3>4 DEF Rotate, Ends, Opening, RowTypes
  <2> QED
    BY <2>1, <2>2
<1>4. CASE RevokeAll(h)
  <2>1. Closing
    BY <1>4, AllClose DEF RevokeAll
  <2> QED
    BY <1>4, <1>j, <1>r, <1>w, <2>1, ClosingKeeps DEF RevokeAll, Ends, Closing, RowTypes
<1> QED
  BY <1>1, <1>2, <1>3, <1>4

(* The steps that write the codes and the reset tokens. *)
LEMMA CodeWrites ==
  ASSUME TInv, NEW h \in Clients, VerifyWrite(h) \/ AttemptWrite(h) \/ ResetWrite(h)
  PROVE  TInv'
<1>0. h \in Handlers /\ h \notin Admins
  BY Actors
<1>j. job[h] \in Job /\ Knows(h, job[h]) /\ Idle \in Job /\ Knows(h, Idle)
  BY <1>0, JobOf, IdleKnows
<1>r. RowTypes /\ RowsKept
  BY RowsOf
<1>c. code \in [Codes -> CodeRow] /\ token \in [Codes -> TokenRow] /\ guessed \in [Codes -> Nat]
  BY <1>r DEF RowTypes
<1>d. job[h].row \in Codes
  BY <1>j DEF VerifyWrite, AttemptWrite, ResetWrite, At, Knows
<1>w. ASSUME NEW j \in Job, Knows(h, j), Becomes(h, j), user' \in UserRow,
             code' \in [Codes -> CodeRow], token' \in [Codes -> TokenRow],
             guessed' \in [Codes -> Nat],
             \A c \in Codes :
               /\ code'[c].state = "open" => code'[c].attempts < MaxAttempts
               /\ code'[c].state = "absent" => code'[c].attempts = 0 /\ ~code'[c].expired
               /\ token'[c].state = "absent" => token'[c].from = 0 /\ ~token'[c].expired
               /\ code[c].state # "absent" => code'[c].state # "absent",
             UNCHANGED <<device, session, late, reused, unfinished>>
      PROVE  TInv'
  <2>1. RowTypes' /\ RowsKept' /\ RowsStay
    BY <1>r, <1>w DEF RowTypes, RowsKept, RowsStay
  <2> QED
    BY <1>0, <1>w, <2>1, WriteStep
<1>k. \A c \in Codes :
        /\ code[c].state = "open" => code[c].attempts < MaxAttempts
        /\ code[c].state = "absent" => code[c].attempts = 0 /\ ~code[c].expired
        /\ token[c].state = "absent" => token[c].from = 0 /\ ~token[c].expired
  BY <1>r DEF RowsKept
<1>u. user \in UserRow
  BY <1>r DEF RowTypes
<1>1. CASE VerifyWrite(h)
  <2>1. CASE code[job[h].row].state = "deleted"
    BY <1>1, <1>j, <1>c, <1>k, <1>u, <1>w, <2>1 DEF VerifyWrite, Ends, history
  <2>2. CASE code[job[h].row].state # "deleted"
    <3>1. PICK n \in Codes :
            /\ code' = [code EXCEPT ![job[h].row].state = "used"]
            /\ token' = [token EXCEPT ![n].state = "open", ![n].from = job[h].row]
      BY <1>1, <2>2 DEF VerifyWrite
    <3>2. code' \in [Codes -> CodeRow]
      BY <1>c, <1>d, <3>1 DEF CodeRow
    <3>3. token' \in [Codes -> TokenRow]
      <4>1. job[h].row \in 0..MaxCodes
        BY <1>d, Bounds DEF Codes
      <4> QED
        BY <1>c, <3>1, <4>1 DEF TokenRow
    <3>4. \A c \in Codes :
            /\ code'[c].state = "open" => code'[c].attempts < MaxAttempts
            /\ code'[c].state = "absent" => code'[c].attempts = 0 /\ ~code'[c].expired
            /\ token'[c].state = "absent" => token'[c].from = 0 /\ ~token'[c].expired
            /\ code[c].state # "absent" => code'[c].state # "absent"
      BY <1>c, <1>d, <1>k, <3>1 DEF CodeRow, TokenRow
    <3> QED
      BY <1>1, <1>j, <1>c, <1>u, <1>w, <3>2, <3>3, <3>4 DEF VerifyWrite, Ends, history
  <2> QED
    BY <2>1, <2>2
<1>2. CASE AttemptWrite(h)
  <2>1. guessed' \in [Codes -> Nat]
    BY <1>2, <1>c, <1>d DEF AttemptWrite
  <2>2. CASE code[job[h].row].state = "deleted"
    BY <1>2, <1>j, <1>c, <1>k, <1>u, <1>w, <2>1, <2>2 DEF AttemptWrite, Ends
  <2>3. CASE code[job[h].row].state # "deleted"
    <3>1. job[h].seen \in 1..MaxAttempts
      BY <1>2, <1>j DEF AttemptWrite, At, Knows
    <3>2. code' \in [Codes -> CodeRow]
      BY <1>2, <1>c, <1>d, <2>3, <3>1, Bounds DEF AttemptWrite, CodeRow
    <3>3. \A c \in Codes :
            /\ code'[c].state = "open" => code'[c].attempts < MaxAttempts
            /\ code'[c].state = "absent" => code'[c].attempts = 0 /\ ~code'[c].expired
            /\ code[c].state # "absent" => code'[c].state # "absent"
      BY <1>2, <1>c, <1>d, <1>k, <2>3, <3>1, Bounds DEF AttemptWrite, CodeRow
    <3> QED
      BY <1>2, <1>j, <1>c, <1>k, <1>u, <1>w, <2>1, <3>2, <3>3 DEF AttemptWrite, Ends
  <2> QED
    BY <2>2, <2>3
<1>3. CASE ResetWrite(h)
  <2>1. CASE token[job[h].row].state = "deleted"
    BY <1>3, <1>j, <1>c, <1>k, <1>u, <1>w, <2>1 DEF ResetWrite, Ends, history
  <2>2. CASE token[job[h].row].state # "deleted"
    <3> DEFINE j == [job[h] EXCEPT !.at = "revoke_all"]
    <3>1. j \in Job
      BY <1>j DEF Job
    <3>2. Knows(h, j)
      BY <1>0, <1>j, <3>1 DEF Knows, LoggingIn, Refreshing, Job
    <3>3. user' \in UserRow
      BY <1>3, <1>u, <2>2, NewPasswordType DEF ResetWrite
    <3>4. token' = [token EXCEPT ![job[h].row].state = "used"]
      BY <1>3, <2>2 DEF ResetWrite
    <3>5. /\ token' \in [Codes -> TokenRow]
          /\ \A c \in Codes : token'[c].state = "absent" => token'[c].from = 0 /\ ~token'[c].expired
      BY <1>c, <1>d, <1>k, <3>4 DEF TokenRow
    <3> QED
      BY <1>3, <1>c, <1>k, <1>w, <2>2, <3>1, <3>2, <3>3, <3>5 DEF ResetWrite, Goes, history
  <2> QED
    BY <2>1, <2>2
<1> QED
  BY <1>1, <1>2, <1>3

(* Clearing the failures, when the account is unlocked. *)
LEMMA ClearedType ==
  ASSUME user \in UserRow
  PROVE  [user EXCEPT !.failed = 0, !.locked = FALSE] \in UserRow
<1>1. 0 \in 0..MaxFailed + 1 /\ FALSE \in BOOLEAN
  BY Bounds
<1> QED
  BY <1>1, UserFields

(* A revoked session is closed. *)
LEMMA LogoutCloses ==
  ASSUME TInv, NEW h \in Clients, Logout(h)
  PROVE  Closing
<1>1. session \in [Rows -> SessionRow]
  BY DEF TInv, TypeOK
<1>2. PICK s \in Rows : Live(s) /\ session' = [session EXCEPT ![s].state = "revoked"]
  BY DEF Logout, Accepted
<1>3. [session[s] EXCEPT !.state = "revoked"] \in SessionRow
  BY <1>1 DEF SessionRow
<1>4. session' \in [Rows -> SessionRow]
  BY <1>1, <1>2, <1>3
<1> QED
  BY <1>1, <1>2, <1>4 DEF Closing, SessionRow, Live

(* The requests that are one transaction, and the administrators' writes. *)
LEMMA RequestWrites ==
  ASSUME TInv, NEW h \in Clients, Logout(h) \/ LogoutAll(h) \/ IssueCode(h)
  PROVE  TInv'
<1>r. RowTypes /\ RowsKept
  BY RowsOf
<1>1. CASE Logout(h) \/ LogoutAll(h)
  <2>1. Closing
    BY <1>1, LogoutCloses, AllClose DEF LogoutAll
  <2>2. UNCHANGED <<user, device, code, token, job, history>>
    BY <1>1 DEF Logout, LogoutAll
  <2> QED
    BY <1>r, <2>1, <2>2, ClosingKeeps, RowStep DEF RowTypes, Closing, history
<1>2. CASE IssueCode(h)
  <2>1. code \in [Codes -> CodeRow]
    BY <1>r DEF RowTypes
  <2>2. PICK n \in Codes :
          /\ code[n].state = "absent"
          /\ code' = [c \in Codes |->
                       IF c = n THEN [code[c] EXCEPT !.state = "open"]
                       ELSE IF code[c].state = "open" THEN [code[c] EXCEPT !.state = "used"]
                       ELSE code[c]]
    BY <1>2 DEF IssueCode, IsNext
  <2>3. ASSUME NEW c \in Codes
        PROVE  /\ code'[c] \in CodeRow
               /\ code'[c].state = "open" => code'[c].attempts < MaxAttempts
               /\ code'[c].state = "absent" => code'[c].attempts = 0 /\ ~code'[c].expired
               /\ code[c].state # "absent" => code'[c].state # "absent"
    BY <1>r, <2>1, <2>2, Bounds DEF CodeRow, RowsKept
  <2>4. code' \in [Codes -> CodeRow]
    BY <2>2, <2>3
  <2>5. RowTypes' /\ RowsKept' /\ RowsStay
    BY <1>2, <1>r, <2>3, <2>4 DEF IssueCode, RowTypes, RowsKept, RowsStay, history
  <2> QED
    BY <1>2, <2>5, RowStep DEF IssueCode
<1> QED
  BY <1>1, <1>2

(* The account that UserWrite leaves. *)
LEMMA UserWriteType ==
  ASSUME TInv, NEW h \in Admins, UserWrite(h)
  PROVE  /\ user' \in UserRow /\ user'.password = user.password
         /\ job[h].next = "RESET" => user' = user
         /\ job[h].next = "ACTIVE" => user'.status = "ACTIVE"
<1>1. job[h].next \in {"ACTIVE", "SUSPENDED", "DISABLED", "ARCHIVED", "RESET"}
  BY Actors, JobOf DEF UserWrite, At, Knows
<1>2. user \in UserRow
  BY DEF TInv, TypeOK
<1>3. CASE job[h].next = "RESET"
  BY <1>2, <1>3 DEF UserWrite
<1>4. CASE job[h].next = "ARCHIVED"
  <2>1. user' = [user EXCEPT !.status = "ARCHIVED", !.deleted = TRUE]
    BY <1>4 DEF UserWrite
  <2>2. ASSUME NEW b \in BOOLEAN
        PROVE  /\ [user EXCEPT !.status = "ARCHIVED", !.deleted = b] \in UserRow
               /\ [user EXCEPT !.status = "ARCHIVED", !.deleted = b].password = user.password
    BY <1>2 DEF UserRow, AccountStatuses
  <2> QED
    BY <1>4, <2>1, <2>2
<1>5. CASE job[h].next \in {"ACTIVE", "SUSPENDED", "DISABLED"}
  <2>1. user' = [user EXCEPT !.status = job[h].next]
    BY <1>5 DEF UserWrite
  <2> QED
    BY <1>2, <1>5, <2>1 DEF UserRow, AccountStatuses
<1> QED
  BY <1>1, <1>3, <1>4, <1>5

(* Whatever an administrator writes only closes sessions. *)
LEMMA AdminCloses ==
  ASSUME TInv, NEW h \in Admins, DeviceWrite(h) \/ UserWrite(h)
  PROVE  Closing
BY UnchangedCloses, AllClose DEF DeviceWrite, UserWrite

LEMMA AdminWrites ==
  ASSUME TInv, NEW h \in Admins, DeviceWrite(h) \/ UserWrite(h) \/ Unlock(h)
  PROVE  TInv'
<1>0. h \in Handlers
  BY Actors
<1>j. Knows(h, job[h]) /\ Idle \in Job /\ Knows(h, Idle)
  BY <1>0, JobOf, IdleKnows
<1>r. RowTypes /\ RowsKept
  BY RowsOf
<1>w. ASSUME DeviceWrite(h) \/ UserWrite(h), user' \in UserRow,
             device' \in [Devices -> DeviceStatuses \cup {"ABSENT"}]
      PROVE  TInv'
  <2>1. Closing
    BY <1>w, AdminCloses
  <2>2. Becomes(h, Idle) /\ UNCHANGED <<code, token, history>>
    BY <1>w DEF DeviceWrite, UserWrite, Ends
  <2>3. RowTypes' /\ RowsKept' /\ RowsStay
    BY <1>r, <1>w, <2>1, <2>2, ClosingKeeps DEF RowTypes, Closing, history
  <2> QED
    BY <1>0, <1>j, <2>2, <2>3, WriteStep
<1>1. CASE DeviceWrite(h)
  <2>1. job[h].next \in DeviceStatuses
    BY <1>1, <1>j DEF DeviceWrite, At, Knows, DeviceStatuses
  <2>2. device' \in [Devices -> DeviceStatuses \cup {"ABSENT"}] /\ user' \in UserRow
    BY <1>1, <1>r, <2>1 DEF DeviceWrite, RowTypes
  <2> QED
    BY <1>1, <1>w, <2>2
<1>2. CASE UserWrite(h)
  BY <1>2, <1>r, <1>w, UserWriteType DEF UserWrite, RowTypes
<1>3. CASE Unlock(h)
  <2>1. user' \in UserRow
    BY <1>3, <1>r, ClearedType DEF Unlock, RowTypes
  <2>2. RowTypes' /\ RowsKept' /\ RowsStay
    BY <1>3, <1>r, <2>1 DEF Unlock, RowTypes, RowsKept, RowsStay, history
  <2> QED
    BY <1>3, <2>2, RowStep DEF Unlock
<1> QED
  BY <1>1, <1>2, <1>3

(* Sessions that run out, and those that are cleaned up, only close. *)
LEMMA TimeCloses ==
  ASSUME TInv, SessionExpires \/ CleanUpSessions
  PROVE  Closing
<1>1. session \in [Rows -> SessionRow]
  BY DEF TInv, TypeOK
<1>t. ASSUME NEW b \in BOOLEAN, NEW s \in SessionRow
      PROVE  /\ [s EXCEPT !.expired = b] \in SessionRow
             /\ [s EXCEPT !.expired = b].state = s.state
             /\ [s EXCEPT !.expired = b].family = s.family
             /\ [s EXCEPT !.expired = b].device = s.device
             /\ [s EXCEPT !.expired = b].made = s.made
             /\ [s EXCEPT !.state = "deleted", !.expired = b] \in SessionRow
             /\ [s EXCEPT !.state = "deleted", !.expired = b].state = "deleted"
             /\ [s EXCEPT !.state = "deleted", !.expired = b].family = s.family
             /\ [s EXCEPT !.state = "deleted", !.expired = b].device = s.device
             /\ [s EXCEPT !.state = "deleted", !.expired = b].made = s.made
  BY DEF SessionRow
<1>2. CASE SessionExpires
  <2>1. PICK s \in Rows :
          Live(s) /\ session' = [session EXCEPT ![s] = [session[s] EXCEPT !.expired = TRUE]]
    BY <1>2 DEF SessionExpires
  <2> DEFINE row == [session[s] EXCEPT !.expired = TRUE]
  <2>2. /\ row \in SessionRow /\ row.state = session[s].state
        /\ row.family = session[s].family /\ row.device = session[s].device
        /\ row.made = session[s].made
    BY <1>1, <1>t
  <2>3. session' = [session EXCEPT ![s] = row]
    BY <2>1
  <2> HIDE DEF row
  <2> QED
    BY <1>1, <2>1, <2>2, <2>3 DEF Closing, Live
<1>3. CASE CleanUpSessions
  <2>1. PICK old \in SUBSET {s \in Rows : session[s].state = "revoked"} :
          session' = [s \in Rows |->
                        IF s \in old \/ session[s].expired
                          THEN [session[s] EXCEPT !.state = "deleted", !.expired = FALSE]
                          ELSE session[s]]
    BY <1>3 DEF CleanUpSessions
  <2>2. \A s \in Rows : session[s].state = "absent" => ~session[s].expired
    BY DEF TInv, RowsKept
  <2> QED
    BY <1>1, <1>t, <2>1, <2>2 DEF Closing
<1> QED
  BY <1>2, <1>3

(* What the clean-up does to a code or a token. *)
LEMMA OverRow ==
  /\ \A r \in CodeRow :
       /\ Over(r) \in CodeRow /\ Over(r).attempts = r.attempts
       /\ Over(r).state = r.state \/ Over(r).state = "deleted"
       /\ r.state = "used" => Over(r).state = "deleted"
       /\ r.state = "absent" /\ ~r.expired => Over(r) = r
  /\ \A r \in TokenRow :
       /\ Over(r) \in TokenRow /\ Over(r).from = r.from
       /\ Over(r).state = r.state \/ Over(r).state = "deleted"
       /\ r.state = "absent" /\ ~r.expired => Over(r) = r
<1>1. ASSUME NEW r \in CodeRow, NEW b \in BOOLEAN
      PROVE  /\ [r EXCEPT !.state = "deleted", !.expired = b] \in CodeRow
             /\ [r EXCEPT !.state = "deleted", !.expired = b].attempts = r.attempts
             /\ [r EXCEPT !.state = "deleted", !.expired = b].state = "deleted"
  BY DEF CodeRow
<1>2. ASSUME NEW r \in TokenRow, NEW b \in BOOLEAN
      PROVE  /\ [r EXCEPT !.state = "deleted", !.expired = b] \in TokenRow
             /\ [r EXCEPT !.state = "deleted", !.expired = b].from = r.from
             /\ [r EXCEPT !.state = "deleted", !.expired = b].state = "deleted"
  BY DEF TokenRow
<1> QED
  BY <1>1, <1>2 DEF Over

(* The steps of time, and the stop of a server. *)
LEMMA TimeWrites ==
  ASSUME TInv, Time
  PROVE  TInv'
<1>r. RowTypes /\ RowsKept
  BY RowsOf
<1>1. CASE LockExpires
  <2>1. user' \in UserRow
    <3>1. user' = [user EXCEPT !.locked = FALSE] /\ user \in UserRow
      BY <1>1, <1>r DEF LockExpires, RowTypes
    <3>2. ASSUME NEW b \in BOOLEAN PROVE [user EXCEPT !.locked = b] \in UserRow
      BY <3>1 DEF UserRow
    <3> QED
      BY <3>1, <3>2
  <2>2. RowTypes' /\ RowsKept' /\ RowsStay
    BY <1>1, <1>r, <2>1 DEF LockExpires, RowTypes, RowsKept, RowsStay, history
  <2> QED
    BY <1>1, <2>2, RowStep DEF LockExpires
<1>2. CASE SessionExpires \/ CleanUpSessions
  <2>1. Closing
    BY <1>2, TimeCloses
  <2>2. UNCHANGED <<user, device, code, token, job, history>>
    BY <1>2 DEF SessionExpires, CleanUpSessions
  <2> QED
    BY <1>r, <2>1, <2>2, ClosingKeeps, RowStep DEF RowTypes, Closing, history
<1>c. ASSUME code' \in [Codes -> CodeRow], token' \in [Codes -> TokenRow],
             \A c \in Codes :
               /\ code'[c].attempts = code[c].attempts /\ token'[c].from = token[c].from
               /\ code'[c].state \in {code[c].state, "deleted"}
               /\ token'[c].state \in {token[c].state, "deleted"}
               /\ code[c].state = "absent" => code'[c] = code[c]
               /\ token[c].state = "absent" => token'[c] = token[c],
             UNCHANGED <<user, device, session, job, history>>
      PROVE  TInv'
  <2>1. RowTypes' /\ RowsKept' /\ RowsStay
    BY <1>r, <1>c DEF RowTypes, RowsKept, RowsStay, history
  <2> QED
    BY <1>c, <2>1, RowStep
<1>t. code \in [Codes -> CodeRow] /\ token \in [Codes -> TokenRow]
  BY <1>r DEF RowTypes
<1>3. CASE CodeExpires
  <2>1. ASSUME NEW c \in Codes, NEW b \in BOOLEAN
        PROVE  /\ [code[c] EXCEPT !.expired = b] \in CodeRow
               /\ [code[c] EXCEPT !.expired = b].state = code[c].state
               /\ [code[c] EXCEPT !.expired = b].attempts = code[c].attempts
               /\ [token[c] EXCEPT !.expired = b] \in TokenRow
               /\ [token[c] EXCEPT !.expired = b].state = token[c].state
               /\ [token[c] EXCEPT !.expired = b].from = token[c].from
    BY <1>t DEF CodeRow, TokenRow
  <2>2. UNCHANGED <<user, device, session, job, history>>
    BY <1>3 DEF CodeExpires
  <2>3. CASE /\ \E c \in Codes : code[c].state = "open" /\ code' = [code EXCEPT ![c].expired = TRUE]
             /\ UNCHANGED token
    <3>1. PICK c \in Codes : code[c].state = "open" /\ code' = [code EXCEPT ![c].expired = TRUE]
      BY <2>3
    <3> DEFINE row == [code[c] EXCEPT !.expired = TRUE]
    <3>2. /\ row \in CodeRow /\ row.state = code[c].state
          /\ row.attempts = code[c].attempts
      BY <2>1
    <3>3. code' = [code EXCEPT ![c] = row]
      BY <3>1
    <3> HIDE DEF row
    <3> QED
      BY <1>c, <1>t, <2>2, <2>3, <3>1, <3>2, <3>3
  <2>4. CASE /\ \E t \in Codes : token[t].state = "open" /\ token' = [token EXCEPT ![t].expired = TRUE]
             /\ UNCHANGED code
    <3>1. PICK c \in Codes : token[c].state = "open" /\ token' = [token EXCEPT ![c].expired = TRUE]
      BY <2>4
    <3> DEFINE row == [token[c] EXCEPT !.expired = TRUE]
    <3>2. row \in TokenRow /\ row.state = token[c].state /\ row.from = token[c].from
      BY <2>1
    <3>3. token' = [token EXCEPT ![c] = row]
      BY <3>1
    <3> HIDE DEF row
    <3> QED
      BY <1>c, <1>t, <2>2, <2>4, <3>1, <3>2, <3>3
  <2> QED
    BY <1>3, <2>3, <2>4 DEF CodeExpires
<1>4. CASE CleanUpCodes
  <2>1. \A c \in Codes : /\ code[c] \in CodeRow /\ token[c] \in TokenRow
                         /\ code[c].state = "absent" => ~code[c].expired
                         /\ token[c].state = "absent" => ~token[c].expired
    BY <1>r, <1>t DEF RowsKept
  <2> QED
    BY <1>4, <1>c, <1>t, <2>1, OverRow DEF CleanUpCodes
<1>5. CASE CleanUpDevices
  <2>1. device' \in [Devices -> DeviceStatuses \cup {"ABSENT"}]
    BY <1>5, <1>r DEF CleanUpDevices, RowTypes, DeviceStatuses
  <2>2. RowTypes' /\ RowsKept' /\ RowsStay
    BY <1>5, <1>r, <2>1 DEF CleanUpDevices, RowTypes, RowsKept, RowsStay, history
  <2> QED
    BY <1>5, <2>2, RowStep DEF CleanUpDevices
<1> QED
  BY <1>1, <1>2, <1>3, <1>4, <1>5 DEF Time

LEMMA CrashWrites ==
  ASSUME TInv, NEW h \in Handlers, Crash(h)
  PROVE  TInv'
<1>1. unfinished' \in BOOLEAN
  <2>1. (unfinished \/ At(h, "revoke_all")) \in BOOLEAN
    OBVIOUS
  <2> QED
    BY <2>1 DEF Crash
<1>2. RowTypes' /\ RowsKept' /\ RowsStay
  BY <1>1, RowsOf DEF Crash, RowTypes, RowsKept, RowsStay
<1> QED
  BY <1>2, IdleKnows, WriteStep DEF Crash, Ends

LEMMA TypeInit == Init => TInv
<1> SUFFICES ASSUME Init PROVE TInv
  OBVIOUS
<1>1. user \in UserRow
  <2>1. ASSUME NEW b \in BOOLEAN
        PROVE  [status |-> "ACTIVE", deleted |-> b, password |-> 0, failed |-> 0, locked |-> b]
                 \in UserRow
    BY Bounds DEF UserRow, AccountStatuses
  <2> QED
    BY <2>1 DEF Init
<1>2. device \in [Devices -> DeviceStatuses \cup {"ABSENT"}]
  BY DEF Init
<1>3. /\ session \in [Rows -> SessionRow]
      /\ \A s \in Rows : session[s].family = 0 /\ session[s].state \in {"absent", "deleted"}
                        /\ ~session[s].expired
  <2>1. PICK past \in 0..MaxSessions :
          session = [s \in Rows |-> [state |-> Past(s <= past), family |-> 0, device |-> NoDevice,
                                     made |-> 0, expired |-> FALSE]]
    BY DEF Init
  <2>2. \A s \in Rows : Past(s <= past) \in {"absent", "deleted"}
    BY DEF Past
  <2> QED
    BY <2>1, <2>2, Bounds DEF SessionRow
<1>4. PICK past \in 0..MaxCodes :
        /\ code = [c \in Codes |-> [state |-> Past(c <= past), expired |-> FALSE, attempts |-> 0]]
        /\ token = [c \in Codes |-> [state |-> Past(c <= past), expired |-> FALSE, from |-> 0]]
  BY DEF Init
<1>5. \A s \in Codes : Past(s <= past) \in {"absent", "deleted"}
  BY DEF Past
<1>6. /\ code \in [Codes -> CodeRow] /\ token \in [Codes -> TokenRow]
      /\ \A c \in Codes :
           /\ code[c].state \in {"absent", "deleted"} /\ token[c].state \in {"absent", "deleted"}
           /\ code[c].attempts = 0 /\ token[c].from = 0
           /\ ~code[c].expired /\ ~token[c].expired
  BY <1>4, <1>5, Bounds DEF CodeRow, TokenRow
<1>7. job \in [Handlers -> Job] /\ \A h \in Handlers : Knows(h, job[h])
  BY IdleKnows DEF Init
<1>8. late \subseteq Rows /\ reused \subseteq Rows /\ unfinished \in BOOLEAN
      /\ guessed \in [Codes -> Nat]
  BY DEF Init
<1> QED
  BY <1>1, <1>2, <1>3, <1>6, <1>7, <1>8 DEF TInv, TypeOK, RowsKept

LEMMA TypeStep == TInv /\ [Next]_vars => TInv'
<1> SUFFICES ASSUME TInv, [Next]_vars PROVE TInv'
  OBVIOUS
<1>1. ASSUME NEW h \in Clients, ClientStep(h) PROVE TInv'
  BY <1>1, ClientReads, AccountWrites, SessionWrites, CodeWrites, RequestWrites DEF ClientStep
<1>2. ASSUME NEW h \in Admins, AdminStep(h) PROVE TInv'
  BY <1>2, AdminReads, AdminWrites DEF AdminStep
<1>3. ASSUME NEW h \in Handlers, Crash(h) PROVE TInv'
  BY <1>3, CrashWrites
<1>4. CASE UNCHANGED vars
  <2>1. RowTypes' /\ RowsKept' /\ RowsStay
    BY <1>4, RowsOf DEF vars, RowTypes, RowsKept, RowsStay
  <2> QED
    BY <1>4, <2>1, RowStep DEF vars
<1> QED
  BY <1>1, <1>2, <1>3, <1>4, TimeWrites DEF Next

(* The rows, the jobs and the history keep their types, for any number of   *)
(* clients and administrators handled at one time: a write is made with     *)
(* values read before, and still fits what the row may hold.                *)
THEOREM TypeCorrect == Spec => []TypeOK
<1>1. TInv => TypeOK
  BY DEF TInv
<1> QED
  BY <1>1, TypeInit, TypeStep, PTL DEF Spec

-----------------------------------------------------------------------------
(* Families, passwords and permission, for a user who sends one request at *)
(* a time.                                                                 *)

(* What a client knows outlives steps that only close sessions. *)
LEMMA KnowsKept ==
  ASSUME TInv, NEW h \in Handlers, NEW j \in Job, Knows(h, j), KnowsSessions(j), Closing,
         reused' = reused, late' = late, user'.password = user.password,
         unfinished => unfinished'
  PROVE  KnowsSessions(j)'
BY DEF Closing, KnowsSessions, Knows, Live, Refreshing

(* No session loses its permission while account and devices are as before. *)
LEMMA PermissionKept ==
  ASSUME TInv, PermittedOrLate, Closing, late' = late,
         user'.status = user.status, device' = device
  PROVE  PermittedOrLate'
BY DEF Closing, PermittedOrLate, Permitted, MayAuthenticate, Live

LEMMA FamiliesStay ==
  ASSUME TInv, SessionsInv, Closing, reused' = reused
  PROVE  OneHeadPerFamily' /\ ReuseEndsFamily' /\ FamiliesNamed'
<1>1. OneHeadPerFamily' /\ ReuseEndsFamily'
  BY DEF SessionsInv, Closing, OneHeadPerFamily, ReuseEndsFamily, Live
<1>2. \A s \in Rows : session[s].family # 0 => session[s].family \in Rows
  BY Bounds DEF TInv, TypeOK, SessionRow, Rows
<1>3. FamiliesNamed'
  BY <1>2 DEF SessionsInv, Closing, FamiliesNamed, TInv, TypeOK
<1> QED
  BY <1>1, <1>3

(* A step in which no client takes part. *)
LEMMA OthersKeep ==
  ASSUME TInv, SessionsInv, Closing, UNCHANGED <<reused, late, unfinished>>,
         user'.password = user.password, PermittedOrLate',
         \A g \in Clients : job'[g] = job[g]
  PROVE  SessionsInv'
<1>1. ASSUME NEW g \in Clients PROVE KnowsSessions(job[g])'
  <2>1. job'[g] = job[g] /\ g \in Handlers /\ job[g] \in Job
    BY Actors DEF TInv, TypeOK
  <2>2. Knows(g, job[g]) /\ KnowsSessions(job[g])
    BY <2>1 DEF TInv, SessionsInv
  <2> QED
    BY <2>1, <2>2, KnowsKept DEF KnowsSessions
<1>2. PasswordEndsSessions'
  BY DEF SessionsInv, PasswordEndsSessions, Closing, Live, At
<1> QED
  BY <1>1, <1>2, FamiliesStay DEF SessionsInv

(* The one client is the one that takes the step. *)
LEMMA TheClient ==
  ASSUME TInv, OneClient, NEW h \in Clients, NEW j, Becomes(h, j)
  PROVE  \A g \in Clients : g = h /\ job'[g] = j
BY Actors DEF OneClient, Becomes, TInv, TypeOK

(* While it ends no session for a new password, the sessions it finds are  *)
(* under the present one.                                                  *)
LEMMA PasswordHolds ==
  ASSUME SessionsInv, OneClient, NEW h \in Clients, ~At(h, "revoke_all")
  PROVE  \A s \in Rows : Live(s) => session[s].made = user.password \/ unfinished
BY DEF SessionsInv, PasswordEndsSessions, OneClient

LEMMA ClientKeeps ==
  ASSUME TInv, SessionsInv, OneClient, NEW h \in Clients, NEW j \in Job, Becomes(h, j),
         ~At(h, "revoke_all"), Closing, UNCHANGED <<reused, late, unfinished>>,
         user'.password = user.password, PermittedOrLate', KnowsSessions(j)'
  PROVE  SessionsInv'
<1>1. ASSUME NEW g \in Clients PROVE KnowsSessions(job[g])'
  <2>1. job'[g] = j
    BY TheClient
  <2> QED
    BY <2>1 DEF KnowsSessions
<1>2. PasswordEndsSessions'
  BY PasswordHolds DEF PasswordEndsSessions, Closing, Live
<1> QED
  BY <1>1, <1>2, FamiliesStay DEF SessionsInv

(* A step of a client that writes neither account, devices nor sessions. *)
LEMMA ClientGoesOn ==
  ASSUME TInv, SessionsInv, OneClient, NEW h \in Clients, NEW j \in Job, Becomes(h, j),
         ~At(h, "revoke_all"), UNCHANGED <<user, device, session, late, reused, unfinished>>,
         KnowsSessions(j)
  PROVE  SessionsInv'
<1>1. Closing
  BY UnchangedCloses
<1>2. PermittedOrLate'
  BY <1>1, PermissionKept DEF SessionsInv
<1>3. KnowsSessions(j)'
  BY DEF KnowsSessions, Live
<1> QED
  BY <1>1, <1>2, <1>3, ClientKeeps

LEMMA IdleSessions == KnowsSessions(Idle) /\ KnowsSessions(Idle)'
BY DEF KnowsSessions, Idle, Refreshing, LoggingIn

(* The client's reads; what it read of the sessions holds when it reads it. *)
LEMMA ReadsKeepSessions ==
  ASSUME TInv, SessionsInv, OneClient, NEW h \in Clients,
         \/ LoginRead(h) \/ LoginDevice(h) \/ RefreshRead(h) \/ RefreshUser(h)
         \/ RefreshDevice(h) \/ ChangeRead(h) \/ VerifyRead(h) \/ AttemptRead(h)
         \/ ResetRead(h)
  PROVE  SessionsInv'
<1>0. h \in Handlers
  BY Actors
<1>j. job[h] \in Job /\ Idle \in Job /\ KnowsSessions(job[h]) /\ KnowsSessions(Idle)
  BY <1>0, JobOf, IdleKnows, IdleSessions DEF SessionsInv
<1>t. TInv'
  BY ClientReads
<1>b. job'[h] \in Job
  BY <1>0, <1>t DEF TInv, TypeOK
<1>a. ~At(h, "revoke_all") /\ UNCHANGED <<user, device, session, late, reused, unfinished>>
  BY DEF LoginRead, LoginDevice, RefreshRead, RefreshUser, RefreshDevice, ChangeRead, VerifyRead,
         AttemptRead, ResetRead, At, history
<1>n. \A j : Becomes(h, j) => job'[h] = j
  BY <1>0 DEF Becomes, TInv, TypeOK
<1>e. ASSUME NEW j, Becomes(h, j), KnowsSessions(j)
      PROVE  SessionsInv'
  BY <1>a, <1>b, <1>n, <1>e, ClientGoesOn
<1>1. CASE LoginRead(h)
  <2>1. ASSUME NEW d \in Devices
        PROVE  KnowsSessions([Idle EXCEPT !.at = "login_device", !.device = d, !.seen = user.password])
    BY DEF KnowsSessions, Idle, Refreshing, LoggingIn
  <2>2. KnowsSessions([Idle EXCEPT !.at = "login_failed", !.seen = user.failed + 1])
    BY DEF KnowsSessions, Idle, Refreshing, LoggingIn
  <2> QED
    BY <1>1, <1>e, <2>1, <2>2 DEF LoginRead
<1>2. CASE LoginDevice(h)
  <2> DEFINE j == [job[h] EXCEPT !.at = "login_write", !.was = device[job[h].device]]
  <2>1. job[h].at = "login_device" /\ job[h].seen = user.password
    BY <1>2, <1>j DEF LoginDevice, At, KnowsSessions, LoggingIn
  <2>2. device[job[h].device] # "ACTIVE" =>
          \A s \in Rows : Live(s) /\ session[s].device = job[h].device => s \in late
    BY DEF SessionsInv, PermittedOrLate, Permitted
  <2>3. KnowsSessions(j)
    BY <1>j, <2>1, <2>2 DEF KnowsSessions, Job, Refreshing, LoggingIn
  <2> QED
    BY <1>2, <1>e, <1>j, <2>3 DEF LoginDevice, Ends
<1>3. CASE RefreshRead(h)
  <2>1. ASSUME NEW s \in Rows
        PROVE  KnowsSessions([Idle EXCEPT !.at = "refresh_family", !.row = s])
    BY DEF KnowsSessions, Idle, Refreshing, LoggingIn
  <2>2. ASSUME NEW s \in Rows, Live(s)
        PROVE  KnowsSessions([Idle EXCEPT !.at = "refresh_user", !.row = s])
    <3>1. \A t \in Rows : Live(t) /\ session[t].family = session[s].family => t = s
      BY <2>2 DEF SessionsInv, OneHeadPerFamily
    <3>2. session[s].family \notin reused
      BY <2>2 DEF SessionsInv, ReuseEndsFamily
    <3>3. session[s].made = user.password \/ unfinished
      BY <1>a, <2>2, PasswordHolds
    <3> QED
      BY <3>1, <3>2, <3>3 DEF KnowsSessions, Idle, Refreshing, LoggingIn
  <2>3. PICK s \in Rows :
          \/ Becomes(h, [Idle EXCEPT !.at = "refresh_family", !.row = s])
          \/ Live(s) /\ Becomes(h, [Idle EXCEPT !.at = "refresh_user", !.row = s])
    BY <1>3 DEF RefreshRead, Live
  <2> QED
    BY <1>e, <2>1, <2>2, <2>3
<1>4. CASE RefreshUser(h) \/ RefreshDevice(h)
  <2>1. ASSUME NEW next \in {"refresh_device", "rotate"}, job[h].at \in Refreshing
        PROVE  KnowsSessions([job[h] EXCEPT !.at = next])
    BY <1>j, <2>1 DEF KnowsSessions, Job, Refreshing, LoggingIn
  <2> QED
    BY <1>4, <1>e, <1>j, <2>1 DEF RefreshUser, RefreshDevice, Ends, Goes, At, Refreshing
<1>5. CASE ChangeRead(h)
  <2>1. KnowsSessions([Idle EXCEPT !.at = "change_write"])
    BY DEF KnowsSessions, Idle, Refreshing, LoggingIn
  <2> QED
    BY <1>5, <1>e, <2>1 DEF ChangeRead
<1>6. CASE VerifyRead(h)
  <2>1. /\ KnowsSessions([Idle EXCEPT !.at = "attempt"])
        /\ \A c \in Codes : KnowsSessions([Idle EXCEPT !.at = "verify_write", !.row = c])
    BY DEF KnowsSessions, Idle, Refreshing, LoggingIn
  <2> QED
    BY <1>6, <1>e, <2>1 DEF VerifyRead
<1>7. CASE AttemptRead(h)
  <2>1. \A c \in Codes : KnowsSessions([Idle EXCEPT !.at = "attempt_write", !.row = c,
                                                    !.seen = code[c].attempts + 1])
    BY DEF KnowsSessions, Idle, Refreshing, LoggingIn
  <2> QED
    BY <1>7, <1>e, <1>j, <2>1 DEF AttemptRead, Ends
<1>8. CASE ResetRead(h)
  <2>1. \A t \in Codes : KnowsSessions([Idle EXCEPT !.at = "reset_write", !.row = t])
    BY DEF KnowsSessions, Idle, Refreshing, LoggingIn
  <2> QED
    BY <1>8, <1>e, <2>1 DEF ResetRead
<1> QED
  BY <1>1, <1>2, <1>3, <1>4, <1>5, <1>6, <1>7, <1>8

(* The writes of a sign-in.  A device found other than active, whatever it  *)
(* is made, has no good session but late ones.                             *)
LEMMA LoginKeepsSessions ==
  ASSUME TInv, SessionsInv, OneClient, NEW h \in Clients,
         \/ LoginFailed(h) \/ LoginDeviceWrite(h) \/ LoginRehash(h) \/ LoginDone(h)
  PROVE  SessionsInv'
<1>0. h \in Handlers
  BY Actors
<1>j. /\ job[h] \in Job /\ Knows(h, job[h]) /\ KnowsSessions(job[h])
      /\ Idle \in Job /\ KnowsSessions(Idle)'
  BY <1>0, JobOf, IdleKnows, IdleSessions DEF SessionsInv
<1>u. user \in UserRow
  BY DEF TInv, TypeOK
<1>c. Closing /\ UNCHANGED <<session, reused, late, unfinished>> /\ ~At(h, "revoke_all")
  BY UnchangedCloses
     DEF LoginFailed, LoginDeviceWrite, LoginRehash, LoginDone, history, At
<1>g. ASSUME NEW step \in {"login_session", "login_rehash"}, job[h].at \in LoggingIn,
             user'.password = job[h].seen, NEW j, j = [job[h] EXCEPT !.at = step]
      PROVE  j \in Job /\ KnowsSessions(j)'
  <2>1. j \in Job /\ j.at = step /\ j.seen = job[h].seen
    BY <1>j, <1>g DEF Job
  <2>2. KnowsSessions(j)'
    BY <1>g, <2>1 DEF KnowsSessions, Refreshing, LoggingIn
  <2> QED
    BY <2>1, <2>2
<1>1. CASE LoginFailed(h) \/ LoginDone(h)
  <2>1. user'.password = user.password /\ user'.status = user.status
    BY <1>1, <1>u DEF LoginFailed, LoginDone, UserRow
  <2>2. device' = device /\ Becomes(h, Idle)
    BY <1>1 DEF LoginFailed, LoginDone, Ends
  <2>3. PermittedOrLate'
    BY <1>c, <2>1, <2>2, PermissionKept DEF SessionsInv
  <2> QED
    BY <1>c, <1>j, <2>1, <2>2, <2>3, ClientKeeps
<1>2. CASE LoginDeviceWrite(h)
  <2>1. /\ job[h].at = "login_write" /\ job[h].device \in Devices
        /\ job[h].seen = user.password /\ user' = user
        /\ job[h].was # "ACTIVE" =>
             \A s \in Rows : Live(s) /\ session[s].device = job[h].device => s \in late
    BY <1>2, <1>j DEF LoginDeviceWrite, At, Knows, KnowsSessions, LoggingIn
  <2>2. PermittedOrLate'
    <3>1. ASSUME NEW s \in Rows, Live(s), s \notin late PROVE Permitted(s)'
      <4>1. Permitted(s) /\ session[s].device \in Devices
        BY <3>1 DEF SessionsInv, PermittedOrLate, TInv, RowsKept, Live
      <4>2. device' = device \/ session[s].device # job[h].device \/ job[h].was = "ACTIVE"
        BY <2>1, <3>1
      <4>3. device'[session[s].device] = "ACTIVE"
        BY <1>2, <4>1, <4>2 DEF LoginDeviceWrite, Permitted, TInv, TypeOK
      <4> QED
        BY <1>c, <2>1, <4>1, <4>3 DEF Permitted, MayAuthenticate
    <3> QED
      BY <1>c, <3>1 DEF PermittedOrLate, Live
  <2>3. PICK j : /\ Becomes(h, j)
                 /\ \/ j = Idle
                    \/ \E step \in {"login_session", "login_rehash"} :
                         j = [job[h] EXCEPT !.at = step]
    BY <1>2 DEF LoginDeviceWrite, Ends, Goes
  <2>4. j \in Job /\ KnowsSessions(j)'
    BY <1>g, <2>1, <2>3, IdleKnows, IdleSessions, <1>0 DEF LoggingIn
  <2> QED
    BY <1>c, <2>1, <2>2, <2>3, <2>4, ClientKeeps
<1>3. CASE LoginRehash(h)
  <2>1. job[h].at \in LoggingIn /\ job[h].seen = user.password
    BY <1>3, <1>j DEF LoginRehash, At, KnowsSessions, LoggingIn
  <2>2. user'.password = user.password /\ user'.status = user.status
    BY <1>3, <1>u, <2>1 DEF LoginRehash, UserRow
  <2>3. PICK j : j = [job[h] EXCEPT !.at = "login_session"] /\ Becomes(h, j)
    BY <1>3 DEF LoginRehash, Goes
  <2>5. device' = device
    BY <1>3 DEF LoginRehash
  <2>6. j \in Job /\ KnowsSessions(j)'
    BY <1>g, <2>1, <2>2, <2>3
  <2>4. PermittedOrLate'
    BY <1>c, <2>2, <2>5, PermissionKept DEF SessionsInv
  <2> QED
    BY <1>c, <2>2, <2>3, <2>4, <2>6, ClientKeeps
<1> QED
  BY <1>1, <1>2, <1>3

(* A new session: of a family in which no other is good, that no reuse has *)
(* ended, under the present password.                                      *)
LEMMA OpeningKeepsSessions ==
  ASSUME TInv, SessionsInv, OneClient, NEW h \in Clients, NEW j \in Job, Becomes(h, j),
         ~At(h, "revoke_all"), KnowsSessions(j)',
         NEW n \in Rows, NEW family \in Rows, NEW d \in Devices, NEW made \in 0..MaxPassword,
         Opening(n, family, d, made), NoteLate(n, d),
         UNCHANGED <<user, device, reused, unfinished>>,
         \A s \in Rows \ {n} : session[s].family = family => session'[s].state # "live",
         family \notin reused, family = n \/ session[family].state # "absent",
         made = user.password \/ unfinished
  PROVE  SessionsInv'
<1>1. /\ session'[n].state = "live" /\ session'[n].family = family
      /\ session'[n].device = d /\ session'[n].made = made
  BY NewRow DEF Opening
<1>2. \A s \in Rows \ {n} :
        /\ session'[s].family = session[s].family
        /\ session'[s].device = session[s].device
        /\ session'[s].made = session[s].made
        /\ session'[s].state = "live" => session[s].state = "live"
        /\ session'[s].state = "absent" <=> session[s].state = "absent"
  BY DEF Opening
<1>3. OneHeadPerFamily'
  BY <1>1, <1>2 DEF OneHeadPerFamily, SessionsInv, Live
<1>4. ReuseEndsFamily'
  BY <1>1, <1>2 DEF ReuseEndsFamily, SessionsInv, Live
<1>5. PasswordEndsSessions'
  BY <1>1, <1>2, PasswordHolds DEF PasswordEndsSessions, Live
<1>6. PermittedOrLate'
  <2>1. late \subseteq late' /\ (n \in late' \/ (MayAuthenticate /\ device[d] = "ACTIVE"))
    BY DEF NoteLate
  <2> QED
    BY <1>1, <1>2, <2>1 DEF PermittedOrLate, SessionsInv, Live, Permitted, MayAuthenticate
<1>7. FamiliesNamed'
  <2>1. \A s \in Rows : session[s].family # 0 => session[s].family \in Rows
    BY Bounds DEF TInv, TypeOK, SessionRow, Rows
  <2>2. reused \subseteq Rows
    BY DEF TInv, TypeOK
  <2> QED
    BY <1>1, <1>2, <2>1, <2>2 DEF FamiliesNamed, SessionsInv
<1>8. \A g \in Clients : KnowsSessions(job[g])'
  <2>1. \A g \in Clients : job'[g] = j
    BY TheClient
  <2> QED
    BY <2>1 DEF KnowsSessions
<1> QED
  BY <1>3, <1>4, <1>5, <1>6, <1>7, <1>8 DEF SessionsInv

(* A sign-in and a rotation open one session each. *)
LEMMA OpensKeepSessions ==
  ASSUME TInv, SessionsInv, OneClient, NEW h \in Clients, LoginSession(h) \/ Rotate(h)
  PROVE  SessionsInv'
<1>0. h \in Handlers
  BY Actors
<1>j. /\ job[h] \in Job /\ Knows(h, job[h]) /\ KnowsSessions(job[h])
      /\ Idle \in Job /\ KnowsSessions(Idle)'
  BY <1>0, JobOf, IdleKnows, IdleSessions DEF SessionsInv
<1>1. CASE LoginSession(h)
  <2>1. PICK j : j = [job[h] EXCEPT !.at = "login_done"] /\ Becomes(h, j)
    BY <1>1 DEF LoginSession, Goes
  <2>2. j \in Job /\ j.at = "login_done"
    BY <1>j, <2>1 DEF Job
  <2>3. KnowsSessions(j)'
    BY <2>2 DEF KnowsSessions, Refreshing, LoggingIn
  <2>4. PICK n \in Rows : /\ Opening(n, n, job[h].device, job[h].seen)
                         /\ NoteLate(n, job[h].device)
                         /\ job[h].device \in Devices /\ job[h].seen \in 0..MaxPassword
    BY <1>1, LoginOpens
  <2>5. job[h].seen = user.password /\ ~At(h, "revoke_all")
    BY <1>1, <1>j DEF LoginSession, At, KnowsSessions, LoggingIn
  <2>6. n \notin reused /\ \A s \in Rows \ {n} : session[s].family # n
    <3>1. session[n].state = "absent" /\ n # 0
      BY <2>4, Bounds DEF Opening, Rows
    <3> QED
      BY <3>1 DEF SessionsInv, FamiliesNamed
  <2>7. UNCHANGED <<user, device, reused, unfinished>>
    BY <1>1 DEF LoginSession
  <2> QED
    BY <2>1, <2>2, <2>3, <2>4, <2>5, <2>6, <2>7, OpeningKeepsSessions
<1>2. CASE Rotate(h)
  <2> DEFINE s == job[h].row
  <2>1. /\ s \in Rows /\ session[s].family # 0
        /\ \A r \in Rows : Live(r) /\ session[r].family = session[s].family => r = s
        /\ session[s].family \notin reused
        /\ session[s].made = user.password \/ unfinished
        /\ ~At(h, "revoke_all")
    BY <1>2, <1>j DEF Rotate, At, Knows, KnowsSessions, Refreshing
  <2>2. Becomes(h, Idle) /\ UNCHANGED <<user, device, reused, unfinished>>
    BY <1>2 DEF Rotate, Ends
  <2>3. CASE session[s].state = "deleted"
    <3>1. UNCHANGED <<session, late>>
      BY <1>2, <2>3 DEF Rotate
    <3>2. KnowsSessions(Idle)
      BY IdleSessions
    <3> QED
      BY <1>j, <2>1, <2>2, <3>1, <3>2, ClientGoesOn
  <2>4. CASE session[s].state # "deleted"
    <3> DEFINE family == session[s].family
               d == session[s].device
               made == session[s].made
    <3>1. PICK n \in Rows \ {s} :
            /\ Opening(n, family, d, made) /\ session'[s].state = "revoked"
            /\ NoteLate(n, d)
      BY <1>2, <2>4, RotateOpens
    <3>2. family \in Rows /\ d \in Devices /\ made \in 0..MaxPassword
      BY <1>2, <2>4, RotateOpens
    <3>3. \A r \in Rows \ {n} : session[r].family = family => session'[r].state # "live"
      <4>1. \A r \in Rows \ {n} : session'[r].state = "live" => Live(r)
        BY <3>1 DEF Opening, Live
      <4> QED
        BY <2>1, <3>1, <4>1
    <3>4. session[family].state # "absent"
      BY <2>1 DEF SessionsInv, FamiliesNamed
    <3>5. n \in Rows /\ family \notin reused /\ (made = user.password \/ unfinished)
      BY <2>1
    <3> HIDE DEF family, d, made
    <3> QED
      BY <1>j, <2>1, <2>2, <3>1, <3>2, <3>3, <3>4, <3>5, OpeningKeepsSessions
  <2> QED
    BY <2>3, <2>4
<1> QED
  BY <1>1, <1>2

(* revokeFamily and revokeAllForUser, and a new password. *)
LEMMA EndsKeepSessions ==
  ASSUME TInv, SessionsInv, OneClient, NEW h \in Clients,
         RefreshFamily(h) \/ RevokeAll(h) \/ ChangeWrite(h) \/ ResetWrite(h)
  PROVE  SessionsInv'
<1>0. h \in Handlers
  BY Actors
<1>j. job[h] \in Job /\ Knows(h, job[h]) /\ Idle \in Job
  BY <1>0, JobOf, IdleKnows
<1>i. KnowsSessions(Idle)'
  BY IdleSessions
<1>k. ASSUME NEW j, Becomes(h, j), KnowsSessions(j)'
      PROVE  \A g \in Clients : KnowsSessions(job[g])'
  <2>1. \A g \in Clients : job'[g] = j
    BY <1>k, TheClient
  <2> QED
    BY <1>k, <2>1 DEF KnowsSessions
<1>1. CASE RefreshFamily(h)
  <2> DEFINE f == session[job[h].row].family
  <2>1. job[h].row \in Rows /\ f # 0 /\ ~At(h, "revoke_all")
    BY <1>1, <1>j DEF RefreshFamily, At, Knows
  <2>2. session' = [s \in Rows |-> IF s \in {t \in Rows : session[t].family = f}
                                   THEN Ended(session[s]) ELSE session[s]]
    BY <1>1 DEF RefreshFamily
  <2>3. Closing
    BY <2>2, EndedRows
  <2>4. \A s \in Rows : session[s].family = f => session'[s].state # "live"
    BY <2>2, EndedRow DEF TInv, TypeOK
  <2>5. Becomes(h, Idle) /\ reused' = reused \cup {f}
        /\ UNCHANGED <<user, device, late, unfinished>>
    BY <1>1 DEF RefreshFamily, Ends
  <2>6. OneHeadPerFamily' /\ ReuseEndsFamily'
    BY <2>3, <2>4, <2>5 DEF SessionsInv, Closing, OneHeadPerFamily, ReuseEndsFamily, Live
  <2>7. FamiliesNamed'
    <3>1. \A s \in Rows : session[s].family # 0 => session[s].family \in Rows
      BY Bounds DEF TInv, TypeOK, SessionRow, Rows
    <3>2. reused \subseteq Rows
      BY DEF TInv, TypeOK
    <3> QED
      BY <2>1, <2>3, <2>5, <3>1, <3>2 DEF SessionsInv, Closing, FamiliesNamed
  <2>8. PasswordEndsSessions'
    BY <2>1, <2>3, <2>5, PasswordHolds DEF PasswordEndsSessions, Closing, Live
  <2>9. PermittedOrLate'
    BY <2>3, <2>5, PermissionKept DEF SessionsInv
  <2> QED
    BY <1>i, <1>k, <2>5, <2>6, <2>7, <2>8, <2>9 DEF SessionsInv
<1>2. CASE RevokeAll(h)
  <2>1. Closing /\ \A s \in Rows : session'[s].state # "live"
    BY <1>2, AllClose DEF RevokeAll
  <2>2. Becomes(h, Idle) /\ UNCHANGED <<user, device, late, reused>>
    BY <1>2 DEF RevokeAll, Ends
  <2>3. PasswordEndsSessions' /\ PermittedOrLate'
    BY <2>1 DEF PasswordEndsSessions, PermittedOrLate, Live
  <2> QED
    BY <1>i, <1>k, <2>1, <2>2, <2>3, FamiliesStay DEF SessionsInv
<1>3. ASSUME user' = NewPassword, Goes(h, "revoke_all"), UNCHANGED <<device, session, history>>
      PROVE  SessionsInv'
  <2>1. Closing
    BY <1>3, UnchangedCloses
  <2>2. PICK j : j = [job[h] EXCEPT !.at = "revoke_all"] /\ Becomes(h, j)
    BY <1>3 DEF Goes
  <2>3. j \in Job /\ j.at = "revoke_all"
    BY <1>j, <2>2 DEF Job
  <2>4. KnowsSessions(j)'
    BY <2>3 DEF KnowsSessions, Refreshing, LoggingIn
  <2>5. PasswordEndsSessions'
    <3>1. job'[h].at = "revoke_all"
      BY <1>0, <2>2, <2>3 DEF Becomes, TInv, TypeOK
    <3> QED
      BY <3>1 DEF PasswordEndsSessions, At
  <2>6. user'.status = user.status
    BY <1>3 DEF NewPassword, TInv, TypeOK, UserRow
  <2>7. PermittedOrLate'
    BY <1>3, <2>1, <2>6, PermissionKept DEF SessionsInv, history
  <2> QED
    BY <1>3, <1>k, <2>1, <2>2, <2>4, <2>5, <2>7, FamiliesStay DEF SessionsInv, history
<1>4. CASE ChangeWrite(h)
  BY <1>3, <1>4 DEF ChangeWrite
<1>5. CASE ResetWrite(h)
  <2>1. CASE token[job[h].row].state = "deleted"
    <3>1. Becomes(h, Idle) /\ UNCHANGED <<user, device, session, late, reused, unfinished>>
      BY <1>5, <2>1 DEF ResetWrite, Ends, history
    <3>2. KnowsSessions(Idle) /\ ~At(h, "revoke_all")
      BY <1>5, IdleSessions DEF ResetWrite, At
    <3> QED
      BY <1>j, <3>1, <3>2, ClientGoesOn
  <2>2. CASE token[job[h].row].state # "deleted"
    BY <1>3, <1>5, <2>2 DEF ResetWrite
  <2> QED
    BY <2>1, <2>2
<1> QED
  BY <1>1, <1>2, <1>4, <1>5

(* The other requests of the client. *)
LEMMA RequestsKeepSessions ==
  ASSUME TInv, SessionsInv, OneClient, NEW h \in Clients,
         VerifyWrite(h) \/ AttemptWrite(h) \/ Logout(h) \/ LogoutAll(h) \/ IssueCode(h)
  PROVE  SessionsInv'
<1>1. CASE VerifyWrite(h) \/ AttemptWrite(h)
  <2>1. /\ Becomes(h, Idle) /\ ~At(h, "revoke_all")
        /\ UNCHANGED <<user, device, session, late, reused, unfinished>>
    BY <1>1 DEF VerifyWrite, AttemptWrite, Ends, At, history
  <2>2. h \in Handlers /\ Idle \in Job /\ KnowsSessions(Idle)
    BY Actors, IdleKnows, IdleSessions
  <2> QED
    BY <2>1, <2>2, ClientGoesOn
<1>2. CASE Logout(h) \/ LogoutAll(h) \/ IssueCode(h)
  <2>1. Closing
    BY <1>2, LogoutCloses, AllClose, UnchangedCloses DEF LogoutAll, IssueCode
  <2>2. UNCHANGED <<user, device, job, late, reused, unfinished>>
    BY <1>2 DEF Logout, LogoutAll, IssueCode, history
  <2>3. PermittedOrLate'
    BY <2>1, <2>2, PermissionKept DEF SessionsInv
  <2> QED
    BY <2>1, <2>2, <2>3, OthersKeep
<1> QED
  BY <1>1, <1>2

(* Whoever refuses the account or a device ends the sessions with it. *)
LEMMA AdminsKeepSessions ==
  ASSUME TInv, SessionsInv, NEW h \in Admins,
         DeviceRead(h) \/ DeviceWrite(h) \/ UserRead(h) \/ UserWrite(h) \/ Unlock(h)
  PROVE  SessionsInv'
<1>0. h \in Handlers /\ h \notin Clients /\ Clients \subseteq Handlers
  BY Actors
<1>j. Knows(h, job[h])
  BY <1>0, JobOf
<1>c. \A g \in Clients : job'[g] = job[g]
  BY <1>0 DEF DeviceRead, DeviceWrite, UserRead, UserWrite, Unlock, Ends, Becomes, TInv, TypeOK
<1>h. UNCHANGED <<reused, late, unfinished>>
  BY DEF DeviceRead, DeviceWrite, UserRead, UserWrite, Unlock, history
<1>1. CASE DeviceRead(h) \/ UserRead(h) \/ Unlock(h)
  <2>1. UNCHANGED <<device, session>>
    BY <1>1 DEF DeviceRead, UserRead, Unlock
  <2>2. user'.password = user.password /\ user'.status = user.status
    BY <1>1 DEF DeviceRead, UserRead, Unlock, TInv, TypeOK, UserRow
  <2>3. Closing
    BY <2>1, UnchangedCloses
  <2>4. PermittedOrLate'
    BY <1>h, <2>1, <2>2, <2>3, PermissionKept DEF SessionsInv
  <2> QED
    BY <1>c, <1>h, <2>2, <2>3, <2>4, OthersKeep
<1>2. CASE DeviceWrite(h)
  <2>1. Closing /\ user' = user
    BY <1>2, AdminCloses DEF DeviceWrite
  <2>2. job[h].device \in Devices /\ job[h].next \in {"ACTIVE", "REVOKED", "BLOCKED"}
    BY <1>2, <1>j DEF DeviceWrite, At, Knows
  <2>3. device' = [device EXCEPT ![job[h].device] = job[h].next]
    BY <1>2 DEF DeviceWrite
  <2>4. ASSUME NEW s \in Rows, session'[s].state = "live", s \notin late PROVE Permitted(s)'
    <3>1. /\ Permitted(s) /\ session'[s].device = session[s].device
          /\ session[s].device \in Devices
      BY <2>1, <2>4 DEF SessionsInv, PermittedOrLate, Closing, Live, TInv, RowsKept
    <3>2. job[h].next # "ACTIVE" => session[s].device # job[h].device
      BY <1>2, <2>2, <2>4, AllClose DEF DeviceWrite
    <3>3. device'[session[s].device] = "ACTIVE"
      BY <2>2, <2>3, <3>1, <3>2 DEF Permitted, TInv, TypeOK
    <3> QED
      BY <2>1, <3>1, <3>3 DEF Permitted, MayAuthenticate
  <2>5. PermittedOrLate'
    BY <1>h, <2>4 DEF PermittedOrLate, Live
  <2> QED
    BY <1>c, <1>h, <2>1, <2>5, OthersKeep
<1>3. CASE UserWrite(h)
  <2>1. /\ Closing /\ user'.password = user.password
        /\ job[h].next = "ACTIVE" => user'.status = "ACTIVE"
    BY <1>3, AdminCloses, UserWriteType
  <2>2. PermittedOrLate'
    <3>1. CASE job[h].next = "ACTIVE"
      BY <1>3, <1>h, <2>1, <3>1
         DEF UserWrite, SessionsInv, PermittedOrLate, Permitted, MayAuthenticate, Live
    <3>2. CASE job[h].next # "ACTIVE"
      BY <1>3, <3>2, AllClose DEF UserWrite, PermittedOrLate, Live
    <3> QED
      BY <3>1, <3>2
  <2> QED
    BY <1>c, <1>h, <2>1, <2>2, OthersKeep
<1> QED
  BY <1>1, <1>2, <1>3

(* The steps of time. *)
LEMMA TimeKeepsSessions ==
  ASSUME TInv, SessionsInv, Time
  PROVE  SessionsInv'
<1>1. UNCHANGED <<job, late, reused, unfinished>>
  BY DEF Time, LockExpires, SessionExpires, CodeExpires, CleanUpSessions, CleanUpCodes,
         CleanUpDevices, history
<1>2. user'.password = user.password /\ user'.status = user.status
  BY DEF Time, LockExpires, SessionExpires, CodeExpires, CleanUpSessions, CleanUpCodes,
         CleanUpDevices, TInv, TypeOK, UserRow
<1>3. Closing
  <2>1. SessionExpires \/ CleanUpSessions \/ session' = session
    BY DEF Time, LockExpires, CodeExpires, CleanUpCodes, CleanUpDevices
  <2> QED
    BY <2>1, TimeCloses, UnchangedCloses
<1>4. PermittedOrLate'
  <2>1. CASE CleanUpDevices
    <3>1. PICK old \in SUBSET {d \in Devices : device[d] = "PENDING"} :
            device' = [d \in Devices |-> IF d \in old THEN "REVOKED" ELSE device[d]]
      BY <2>1 DEF CleanUpDevices
    <3>2. \A s \in Rows : Live(s) => session[s].device \in Devices
      BY DEF TInv, RowsKept, Live
    <3> QED
      BY <1>1, <1>2, <2>1, <3>1, <3>2
         DEF CleanUpDevices, SessionsInv, PermittedOrLate, Permitted, MayAuthenticate, Live
  <2>2. CASE device' = device
    BY <1>1, <1>2, <1>3, <2>2, PermissionKept DEF SessionsInv
  <2> QED
    BY <2>1, <2>2 DEF Time, LockExpires, SessionExpires, CodeExpires, CleanUpSessions, CleanUpCodes
<1> QED
  BY <1>1, <1>2, <1>3, <1>4, OthersKeep

(* A server that stops before it ends the sessions leaves that unfinished. *)
LEMMA CrashKeepsSessions ==
  ASSUME TInv, SessionsInv, OneClient, NEW h \in Handlers, Crash(h)
  PROVE  SessionsInv'
<1>1. Closing /\ UNCHANGED <<user, device, session, late, reused>> /\ Becomes(h, Idle)
  BY UnchangedCloses DEF Crash, Ends
<1>2. OneHeadPerFamily' /\ ReuseEndsFamily' /\ FamiliesNamed'
  BY <1>1, FamiliesStay
<1>3. PermittedOrLate'
  BY <1>1, PermissionKept DEF SessionsInv
<1>4. unfinished => unfinished'
  BY DEF Crash
<1>5. ASSUME NEW g \in Clients PROVE KnowsSessions(job[g])'
  <2>1. CASE g = h
    <3>1. job'[g] = Idle
      BY <1>1, <2>1 DEF Becomes, TInv, TypeOK
    <3> QED
      BY <3>1 DEF KnowsSessions, Idle, Refreshing, LoggingIn
  <2>2. CASE g # h
    <3>1. job'[g] = job[g] /\ g \in Handlers /\ job[g] \in Job
      BY <1>1, <2>2, Actors DEF Becomes, TInv, TypeOK
    <3>2. Knows(g, job[g]) /\ KnowsSessions(job[g])
      BY <3>1 DEF TInv, SessionsInv
    <3> QED
      BY <1>1, <1>4, <3>1, <3>2, KnowsKept DEF KnowsSessions
  <2> QED
    BY <2>1, <2>2
<1>6. PasswordEndsSessions'
  <2>1. ASSUME NEW g \in Clients, At(g, "revoke_all") PROVE unfinished' \/ At(g, "revoke_all")'
    BY <1>1, <2>1, Actors DEF Crash, At, Becomes, TInv, TypeOK
  <2> QED
    BY <1>1, <1>4, <2>1 DEF SessionsInv, PasswordEndsSessions, Live
<1> QED
  BY <1>2, <1>3, <1>5, <1>6 DEF SessionsInv

LEMMA SessionsInit == Init => SessionsInv
<1> SUFFICES ASSUME Init PROVE SessionsInv
  OBVIOUS
<1>1. \A s \in Rows : session[s].family = 0 /\ session[s].state # "live"
  BY DEF Init, Past
<1>2. \A h \in Clients : KnowsSessions(job[h])
  BY Actors, IdleSessions DEF Init
<1> QED
  BY <1>1, <1>2 DEF Init, SessionsInv, OneHeadPerFamily, ReuseEndsFamily, PasswordEndsSessions,
     PermittedOrLate, FamiliesNamed, Live

LEMMA SessionsStep == TInv /\ SessionsInv /\ OneClient /\ [Next]_vars => SessionsInv'
<1> SUFFICES ASSUME TInv, SessionsInv, OneClient, [Next]_vars PROVE SessionsInv'
  OBVIOUS
<1>1. ASSUME NEW h \in Clients, ClientStep(h) PROVE SessionsInv'
  BY <1>1, ReadsKeepSessions, LoginKeepsSessions, OpensKeepSessions, EndsKeepSessions,
     RequestsKeepSessions DEF ClientStep
<1>2. ASSUME NEW h \in Admins, AdminStep(h) PROVE SessionsInv'
  BY <1>2, AdminsKeepSessions DEF AdminStep
<1>3. ASSUME NEW h \in Handlers, Crash(h) PROVE SessionsInv'
  BY <1>3, CrashKeepsSessions
<1>4. CASE UNCHANGED vars
  <2>1. Closing /\ UNCHANGED <<user, device, session, job, late, reused, unfinished>>
    BY <1>4, UnchangedCloses DEF vars
  <2>2. PermittedOrLate'
    BY <2>1, PermissionKept DEF SessionsInv
  <2> QED
    BY <2>1, <2>2, OthersKeep
<1> QED
  BY <1>1, <1>2, <1>3, <1>4, TimeKeepsSessions DEF Next

-----------------------------------------------------------------------------
(* Codes and reset tokens, for a user who sends one request at a time. *)
Trying == {"verify_write", "attempt_write"}

LEMMA IdleCodes == KnowsCodes(Idle) /\ KnowsCodes(Idle)'
BY DEF KnowsCodes, Idle

(* Time only closes codes. *)
LEMMA CodesKept ==
  ASSUME TInv, CodesInv, guessed' = guessed, \A g \in Clients : job'[g] = job[g],
         \A c \in Codes :
           /\ code'[c].state = code[c].state \/ code'[c].state = "deleted"
           /\ code'[c].attempts = code[c].attempts
           /\ token'[c].from = token[c].from
  PROVE  CodesInv'
<1>1. CodesBounded'
  BY DEF CodesInv, CodesBounded
<1>2. \A t \in Codes : token[t].from # 0 => token[t].from \in Codes
  BY Bounds DEF TInv, TypeOK, TokenRow, Codes
<1>3. CodesCounted'
  BY <1>2 DEF CodesInv, CodesCounted
<1>4. ASSUME NEW g \in Clients PROVE KnowsCodes(job[g])'
  <2>1. job'[g] = job[g] /\ Knows(g, job[g]) /\ KnowsCodes(job[g])
    BY Actors DEF TInv, CodesInv
  <2>2. job[g].at \in Trying => job[g].row \in Codes
    BY <2>1 DEF Knows, Trying
  <2> QED
    BY <2>1, <2>2 DEF KnowsCodes, Trying
<1> QED
  BY <1>1, <1>3, <1>4 DEF CodesInv

(* A client's step that leaves the codes as they are. *)
LEMMA ClientKeepsCodes ==
  ASSUME TInv, CodesInv, OneClient, NEW h \in Clients, NEW j, Becomes(h, j),
         UNCHANGED <<code, guessed>>, \A t \in Codes : token'[t].from = token[t].from,
         KnowsCodes(j)
  PROVE  CodesInv'
<1>1. \A g \in Clients : job'[g] = j
  BY TheClient
<1> QED
  BY <1>1 DEF CodesInv, CodesBounded, CodesCounted, KnowsCodes

(* What a sign-in, a refresh or a change of the password leaves alone. *)
LEMMA OtherSteps ==
  ASSUME TInv, NEW h \in Clients,
         \/ LoginRead(h) \/ LoginFailed(h) \/ LoginDevice(h) \/ LoginDeviceWrite(h)
         \/ LoginRehash(h) \/ LoginSession(h) \/ LoginDone(h)
         \/ RefreshRead(h) \/ RefreshFamily(h) \/ RefreshUser(h) \/ RefreshDevice(h)
         \/ Rotate(h) \/ ChangeRead(h) \/ ChangeWrite(h) \/ RevokeAll(h)
  PROVE  UNCHANGED <<code, token, guessed>> /\ job'[h].at \notin Trying
<1>0. job[h] \in Job /\ Idle \in Job /\ Idle.at = "idle"
  BY Actors, JobOf, IdleKnows DEF Idle
<1>n. \A j : Becomes(h, j) => job'[h] = j
  BY Actors DEF Becomes, TInv, TypeOK
<1>g. \A step : Goes(h, step) => job'[h].at = step
  BY <1>0, <1>n DEF Goes, Job
<1>i. Ends(h) => job'[h].at = "idle"
  BY <1>0, <1>n DEF Ends
<1>1. CASE LoginRead(h)
  <2>1. \A d \in Devices :
          [Idle EXCEPT !.at = "login_device", !.device = d, !.seen = user.password].at = "login_device"
    BY <1>0 DEF Job
  <2>2. [Idle EXCEPT !.at = "login_failed", !.seen = user.failed + 1].at = "login_failed"
    BY <1>0 DEF Job
  <2> QED
    BY <1>1, <1>n, <2>1, <2>2 DEF LoginRead, Trying, history
<1>2. CASE LoginDevice(h)
  <2>1. [job[h] EXCEPT !.at = "login_write", !.was = device[job[h].device]].at = "login_write"
    BY <1>0 DEF Job
  <2> QED
    BY <1>2, <1>n, <1>i, <2>1 DEF LoginDevice, Trying, history
<1>3. CASE LoginDeviceWrite(h)
  BY <1>i, <1>g, <1>3 DEF LoginDeviceWrite, Trying, history
<1>4. CASE LoginFailed(h) \/ LoginDone(h) \/ RefreshFamily(h) \/ Rotate(h) \/ RevokeAll(h)
  <2>1. CASE LoginFailed(h) \/ LoginDone(h)
    BY <1>i, <2>1 DEF LoginFailed, LoginDone, Trying, history
  <2>2. CASE RefreshFamily(h) \/ Rotate(h)
    BY <1>i, <2>2 DEF RefreshFamily, Rotate, Trying, history
  <2>3. CASE RevokeAll(h)
    BY <1>i, <2>3 DEF RevokeAll, Trying, history
  <2> QED
    BY <1>4, <2>1, <2>2, <2>3
<1>5. CASE LoginRehash(h) \/ LoginSession(h) \/ ChangeWrite(h)
  BY <1>g, <1>5 DEF LoginRehash, LoginSession, ChangeWrite, Trying, history
<1>6. CASE RefreshRead(h)
  <2>1. \A next \in {"refresh_user", "refresh_family"}, s \in Rows :
          [Idle EXCEPT !.at = next, !.row = s].at = next
    BY <1>0 DEF Job
  <2>2. PICK next \in {"refresh_user", "refresh_family"}, s \in Rows :
          Becomes(h, [Idle EXCEPT !.at = next, !.row = s])
    BY <1>6 DEF RefreshRead
  <2>3. job'[h] = [Idle EXCEPT !.at = next, !.row = s]
    BY Actors, <2>2 DEF Becomes, TInv, TypeOK
  <2>4. UNCHANGED <<code, token, guessed>>
    BY <1>6 DEF RefreshRead, history
  <2> QED
    BY <2>1, <2>3, <2>4 DEF Trying
<1>7. CASE RefreshUser(h) \/ RefreshDevice(h)
  BY <1>i, <1>g, <1>7 DEF RefreshUser, RefreshDevice, Trying, history
<1>8. CASE ChangeRead(h)
  <2>1. [Idle EXCEPT !.at = "change_write"].at = "change_write"
    BY <1>0 DEF Job
  <2> QED
    BY <1>8, <1>n, <2>1 DEF ChangeRead, Trying, history
<1> QED
  BY <1>1, <1>2, <1>3, <1>4, <1>5, <1>6, <1>7, <1>8

LEMMA OtherStepsKeepCodes ==
  ASSUME TInv, CodesInv, OneClient, NEW h \in Clients,
         \/ LoginRead(h) \/ LoginFailed(h) \/ LoginDevice(h) \/ LoginDeviceWrite(h)
         \/ LoginRehash(h) \/ LoginSession(h) \/ LoginDone(h)
         \/ RefreshRead(h) \/ RefreshFamily(h) \/ RefreshUser(h) \/ RefreshDevice(h)
         \/ Rotate(h) \/ ChangeRead(h) \/ ChangeWrite(h) \/ RevokeAll(h)
  PROVE  CodesInv'
<1>1. UNCHANGED <<code, token, guessed>> /\ job'[h].at \notin Trying
  BY OtherSteps
<1>2. \A g \in Clients : g = h
  BY DEF OneClient
<1>3. \A g \in Clients : KnowsCodes(job[g])'
  BY <1>1, <1>2 DEF KnowsCodes, Trying
<1> QED
  BY <1>1, <1>3 DEF CodesInv, CodesBounded, CodesCounted

(* verifyOtp and resetWithToken. *)
LEMMA CodeReadsKeepCodes ==
  ASSUME TInv, CodesInv, OneClient, NEW h \in Clients,
         VerifyRead(h) \/ AttemptRead(h) \/ ResetRead(h) \/ ResetWrite(h)
  PROVE  CodesInv'
<1>0. job[h] \in Job /\ KnowsCodes(Idle)
  BY Actors, JobOf, IdleCodes
<1>1. CASE VerifyRead(h)
  <2>1. KnowsCodes([Idle EXCEPT !.at = "attempt"])
    BY DEF KnowsCodes, Idle
  <2>2. ASSUME NEW c \in Codes, code[c].state = "open"
        PROVE  KnowsCodes([Idle EXCEPT !.at = "verify_write", !.row = c])
    BY <2>2 DEF KnowsCodes, Idle
  <2>3. PICK j : Becomes(h, j) /\ KnowsCodes(j)
    BY <1>1, <2>1, <2>2 DEF VerifyRead
  <2> QED
    BY <1>1, <2>3, ClientKeepsCodes DEF VerifyRead, history
<1>2. CASE AttemptRead(h)
  <2>1. ASSUME NEW c \in Codes, Latest(c)
        PROVE  KnowsCodes([Idle EXCEPT !.at = "attempt_write", !.row = c,
                                       !.seen = code[c].attempts + 1])
    <3>1. code[c].state = "open" /\ \A b \in Codes : code[b].state = "open" => b = c
      BY <2>1 DEF Latest, CodesInv, CodesBounded
    <3>2. code[c].attempts < MaxAttempts /\ guessed[c] <= code[c].attempts
      BY <3>1 DEF TInv, RowsKept, CodesInv, CodesCounted
    <3>3. guessed[c] < MaxAttempts
      BY <3>2, Bounds DEF TInv, TypeOK, CodeRow
    <3> QED
      BY <3>1, <3>3 DEF KnowsCodes, Idle
  <2>2. PICK j : Becomes(h, j) /\ KnowsCodes(j)
    BY <1>0, <1>2, <2>1 DEF AttemptRead, Ends
  <2> QED
    BY <1>2, <2>2, ClientKeepsCodes DEF AttemptRead, history
<1>3. CASE ResetRead(h)
  <2>1. \A t \in Codes : KnowsCodes([Idle EXCEPT !.at = "reset_write", !.row = t])
    BY DEF KnowsCodes, Idle
  <2>2. PICK j : Becomes(h, j) /\ KnowsCodes(j)
    BY <1>3, <2>1 DEF ResetRead
  <2> QED
    BY <1>3, <2>2, ClientKeepsCodes DEF ResetRead, history
<1>4. CASE ResetWrite(h)
  <2>1. KnowsCodes([job[h] EXCEPT !.at = "revoke_all"])
    BY <1>0 DEF KnowsCodes, Job
  <2>2. PICK j : Becomes(h, j) /\ KnowsCodes(j)
    BY <1>0, <1>4, <2>1 DEF ResetWrite, Ends, Goes
  <2>3. \A t \in Codes : token'[t].from = token[t].from
    <3>1. token \in [Codes -> TokenRow]
      BY DEF TInv, TypeOK
    <3> QED
      BY <1>4, <3>1 DEF ResetWrite, TokenRow
  <2> QED
    BY <1>4, <2>2, <2>3, ClientKeepsCodes DEF ResetWrite, history
<1> QED
  BY <1>1, <1>2, <1>3, <1>4

(* A code that gives a token was open, and so gave none before. *)
LEMMA VerifyKeepsCodes ==
  ASSUME TInv, CodesInv, OneClient, NEW h \in Clients, VerifyWrite(h)
  PROVE  CodesInv'
<1> DEFINE c == job[h].row
<1>0. Becomes(h, Idle) /\ KnowsCodes(Idle) /\ guessed' = guessed
  BY IdleCodes DEF VerifyWrite, Ends, history
<1>1. c \in Codes /\ code[c].state \in {"open", "deleted"}
  BY Actors, JobOf DEF VerifyWrite, At, Knows, CodesInv, KnowsCodes
<1>2. CASE code[c].state = "deleted"
  BY <1>0, <1>2, ClientKeepsCodes DEF VerifyWrite
<1>3. CASE code[c].state # "deleted"
  <2>1. PICK n \in Codes :
          /\ IsNext(token, n)
          /\ code' = [code EXCEPT ![c].state = "used"]
          /\ token' = [token EXCEPT ![n].state = "open", ![n].from = c]
    BY <1>3 DEF VerifyWrite
  <2>2. /\ code'[c].state = "used" /\ code'[c].attempts = code[c].attempts
        /\ \A b \in Codes \ {c} : code'[b] = code[b]
    BY <1>1, <2>1 DEF TInv, TypeOK, CodeRow
  <2>3. token'[n].from = c /\ \A t \in Codes \ {n} : token'[t] = token[t]
    BY <1>1, <2>1 DEF TInv, TypeOK, TokenRow
  <2>4. \A t \in Codes : token[t].from # c
    <3>1. c # 0
      BY <1>1, Bounds DEF Codes
    <3> QED
      BY <1>1, <1>3, <3>1 DEF CodesInv, CodesCounted
  <2>5. CodesBounded'
    BY <1>0, <2>2, <2>3, <2>4 DEF CodesInv, CodesBounded
  <2>6. \A t \in Codes : token[t].from # 0 => token[t].from \in Codes
    BY Bounds DEF TInv, TypeOK, TokenRow, Codes
  <2>7. CodesCounted'
    BY <1>0, <1>1, <1>3, <2>2, <2>3, <2>6 DEF CodesInv, CodesCounted
  <2>8. \A g \in Clients : job'[g] = Idle
    BY <1>0, TheClient
  <2> QED
    BY <2>5, <2>7, <2>8, IdleCodes DEF CodesInv, KnowsCodes
<1> QED
  BY <1>2, <1>3

(* A wrong code is counted on the code it was tried against. *)
LEMMA AttemptKeepsCodes ==
  ASSUME TInv, CodesInv, OneClient, NEW h \in Clients, AttemptWrite(h)
  PROVE  CodesInv'
<1> DEFINE c == job[h].row
<1>0. Becomes(h, Idle) /\ token' = token
  BY DEF AttemptWrite, Ends
<1>1. /\ c \in Codes /\ code[c].state \in {"open", "deleted"}
      /\ job[h].seen \in 1..MaxAttempts /\ guessed[c] < MaxAttempts
      /\ code[c].state = "open" => job[h].seen = code[c].attempts + 1
      /\ \A b \in Codes : code[b].state = "open" => b = c
  BY Actors, JobOf DEF AttemptWrite, At, Knows, CodesInv, KnowsCodes
<1>2. /\ guessed'[c] = guessed[c] + 1 /\ guessed[c] \in Nat
      /\ \A b \in Codes \ {c} : guessed'[b] = guessed[b]
  BY <1>1 DEF AttemptWrite, TInv, TypeOK
<1>3. /\ code[c].state = "deleted" => code' = code
      /\ code[c].state # "deleted" =>
           code'[c].attempts = job[h].seen /\ code'[c].state \in {"open", "used"}
      /\ \A b \in Codes \ {c} : code'[b] = code[b]
  <2>1. code \in [Codes -> CodeRow]
    BY DEF TInv, TypeOK
  <2> QED
    BY <1>1, <2>1 DEF AttemptWrite, CodeRow
<1>4. CodesBounded'
  <2>1. \A b \in Codes : code'[b].state = "open" => b = c
    BY <1>1, <1>3
  <2>2. \A b \in Codes : guessed'[b] <= MaxAttempts
    BY <1>1, <1>2, Bounds DEF CodesInv, CodesBounded
  <2> QED
    BY <1>0, <2>1, <2>2 DEF CodesInv, CodesBounded
<1>5. CodesCounted'
  <2>1. \A t \in Codes : token[t].from # 0 => token[t].from \in Codes /\ (token[t].from # c \/ code[c].state = "deleted")
    <3>1. \A t \in Codes : token[t].from # 0 => token[t].from \in Codes
      BY Bounds DEF TInv, TypeOK, TokenRow, Codes
    <3> QED
      BY <1>1, <3>1 DEF CodesInv, CodesCounted
  <2>2. \A b \in Codes : code'[b].state # "deleted" => guessed'[b] <= code'[b].attempts
    <3>1. code[c].state = "open" => guessed[c] + 1 <= job[h].seen
      BY <1>1, <1>2 DEF CodesInv, CodesCounted, TInv, TypeOK, CodeRow
    <3> QED
      BY <1>1, <1>2, <1>3, <3>1 DEF CodesInv, CodesCounted
  <2> QED
    BY <1>0, <1>1, <1>3, <2>1, <2>2 DEF CodesInv, CodesCounted
<1>6. \A g \in Clients : job'[g] = Idle
  BY <1>0, TheClient
<1> QED
  BY <1>4, <1>5, <1>6, IdleCodes DEF CodesInv, KnowsCodes

(* A new code closes the one before. *)
LEMMA IssueKeepsCodes ==
  ASSUME TInv, CodesInv, OneClient, NEW h \in Clients, IssueCode(h)
  PROVE  CodesInv'
<1>0. UNCHANGED <<token, guessed, job>> /\ At(h, "idle")
  BY DEF IssueCode, history
<1>1. PICK n \in Codes :
        /\ code[n].state = "absent"
        /\ code' = [c \in Codes |->
                     IF c = n THEN [code[c] EXCEPT !.state = "open"]
                     ELSE IF code[c].state = "open" THEN [code[c] EXCEPT !.state = "used"]
                     ELSE code[c]]
  BY DEF IssueCode, IsNext
<1>2. \A c \in Codes :
        /\ code'[c].attempts = code[c].attempts
        /\ code'[c].state = "open" => c = n
        /\ code[c].state \in {"used", "deleted"} => code'[c].state = code[c].state
        /\ code'[c].state = "deleted" <=> code[c].state = "deleted"
  BY <1>1 DEF TInv, TypeOK, CodeRow
<1>3. CodesBounded'
  BY <1>0, <1>2 DEF CodesInv, CodesBounded
<1>4. \A t \in Codes : token[t].from # 0 => token[t].from \in Codes
  BY Bounds DEF TInv, TypeOK, TokenRow, Codes
<1>5. CodesCounted'
  BY <1>0, <1>2, <1>4 DEF CodesInv, CodesCounted
<1>6. \A g \in Clients : job'[g] = job[g] /\ job[g].at = "idle"
  BY <1>0 DEF At, OneClient
<1> QED
  BY <1>3, <1>5, <1>6 DEF CodesInv, KnowsCodes

LEMMA CodesInit == Init => CodesInv
<1> SUFFICES ASSUME Init PROVE CodesInv
  OBVIOUS
<1>1. \A c \in Codes :
        /\ code[c].state # "open" /\ code[c].attempts = 0
        /\ token[c].from = 0 /\ guessed[c] = 0
  BY DEF Init, Past
<1>2. \A h \in Clients : KnowsCodes(job[h])
  BY Actors, IdleCodes DEF Init
<1> QED
  BY <1>1, <1>2, Bounds DEF CodesInv, CodesBounded, CodesCounted

LEMMA CodesStep == TInv /\ CodesInv /\ OneClient /\ [Next]_vars => CodesInv'
<1> SUFFICES ASSUME TInv, CodesInv, OneClient, [Next]_vars PROVE CodesInv'
  OBVIOUS
<1>s. ASSUME UNCHANGED <<code, token, guessed>>, \A g \in Clients : job'[g] = job[g]
      PROVE  CodesInv'
  BY <1>s, CodesKept
<1>1. ASSUME NEW h \in Clients, ClientStep(h) PROVE CodesInv'
  <2>1. CASE Logout(h) \/ LogoutAll(h)
    BY <1>s, <2>1 DEF Logout, LogoutAll, history
  <2> QED
    BY <1>1, <2>1, OtherStepsKeepCodes, CodeReadsKeepCodes, VerifyKeepsCodes, AttemptKeepsCodes,
       IssueKeepsCodes DEF ClientStep
<1>2. ASSUME NEW h \in Admins, AdminStep(h) PROVE CodesInv'
  <2>1. UNCHANGED <<code, token, guessed>> /\ \A g \in Clients : job'[g] = job[g]
    BY <1>2, Actors DEF AdminStep, DeviceRead, DeviceWrite, UserRead, UserWrite, Unlock, Ends,
       Becomes, TInv, TypeOK, history
  <2> QED
    BY <1>s, <2>1
<1>3. ASSUME NEW h \in Handlers, Crash(h) PROVE CodesInv'
  <2>1. UNCHANGED <<code, token, guessed>> /\ Becomes(h, Idle)
    BY <1>3 DEF Crash, Ends
  <2>2. CASE h \in Clients
    BY <2>1, <2>2, IdleCodes, ClientKeepsCodes
  <2>3. CASE h \notin Clients
    BY <1>s, <2>1, <2>3, Actors DEF Becomes, TInv, TypeOK
  <2> QED
    BY <2>2, <2>3
<1>4. CASE Time
  <2>1. CASE CodeExpires \/ CleanUpCodes
    <3>1. code \in [Codes -> CodeRow] /\ token \in [Codes -> TokenRow]
      BY DEF TInv, TypeOK
    <3>2. \A c \in Codes :
            /\ code'[c].state = code[c].state \/ code'[c].state = "deleted"
            /\ code'[c].attempts = code[c].attempts
            /\ token'[c].from = token[c].from
      <4>1. CASE CodeExpires
        BY <3>1, <4>1 DEF CodeExpires, CodeRow, TokenRow
      <4>2. CASE CleanUpCodes
        BY <3>1, <4>2, OverRow DEF CleanUpCodes
      <4> QED
        BY <2>1, <4>1, <4>2
    <3> QED
      BY <2>1, <3>2, CodesKept DEF CodeExpires, CleanUpCodes, history
  <2>2. CASE LockExpires \/ SessionExpires \/ CleanUpSessions \/ CleanUpDevices
    BY <1>s, <2>2 DEF LockExpires, SessionExpires, CleanUpSessions, CleanUpDevices, history
  <2> QED
    BY <1>4, <2>1, <2>2 DEF Time
<1>5. CASE UNCHANGED vars
  BY <1>s, <1>5 DEF vars
<1> QED
  BY <1>1, <1>2, <1>3, <1>4, <1>5 DEF Next

-----------------------------------------------------------------------------
(* All of it is inductive for a user who sends one request at a time. *)
THEOREM Inductive == OneClient => (Spec => [](TInv /\ SessionsInv /\ CodesInv))
<1> SUFFICES ASSUME OneClient PROVE Spec => [](TInv /\ SessionsInv /\ CodesInv)
  OBVIOUS
<1>1. Init => TInv /\ SessionsInv /\ CodesInv
  BY TypeInit, SessionsInit, CodesInit
<1>2. TInv /\ SessionsInv /\ CodesInv /\ [Next]_vars => (TInv /\ SessionsInv /\ CodesInv)'
  BY TypeStep, SessionsStep, CodesStep
<1> QED
  BY <1>1, <1>2, PTL DEF Spec

(* A refresh leaves one good token in its family, and none is good once a  *)
(* revoked one has come back, for any number of sessions and whatever the  *)
(* administrators, the clean-up and stopping servers do meanwhile.         *)
THEOREM Families == OneClient => (Spec => []FamiliesKept)
<1>1. TInv /\ SessionsInv /\ CodesInv => FamiliesKept
  BY DEF TInv, SessionsInv, FamiliesKept
<1> QED
  BY <1>1, Inductive, PTL

(* A good session was opened under the present password, unless the others *)
(* are about to be ended or a server stopped just before it ended them.    *)
THEOREM Passwords == OneClient => (Spec => []PasswordEndsSessions)
<1>1. TInv /\ SessionsInv /\ CodesInv => PasswordEndsSessions
  BY DEF SessionsInv
<1> QED
  BY <1>1, Inductive, PTL

(* A good session belongs to an account that may sign in and an active     *)
(* device, unless its request was checked before either was refused.       *)
THEOREM Permission == OneClient => (Spec => []PermittedOrLate)
<1>1. TInv /\ SessionsInv /\ CodesInv => PermittedOrLate
  BY DEF SessionsInv
<1> QED
  BY <1>1, Inductive, PTL

(* One code is open, it gives one reset token, and no more wrong codes are *)
(* answered for it than are allowed.                                       *)
THEOREM CodesStayBounded == OneClient => (Spec => []CodesBounded)
<1>1. TInv /\ SessionsInv /\ CodesInv => CodesBounded
  BY DEF CodesInv
<1> QED
  BY <1>1, Inductive, PTL
=============================================================================
