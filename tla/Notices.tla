------------------------------ MODULE Notices -------------------------------
(***************************************************************************)
(* Notifications: what is told to whom, the pushes that are sent while     *)
(* nobody waits for them, the tokens the providers refuse, and the list of *)
(* the recipient.  notifications.service, push.service, and the callers in *)
(* emergencies.service, incidents.service and support.service.             *)
(*                                                                         *)
(* A device has one token.  Quiet hours, mail and text messages are        *)
(* preferences nothing reads; a notice expires only by being archived.     *)
(***************************************************************************)
EXTENDS FiniteSets

CONSTANTS
  Users,
  Devices,
  OwnerOf,    \* [Devices -> Users]
  Alarms,     \* the messages of critical priority: SOS, escalations
  Messages    \* these and the broadcasts, each sent once

VARIABLES
  active,     \* the users whose account is ACTIVE
  prefs,      \* the preferences: [Users -> records]
  device,     \* the devices that are ACTIVE
  token,      \* [Devices -> {"none", "active", "inactive"}]
  dead,       \* the tokens the provider no longer knows
  notice,     \* [Messages -> [Users -> the row, its deliveries]]
  caster,     \* [Messages -> the request that tells its recipients]
  push        \* [Messages -> [Users -> the promise of deliverPushNotification]]

noticeVars == <<active, prefs, device, token, dead, notice, caster, push>>

Preferences == [inApp : BOOLEAN, push : BOOLEAN, always : BOOLEAN]

(* Without a row. *)
Default == [inApp |-> TRUE, push |-> TRUE, always |-> TRUE]

NoNotice == [told |-> FALSE, app |-> FALSE, push |-> "none", read |-> FALSE, gone |-> "no"]
NoPush == [at |-> "idle", todo |-> {}, refused |-> {},
           unknown |-> {}, failed |-> FALSE]
NoCaster == [at |-> "idle", to |-> {}, left |-> {}, user |-> "none", prefs |-> Default]

NoticesInit ==
  /\ active = Users /\ device = Devices /\ dead = {}
  /\ prefs \in [Users -> Preferences]
  /\ token \in [Devices -> {"none", "active"}]
  /\ notice = [m \in Messages |-> [u \in Users |-> NoNotice]]
  /\ caster = [m \in Messages |-> NoCaster]
  /\ push = [m \in Messages |-> [u \in Users |-> NoPush]]

-----------------------------------------------------------------------------
(* The recipients: the ACTIVE users of some roles, or those a broadcast    *)
(* names.                                                                  *)
Recipients(m) ==
  IF m \in Alarms THEN {active} ELSE {active} \cup (SUBSET Users)

Cast(m) ==
  /\ caster[m].at = "idle"
  /\ \E to \in Recipients(m) \ {{}} :
       caster' = [caster EXCEPT ![m] = [@ EXCEPT !.at = "next", !.to = to, !.left = to]]
  /\ UNCHANGED <<active, prefs, device, token, dead, notice, push>>

Ended(m, how) == [NoCaster EXCEPT !.at = how, !.to = caster[m].to]

(* notifyUsers: one recipient after the other. *)
NextRecipient(m) ==
  /\ caster[m].at = "next"
  /\ IF caster[m].left = {}
     THEN caster' = [caster EXCEPT ![m] = Ended(m, "answered")]
     ELSE \E u \in caster[m].left :
            caster' = [caster EXCEPT ![m] =
              [caster[m] EXCEPT !.at = "row", !.left = @ \ {u}, !.user = u,
                                !.prefs = prefs[u]]]
  /\ UNCHANGED <<active, prefs, device, token, dead, notice, push>>

(* createAndDeliver, with the preferences read before: the notification,   *)
(* the delivery in the app, and the delivery by push, which is sent by a   *)
(* promise nobody awaits.                                                  *)
CreateRow(m) ==
  /\ caster[m].at = "row"
  /\ notice' = [notice EXCEPT ![m][caster[m].user].told = TRUE]
  /\ caster' = [caster EXCEPT ![m].at = "app"]
  /\ UNCHANGED <<active, prefs, device, token, dead, push>>

Wants(m, channel) ==
  caster[m].prefs[channel] \/ (m \in Alarms /\ caster[m].prefs.always)

CreateInApp(m) ==
  /\ caster[m].at = "app"
  /\ notice' = [notice EXCEPT ![m][caster[m].user].app = Wants(m, "inApp")]
  /\ caster' = [caster EXCEPT ![m].at = "push"]
  /\ UNCHANGED <<active, prefs, device, token, dead, push>>

CreatePush(m) ==
  LET u == caster[m].user IN
    /\ caster[m].at = "push"
    /\ IF Wants(m, "push")
       THEN /\ notice' = [notice EXCEPT ![m][u].push = "QUEUED"]
            /\ push' = [push EXCEPT ![m][u].at = "begun"]
       ELSE UNCHANGED <<notice, push>>
    /\ caster' = [caster EXCEPT ![m].at = "next"]
    /\ UNCHANGED <<active, prefs, device, token, dead>>

(* A statement fails: the request is refused, and the recipients after     *)
(* this one hear nothing.                                                  *)
CastFails(m) ==
  /\ caster[m].at \in {"next", "row", "app", "push"}
  /\ caster' = [caster EXCEPT ![m] = Ended(m, "failed")]
  /\ UNCHANGED <<active, prefs, device, token, dead, notice, push>>

-----------------------------------------------------------------------------
(* sendToUser, for the tokens it finds active. *)
FindTokens(m, u) ==
  /\ push[m][u].at = "begun"
  /\ push' = [push EXCEPT ![m][u] =
       [@ EXCEPT !.at = "sending",
                 !.todo = {d \in device : OwnerOf[d] = u /\ token[d] = "active"}]]
  /\ UNCHANGED <<active, prefs, device, token, dead, notice, caster>>

(* The provider's answer: sent or skipped, failed, or failed since the     *)
(* token is not known.                                                     *)
Send(m, u, d) ==
  /\ push[m][u].at = "sending" /\ push[m][u].refused = {} /\ d \in push[m][u].todo
  /\ LET answered == [push[m][u] EXCEPT !.todo = @ \ {d}]
         fails == [answered EXCEPT !.failed = TRUE]
         refused == [fails EXCEPT !.refused = {d}, !.unknown = @ \cup {d}]
     IN \/ d \notin dead /\ push' = [push EXCEPT ![m][u] = answered]
        \/ push' = [push EXCEPT ![m][u] = fails]
        \/ d \in dead /\ push' = [push EXCEPT ![m][u] = refused]
  /\ UNCHANGED <<active, prefs, device, token, dead, notice, caster>>

HandleTokenResult_KeepsActive(m, u) ==  \* slip: the token stays in use
  /\ push[m][u].at = "sending" /\ push[m][u].refused # {}
  /\ push' = [push EXCEPT ![m][u].refused = {}]
  /\ UNCHANGED <<active, prefs, device, token, dead, notice, caster>>

HandleTokenResult(m, u) ==
  /\ push[m][u].at = "sending" /\ push[m][u].refused # {}
  /\ token' = [d \in Devices |-> IF d \in push[m][u].refused THEN "inactive" ELSE token[d]]
  /\ push' = [push EXCEPT ![m][u].refused = {}]
  /\ UNCHANGED <<active, prefs, device, dead, notice, caster>>

Result(m, u) == IF push[m][u].failed THEN "FAILED" ELSE "SENT"

PushEnds(m, u) ==
  /\ push[m][u].at = "sending" /\ push[m][u].todo = {} /\ push[m][u].refused = {}
  /\ notice' = [notice EXCEPT ![m][u].push = Result(m, u)]
  /\ push' = [push EXCEPT ![m][u].at = "done"]
  /\ UNCHANGED <<active, prefs, device, token, dead, caster>>

(* A statement of sendToUser fails, and the promise is caught. *)
PushFails(m, u) ==
  /\ push[m][u].at \in {"begun", "sending"}
  /\ notice' = [notice EXCEPT ![m][u].push = "FAILED"]
  /\ push' = [push EXCEPT ![m][u].at = "done"]
  /\ UNCHANGED <<active, prefs, device, token, dead, caster>>

-----------------------------------------------------------------------------
Listed(m, u) == notice[m][u].told /\ notice[m][u].gone = "no"

MarkRead(m, u) ==
  /\ Listed(m, u)
  /\ notice' = [notice EXCEPT ![m][u].read = TRUE]
  /\ UNCHANGED <<active, prefs, device, token, dead, caster, push>>

MarkAllRead(u) ==
  /\ notice' = [m \in Messages |-> [notice[m] EXCEPT ![u].read = @ \/ Listed(m, u)]]
  /\ UNCHANGED <<active, prefs, device, token, dead, caster, push>>

ClearRead(u) ==
  /\ notice' = [m \in Messages |->
       IF Listed(m, u) /\ notice[m][u].read
       THEN [notice[m] EXCEPT ![u].gone = "cleared"] ELSE notice[m]]
  /\ UNCHANGED <<active, prefs, device, token, dead, caster, push>>

ArchiveOne(m, u) ==
  /\ Listed(m, u)
  /\ notice' = [notice EXCEPT ![m][u].gone = "archived"]
  /\ UNCHANGED <<active, prefs, device, token, dead, caster, push>>

UpdatePreferences(u) ==
  /\ \E p \in Preferences : prefs' = [prefs EXCEPT ![u] = p]
  /\ UNCHANGED <<active, device, token, dead, notice, caster, push>>

(* A live app registers its token; one that is removed leaves it dead.     *)
RegisterPushToken(d) ==
  /\ d \notin dead
  /\ token' = [token EXCEPT ![d] = "active"]
  /\ UNCHANGED <<active, prefs, device, dead, notice, caster, push>>

AppRemoved(d) ==
  /\ dead' = dead \cup {d}
  /\ UNCHANGED <<active, prefs, device, token, notice, caster, push>>

(* Devices and accounts are the matter of Sessions and Staff. *)
DeviceMoves(d) ==
  /\ device' = IF d \in device THEN device \ {d} ELSE device \cup {d}
  /\ UNCHANGED <<active, prefs, token, dead, notice, caster, push>>

AccountMoves(u) ==
  /\ active' = IF u \in active THEN active \ {u} ELSE active \cup {u}
  /\ UNCHANGED <<prefs, device, token, dead, notice, caster, push>>

Stop ==
  /\ caster' = [m \in Messages |->
       IF caster[m].at \in {"idle", "answered"} THEN caster[m] ELSE Ended(m, "failed")]
  /\ push' = [m \in Messages |-> [u \in Users |->
       IF push[m][u].at \in {"idle", "done"} THEN push[m][u] ELSE [push[m][u] EXCEPT !.at = "lost"]]]
  /\ UNCHANGED <<active, prefs, device, token, dead, notice>>

NoticesNext ==
  \/ \E m \in Messages :
       \/ Cast(m) \/ NextRecipient(m) \/ CreateRow(m) \/ CreateInApp(m) \/ CreatePush(m)
       \/ CastFails(m)
       \/ \E u \in Users :
            \/ FindTokens(m, u) \/ HandleTokenResult(m, u) \/ PushEnds(m, u) \/ PushFails(m, u)
            \/ MarkRead(m, u) \/ ArchiveOne(m, u)
            \/ \E d \in Devices : Send(m, u, d)
  \/ \E u \in Users :
       MarkAllRead(u) \/ ClearRead(u) \/ UpdatePreferences(u) \/ AccountMoves(u)
  \/ \E d \in Devices : RegisterPushToken(d) \/ AppRemoved(d) \/ DeviceMoves(d)
  \/ Stop

-----------------------------------------------------------------------------
(* A request that answers has told every recipient, and nobody else.  A    *)
(* push is waited for only while it is under way, or if the server stopped *)
(* since.  The tokens given up are those the provider did not know, at     *)
(* once and for good, and a push that met one is not SENT.  And a notice   *)
(* leaves the list unread only if it was archived itself.                  *)
NoticesTold ==
  /\ \A m \in Messages, u \in Users :
       LET n == notice[m][u]  p == push[m][u] IN
         /\ caster[m].at = "answered" /\ u \in caster[m].to => n.told
         /\ u \notin caster[m].to => n = NoNotice /\ p = NoPush
         /\ n.push = "QUEUED" => p.at \in {"begun", "sending", "lost"}
         /\ n.push = "SENT" => p.unknown = {}
         /\ \A d \in p.unknown \ p.refused : token[d] = "inactive"
         /\ n.gone = "cleared" => n.read
  /\ \A d \in Devices : token[d] = "inactive" => d \in dead

-----------------------------------------------------------------------------
(* What keeps this: the inductive invariant.                               *)
NoticeRow == [told : BOOLEAN, app : BOOLEAN, read : BOOLEAN,
              push : {"none", "QUEUED", "SENT", "FAILED"},
              gone : {"no", "cleared", "archived"}]

Pushing == [at : {"idle", "begun", "sending", "done", "lost"}, todo : SUBSET Devices,
            refused : SUBSET Devices, unknown : SUBSET Devices, failed : BOOLEAN]

Casting == [at : {"idle", "next", "row", "app", "push", "answered", "failed"},
            to : SUBSET Users, left : SUBSET Users, user : Users \cup {"none"},
            prefs : Preferences]

NoticesTypeOK ==
  /\ active \subseteq Users /\ device \subseteq Devices /\ dead \subseteq Devices
  /\ prefs \in [Users -> Preferences]
  /\ token \in [Devices -> {"none", "active", "inactive"}]
  /\ notice \in [Messages -> [Users -> NoticeRow]]
  /\ caster \in [Messages -> Casting]
  /\ push \in [Messages -> [Users -> Pushing]]

(* The recipients a request has been through were told, but for the one it *)
(* is about to tell.                                                       *)
ToldInTurn(m) ==
  LET c == caster[m] IN
    /\ (c.at = "idle" => c.to = {}) /\ c.left \subseteq c.to
    /\ c.at \in {"row", "app", "push"} => c.user \in c.to
    /\ c.at \in {"next", "row", "app", "push", "answered"} =>
         \A u \in c.to \ c.left : notice[m][u].told \/ (c.at = "row" /\ u = c.user)
    /\ c.at = "answered" => c.left = {}

(* A push that met a token nobody knows has failed, one that is SENT has   *)
(* ended, and what the providers refuse is dead.                           *)
PushStands(m, u) ==
  LET p == push[m][u] IN
    /\ p.unknown # {} => p.failed
    /\ notice[m][u].push = "SENT" => p.at = "done"
    /\ p.refused \subseteq p.unknown /\ p.unknown \subseteq dead

NoticesInv ==
  /\ NoticesTypeOK
  /\ \A m \in Messages : ToldInTurn(m) /\ \A u \in Users : PushStands(m, u)
  /\ NoticesTold
=============================================================================
