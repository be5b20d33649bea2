------------------------------ MODULE Premises -------------------------------
(***************************************************************************)
(* The clients of one organisation and their sites (clients.service and    *)
(* sites.service), with the patrol routes of the sites (Routes): creating  *)
(* a route and activating one look at the site.  Names, codes and contact  *)
(* data only lead to refusals and are left out.                            *)
(***************************************************************************)
EXTENDS Routes

VARIABLES
  client,     \* the Client rows
  restarted   \* history: the sites made active again under an archived client

vars == <<client, site, route, checkpoint, patrol, job, requests, raced, restarted>>

ClientStatuses == {"ACTIVE", "INACTIVE", "ARCHIVED"}

TypeOK ==
  /\ RoutesTypeOK
  /\ client \in [Clients -> [status : ClientStatuses \cup {"ABSENT"}, deleted : BOOLEAN]]
  /\ restarted \subseteq Sites

(* Clients, sites, and routes whose checkpoints were numbered in order.    *)
Init ==
  /\ client \in [Clients -> [status : {"ABSENT", "ACTIVE"}, deleted : {FALSE}]]
  /\ site \in [Sites -> [status : {"ABSENT", "ACTIVE"}, client : Clients, deleted : {FALSE}]]
  /\ \A s \in Sites :
       site[s].status = "ACTIVE" => client[site[s].client].status = "ACTIVE"
  /\ route \in [Routes -> [status : {"ABSENT", "DRAFT", "ACTIVE"}, site : Sites,
                           deleted : {FALSE}]]
  /\ \A r \in Routes : route[r].status # "ABSENT" => site[route[r].site].status = "ACTIVE"
  /\ \E of \in [Checkpoints -> Routes \cup {None}], number \in [Checkpoints -> Numbers] :
       checkpoint = [c \in Checkpoints |->
         [route |-> of[c], number |-> number[c], active |-> of[c] # None, deleted |-> FALSE]]
  /\ \A r \in Routes :
       /\ route[r].status = "ABSENT" => Rows(r) = {}
       /\ NumbersOf(Rows(r)) = 1..Cardinality(Rows(r))
       /\ route[r].status = "ACTIVE" => Rows(r) # {}
  /\ patrol = [p \in Patrols |-> [route |-> None, from |-> {}, over |-> FALSE]]
  /\ job = [h \in Handlers |-> Idle]
  /\ requests = 0 /\ raced = {} /\ restarted = {}

-----------------------------------------------------------------------------
(* create of a client: what it asks of the names can only refuse. *)
ClientCreate(h) ==
  /\ Request(h)
  /\ \E k \in Clients :
       /\ client[k].status = "ABSENT"
       /\ client' = [client EXCEPT ![k].status = "ACTIVE"]
  /\ UNCHANGED <<site, route, checkpoint, patrol, job, raced, restarted>>

(* create of a site, and update to another client. *)
SiteRead_AnyClient(h) ==           \* slip: an archived client is not refused
  /\ Request(h)
  /\ \E s \in Sites, k \in Clients :
       /\ ~site[s].deleted
       /\ IF site[s].status = "ABSENT"
            THEN \A g \in Handlers : job[g].op = "site" => job[g].row # s
            ELSE site[s].client # k
       /\ client[k].status # "ABSENT"
       /\ Becomes(h, [Idle EXCEPT !.op = "site", !.step = "write", !.of = "premises",
                                  !.row = s, !.to = k])
  /\ Reads /\ UNCHANGED <<client, restarted>>

SiteRead(h) ==
  /\ Request(h)
  /\ \E s \in Sites, k \in Clients :
       /\ ~site[s].deleted
       /\ IF site[s].status = "ABSENT"
            THEN \A g \in Handlers : job[g].op = "site" => job[g].row # s
            ELSE site[s].client # k
       /\ Open(client[k])
       /\ Becomes(h, [Idle EXCEPT !.op = "site", !.step = "write", !.of = "premises",
                                  !.row = s, !.to = k])
  /\ Reads /\ UNCHANGED <<client, restarted>>

SiteWrite(h) ==
  /\ At(h, "site", "write")
  /\ site' = [site EXCEPT ![job[h].row].client = job[h].to,
                          ![job[h].row].status = IF @ = "ABSENT" THEN "ACTIVE" ELSE @]
  /\ Written(h)
  /\ UNCHANGED <<client, route, checkpoint, patrol, requests, restarted>>

(* updateStatus and archive of a site: the client is not asked. *)
SiteStatusRead(h) ==
  /\ Request(h)
  /\ \E s \in Sites, to \in SiteStatuses :
       /\ Open(site[s])
       /\ Becomes(h, [Idle EXCEPT !.op = "sitestatus", !.step = "write", !.of = "premises",
                                  !.row = s, !.to = to])
  /\ Reads /\ UNCHANGED <<client, restarted>>

SiteStatusWrite(h) ==
  /\ At(h, "sitestatus", "write")
  /\ LET s == job[h].row  to == job[h].to IN
       /\ site' = [site EXCEPT ![s].status = to, ![s].deleted = @ \/ to = "ARCHIVED"]
       /\ restarted' = IF to = "ACTIVE" /\ client[site[s].client].deleted
                         THEN restarted \cup {s} ELSE restarted
  /\ Written(h)
  /\ UNCHANGED <<client, route, checkpoint, patrol, requests>>

(* updateStatus and archive of a client. *)
ClientRead(h) ==
  /\ Request(h)
  /\ \E k \in Clients, to \in ClientStatuses :
       /\ Open(client[k])
       /\ Becomes(h, [Idle EXCEPT !.op = "client", !.of = "premises", !.row = k, !.to = to,
                                  !.step = IF to = "ARCHIVED" THEN "use" ELSE "write"])
  /\ Reads /\ UNCHANGED <<client, restarted>>

(* assertNoActiveSites *)
ClientSitesRead_Any(h) ==          \* slip: the sites are not counted
  /\ At(h, "client", "use")
  /\ Goes(h, TRUE, [job[h] EXCEPT !.step = "write"])
  /\ UNCHANGED <<client, restarted>>

ClientSitesRead(h) ==
  /\ At(h, "client", "use")
  /\ Goes(h, \A s \in Sites : SiteActive(s) => site[s].client # job[h].row,
             [job[h] EXCEPT !.step = "write"])
  /\ UNCHANGED <<client, restarted>>

ClientWrite(h) ==
  /\ At(h, "client", "write")
  /\ client' = [client EXCEPT ![job[h].row].status = job[h].to,
                              ![job[h].row].deleted = @ \/ job[h].to = "ARCHIVED"]
  /\ Written(h)
  /\ UNCHANGED <<site, route, checkpoint, patrol, requests, restarted>>

Next ==
  \/ RoutesNext /\ UNCHANGED <<client, restarted>>
  \/ \E h \in Handlers :
       \/ ClientCreate(h) \/ ClientRead(h) \/ ClientSitesRead(h) \/ ClientWrite(h)
       \/ SiteRead(h) \/ SiteWrite(h) \/ SiteStatusRead(h) \/ SiteStatusWrite(h)

Spec == Init /\ [][Next]_vars

-----------------------------------------------------------------------------
(* An active site of an archived client is one that was made active again  *)
(* after its client was archived, an inactive site being no obstacle to    *)
(* that; unless a site or client changed between what a request read and   *)
(* wrote.                                                                  *)
ArchivedClientHasNoSite ==
  /\ TypeOK
  /\ \/ "premises" \in raced
     \/ \A s \in Sites :
          SiteActive(s) /\ client[site[s].client].deleted => s \in restarted

-----------------------------------------------------------------------------
(* What keeps this: the inductive invariant, with that of Routes.          *)
PremisesMeant(j) ==
  /\ j.op \in {"site", "sitestatus", "client"} => j.of = "premises"
  /\ j.op = "site" => j.row \in Sites /\ j.to \in Clients
  /\ j.op = "sitestatus" => j.row \in Sites /\ j.to \in SiteStatuses
  /\ j.op = "client" => j.row \in Clients /\ j.to \in ClientStatuses

PremisesKnown(j) ==
  j.step = "write" /\ ~j.stale =>
    /\ j.op = "site" => ~client[j.to].deleted
    /\ j.op = "client" /\ j.to = "ARCHIVED" =>
         \A s \in Sites : SiteActive(s) => site[s].client # j.row

PremisesInv ==
  /\ ArchivedClientHasNoSite
  /\ RoutesInv
  /\ \A h \in Handlers : PremisesMeant(job[h]) /\ PremisesKnown(job[h])
=============================================================================
