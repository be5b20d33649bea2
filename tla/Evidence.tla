------------------------------ MODULE Evidence -------------------------------
(***************************************************************************)
(* The files attached to an incident: evidence.service and the storage it  *)
(* uploads to, the local one (local-storage.provider and its controller)   *)
(* or an S3-compatible one.  One organisation with a storage quota.        *)
(*                                                                         *)
(* A file is asked for, its bytes are brought to the storage by an upload  *)
(* URL or, local storage only, within the request that completes it, and   *)
(* it is completed, verified and deleted.  Handlers read, then write by id.*)
(* A checksum stands for the content it is of.                             *)
(* Who may do what, the MIME types, and the hooks and jobs that leave rows *)
(* and objects alone are left out.                                         *)
(***************************************************************************)
EXTENDS Integers, FiniteSets

CONSTANTS
  Files,        \* bound: the Evidence rows there may be
  Contents,     \* what a file may hold
  SizeOf,       \* its bytes
  None,
  Quota,        \* storageQuotaBytes
  Handlers,     \* the requests being handled at one time
  MaxRequests   \* bound: the requests in all

ASSUME EvidenceAssumption ==
  /\ SizeOf \in [Contents -> Nat \ {0}] /\ None \notin Contents \cup Files
  /\ Quota \in Nat /\ MaxRequests \in Nat /\ IsFiniteSet(Files)

Sizes == {SizeOf[c] : c \in Contents}

VARIABLES
  local,     \* the storage provider is the local one; it does not change
  row,       \* the Evidence rows
  object,    \* what the storage holds for each
  url,       \* the upload URL of each, while it can be used
  used,      \* storageUsedBytes
  job,       \* what each handler is doing, and what it has read
  requests,  \* the requests so far
  times,     \* history: how often each file was completed; 2 stands for more
  loose,     \* history: what the quota cannot hold, see QuotaKept
  replaced   \* history: the files written to after a completion had looked

vars == <<local, row, object, url, used, job, requests, times, loose, replaced>>

Row == [status : {"ABSENT", "PENDING_UPLOAD", "AVAILABLE", "DELETED"}, deleted : BOOLEAN,
        size : Sizes \cup {0}, checksum : Contents \cup {None},
        verified : Contents \cup {None}]

NoRow == [status |-> "ABSENT", deleted |-> FALSE, size |-> 0, checksum |-> None,
          verified |-> None]

Job == [op : {"idle", "request", "complete", "verify", "delete"},
        step : {"store", "look", "write"}, file : Files \cup {None},
        size : Sizes \cup {0}, sent : Contents \cup {None}, by : {"url", "body"},
        declared : Contents \cup {None}, saw : Contents \cup {None}]

Idle == [op |-> "idle", step |-> "write", file |-> None, size |-> 0, sent |-> None,
         by |-> "body", declared |-> None, saw |-> None]

TypeOK ==
  /\ local \in BOOLEAN
  /\ row \in [Files -> Row]
  /\ object \in [Files -> Contents \cup {None}]
  /\ url \in [Files -> BOOLEAN]
  /\ used \in Nat
  /\ job \in [Handlers -> Job]
  /\ requests \in 0..MaxRequests
  /\ times \in [Files -> 0..2]
  /\ loose \in BOOLEAN /\ replaced \subseteq Files

Init ==
  /\ local \in BOOLEAN
  /\ row = [f \in Files |-> NoRow]
  /\ object = [f \in Files |-> None]
  /\ url = [f \in Files |-> FALSE]
  /\ used = 0 /\ requests = 0 /\ loose = FALSE /\ replaced = {}
  /\ job = [h \in Handlers |-> Idle]
  /\ times = [f \in Files |-> 0]

-----------------------------------------------------------------------------
At(h, op, step) == job[h].op = op /\ job[h].step = step

Request(h) ==
  /\ job[h].op = "idle"
  /\ requests < MaxRequests                                \* bound
  /\ requests' = requests + 1

Becomes(h, j) == job' = [job EXCEPT ![h] = j]

Done(h) == Becomes(h, Idle)

(* Files asked for whose bytes are not counted yet. *)
Outstanding(g) == job[g].op = "request" \/ job[g].op = "complete"

(* requestUploadUrl: the quota is held against what is used, of which the  *)
(* files still to come are no part.                                        *)
AskRead_Late(h) ==                 \* slip: the file itself is not counted
  /\ Request(h)
  /\ \E n \in Sizes :
       /\ used <= Quota
       /\ Becomes(h, [Idle EXCEPT !.op = "request", !.size = n])
  /\ loose' = (loose \/ (\E f \in Files : row[f].status = "PENDING_UPLOAD")
                     \/ \E g \in Handlers : Outstanding(g))
  /\ UNCHANGED <<local, row, object, url, used, times, replaced>>

AskRead(h) ==
  /\ Request(h)
  /\ \E n \in Sizes :
       /\ used + n <= Quota
       /\ Becomes(h, [Idle EXCEPT !.op = "request", !.size = n])
  /\ loose' = (loose \/ (\E f \in Files : row[f].status = "PENDING_UPLOAD")
                     \/ \E g \in Handlers : Outstanding(g))
  /\ UNCHANGED <<local, row, object, url, used, times, replaced>>

AskWrite(h) ==
  /\ At(h, "request", "write")
  /\ \E f \in Files :
       /\ row[f].status = "ABSENT"
       /\ row' = [row EXCEPT ![f].status = "PENDING_UPLOAD", ![f].size = job[h].size]
       /\ url' = [url EXCEPT ![f] = TRUE]
  /\ Done(h)
  /\ UNCHANGED <<local, object, used, requests, times, loose, replaced>>

(* An object is written over, whatever became of its row. *)
Stores(f, c) ==
  /\ object' = [object EXCEPT ![f] = c]
  /\ replaced' =
       IF row[f].status \notin {"ABSENT", "PENDING_UPLOAD"}
            \/ \E g \in Handlers : At(g, "complete", "write") /\ job[g].file = f
         THEN replaced \cup {f} ELSE replaced

(* PUT to the upload URL.  A local ticket is used up and takes any number  *)
(* of bytes, a signed URL is good until it expires, for the size asked for.*)
Upload(f) ==
  /\ url[f]
  /\ \E c \in Contents :
       /\ local \/ SizeOf[c] = row[f].size
       /\ Stores(f, c)
  /\ url' = [url EXCEPT ![f] = ~local]
  /\ UNCHANGED <<local, row, used, job, requests, times, loose>>

Expire(f) ==
  /\ url[f]
  /\ url' = [url EXCEPT ![f] = FALSE]
  /\ UNCHANGED <<local, row, object, used, job, requests, times, loose, replaced>>

-----------------------------------------------------------------------------
(* completeUpload: any row that is not deleted, completed or not.  The     *)
(* bytes may come with the request; a checksum may be declared.            *)
CompleteRead(h) ==
  /\ Request(h)
  /\ \E f \in Files, d \in Contents \cup {None} :
       /\ row[f].status # "ABSENT" /\ ~row[f].deleted
       /\ LET j == [Idle EXCEPT !.op = "complete", !.file = f, !.declared = d] IN
            \/ Becomes(h, [j EXCEPT !.step = "look"])
            \/ /\ local
               /\ \E c \in Contents, by \in {"url", "body"} :
                    Becomes(h, [j EXCEPT !.step = "store", !.sent = c, !.by = by])
  /\ UNCHANGED <<local, row, object, url, used, times, loose, replaced>>

(* A declared checksum is a SHA-256; a remote store answers its ETag, which*)
(* is none, so that there a declared checksum never matches.               *)
Matches(d, c) == d = None \/ (local /\ d = c)

(* The object is written first and its checksum is compared then. *)
CompleteStore(h) ==
  /\ At(h, "complete", "store")
  /\ LET f == job[h].file  c == job[h].sent IN
       IF job[h].by = "url" /\ ~url[f]
         THEN Done(h) /\ UNCHANGED <<object, url, replaced>>
         ELSE /\ Stores(f, c)
              /\ url' = [url EXCEPT ![f] = @ /\ job[h].by # "url"]
              /\ IF Matches(job[h].declared, c)
                   THEN Becomes(h, [job[h] EXCEPT !.step = "look"]) ELSE Done(h)
  /\ UNCHANGED <<local, row, used, requests, times, loose>>

(* completeUpload of the storage. *)
CompleteLook(h) ==
  /\ At(h, "complete", "look")
  /\ LET c == object[job[h].file] IN
       IF c # None /\ Matches(job[h].declared, c)
         THEN Becomes(h, [job[h] EXCEPT !.step = "write", !.saw = c]) ELSE Done(h)
  /\ UNCHANGED <<local, row, object, url, used, requests, times, loose, replaced>>

Available(r, c) ==
  [r EXCEPT !.status = "AVAILABLE", !.checksum = c, !.size = SizeOf[c]]

CompleteWrite_Declared(h) ==       \* slip: the declared checksum is stored
  /\ At(h, "complete", "write")
  /\ LET f == job[h].file  c == job[h].saw IN
       /\ row' = [row EXCEPT ![f] = [Available(@, c) EXCEPT !.checksum = job[h].declared]]
       /\ used' = used + SizeOf[c]
       /\ times' = [times EXCEPT ![f] = IF @ = 0 THEN 1 ELSE 2]
       /\ loose' = (loose \/ times[f] > 0 \/ SizeOf[c] > row[f].size)
  /\ Done(h)
  /\ UNCHANGED <<local, object, url, requests, replaced>>

CompleteWrite_CountsAsked(h) ==    \* slip: the size asked for is added
  /\ At(h, "complete", "write")
  /\ LET f == job[h].file  c == job[h].saw IN
       /\ row' = [row EXCEPT ![f] = Available(@, c)]
       /\ used' = used + row[f].size
       /\ times' = [times EXCEPT ![f] = IF @ = 0 THEN 1 ELSE 2]
       /\ loose' = (loose \/ times[f] > 0 \/ SizeOf[c] > row[f].size)
  /\ Done(h)
  /\ UNCHANGED <<local, object, url, requests, replaced>>

CompleteWrite(h) ==
  /\ At(h, "complete", "write")
  /\ LET f == job[h].file  c == job[h].saw IN
       /\ row' = [row EXCEPT ![f] = Available(@, c)]
       /\ used' = used + SizeOf[c]
       /\ times' = [times EXCEPT ![f] = IF @ = 0 THEN 1 ELSE 2]
       /\ loose' = (loose \/ times[f] > 0 \/ SizeOf[c] > row[f].size)
  /\ Done(h)
  /\ UNCHANGED <<local, object, url, requests, replaced>>

-----------------------------------------------------------------------------
(* verify: of what was there when the row was read. *)
VerifyRead_Pending(h) ==           \* slip: the status is not asked
  /\ Request(h)
  /\ \E f \in Files :
       /\ row[f].status # "ABSENT" /\ ~row[f].deleted /\ row[f].verified = None
       /\ object[f] # None
       /\ Becomes(h, [Idle EXCEPT !.op = "verify", !.file = f, !.saw = object[f]])
  /\ UNCHANGED <<local, row, object, url, used, times, loose, replaced>>

VerifyRead(h) ==
  /\ Request(h)
  /\ \E f \in Files :
       /\ row[f].status = "AVAILABLE" /\ ~row[f].deleted /\ row[f].verified = None
       /\ Becomes(h, [Idle EXCEPT !.op = "verify", !.file = f, !.saw = object[f]])
  /\ UNCHANGED <<local, row, object, url, used, times, loose, replaced>>

VerifyWrite(h) ==
  /\ At(h, "verify", "write")
  /\ row' = [row EXCEPT ![job[h].file].verified = job[h].saw]
  /\ Done(h)
  /\ UNCHANGED <<local, object, url, used, requests, times, loose, replaced>>

(* softDelete: the object stays, and so do the bytes used. *)
DeleteRead(h) ==
  /\ Request(h)
  /\ \E f \in Files :
       /\ row[f].status # "ABSENT" /\ ~row[f].deleted
       /\ Becomes(h, [Idle EXCEPT !.op = "delete", !.file = f])
  /\ UNCHANGED <<local, row, object, url, used, times, loose, replaced>>

DeleteWrite(h) ==
  /\ At(h, "delete", "write")
  /\ row' = [row EXCEPT ![job[h].file].status = "DELETED", ![job[h].file].deleted = TRUE]
  /\ Done(h)
  /\ UNCHANGED <<local, object, url, used, requests, times, loose, replaced>>

Next ==
  \/ \E h \in Handlers :
       \/ AskRead(h) \/ AskWrite(h)
       \/ CompleteRead(h) \/ CompleteStore(h) \/ CompleteLook(h) \/ CompleteWrite(h)
       \/ VerifyRead(h) \/ VerifyWrite(h) \/ DeleteRead(h) \/ DeleteWrite(h)
  \/ \E f \in Files : Upload(f) \/ Expire(f)

Spec == Init /\ [][Next]_vars

-----------------------------------------------------------------------------
(* The sums of the numbers w gives the files, of each set of them. *)
Sums(w) ==
  LET sum[S \in SUBSET Files] ==
        IF S = {} THEN 0 ELSE LET f == CHOOSE f \in S : TRUE IN w[f] + sum[S \ {f}]
  IN sum

Total(fs) == Sums([f \in Files |-> row[f].size])[fs]

(* The bytes used are those of the completed files, the deleted ones with  *)
(* them, unless a file was completed again: its bytes are then added again.*)
UsedIsExact ==
  (\A f \in Files : times[f] < 2) => used = Total({f \in Files : times[f] = 1})

(* The quota holds; unless a file was asked for while another was still to *)
(* come, was larger than it was said to be or was completed again.         *)
QuotaHolds == loose \/ used <= Quota

(* What the organisation is charged for, as the two above.                 *)
QuotaKept == TypeOK /\ UsedIsExact /\ QuotaHolds

(* An available file is there and has the checksum of its row, and what    *)
(* was verified is what is there; unless the object was written to after   *)
(* a completion had looked at it, as a completion that is then refused for *)
(* its checksum does too.                                                  *)
ContentKept ==
  \A f \in Files \ replaced :
    /\ row[f].status = "AVAILABLE" => object[f] # None /\ row[f].checksum = object[f]
    /\ row[f].verified # None => row[f].verified = object[f]

-----------------------------------------------------------------------------
(* What keeps these: the inductive invariant.                              *)
Stored(f) == row[f].status \notin {"ABSENT", "PENDING_UPLOAD"}

(* What a request is about, from its read to its write. *)
Means(j) ==
  /\ j.op \in {"request", "verify", "delete"} => j.step = "write"
  /\ j.op = "request" => j.size \in Sizes
  /\ j.op \in {"complete", "verify", "delete"} =>
       j.file \in Files /\ row[j.file].status # "ABSENT"
  /\ j.op = "complete" /\ j.step = "store" => j.sent \in Contents
  /\ j.op = "complete" /\ j.step = "write" => j.saw \in Contents
  /\ j.op = "verify" => j.saw \in Contents /\ Stored(j.file)

(* A file is counted once it is completed, and has bytes then. *)
FilesCounted ==
  \A f \in Files :
    /\ times[f] > 0 => Stored(f)
    /\ row[f].status = "AVAILABLE" => times[f] > 0
    /\ row[f].status = "DELETED" => row[f].deleted
    /\ row[f].verified # None => Stored(f)
    /\ Stored(f) /\ times[f] > 0 => object[f] # None

(* What a completion or a verification saw is there still, unless the file *)
(* was written to since.                                                   *)
SeenStands(j) ==
  (j.op = "complete" /\ j.step = "write") \/ j.op = "verify" =>
    /\ object[j.file] # None
    /\ j.file \notin replaced => object[j.file] = j.saw

(* While nothing is loose one file at most is still to be counted, and the *)
(* quota has room for it.                                                  *)
Coming(f) ==
  /\ times[f] = 0
  /\ row[f].status = "PENDING_UPLOAD"
       \/ \E g \in Handlers : job[g].op = "complete" /\ job[g].file = f

Asked(g) == job[g].op = "request"

RoomLeft ==
  ~loose =>
    /\ used <= Quota
    /\ \A f, g \in Files : Coming(f) /\ Coming(g) => f = g
    /\ \A g, h \in Handlers : Asked(g) /\ Asked(h) => g = h
    /\ \A f \in Files, g \in Handlers : ~(Coming(f) /\ Asked(g))
    /\ \A f \in Files : Coming(f) => used + row[f].size <= Quota
    /\ \A g \in Handlers : Asked(g) => used + job[g].size <= Quota

EvidenceInv ==
  /\ TypeOK
  /\ \A h \in Handlers : Means(job[h]) /\ SeenStands(job[h])
  /\ FilesCounted
  /\ ContentKept
  /\ RoomLeft
  /\ UsedIsExact
=============================================================================
