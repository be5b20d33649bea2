--------------------------- MODULE EvidenceProofs ----------------------------
(***************************************************************************)
(* What is proved of Evidence and of Notices, for every value of their     *)
(* constants.                                                              *)
(*                                                                         *)
(* First the sums over files.  Evidence sums by a function that takes the  *)
(* files in the order CHOOSE has; that it is there, and that the order     *)
(* does not matter, is shown by way of a smallest set of files for which   *)
(* it would not be so.                                                     *)
(***************************************************************************)
EXTENDS Evidence, Notices, FiniteSetTheorems, TLAPS

First(S) == CHOOSE f \in S : TRUE
Body(w, g, S) == IF S = {} THEN 0 ELSE w[First(S)] + g[S \ {First(S)}]

(* A set of sets of files that is not empty has a smallest one.            *)
LEMMA Smallest ==
  ASSUME NEW T, T \subseteq SUBSET Files, T # {}
  PROVE \E U \in T : \A V \in T : ~(V \subseteq U /\ V # U)
<1>1. IsWellFoundedOn(StrictSubsetOrdering(Files), FiniteSubsetsOf(Files))
  BY FS_StrictSubsetOrderingWellFounded
<1>2. T \subseteq FiniteSubsetsOf(Files)
  <2>1. \A U \in T : IsFiniteSet(U) /\ U \in SUBSET Files
     BY FS_Subset, EvidenceAssumption
  <2> QED BY <2>1 DEF FiniteSubsetsOf
<1>3. PICK U \in T : \A V \in T : <<V,U>> \notin StrictSubsetOrdering(Files)
  BY <1>1, <1>2, WFMin
<1> QED BY <1>3 DEF StrictSubsetOrdering

LEMMA Counts ==
  ASSUME NEW S \in SUBSET Files
  PROVE  /\ IsFiniteSet(S) /\ Cardinality(S) \in Nat /\ Cardinality(S) <= Cardinality(Files)
         /\ Cardinality(Files) \in Nat
         /\ S = {} => Cardinality(S) = 0
         /\ S # {} => /\ First(S) \in S /\ S \ {First(S)} \in SUBSET Files
                      /\ Cardinality(S \ {First(S)}) = Cardinality(S) - 1
<1>1. IsFiniteSet(S) /\ Cardinality(S) <= Cardinality(Files)
  BY FS_Subset, EvidenceAssumption
<1>2. Cardinality(S) \in Nat /\ Cardinality(Files) \in Nat
  BY <1>1, FS_CardinalityType, EvidenceAssumption
<1>3. S = {} => Cardinality(S) = 0
  BY FS_EmptySet
<1>4. ASSUME S # {}
      PROVE  /\ First(S) \in S /\ S \ {First(S)} \in SUBSET Files
             /\ Cardinality(S \ {First(S)}) = Cardinality(S) - 1
  <2>1. First(S) \in S
    BY <1>4 DEF First
  <2>2. Cardinality(S \ {First(S)}) = Cardinality(S) - 1
    BY <1>1, <2>1, FS_RemoveElement
  <2> QED
    BY <2>1, <2>2
<1> QED
  BY <1>1, <1>2, <1>3, <1>4

LEMMA Exists ==
  ASSUME NEW w \in [Files -> Nat]
  PROVE  \E g \in [SUBSET Files -> Nat] : \A S \in SUBSET Files : g[S] = Body(w, g, S)
<1> DEFINE Upto(g, n) == \A S \in SUBSET Files : Cardinality(S) <= n => g[S] = Body(w, g, S)
           Bad == {U \in SUBSET Files : ~\E g \in [SUBSET Files -> Nat] : Upto(g, Cardinality(U))}
<1>1. ASSUME Bad # {} PROVE FALSE
  <2>0. Bad \subseteq SUBSET Files
    OBVIOUS
  <2>1. PICK U \in Bad : \A V \in Bad : ~(V \subseteq U /\ V # U)
    <3> HIDE DEF Bad
    <3> QED
      BY <1>1, <2>0, Smallest
  <2>u. U \in SUBSET Files
    OBVIOUS
  <2>2. CASE U = {}
    <3> DEFINE g == [S \in SUBSET Files |-> 0]
    <3>1. \A S \in SUBSET Files : Cardinality(S) <= 0 => S = {}
      <4> SUFFICES ASSUME NEW S \in SUBSET Files, Cardinality(S) <= 0 PROVE S = {}
        OBVIOUS
      <4>1. IsFiniteSet(S) /\ Cardinality(S) \in Nat
        BY Counts
      <4>2. Cardinality(S) = 0
        BY <4>1
      <4> QED
        BY <4>1, <4>2, FS_EmptySet
    <3>2. g \in [SUBSET Files -> Nat] /\ Upto(g, 0)
      BY <3>1 DEF Body
    <3>3. Cardinality(U) = 0
      BY <2>2, Counts
    <3> QED
      BY <3>2, <3>3
  <2>3. CASE U # {}
    <3> DEFINE V == U \ {First(U)}
               n == Cardinality(V)
    <3>0. /\ First(U) \in U /\ U \ {First(U)} \in SUBSET Files
          /\ Cardinality(U \ {First(U)}) = Cardinality(U) - 1
          /\ Cardinality(U) \in Nat
      BY <2>u, <2>3, Counts
    <3>v. Cardinality(V) \in Nat
      BY <3>0, Counts
    <3>1. V \in SUBSET Files /\ V \subseteq U /\ V # U /\ n \in Nat /\ Cardinality(U) = n + 1
      BY <3>0, <3>v
    <3>2. V \notin Bad
      BY <2>1, <3>1
    <3>3. PICK g \in [SUBSET Files -> Nat] : Upto(g, n)
      BY <3>1, <3>2
    <3> DEFINE h == [S \in SUBSET Files |-> IF Cardinality(S) <= n THEN g[S] ELSE Body(w, g, S)]
    <3> HIDE DEF n, V
    <3>4. ASSUME NEW S \in SUBSET Files PROVE Body(w, g, S) \in Nat
      <4>1. S # {} => First(S) \in Files /\ S \ {First(S)} \in SUBSET Files
        BY Counts
      <4> QED
        BY <4>1 DEF Body
    <3>5. h \in [SUBSET Files -> Nat]
      BY <3>4
    <3>6. ASSUME NEW S \in SUBSET Files, Cardinality(S) <= n + 1
          PROVE  h[S] = Body(w, h, S)
      <4>1. CASE S = {}
        <5>1. h[S] = g[S] /\ g[S] = Body(w, g, S)
          <6>1. Cardinality(S) = 0
            BY <4>1, Counts
          <6> QED
            BY <3>1, <3>3, <6>1
        <5> QED
          BY <4>1, <5>1 DEF Body
      <4>2. CASE S # {}
        <5>1. /\ S \ {First(S)} \in SUBSET Files
              /\ Cardinality(S \ {First(S)}) <= n
          BY <3>1, <3>6, <4>2, Counts
        <5>2. h[S \ {First(S)}] = g[S \ {First(S)}]
          BY <5>1
        <5>3. Body(w, h, S) = Body(w, g, S)
          BY <4>2, <5>2 DEF Body
        <5>4. h[S] = Body(w, g, S)
          BY <3>3
        <5> QED
          BY <5>3, <5>4
      <4> QED
        BY <4>1, <4>2
    <3> QED
      BY <2>1, <3>1, <3>5, <3>6
  <2> QED
    BY <2>2, <2>3
<1>2. Files \notin Bad
  BY <1>1
<1>3. PICK g \in [SUBSET Files -> Nat] : Upto(g, Cardinality(Files))
  BY <1>2
<1> QED
  BY <1>3, Counts

LEMMA Equation ==
  ASSUME NEW w \in [Files -> Nat], NEW S \in SUBSET Files
  PROVE  Sums(w)[S] = Body(w, Sums(w), S)
<1>1. PICK g \in [SUBSET Files -> Nat] : \A U \in SUBSET Files : g[U] = Body(w, g, U)
  BY Exists
<1>2. g = [U \in SUBSET Files |-> Body(w, g, U)]
  BY <1>1
<1>3. Sums(w) = CHOOSE h : h = [U \in SUBSET Files |-> Body(w, h, U)]
  BY DEF Sums, Body, First
<1>4. Sums(w) = [U \in SUBSET Files |-> Body(w, Sums(w), U)]
  BY <1>2, <1>3, Zenon
<1> QED
  BY <1>4

LEMMA SumsAdd ==
  ASSUME NEW w \in [Files -> Nat]
  PROVE  /\ Sums(w)[{}] = 0
         /\ \A S \in SUBSET Files :
              Sums(w)[S] \in Nat /\ \A f \in S : Sums(w)[S] = w[f] + Sums(w)[S \ {f}]
<1> DEFINE Fine(S) == Sums(w)[S] \in Nat /\ \A f \in S : Sums(w)[S] = w[f] + Sums(w)[S \ {f}]
           Bad == {S \in SUBSET Files : ~Fine(S)}
<1>0. Sums(w)[{}] = 0
  BY Equation DEF Body
<1>1. ASSUME Bad # {} PROVE FALSE
  <2>0. Bad \subseteq SUBSET Files
    OBVIOUS
  <2>1. PICK U \in Bad : \A V \in Bad : ~(V \subseteq U /\ V # U)
    <3> HIDE DEF Bad
    <3> QED
      BY <1>1, <2>0, Smallest
  <2>2. U \in SUBSET Files /\ ~Fine(U)
    OBVIOUS
  <2>3. \A f \in U : Fine(U \ {f})
    BY <2>1
  <2> HIDE DEF Fine
  <2> DEFINE e == First(U)
  <2>4. U # {}
    <3> SUFFICES ASSUME U = {} PROVE Fine(U)
      BY <2>2
    <3>1. Sums(w)[U] = 0
      BY <1>0
    <3> QED
      BY <3>1 DEF Fine
  <2>5. e \in U
    BY <2>4 DEF First
  <2>6. Sums(w)[U] = w[e] + Sums(w)[U \ {e}]
    BY <2>2, <2>4, Equation DEF Body
  <2> HIDE DEF e
  <2>7. Sums(w)[U] \in Nat
    BY <2>2, <2>3, <2>5, <2>6 DEF Fine
  <2>8. ASSUME NEW f \in U PROVE Sums(w)[U] = w[f] + Sums(w)[U \ {f}]
    <3>1. CASE f = e
      BY <2>6, <3>1
    <3>2. CASE f # e
      <4>1. Sums(w)[U \ {e}] = w[f] + Sums(w)[(U \ {e}) \ {f}]
        BY <2>3, <2>5, <3>2 DEF Fine
      <4>2. Sums(w)[U \ {f}] = w[e] + Sums(w)[(U \ {f}) \ {e}]
        BY <2>3, <2>5, <3>2 DEF Fine
      <4>3. (U \ {e}) \ {f} = (U \ {f}) \ {e}
        OBVIOUS
      <4>4. Sums(w)[U \ {f}] \in Nat /\ Sums(w)[U \ {e}] \in Nat /\ w[e] \in Nat /\ w[f] \in Nat
        BY <2>2, <2>3, <2>5 DEF Fine
      <4>5. /\ Sums(w)[(U \ {f}) \ {e}] \in Nat
        <5>1. Fine(U \ {e}) /\ f \in U \ {e} /\ U \ {e} \in SUBSET Files
          BY <2>2, <2>3, <2>5, <3>2
        <5>2. (U \ {e}) \ {f} \notin Bad
          BY <2>1, <2>2, <2>5, <3>2 
        <5>3. Fine((U \ {e}) \ {f})
          BY <2>2, <5>2
        <5> QED
          BY <4>3, <5>3 DEF Fine
      <4> DEFINE all == Sums(w)[U]
                 a == Sums(w)[U \ {e}]
                 b == Sums(w)[U \ {f}]
                 x == Sums(w)[(U \ {f}) \ {e}]
                 we == w[e]
                 wf == w[f]
      <4>6. all = we + a /\ a = wf + x /\ b = we + x
        BY <2>6, <4>1, <4>2, <4>3
      <4>7. a \in Nat /\ b \in Nat /\ x \in Nat /\ we \in Nat /\ wf \in Nat
        BY <4>4, <4>5
      <4> HIDE DEF all, a, b, x, we, wf
      <4>8. all = wf + b
        BY <4>6, <4>7
      <4> QED
        BY <4>8 DEF all, b, wf
    <3> QED
      BY <3>1, <3>2
  <2> QED
    BY <2>2, <2>7, <2>8 DEF Fine
<1> QED
  BY <1>0, <1>1

(* A total looks at the sizes of its own files only. *)
LEMMA SumsSame ==
  ASSUME NEW v \in [Files -> Nat], NEW w \in [Files -> Nat], NEW S \in SUBSET Files,
         \A f \in S : v[f] = w[f]
  PROVE  Sums(v)[S] = Sums(w)[S]
<1> DEFINE Bad == {U \in SUBSET S : Sums(v)[U] # Sums(w)[U]}
<1>1. ASSUME Bad # {} PROVE FALSE
  <2>0. Bad \subseteq SUBSET Files
    OBVIOUS
  <2>1. PICK U \in Bad : \A V \in Bad : ~(V \subseteq U /\ V # U)
    <3> HIDE DEF Bad
    <3> QED
      BY <1>1, <2>0, Smallest
  <2>2. U \in SUBSET S /\ U \in SUBSET Files /\ Sums(v)[U] # Sums(w)[U]
    OBVIOUS
  <2>3. U # {}
    BY <2>2, SumsAdd
  <2>4. PICK f \in U : TRUE
    BY <2>3
  <2>5. Sums(v)[U] = v[f] + Sums(v)[U \ {f}] /\ Sums(w)[U] = w[f] + Sums(w)[U \ {f}]
    BY <2>2, SumsAdd
  <2>6. U \ {f} \notin Bad
    BY <2>1
  <2>7. Sums(v)[U \ {f}] = Sums(w)[U \ {f}]
    BY <2>2, <2>6
  <2> QED
    BY <2>2, <2>5, <2>7
<1> QED
  BY <1>1

-----------------------------------------------------------------------------
(* The sizes are numbers, and what a request that is idle means is nothing.*)
LEMMA SizesAreNumbers ==
  /\ Sizes \subseteq Nat
  /\ \A c \in Contents : SizeOf[c] \in Nat /\ SizeOf[c] \in Sizes /\ c # None
  /\ None \notin Files
BY EvidenceAssumption DEF Sizes

LEMMA RowsHaveSizes ==
  \A r \in Row : r.size \in Nat
<1> SUFFICES ASSUME NEW r \in Row PROVE r.size \in Nat
  OBVIOUS
<1>1. r.size \in Sizes \cup {0}
  BY DEF Row
<1>2. Sizes \cup {0} \subseteq Nat
  BY SizesAreNumbers, Zenon, 0 \in Nat
<1> QED
  BY <1>1, <1>2

LEMMA IdleIsNothing ==
  /\ Idle \in Job /\ Means(Idle) /\ SeenStands(Idle)
  /\ Idle.op = "idle" /\ Means(Idle)' /\ SeenStands(Idle)'
BY DEF Idle, Job, Means, SeenStands

(* A row is the sizes of the rows that are counted: where these stay, so   *)
(* does the exactness.                                                     *)
LEMMA CountedTheSame ==
  ASSUME TypeOK, UsedIsExact, row' \in [Files -> Row], used' = used, times' = times,
         \A f \in Files : times[f] = 1 => row'[f].size = row[f].size
  PROVE  UsedIsExact'
<1> DEFINE v == [f \in Files |-> row[f].size]
           w == [f \in Files |-> row'[f].size]
           S == {f \in Files : times[f] = 1}
<1>1. v \in [Files -> Nat] /\ w \in [Files -> Nat]
  <2>1. \A f \in Files : row[f] \in Row /\ row'[f] \in Row
    BY DEF TypeOK
  <2> QED
    BY <2>1, RowsHaveSizes
<1>2. S \in SUBSET Files /\ \A f \in S : v[f] = w[f]
  OBVIOUS
<1>3. UsedIsExact = ((\A f \in Files : times[f] < 2) => used = Sums(v)[S])
  BY DEF UsedIsExact, Total
<1>4. UsedIsExact' = ((\A f \in Files : times[f] < 2) => used = Sums(w)[S])
  BY DEF UsedIsExact, Total
<1> HIDE DEF v, w, S
<1>5. Sums(v)[S] = Sums(w)[S]
  BY <1>1, <1>2, SumsSame
<1> QED
  BY <1>3, <1>4, <1>5

(* A file that is completed for the first time is counted with its bytes.  *)
LEMMA CountedAsWell ==
  ASSUME TypeOK, UsedIsExact, NEW f \in Files, NEW r \in Row,
         row' = [row EXCEPT ![f] = r], used' = used + r.size,
         times' = [times EXCEPT ![f] = IF @ = 0 THEN 1 ELSE 2]
  PROVE  UsedIsExact'
<1> DEFINE v == [g \in Files |-> row[g].size]
           w == [g \in Files |-> row'[g].size]
           S == {g \in Files : times[g] = 1}
           U == {g \in Files : times'[g] = 1}
<1> SUFFICES ASSUME \A g \in Files : times'[g] < 2
             PROVE  used' = Sums(w)[U]
  BY DEF UsedIsExact, Total
<1>1. v \in [Files -> Nat] /\ w \in [Files -> Nat] /\ w[f] = r.size
  <2>1. \A g \in Files : row[g] \in Row /\ row'[g] \in Row
    BY DEF TypeOK
  <2>2. row'[f] = r
    BY DEF TypeOK
  <2> QED
    BY <2>1, <2>2, RowsHaveSizes
<1>2. times[f] = 0 /\ times'[f] = 1 /\ \A g \in Files \ {f} : times'[g] = times[g]
  BY DEF TypeOK
<1>3. /\ S \in SUBSET Files /\ U \in SUBSET Files /\ f \in U /\ U \ {f} = S
      /\ \A g \in S : v[g] = w[g]
  BY <1>2 DEF TypeOK
<1>4. used = Sums(v)[S]
  <2>1. \A g \in Files : times[g] < 2
    BY <1>2
  <2> QED
    BY <2>1 DEF UsedIsExact, Total
<1> HIDE DEF v, w, S, U
<1>5. Sums(v)[S] = Sums(w)[S] /\ Sums(w)[S] \in Nat
  BY <1>1, <1>3, SumsSame, SumsAdd
<1>6. Sums(w)[U] = r.size + Sums(w)[S]
  BY <1>1, <1>3, SumsAdd
<1>7. r.size \in Nat
  BY RowsHaveSizes
<1> QED
  BY <1>4, <1>5, <1>6, <1>7

(* A request that has read knows what it means. *)
LEMMA Known ==
  ASSUME EvidenceInv, NEW h \in Handlers
  PROVE  /\ job[h] \in Job /\ Means(job[h]) /\ SeenStands(job[h])
         /\ job[h].op \in {"complete", "verify", "delete"} => job[h].file \in Files
BY DEF EvidenceInv, TypeOK, Means

(* A file that is to come stays one, or is come to by a request that is    *)
(* there.                                                                  *)
LEMMA ComesFrom ==
  ASSUME TypeOK, NEW h \in Handlers, NEW j \in Job, NEW f \in Files,
         job' = [job EXCEPT ![h] = j], times' = times,
         row'[f].status = "PENDING_UPLOAD" => row[f].status = "PENDING_UPLOAD",
         Coming(f)'
  PROVE  \/ Coming(f)
         \/ j.op = "complete" /\ j.file = f
<1>1. /\ times[f] = 0
      /\ row'[f].status = "PENDING_UPLOAD"
           \/ \E g \in Handlers : job'[g].op = "complete" /\ job'[g].file = f
  BY DEF Coming
<1>2. \A g \in Handlers : job'[g] = job[g] \/ (g = h /\ job'[g] = j)
  BY DEF TypeOK
<1> QED
  BY <1>1, <1>2 DEF Coming

LEMMA RequestCounts ==
  ASSUME TypeOK, NEW h \in Handlers, Request(h)
  PROVE  requests' \in 0..MaxRequests
BY EvidenceAssumption DEF TypeOK, Request

(* A step that changes what a request is about and no more: what it reads  *)
(* and means is all there is to say.                                       *)
LEMMA RequestMoves ==
  ASSUME EvidenceInv, NEW h \in Handlers, NEW j \in Job, job' = [job EXCEPT ![h] = j],
         Means(j), SeenStands(j), requests' \in 0..MaxRequests, j.op # "request",
         j.op = "complete" => Coming(j.file) \/ times[j.file] > 0,
         UNCHANGED <<local, row, object, url, used, times, loose, replaced>>
  PROVE  EvidenceInv'
<1> USE DEF EvidenceInv
<1>1. TypeOK'
  BY DEF TypeOK
<1>2. ASSUME NEW g \in Handlers PROVE Means(job[g])' /\ SeenStands(job[g])'
  <2>1. job'[g] = job[g] \/ job'[g] = j
    BY DEF TypeOK
  <2>2. Means(job'[g]) /\ SeenStands(job'[g])
    BY <2>1
  <2> QED
    BY <2>2 DEF Means, SeenStands, Stored
<1>3. FilesCounted' /\ ContentKept'
  BY DEF FilesCounted, ContentKept, Stored
<1>4. UsedIsExact'
  BY CountedTheSame DEF TypeOK
<1>5. \A f \in Files : Coming(f)' => Coming(f)
  BY ComesFrom DEF Coming
<1>6. \A g \in Handlers : Asked(g)' => Asked(g) /\ job'[g] = job[g]
  BY DEF TypeOK, Asked
<1>7. RoomLeft'
  BY <1>5, <1>6 DEF RoomLeft
<1> QED
  BY <1>1, <1>2, <1>3, <1>4, <1>7

LEMMA CompleteReadStep ==
  ASSUME EvidenceInv, NEW h \in Handlers, CompleteRead(h)
  PROVE  EvidenceInv'
<1>1. PICK f \in Files, d \in Contents \cup {None} :
        /\ row[f].status # "ABSENT" /\ ~row[f].deleted
        /\ LET j == [Idle EXCEPT !.op = "complete", !.file = f, !.declared = d] IN
             \/ Becomes(h, [j EXCEPT !.step = "look"])
             \/ /\ local
                /\ \E c \in Contents, by \in {"url", "body"} :
                     Becomes(h, [j EXCEPT !.step = "store", !.sent = c, !.by = by])
  BY DEF CompleteRead
<1>2. PICK j \in Job :
        /\ job' = [job EXCEPT ![h] = j]
        /\ j.op = "complete" /\ j.file = f /\ j.step \in {"store", "look"}
        /\ j.step = "store" => j.sent \in Contents
  <2> DEFINE k == [Idle EXCEPT !.op = "complete", !.file = f, !.declared = d]
  <2>1. CASE Becomes(h, [k EXCEPT !.step = "look"])
    <3>1. [k EXCEPT !.step = "look"] \in Job
      BY DEF Idle, Job
    <3> QED
      BY <2>1, <3>1 DEF Becomes, Idle
  <2>2. ASSUME NEW c \in Contents, NEW by \in {"url", "body"},
               Becomes(h, [k EXCEPT !.step = "store", !.sent = c, !.by = by])
        PROVE  \E j \in Job : /\ job' = [job EXCEPT ![h] = j]
                              /\ j.op = "complete" /\ j.file = f /\ j.step \in {"store", "look"}
                              /\ j.step = "store" => j.sent \in Contents
    <3>1. [k EXCEPT !.step = "store", !.sent = c, !.by = by] \in Job
      BY DEF Idle, Job
    <3> QED
      BY <2>2, <3>1 DEF Becomes, Idle
  <2> QED
    BY <1>1, <2>1, <2>2
<1>3. Means(j) /\ SeenStands(j)
  BY <1>1, <1>2 DEF Means, SeenStands
<1>4. Coming(f) \/ times[f] > 0
  <2>1. row[f].status \in {"ABSENT", "PENDING_UPLOAD", "AVAILABLE", "DELETED"}
    BY DEF EvidenceInv, TypeOK, Row
  <2>2. row[f].status = "DELETED" => row[f].deleted
    BY DEF EvidenceInv, FilesCounted
  <2>3. row[f].status = "AVAILABLE" => times[f] > 0
    BY DEF EvidenceInv, FilesCounted
  <2>4. times[f] = 0 \/ times[f] > 0
    BY DEF EvidenceInv, TypeOK
  <2> QED
    BY <1>1, <2>1, <2>2, <2>3, <2>4 DEF Coming
<1>5. requests' \in 0..MaxRequests /\ UNCHANGED <<local, row, object, url, used, times, loose, replaced>>
  BY RequestCounts DEF CompleteRead, EvidenceInv
<1> QED
  BY <1>2, <1>3, <1>4, <1>5, RequestMoves

LEMMA CompleteLookStep ==
  ASSUME EvidenceInv, NEW h \in Handlers, CompleteLook(h)
  PROVE  EvidenceInv'
<1> DEFINE c == object[job[h].file]
           j == [job[h] EXCEPT !.step = "write", !.saw = c]
<1>1. /\ job[h] \in Job /\ job[h].op = "complete" /\ job[h].file \in Files
      /\ row[job[h].file].status # "ABSENT"
  BY Known DEF CompleteLook, At, Means
<1>2. requests' \in 0..MaxRequests /\ UNCHANGED <<local, row, object, url, used, times, loose, replaced>>
  BY DEF CompleteLook, EvidenceInv, TypeOK
<1>3. CASE job' = [job EXCEPT ![h] = Idle]
  BY <1>2, <1>3, RequestMoves, IdleIsNothing
<1>4. CASE job' = [job EXCEPT ![h] = j] /\ c # None
  <2>1. c \in Contents
    BY <1>1, <1>4 DEF EvidenceInv, TypeOK
  <2>2. j \in Job /\ j.op = "complete" /\ j.file = job[h].file /\ j.saw = c /\ j.step = "write"
    BY <1>1, <2>1 DEF Job
  <2>3. Means(j) /\ SeenStands(j)
    BY <1>1, <1>4, <2>1, <2>2 DEF Means, SeenStands
  <2>4. Coming(j.file) \/ times[j.file] > 0
    BY <1>1, <2>2 DEF Coming, EvidenceInv, TypeOK
  <2> HIDE DEF j, c
  <2> QED
    BY <1>2, <1>4, <2>2, <2>3, <2>4, RequestMoves
<1> QED
  BY <1>3, <1>4 DEF CompleteLook, Done, Becomes

LEMMA VerifyReadStep ==
  ASSUME EvidenceInv, NEW h \in Handlers, VerifyRead(h)
  PROVE  EvidenceInv'
<1>1. PICK f \in Files :
        /\ row[f].status = "AVAILABLE" /\ ~row[f].deleted /\ row[f].verified = None
        /\ Becomes(h, [Idle EXCEPT !.op = "verify", !.file = f, !.saw = object[f]])
  BY DEF VerifyRead
<1> DEFINE j == [Idle EXCEPT !.op = "verify", !.file = f, !.saw = object[f]]
<1>2. object[f] \in Contents /\ object[f] # None
  BY <1>1, SizesAreNumbers DEF EvidenceInv, TypeOK, FilesCounted, Stored
<1>3. /\ j \in Job /\ j.op = "verify" /\ j.file = f /\ j.saw = object[f] /\ j.step = "write"
  BY <1>2 DEF Idle, Job
<1>4. Means(j) /\ SeenStands(j)
  BY <1>1, <1>2, <1>3 DEF Means, SeenStands, Stored
<1>5. requests' \in 0..MaxRequests /\ UNCHANGED <<local, row, object, url, used, times, loose, replaced>>
  BY RequestCounts DEF VerifyRead, EvidenceInv
<1>6. job' = [job EXCEPT ![h] = j]
  BY <1>1 DEF Becomes
<1> HIDE DEF j
<1> QED
  BY <1>3, <1>4, <1>5, <1>6, RequestMoves

LEMMA DeleteReadStep ==
  ASSUME EvidenceInv, NEW h \in Handlers, DeleteRead(h)
  PROVE  EvidenceInv'
<1>1. PICK f \in Files :
        /\ row[f].status # "ABSENT"
        /\ Becomes(h, [Idle EXCEPT !.op = "delete", !.file = f])
  BY DEF DeleteRead
<1> DEFINE j == [Idle EXCEPT !.op = "delete", !.file = f]
<1>2. /\ j \in Job /\ j.op = "delete" /\ j.file = f /\ j.step = "write"
  BY DEF Idle, Job
<1>3. Means(j) /\ SeenStands(j)
  BY <1>1, <1>2 DEF Means, SeenStands
<1>4. requests' \in 0..MaxRequests /\ UNCHANGED <<local, row, object, url, used, times, loose, replaced>>
  BY RequestCounts DEF DeleteRead, EvidenceInv
<1>5. job' = [job EXCEPT ![h] = j]
  BY <1>1 DEF Becomes
<1> HIDE DEF j
<1> QED
  BY <1>2, <1>3, <1>4, <1>5, RequestMoves

-----------------------------------------------------------------------------
(* A file is asked for: nothing is loose after that only if no other file  *)
(* was to come.                                                            *)
LEMMA AskReadStep ==
  ASSUME EvidenceInv, NEW h \in Handlers, AskRead(h)
  PROVE  EvidenceInv'
<1> USE DEF EvidenceInv
<1>1. PICK n \in Sizes : /\ used + n <= Quota
                         /\ Becomes(h, [Idle EXCEPT !.op = "request", !.size = n])
  BY DEF AskRead
<1> DEFINE j == [Idle EXCEPT !.op = "request", !.size = n]
<1>2. /\ j \in Job /\ j.op = "request" /\ j.size = n /\ j.step = "write"
  BY DEF Idle, Job
<1>3. Means(j)' /\ SeenStands(j)'
  BY <1>2 DEF Means, SeenStands
<1>4. job' = [job EXCEPT ![h] = j]
  BY <1>1 DEF Becomes
<1> HIDE DEF j
<1>u. UNCHANGED <<local, row, object, url, used, times, replaced>>
  BY DEF AskRead
<1>5. TypeOK'
  <2>1. loose' \in BOOLEAN
    BY Zenon DEF AskRead, TypeOK
  <2>2. requests' \in 0..MaxRequests
    BY RequestCounts DEF AskRead
  <2> QED
    BY <1>2, <1>4, <1>u, <2>1, <2>2 DEF TypeOK
<1>6. ASSUME NEW g \in Handlers PROVE Means(job[g])' /\ SeenStands(job[g])'
  <2>1. CASE g = h
    <3>1. job'[g] = j
      BY <1>4, <2>1 DEF TypeOK
    <3> QED
      BY <1>3, <3>1 DEF Means, SeenStands
  <2>2. CASE g # h
    <3>1. job'[g] = job[g]
      BY <1>4, <2>2 DEF TypeOK
    <3> QED
      BY <1>u, <3>1 DEF Means, SeenStands, Stored
  <2> QED
    BY <2>1, <2>2
<1>7. FilesCounted' /\ ContentKept'
  BY <1>u DEF FilesCounted, ContentKept, Stored
<1>8. UsedIsExact'
  BY <1>u, CountedTheSame DEF TypeOK
<1>9. RoomLeft'
  <2> SUFFICES ASSUME ~loose' PROVE RoomLeft'
    BY DEF RoomLeft
  <2>1. /\ ~loose /\ \A f \in Files : row[f].status # "PENDING_UPLOAD"
        /\ \A g \in Handlers : job[g].op # "request" /\ job[g].op # "complete"
    BY DEF AskRead, Outstanding
  <2>2. \A g \in Handlers : job'[g].op # "complete" /\ (Asked(g)' => g = h)
    BY <1>2, <1>4, <2>1 DEF TypeOK, Asked
  <2>3. \A f \in Files : ~Coming(f)'
    BY <1>u, <2>1, <2>2 DEF Coming
  <2>4. job'[h].size = n
    BY <1>2, <1>4 DEF TypeOK
  <2>5. used' <= Quota
    BY <1>1, <1>u, SizesAreNumbers, EvidenceAssumption DEF TypeOK
  <2> QED
    BY <1>1, <1>u, <2>2, <2>3, <2>4, <2>5 DEF RoomLeft
<1> QED
  BY <1>5, <1>6, <1>7, <1>8, <1>9

(* The row of a file that was asked for. *)
LEMMA AskWriteStep ==
  ASSUME EvidenceInv, NEW h \in Handlers, AskWrite(h)
  PROVE  EvidenceInv'
<1> USE DEF EvidenceInv
<1>1. PICK f \in Files :
        /\ row[f].status = "ABSENT"
        /\ row' = [row EXCEPT ![f].status = "PENDING_UPLOAD", ![f].size = job[h].size]
        /\ url' = [url EXCEPT ![f] = TRUE]
  BY DEF AskWrite
<1>2. /\ job[h] \in Job /\ job[h].op = "request" /\ job[h].size \in Sizes
      /\ job' = [job EXCEPT ![h] = Idle]
  BY Known DEF AskWrite, At, Means, Done, Becomes
<1>u. UNCHANGED <<local, object, used, requests, times, loose, replaced>>
  BY DEF AskWrite
<1> DEFINE r == [row[f] EXCEPT !.status = "PENDING_UPLOAD", !.size = job[h].size]
<1>3. /\ r \in Row /\ r.status = "PENDING_UPLOAD" /\ r.size = job[h].size
      /\ r.verified = row[f].verified /\ row[f] \in Row /\ row' = [row EXCEPT ![f] = r]
  BY <1>1, <1>2 DEF TypeOK, Row
<1> HIDE DEF r
<1>4. TypeOK'
  BY <1>1, <1>2, <1>3, <1>u, IdleIsNothing DEF TypeOK
<1>5. \A g \in Files : g # f => row'[g] = row[g]
  BY <1>3 DEF TypeOK
<1>6. row'[f] = r /\ times[f] = 0 /\ row[f].verified = None
  <2>1. ~Stored(f)
    BY <1>1 DEF Stored
  <2>2. ~(times[f] > 0) /\ times[f] \in 0..2 /\ row[f].verified = None
    BY <2>1 DEF FilesCounted, TypeOK
  <2> QED
    BY <1>3, <2>2 DEF TypeOK
<1>7. ASSUME NEW g \in Handlers PROVE Means(job[g])' /\ SeenStands(job[g])'
  <2>1. job'[g] = Idle \/ (job'[g] = job[g] /\ Means(job[g]) /\ SeenStands(job[g]))
    BY <1>2 DEF TypeOK
  <2>2. CASE job'[g] = Idle
    BY <2>2, IdleIsNothing DEF Means, SeenStands
  <2>3. CASE job'[g] = job[g] /\ Means(job[g]) /\ SeenStands(job[g])
    <3>1. job[g].op \in {"complete", "verify", "delete"} => job[g].file \in Files \ {f}
      BY <1>1, <2>3 DEF Means
    <3> QED
      BY <1>5, <1>u, <2>3, <3>1 DEF Means, SeenStands, Stored
  <2> QED
    BY <2>1, <2>2, <2>3
<1>8. FilesCounted'
  BY <1>3, <1>5, <1>6, <1>u DEF FilesCounted, Stored
<1>9. ContentKept'
  BY <1>3, <1>5, <1>6, <1>u DEF ContentKept
<1>10. UsedIsExact'
  BY <1>4, <1>5, <1>6, <1>u, CountedTheSame DEF TypeOK
<1>11. RoomLeft'
  <2> SUFFICES ASSUME ~loose' PROVE RoomLeft'
    BY DEF RoomLeft
  <2>1. ~loose /\ Asked(h)
    BY <1>2, <1>u DEF Asked
  <2>2. \A g \in Files : Coming(g)' => g = f
    <3> SUFFICES ASSUME NEW g \in Files, Coming(g)', g # f PROVE FALSE
      OBVIOUS
    <3>1. ~Coming(g)
      BY <2>1 DEF RoomLeft
    <3>2. row'[g] = row[g]
      BY <1>5
    <3> QED
      BY <3>1, <3>2, <1>4, <1>u, <1>2, ComesFrom, IdleIsNothing
  <2>3. \A g \in Handlers : ~Asked(g)'
    <3> SUFFICES ASSUME NEW g \in Handlers, Asked(g)' PROVE FALSE
      OBVIOUS
    <3>1. g # h /\ job'[g] = job[g]
      BY <1>2, IdleIsNothing DEF Asked, TypeOK
    <3> QED
      BY <2>1, <3>1 DEF RoomLeft, Asked
  <2>4. used + row'[f].size <= Quota /\ used <= Quota
    BY <1>3, <1>6, <2>1 DEF RoomLeft
  <2> QED
    BY <1>u, <2>2, <2>3, <2>4 DEF RoomLeft
<1> QED
  BY <1>4, <1>7, <1>8, <1>9, <1>10, <1>11

-----------------------------------------------------------------------------
(* An object is written: what a completion or a verification saw of it, or *)
(* what its row says, stands no longer, and the file is one of the         *)
(* replaced.                                                               *)
LEMMA ObjectWritten ==
  ASSUME EvidenceInv, NEW f \in Files, NEW c \in Contents, Stores(f, c),
         url' \in [Files -> BOOLEAN], job' \in [Handlers -> Job],
         UNCHANGED <<local, row, used, requests, times, loose>>,
         \A g \in Handlers :
           \/ job'[g] = job[g]
           \/ /\ Means(job'[g]) /\ job'[g].op \notin {"request", "verify"}
              /\ job'[g].op = "complete" =>
                   /\ job'[g].step = "look"
                   /\ job[g].op = "complete" /\ job'[g].file = job[g].file
  PROVE  EvidenceInv'
<1> USE DEF EvidenceInv
<1>1. /\ object' = [object EXCEPT ![f] = c] /\ object'[f] = c /\ c # None
      /\ \A g \in Files : g # f => object'[g] = object[g]
      /\ replaced \subseteq replaced' /\ replaced' \subseteq Files
      /\ replaced' \subseteq replaced \cup {f}
  BY SizesAreNumbers DEF Stores, TypeOK
<1>2. TypeOK'
  BY <1>1 DEF TypeOK
<1>3. Stored(f) => f \in replaced'
  BY DEF Stores, Stored
<1>4. ASSUME NEW g \in Handlers, job[g].op = "complete", job[g].step = "write", job[g].file = f
      PROVE  f \in replaced'
  BY <1>4 DEF Stores, At
<1>5. ASSUME NEW g \in Handlers PROVE Means(job[g])' /\ SeenStands(job[g])'
  <2>1. CASE job'[g] = job[g]
    <3>1. Means(job[g])'
      BY <2>1 DEF Means, Stored
    <3>2. SeenStands(job[g])'
      <4> SUFFICES ASSUME (job[g].op = "complete" /\ job[g].step = "write") \/ job[g].op = "verify"
                   PROVE  /\ object'[job[g].file] # None
                          /\ job[g].file \notin replaced' => object'[job[g].file] = job[g].saw
        BY <2>1 DEF SeenStands
      <4>1. Means(job[g]) /\ SeenStands(job[g])
        OBVIOUS
      <4>2. CASE job[g].file = f
        <5>1. f \in replaced'
          BY <1>3, <1>4, <4>1, <4>2 DEF Means
        <5> QED
          BY <1>1, <4>2, <5>1
      <4>3. CASE job[g].file # f
        <5>1. job[g].file \in Files
          BY <4>1 DEF Means
        <5> QED
          BY <1>1, <4>1, <4>3, <5>1 DEF SeenStands
      <4> QED
        BY <4>2, <4>3
    <3> QED
      BY <3>1, <3>2
  <2>2. CASE job'[g] # job[g]
    <3>1. /\ Means(job'[g]) /\ job'[g].op \notin {"request", "verify"}
          /\ job'[g].op = "complete" => job'[g].step = "look"
      BY <2>2
    <3> QED
      BY <3>1 DEF Means, SeenStands, Stored
  <2> QED
    BY <2>1, <2>2
<1>6. FilesCounted'
  BY <1>1 DEF FilesCounted, Stored
<1>7. ContentKept'
  <2> SUFFICES ASSUME NEW g \in Files \ replaced'
               PROVE  /\ row[g].status = "AVAILABLE" => object'[g] # None /\ row[g].checksum = object'[g]
                      /\ row[g].verified # None => row[g].verified = object'[g]
    BY DEF ContentKept
  <2>1. CASE g = f
    <3>1. ~Stored(f)
      BY <1>3, <2>1
    <3> QED
      BY <2>1, <3>1 DEF FilesCounted, Stored
  <2>2. CASE g # f
    BY <1>1, <2>2 DEF ContentKept
  <2> QED
    BY <2>1, <2>2
<1>8. UsedIsExact'
  BY CountedTheSame DEF TypeOK
<1>9. \A g \in Files : Coming(g)' => Coming(g)
  BY DEF Coming
<1>10. \A g \in Handlers : Asked(g)' => Asked(g) /\ job'[g] = job[g]
  BY DEF Asked
<1>11. RoomLeft'
  BY <1>9, <1>10 DEF RoomLeft
<1> QED
  BY <1>2, <1>5, <1>6, <1>7, <1>8, <1>11

LEMMA UploadStep ==
  ASSUME EvidenceInv, NEW f \in Files, Upload(f)
  PROVE  EvidenceInv'
<1>1. PICK c \in Contents : Stores(f, c)
  BY DEF Upload
<1>2. url' \in [Files -> BOOLEAN]
  <2>1. PICK b \in BOOLEAN : url' = [url EXCEPT ![f] = b]
    BY DEF Upload, EvidenceInv, TypeOK
  <2> QED
    BY <2>1 DEF EvidenceInv, TypeOK
<1>3. /\ job' \in [Handlers -> Job] /\ job' = job
      /\ UNCHANGED <<local, row, used, requests, times, loose>>
  BY DEF Upload, EvidenceInv, TypeOK
<1> QED
  BY <1>1, <1>2, <1>3, ObjectWritten

LEMMA CompleteStoreStep ==
  ASSUME EvidenceInv, NEW h \in Handlers, CompleteStore(h)
  PROVE  EvidenceInv'
<1> DEFINE f == job[h].file
           c == job[h].sent
           j == [job[h] EXCEPT !.step = "look"]
<1>1. /\ job[h] \in Job /\ job[h].op = "complete" /\ f \in Files /\ c \in Contents
      /\ row[f].status # "ABSENT"
  BY Known DEF CompleteStore, At, Means
<1>2. UNCHANGED <<local, row, used, requests, times, loose>>
  BY DEF CompleteStore
<1>3. CASE job' = [job EXCEPT ![h] = Idle] /\ UNCHANGED <<object, url, replaced>>
  <2>1. requests' \in 0..MaxRequests
    BY <1>2 DEF EvidenceInv, TypeOK
  <2> QED
    BY <1>2, <1>3, <2>1, RequestMoves, IdleIsNothing
<1>4. CASE /\ Stores(f, c)
           /\ url' = [url EXCEPT ![f] = @ /\ job[h].by # "url"]
           /\ job' = [job EXCEPT ![h] = j] \/ job' = [job EXCEPT ![h] = Idle]
  <2>1. url' \in [Files -> BOOLEAN]
    <3>1. PICK b \in BOOLEAN : b = (url[f] /\ job[h].by # "url")
      OBVIOUS
    <3>2. url' = [url EXCEPT ![f] = b]
      BY <1>4, <3>1
    <3> QED
      BY <3>2 DEF EvidenceInv, TypeOK
  <2>2. j \in Job /\ j.op = "complete" /\ j.file = job[h].file /\ j.step = "look"
    BY <1>1 DEF Job
  <2>3. Means(j)
    BY <1>1, <2>2 DEF Means
  <2> HIDE DEF j
  <2>4. job' \in [Handlers -> Job]
    BY <1>4, <2>2, IdleIsNothing DEF EvidenceInv, TypeOK
  <2>5. \A g \in Handlers : \/ job'[g] = job[g]
                            \/ g = h /\ (job'[g] = j \/ job'[g] = Idle)
    BY <1>4 DEF EvidenceInv, TypeOK
  <2>6. \A g \in Handlers :
           \/ job'[g] = job[g]
           \/ /\ Means(job'[g]) /\ job'[g].op \notin {"request", "verify"}
              /\ job'[g].op = "complete" =>
                   /\ job'[g].step = "look"
                   /\ job[g].op = "complete" /\ job'[g].file = job[g].file
    BY <1>1, <2>2, <2>3, <2>5, IdleIsNothing
  <2> HIDE DEF f, c
  <2> QED
    BY <1>1, <1>2, <1>4, <2>1, <2>4, <2>6, ObjectWritten
<1> QED
  BY <1>3, <1>4 DEF CompleteStore, Done, Becomes

LEMMA ExpireStep ==
  ASSUME EvidenceInv, NEW f \in Files, Expire(f)
  PROVE  EvidenceInv'
<1> USE DEF EvidenceInv
<1>1. /\ url' = [url EXCEPT ![f] = FALSE]
      /\ UNCHANGED <<local, row, object, used, job, requests, times, loose, replaced>>
  BY DEF Expire
<1>2. TypeOK'
  BY <1>1 DEF TypeOK
<1>3. \A g \in Handlers : Means(job[g])' /\ SeenStands(job[g])'
  BY <1>1 DEF Means, SeenStands, Stored
<1>4. FilesCounted' /\ ContentKept' /\ RoomLeft'
  BY <1>1 DEF FilesCounted, ContentKept, RoomLeft, Stored, Coming, Asked
<1>5. UsedIsExact'
  BY <1>1, <1>2, CountedTheSame DEF TypeOK
<1> QED
  BY <1>2, <1>3, <1>4, <1>5

-----------------------------------------------------------------------------
(* A row is written, and was there before. *)
LEMMA RowWritten ==
  ASSUME EvidenceInv, NEW h \in Handlers, NEW f \in Files, NEW r \in Row,
         row[f].status # "ABSENT", r.status # "ABSENT",
         Stored(f) => r.status # "PENDING_UPLOAD",
         row' = [row EXCEPT ![f] = r], job' = [job EXCEPT ![h] = Idle],
         UNCHANGED <<object, replaced>>
  PROVE  /\ row' \in [Files -> Row] /\ job' \in [Handlers -> Job]
         /\ row'[f] = r /\ \A g \in Files : g # f => row'[g] = row[g]
         /\ \A g \in Handlers : Means(job[g])' /\ SeenStands(job[g])'
         /\ \A g \in Handlers : Asked(g)' => Asked(g) /\ job'[g] = job[g]
<1> USE DEF EvidenceInv
<1>1. /\ row' \in [Files -> Row] /\ job' \in [Handlers -> Job]
      /\ row'[f] = r /\ \A g \in Files : g # f => row'[g] = row[g]
  BY IdleIsNothing DEF TypeOK
<1>2. \A g \in Handlers : job'[g] = job[g] \/ job'[g] = Idle
  BY DEF TypeOK
<1>3. \A g \in Files : (row[g].status # "ABSENT" => row'[g].status # "ABSENT")
                       /\ (Stored(g) => Stored(g)')
  BY <1>1 DEF Stored
<1>4. ASSUME NEW g \in Handlers PROVE Means(job[g])' /\ SeenStands(job[g])'
  <2>1. CASE job'[g] = Idle
    BY <2>1, IdleIsNothing DEF Means, SeenStands
  <2>2. CASE job'[g] = job[g]
    <3>1. Means(job[g]) /\ SeenStands(job[g])
      OBVIOUS
    <3>2. SeenStands(job[g])'
      BY <2>2, <3>1 DEF SeenStands
    <3>3. Means(job[g])'
      BY <1>3, <2>2, <3>1 DEF Means
    <3> QED
      BY <3>2, <3>3
  <2> QED
    BY <1>2, <2>1, <2>2
<1>5. \A g \in Handlers : Asked(g)' => Asked(g) /\ job'[g] = job[g]
  BY <1>2, IdleIsNothing DEF Asked
<1> QED
  BY <1>1, <1>4, <1>5

(* A verification or a deletion writes: nothing is counted. *)
LEMMA UncountedWrite ==
  ASSUME EvidenceInv, NEW h \in Handlers, NEW f \in Files, NEW r \in Row,
         row[f].status # "ABSENT", r.status # "ABSENT",
         Stored(f) => r.status # "PENDING_UPLOAD",
         row' = [row EXCEPT ![f] = r], job' = [job EXCEPT ![h] = Idle],
         UNCHANGED <<local, object, url, used, requests, times, loose, replaced>>,
         r.size = row[f].size, r.checksum = row[f].checksum,
         r.status \in {row[f].status, "DELETED"},
         r.status = "DELETED" => r.deleted,
         r.verified # row[f].verified => Stored(f) /\ (f \notin replaced => r.verified = object[f])
  PROVE  EvidenceInv'
<1> USE DEF EvidenceInv
<1>1. /\ row' \in [Files -> Row] /\ job' \in [Handlers -> Job]
      /\ row'[f] = r /\ \A g \in Files : g # f => row'[g] = row[g]
      /\ \A g \in Handlers : Means(job[g])' /\ SeenStands(job[g])'
      /\ \A g \in Handlers : Asked(g)' => Asked(g) /\ job'[g] = job[g]
  BY RowWritten
<1>2. TypeOK'
  BY <1>1 DEF TypeOK
<1>3. FilesCounted'
  BY <1>1 DEF FilesCounted, Stored
<1>4. ContentKept'
  BY <1>1 DEF ContentKept
<1>5. UsedIsExact'
  BY <1>1, CountedTheSame DEF TypeOK
<1>6. \A g \in Files : /\ row'[g].status = "PENDING_UPLOAD" => row[g].status = "PENDING_UPLOAD"
                       /\ row'[g].size = row[g].size
  BY <1>1
<1>7. \A g \in Files : Coming(g)' => Coming(g)
  BY <1>6, ComesFrom, IdleIsNothing
<1>8. RoomLeft'
  BY <1>1, <1>6, <1>7 DEF RoomLeft
<1> QED
  BY <1>1, <1>2, <1>3, <1>4, <1>5, <1>8

LEMMA VerifyWriteStep ==
  ASSUME EvidenceInv, NEW h \in Handlers, VerifyWrite(h)
  PROVE  EvidenceInv'
<1> DEFINE f == job[h].file
           r == [row[f] EXCEPT !.verified = job[h].saw]
<1>1. /\ f \in Files /\ job[h].saw \in Contents /\ Stored(f) /\ row[f] \in Row
      /\ f \notin replaced => object[f] = job[h].saw
  BY Known DEF VerifyWrite, At, Means, SeenStands, EvidenceInv, TypeOK
<1>2. /\ r \in Row /\ r.size = row[f].size /\ r.checksum = row[f].checksum
      /\ r.status = row[f].status /\ r.deleted = row[f].deleted /\ r.verified = job[h].saw
  BY <1>1 DEF Row
<1>3. row' = [row EXCEPT ![f] = r] /\ job' = [job EXCEPT ![h] = Idle]
      /\ UNCHANGED <<local, object, url, used, requests, times, loose, replaced>>
  BY <1>1 DEF VerifyWrite, Done, Becomes, EvidenceInv, TypeOK
<1>4. row[f].status # "ABSENT" /\ row[f].status # "PENDING_UPLOAD"
  BY <1>1 DEF Stored
<1>5. row[f].status = "DELETED" => row[f].deleted
  BY <1>1 DEF EvidenceInv, FilesCounted
<1> HIDE DEF f, r
<1> QED
  BY <1>1, <1>2, <1>3, <1>4, <1>5, UncountedWrite

LEMMA DeleteWriteStep ==
  ASSUME EvidenceInv, NEW h \in Handlers, DeleteWrite(h)
  PROVE  EvidenceInv'
<1> DEFINE f == job[h].file
           r == [row[f] EXCEPT !.status = "DELETED", !.deleted = TRUE]
<1>1. f \in Files /\ row[f].status # "ABSENT" /\ row[f] \in Row
  BY Known DEF DeleteWrite, At, Means, EvidenceInv, TypeOK
<1>2. /\ r \in Row /\ r.size = row[f].size /\ r.checksum = row[f].checksum
      /\ r.status = "DELETED" /\ r.deleted /\ r.verified = row[f].verified
  BY <1>1 DEF Row
<1>3. row' = [row EXCEPT ![f] = r] /\ job' = [job EXCEPT ![h] = Idle]
      /\ UNCHANGED <<local, object, url, used, requests, times, loose, replaced>>
  BY <1>1 DEF DeleteWrite, Done, Becomes, EvidenceInv, TypeOK
<1> HIDE DEF f, r
<1> QED
  BY <1>1, <1>2, <1>3, UncountedWrite

(* A completion writes what it saw. *)
LEMMA CompleteWriteStep ==
  ASSUME EvidenceInv, NEW h \in Handlers, CompleteWrite(h)
  PROVE  EvidenceInv'
<1> DEFINE f == job[h].file
           c == job[h].saw
           r == Available(row[f], c)
<1>1. /\ job[h].op = "complete" /\ f \in Files /\ c \in Contents
      /\ row[f].status # "ABSENT" /\ row[f] \in Row
      /\ object[f] # None
      /\ f \notin replaced => object[f] = c
  BY Known DEF CompleteWrite, At, Means, SeenStands, EvidenceInv, TypeOK
<1>2. /\ r \in Row /\ r.size = SizeOf[c] /\ r.checksum = c
      /\ r.status = "AVAILABLE" /\ r.verified = row[f].verified
  BY <1>1, SizesAreNumbers DEF Row, Available
<1>3. /\ row' = [row EXCEPT ![f] = r] /\ job' = [job EXCEPT ![h] = Idle]
      /\ used' = used + r.size
      /\ times' = [times EXCEPT ![f] = IF @ = 0 THEN 1 ELSE 2]
      /\ loose' = (loose \/ times[f] > 0 \/ SizeOf[c] > row[f].size)
      /\ UNCHANGED <<local, object, url, requests, replaced>>
  BY <1>1, <1>2 DEF CompleteWrite, Done, Becomes, EvidenceInv, TypeOK
<1>c. times[f] = 0 => Coming(f)
  BY <1>1 DEF Coming
<1> HIDE DEF f, c, r
<1>4. /\ row' \in [Files -> Row] /\ job' \in [Handlers -> Job]
      /\ row'[f] = r /\ \A g \in Files : g # f => row'[g] = row[g]
      /\ \A g \in Handlers : Means(job[g])' /\ SeenStands(job[g])'
      /\ \A g \in Handlers : Asked(g)' => Asked(g) /\ job'[g] = job[g]
  BY <1>1, <1>2, <1>3, RowWritten
<1> USE DEF EvidenceInv
<1>5. /\ times' \in [Files -> 0..2] /\ times'[f] > 0
      /\ \A g \in Files : g # f => times'[g] = times[g]
  BY <1>1, <1>3 DEF TypeOK
<1>6. TypeOK'
  <2>1. used' \in Nat
    BY <1>2, <1>3, RowsHaveSizes DEF TypeOK
  <2>2. loose' \in BOOLEAN
    BY <1>3
  <2> QED
    BY <1>3, <1>4, <1>5, <2>1, <2>2 DEF TypeOK
<1>7. FilesCounted'
  BY <1>1, <1>2, <1>3, <1>4, <1>5 DEF FilesCounted, Stored
<1>8. ContentKept'
  <2>1. row[f].verified # None => (f \notin replaced => row[f].verified = object[f])
    BY <1>1 DEF ContentKept
  <2> QED
    BY <1>1, <1>2, <1>3, <1>4, <2>1 DEF ContentKept
<1>9. UsedIsExact'
  BY <1>1, <1>2, <1>3, CountedAsWell
<1>10. RoomLeft'
  <2> SUFFICES ASSUME ~loose' PROVE RoomLeft'
    BY DEF RoomLeft
  <2>1. ~loose /\ Coming(f) /\ ~(r.size > row[f].size)
    <3>1. ~(times[f] > 0)
      BY <1>3
    <3>2. times[f] = 0
      BY <1>1, <3>1 DEF TypeOK
    <3> QED
      BY <1>2, <1>3, <1>c, <3>2
  <2>2. \A g \in Files : ~Coming(g)'
    <3> SUFFICES ASSUME NEW g \in Files, Coming(g)' PROVE FALSE
      OBVIOUS
    <3>1. g # f
      BY <1>5 DEF Coming
    <3>2. Coming(g)
      <4>1. \A k \in Handlers : job'[k] = job[k] \/ job'[k] = Idle
        BY <1>3 DEF TypeOK
      <4> QED
        BY <1>4, <1>5, <3>1, <4>1, IdleIsNothing DEF Coming
    <3> QED
      BY <1>1, <2>1, <3>1, <3>2 DEF RoomLeft
  <2>3. \A g \in Handlers : ~Asked(g)'
    BY <1>1, <1>4, <2>1 DEF RoomLeft
  <2>4. used' <= Quota
    <3>1. used + row[f].size <= Quota
      BY <1>1, <2>1 DEF RoomLeft
    <3>2. used \in Nat /\ row[f].size \in Nat /\ r.size \in Nat /\ Quota \in Nat
      BY <1>1, <1>2, RowsHaveSizes, EvidenceAssumption DEF TypeOK
    <3> QED
      BY <1>3, <2>1, <3>1, <3>2
  <2> QED
    BY <2>2, <2>3, <2>4 DEF RoomLeft
<1> QED
  BY <1>4, <1>6, <1>7, <1>8, <1>9, <1>10

-----------------------------------------------------------------------------
LEMMA EvidenceInitially == Init => EvidenceInv
<1> SUFFICES ASSUME Init PROVE EvidenceInv
  OBVIOUS
<1>1. TypeOK
  <2>1. NoRow \in Row
    BY DEF NoRow, Row
  <2>2. /\ row \in [Files -> Row] /\ object \in [Files -> Contents \cup {None}]
        /\ url \in [Files -> BOOLEAN] /\ times \in [Files -> 0..2]
    BY <2>1 DEF Init
  <2>3. job \in [Handlers -> Job]
    BY IdleIsNothing DEF Init
  <2>4. requests \in 0..MaxRequests /\ used \in Nat
    BY EvidenceAssumption DEF Init
  <2> QED
    BY <2>2, <2>3, <2>4 DEF Init, TypeOK
<1>2. \A h \in Handlers : Means(job[h]) /\ SeenStands(job[h])
  BY IdleIsNothing DEF Init
<1>3. FilesCounted /\ ContentKept
  BY DEF Init, FilesCounted, ContentKept, Stored, NoRow
<1>4. RoomLeft
  <2>1. \A h \in Handlers : job[h].op = "idle"
    BY IdleIsNothing DEF Init
  <2>2. \A f \in Files : ~Coming(f)
    BY <2>1 DEF Init, Coming, NoRow
  <2>3. used <= Quota
    BY EvidenceAssumption DEF Init
  <2> QED
    BY <2>1, <2>2, <2>3 DEF RoomLeft, Asked
<1>5. UsedIsExact
  <2> DEFINE v == [f \in Files |-> row[f].size]
  <2>1. v \in [Files -> Nat]
    BY <1>1, RowsHaveSizes DEF TypeOK
  <2>2. {f \in Files : times[f] = 1} = {}
    BY DEF Init
  <2> HIDE DEF v
  <2>3. Sums(v)[{}] = 0
    BY <2>1, SumsAdd
  <2> QED
    BY <2>2, <2>3 DEF UsedIsExact, Total, Init, v
<1> QED
  BY <1>1, <1>2, <1>3, <1>4, <1>5 DEF EvidenceInv

LEMMA EvidenceNext == EvidenceInv /\ [Next]_vars => EvidenceInv'
<1> SUFFICES ASSUME EvidenceInv, [Next]_vars PROVE EvidenceInv'
  OBVIOUS
<1>1. ASSUME NEW h \in Handlers, AskRead(h) PROVE EvidenceInv'
  BY <1>1, AskReadStep
<1>2. ASSUME NEW h \in Handlers, AskWrite(h) PROVE EvidenceInv'
  BY <1>2, AskWriteStep
<1>3. ASSUME NEW h \in Handlers, CompleteRead(h) PROVE EvidenceInv'
  BY <1>3, CompleteReadStep
<1>4. ASSUME NEW h \in Handlers, CompleteStore(h) PROVE EvidenceInv'
  BY <1>4, CompleteStoreStep
<1>5. ASSUME NEW h \in Handlers, CompleteLook(h) PROVE EvidenceInv'
  BY <1>5, CompleteLookStep
<1>6. ASSUME NEW h \in Handlers, CompleteWrite(h) PROVE EvidenceInv'
  BY <1>6, CompleteWriteStep
<1>7. ASSUME NEW h \in Handlers, VerifyRead(h) PROVE EvidenceInv'
  BY <1>7, VerifyReadStep
<1>8. ASSUME NEW h \in Handlers, VerifyWrite(h) PROVE EvidenceInv'
  BY <1>8, VerifyWriteStep
<1>9. ASSUME NEW h \in Handlers, DeleteRead(h) PROVE EvidenceInv'
  BY <1>9, DeleteReadStep
<1>10. ASSUME NEW h \in Handlers, DeleteWrite(h) PROVE EvidenceInv'
  BY <1>10, DeleteWriteStep
<1>11. ASSUME NEW f \in Files, Upload(f) \/ Expire(f) PROVE EvidenceInv'
  BY <1>11, UploadStep, ExpireStep
<1>12. ASSUME UNCHANGED vars PROVE EvidenceInv'
  <2>1. TypeOK'
    BY <1>12 DEF vars, EvidenceInv, TypeOK
  <2>2. \A h \in Handlers : Means(job[h])' /\ SeenStands(job[h])'
    BY <1>12 DEF vars, EvidenceInv, Means, SeenStands, Stored
  <2>3. FilesCounted' /\ ContentKept' /\ RoomLeft'
    BY <1>12 DEF vars, EvidenceInv, FilesCounted, ContentKept, RoomLeft, Stored, Coming, Asked
  <2>4. UsedIsExact'
    BY <1>12, <2>1, CountedTheSame DEF vars, EvidenceInv, TypeOK
  <2> QED
    BY <2>1, <2>2, <2>3, <2>4 DEF EvidenceInv
<1> QED
  BY <1>1, <1>2, <1>3, <1>4, <1>5, <1>6, <1>7, <1>8, <1>9, <1>10, <1>11, <1>12 DEF Next

(* The inductive invariant of the requests about files: it holds always.   *)
THEOREM FilesInductive == Spec => []EvidenceInv
<1>1. Init => EvidenceInv
  BY EvidenceInitially
<1>2. EvidenceInv /\ [Next]_vars => EvidenceInv'
  BY EvidenceNext
<1> QED
  BY <1>1, <1>2, PTL DEF Spec

(* An organisation is charged for what its files hold, and its quota is    *)
(* held but for the ways the code leaves open (requestUploadUrl and        *)
(* completeUpload of evidence.service).                                    *)
THEOREM Quotas == Spec => []QuotaKept
<1>1. Init => EvidenceInv
  BY EvidenceInitially
<1>2. EvidenceInv /\ [Next]_vars => EvidenceInv'
  BY EvidenceNext
<1>3. EvidenceInv => QuotaKept
  BY DEF EvidenceInv, QuotaKept, QuotaHolds, RoomLeft
<1> QED
  BY <1>1, <1>2, <1>3, PTL DEF Spec

(* The rows of the files that were not written over say what the storage   *)
(* holds (completeUpload and verify of evidence.service).                  *)
THEOREM Contented == Spec => []ContentKept
<1>1. Init => EvidenceInv
  BY EvidenceInitially
<1>2. EvidenceInv /\ [Next]_vars => EvidenceInv'
  BY EvidenceNext
<1>3. EvidenceInv => ContentKept
  BY DEF EvidenceInv
<1> QED
  BY <1>1, <1>2, <1>3, PTL DEF Spec

-----------------------------------------------------------------------------
(* The notices.  A step that leaves the turn of every request as it should *)
(* be and, of the rows and pushes, changes those of recipients and these   *)
(* soundly.                                                                *)
Sound(n, p) ==
  /\ n.push = "QUEUED" => p.at \in {"begun", "sending", "lost"}
  /\ n.push = "SENT" => p.unknown = {} /\ p.at = "done"
  /\ n.gone = "cleared" => n.read
  /\ p.unknown # {} => p.failed
  /\ p.refused \subseteq p.unknown

LEMMA NoticesKept ==
  ASSUME NoticesInv, NoticesTypeOK', dead \subseteq dead',
         \A m \in Messages : ToldInTurn(m)' /\ caster[m].to \subseteq caster'[m].to,
         \A d \in Devices :
           /\ token'[d] = "inactive" => d \in dead'
           /\ token[d] = "inactive" /\ d \in dead => token'[d] = "inactive",
         \A m \in Messages, u \in Users :
           \/ notice'[m][u] = notice[m][u] /\ push'[m][u] = push[m][u]
           \/ /\ u \in caster[m].to
              /\ Sound(notice'[m][u], push'[m][u])
              /\ push'[m][u].unknown \subseteq dead'
              /\ \A d \in push'[m][u].unknown \ push'[m][u].refused : token'[d] = "inactive"
  PROVE  NoticesInv'
<1> USE DEF NoticesInv
<1>1. ASSUME NEW m \in Messages, NEW u \in Users PROVE PushStands(m, u)'
  BY DEF PushStands, Sound
<1>2. ASSUME NEW m \in Messages, NEW u \in Users
      PROVE  /\ caster'[m].at = "answered" /\ u \in caster'[m].to => notice'[m][u].told
             /\ u \notin caster'[m].to => notice'[m][u] = NoNotice /\ push'[m][u] = NoPush
             /\ notice'[m][u].push = "QUEUED" => push'[m][u].at \in {"begun", "sending", "lost"}
             /\ notice'[m][u].push = "SENT" => push'[m][u].unknown = {}
             /\ \A d \in push'[m][u].unknown \ push'[m][u].refused : token'[d] = "inactive"
             /\ notice'[m][u].gone = "cleared" => notice'[m][u].read
  <2>1. caster'[m].at = "answered" /\ u \in caster'[m].to => notice'[m][u].told
    BY DEF ToldInTurn
  <2>2. CASE notice'[m][u] = notice[m][u] /\ push'[m][u] = push[m][u]
    <3>1. /\ u \notin caster[m].to => notice[m][u] = NoNotice /\ push[m][u] = NoPush
          /\ notice[m][u].push = "QUEUED" => push[m][u].at \in {"begun", "sending", "lost"}
          /\ notice[m][u].push = "SENT" => push[m][u].unknown = {}
          /\ \A d \in push[m][u].unknown \ push[m][u].refused : token[d] = "inactive"
          /\ notice[m][u].gone = "cleared" => notice[m][u].read
      BY DEF NoticesTold
    <3>2. push[m][u].unknown \subseteq dead /\ dead \subseteq Devices
      BY DEF PushStands, NoticesTypeOK
    <3>3. \A d \in push[m][u].unknown \ push[m][u].refused : token'[d] = "inactive"
      BY <3>1, <3>2
    <3> QED
      BY <2>1, <2>2, <3>1, <3>3
  <2>3. CASE ~(notice'[m][u] = notice[m][u] /\ push'[m][u] = push[m][u])
    <3>1. /\ u \in caster[m].to
          /\ Sound(notice'[m][u], push'[m][u])
          /\ \A d \in push'[m][u].unknown \ push'[m][u].refused : token'[d] = "inactive"
      BY <2>3
    <3> QED
      BY <2>1, <3>1 DEF Sound
  <2> QED
    BY <2>2, <2>3
<1>3. NoticesTold'
  BY <1>2 DEF NoticesTold
<1> QED
  BY <1>1, <1>3

(* What is so before any step. *)
LEMMA NoticesBefore ==
  ASSUME NoticesInv
  PROVE  /\ NoticesTypeOK
         /\ \A m \in Messages, u \in Users :
              /\ notice[m][u] \in NoticeRow /\ push[m][u] \in Pushing
              /\ Sound(notice[m][u], push[m][u])
              /\ push[m][u].unknown \subseteq dead
              /\ \A d \in push[m][u].unknown \ push[m][u].refused : token[d] = "inactive"
              /\ notice[m][u].told => u \in caster[m].to
              /\ push[m][u].at # "idle" => u \in caster[m].to
         /\ \A m \in Messages : caster[m] \in Casting /\ ToldInTurn(m)
         /\ \A d \in Devices : token[d] = "inactive" => d \in dead
<1> USE DEF NoticesInv
<1>1. ASSUME NEW m \in Messages, NEW u \in Users
      PROVE  /\ notice[m][u] \in NoticeRow /\ push[m][u] \in Pushing
             /\ Sound(notice[m][u], push[m][u])
             /\ push[m][u].unknown \subseteq dead
             /\ \A d \in push[m][u].unknown \ push[m][u].refused : token[d] = "inactive"
             /\ notice[m][u].told => u \in caster[m].to
             /\ push[m][u].at # "idle" => u \in caster[m].to
  <2>1. notice[m][u] \in NoticeRow /\ push[m][u] \in Pushing
    BY DEF NoticesTypeOK
  <2>2. Sound(notice[m][u], push[m][u]) /\ push[m][u].unknown \subseteq dead
    BY DEF NoticesTold, PushStands, Sound
  <2>3. /\ \A d \in push[m][u].unknown \ push[m][u].refused : token[d] = "inactive"
        /\ notice[m][u].told => u \in caster[m].to
        /\ push[m][u].at # "idle" => u \in caster[m].to
    BY DEF NoticesTold, NoNotice, NoPush
  <2> QED
    BY <2>1, <2>2, <2>3
<1>2. \A m \in Messages : caster[m] \in Casting /\ ToldInTurn(m)
  BY DEF NoticesTypeOK
<1>3. \A d \in Devices : token[d] = "inactive" => d \in dead
  BY DEF NoticesTold
<1> QED
  BY <1>1, <1>2, <1>3

(* A step of the request of one message alone. *)
LEMMA CasterMoves ==
  ASSUME NoticesInv, NEW m \in Messages, NEW c \in Casting,
         caster' = [caster EXCEPT ![m] = c], caster[m].to \subseteq c.to,
         c.at # "idle", c.left \subseteq c.to,
         c.at \in {"row", "app", "push"} => c.user \in c.to,
         c.at \in {"next", "row", "app", "push", "answered"} =>
           \A u \in c.to \ c.left : notice[m][u].told \/ (c.at = "row" /\ u = c.user),
         c.at = "answered" => c.left = {},
         UNCHANGED <<active, prefs, device, token, dead, notice, push>>
  PROVE  NoticesInv'
<1>1. NoticesTypeOK'
  BY NoticesBefore DEF NoticesTypeOK
<1>2. caster'[m] = c /\ \A k \in Messages : k # m => caster'[k] = caster[k]
  BY NoticesBefore DEF NoticesTypeOK
<1>3. ASSUME NEW k \in Messages PROVE ToldInTurn(k)' /\ caster[k].to \subseteq caster'[k].to
  <2>1. CASE k = m
    BY <1>2, <2>1 DEF ToldInTurn
  <2>2. CASE k # m
    BY <1>2, <2>2, NoticesBefore DEF ToldInTurn
  <2> QED
    BY <2>1, <2>2
<1> QED
  BY <1>1, <1>3, NoticesBefore, NoticesKept

(* A step of one row and its push. *)
LEMMA NoticeMoves ==
  ASSUME NoticesInv, NEW m \in Messages, NEW u \in Users, NEW n \in NoticeRow, NEW p \in Pushing,
         u \in caster[m].to,
         notice' = [notice EXCEPT ![m] = [@ EXCEPT ![u] = n]],
         push' = [push EXCEPT ![m] = [@ EXCEPT ![u] = p]],
         notice[m][u].told => n.told, Sound(n, p), p.unknown \subseteq dead,
         caster' \in [Messages -> Casting], \A k \in Messages : ToldInTurn(k)',
         \A k \in Messages : caster'[k].to = caster[k].to,
         token' \in [Devices -> {"none", "active", "inactive"}],
         \A d \in p.unknown \ p.refused : token'[d] = "inactive",
         \A d \in Devices : token'[d] = token[d] \/ (token'[d] = "inactive" /\ d \in dead),
         UNCHANGED <<active, prefs, device, dead>>
  PROVE  NoticesInv'
<1>1. /\ notice' \in [Messages -> [Users -> NoticeRow]] /\ push' \in [Messages -> [Users -> Pushing]]
      /\ notice'[m][u] = n /\ push'[m][u] = p
      /\ \A k \in Messages, v \in Users :
           ~(k = m /\ v = u) => notice'[k][v] = notice[k][v] /\ push'[k][v] = push[k][v]
  BY NoticesBefore DEF NoticesTypeOK
<1>2. NoticesTypeOK'
  BY <1>1, NoticesBefore DEF NoticesTypeOK
<1>3. \A k \in Messages, v \in Users :
           \/ notice'[k][v] = notice[k][v] /\ push'[k][v] = push[k][v]
           \/ /\ v \in caster[k].to
              /\ Sound(notice'[k][v], push'[k][v])
              /\ push'[k][v].unknown \subseteq dead'
              /\ \A d \in push'[k][v].unknown \ push'[k][v].refused : token'[d] = "inactive"
  BY <1>1
<1>4. \A d \in Devices :
           /\ token'[d] = "inactive" => d \in dead'
           /\ token[d] = "inactive" /\ d \in dead => token'[d] = "inactive"
  BY NoticesBefore
<1> QED
  BY <1>2, <1>3, <1>4, NoticesKept

LEMMA CastStep ==
  ASSUME NoticesInv, NEW m \in Messages, Cast(m)
  PROVE  NoticesInv'
<1>1. PICK to \in Recipients(m) :
        caster' = [caster EXCEPT ![m] = [@ EXCEPT !.at = "next", !.to = to, !.left = to]]
  BY DEF Cast
<1> DEFINE c == [caster[m] EXCEPT !.at = "next", !.to = to, !.left = to]
<1>2. to \subseteq Users
  BY NoticesBefore DEF Recipients, NoticesTypeOK
<1>3. caster[m].to = {}
  BY NoticesBefore DEF Cast, ToldInTurn
<1>4. c \in Casting /\ c.at = "next" /\ c.to = to /\ c.left = to
  BY <1>2, NoticesBefore DEF Casting
<1>5. caster' = [caster EXCEPT ![m] = c]
  BY <1>1
<1> HIDE DEF c
<1> QED
  BY <1>3, <1>4, <1>5, CasterMoves DEF Cast

LEMMA DefaultIsPreferences == Default \in Preferences
BY DEF Default, Preferences

(* A request that ends keeps its recipients. *)
LEMMA EndsLike ==
  ASSUME NoticesInv, NEW m \in Messages, NEW how \in {"answered", "failed"}
  PROVE  /\ Ended(m, how) \in Casting /\ Ended(m, how).at = how
         /\ Ended(m, how).to = caster[m].to /\ Ended(m, how).left = {}
<1>1. caster[m].to \subseteq Users
  BY NoticesBefore DEF Casting
<1> QED
  BY <1>1, DefaultIsPreferences DEF Ended, NoCaster, Casting

LEMMA NextRecipientStep ==
  ASSUME NoticesInv, NEW m \in Messages, NextRecipient(m)
  PROVE  NoticesInv'
<1>1. /\ caster[m].at = "next" /\ caster[m] \in Casting /\ ToldInTurn(m)
      /\ UNCHANGED <<active, prefs, device, token, dead, notice, push>>
  BY NoticesBefore DEF NextRecipient
<1>2. CASE caster[m].left = {}
  <2>1. caster' = [caster EXCEPT ![m] = Ended(m, "answered")]
    BY <1>2 DEF NextRecipient
  <2>2. \A u \in caster[m].to : notice[m][u].told
    BY <1>1, <1>2 DEF ToldInTurn
  <2> QED
    BY <1>1, <2>1, <2>2, EndsLike, CasterMoves
<1>3. CASE caster[m].left # {}
  <2>1. PICK u \in caster[m].left :
          caster' = [caster EXCEPT ![m] =
            [caster[m] EXCEPT !.at = "row", !.left = caster[m].left \ {u},
                              !.user = u, !.prefs = prefs[u]]]
    BY <1>3 DEF NextRecipient
  <2> DEFINE c == [caster[m] EXCEPT !.at = "row", !.left = caster[m].left \ {u},
                                    !.user = u, !.prefs = prefs[u]]
  <2>2. u \in Users /\ prefs[u] \in Preferences
    BY <1>1, NoticesBefore DEF Casting, NoticesTypeOK
  <2>3. /\ c \in Casting /\ c.at = "row" /\ c.to = caster[m].to
        /\ c.left = caster[m].left \ {u} /\ c.user = u
    BY <1>1, <2>2 DEF Casting
  <2>4. caster' = [caster EXCEPT ![m] = c]
    BY <2>1
  <2> HIDE DEF c
  <2>l. c.left \subseteq c.to
    BY <1>1, <2>3 DEF ToldInTurn
  <2>5. \A v \in c.to \ c.left : notice[m][v].told \/ (c.at = "row" /\ v = c.user)
    BY <1>1, <2>3 DEF ToldInTurn
  <2>6. u \in c.to
    BY <2>3, <1>1 DEF ToldInTurn
  <2> QED
    BY <1>1, <2>3, <2>4, <2>5, <2>6, <2>l, CasterMoves
<1> QED
  BY <1>2, <1>3

LEMMA CastFailsStep ==
  ASSUME NoticesInv, NEW m \in Messages, CastFails(m)
  PROVE  NoticesInv'
BY EndsLike, CasterMoves DEF CastFails

(* Telling a recipient: the row, the delivery in the app, the one by push. *)
LEMMA CreateRowStep ==
  ASSUME NoticesInv, NEW m \in Messages, CreateRow(m)
  PROVE  NoticesInv'
<1> DEFINE u == caster[m].user
           n == [notice[m][u] EXCEPT !.told = TRUE]
           c == [caster[m] EXCEPT !.at = "app"]
<1>1. /\ caster[m].at = "row" /\ caster[m] \in Casting /\ ToldInTurn(m)
      /\ u \in caster[m].to /\ u \in Users
  BY NoticesBefore DEF CreateRow, ToldInTurn, Casting
<1>2. /\ notice[m][u] \in NoticeRow /\ push[m][u] \in Pushing /\ push[m][u].unknown \subseteq dead
      /\ Sound(notice[m][u], push[m][u])
      /\ \A d \in push[m][u].unknown \ push[m][u].refused : token[d] = "inactive"
  BY <1>1, NoticesBefore
<1>3. n \in NoticeRow /\ n.told /\ Sound(n, push[m][u])
  BY <1>2 DEF NoticeRow, Sound
<1>4. c \in Casting /\ c.at = "app" /\ c.to = caster[m].to /\ c.left = caster[m].left /\ c.user = u
  BY <1>1 DEF Casting
<1>5. /\ notice' = [notice EXCEPT ![m] = [@ EXCEPT ![u] = n]]
      /\ caster' = [caster EXCEPT ![m] = c]
      /\ push' = [push EXCEPT ![m] = [@ EXCEPT ![u] = push[m][u]]]
      /\ UNCHANGED <<active, prefs, device, token, dead>>
  BY <1>1, NoticesBefore DEF CreateRow, NoticesTypeOK
<1> HIDE DEF c, n, u
<1>6. /\ caster' \in [Messages -> Casting] /\ caster'[m] = c
      /\ \A k \in Messages : k # m => caster'[k] = caster[k]
  BY <1>4, <1>5, NoticesBefore DEF NoticesTypeOK
<1>7. /\ notice'[m][u] = n /\ \A v \in Users : v # u => notice'[m][v] = notice[m][v]
      /\ \A k \in Messages : k # m => notice'[k] = notice[k]
  BY <1>1, <1>5, NoticesBefore DEF NoticesTypeOK
<1>8. ToldInTurn(m)'
  BY <1>1, <1>3, <1>4, <1>6, <1>7 DEF ToldInTurn, Casting, u
<1>9. \A k \in Messages : ToldInTurn(k)'
  BY <1>6, <1>7, <1>8, NoticesBefore DEF ToldInTurn
<1>10. \A k \in Messages : caster'[k].to = caster[k].to
  BY <1>4, <1>6
<1>11. token' \in [Devices -> {"none", "active", "inactive"}] /\ token' = token
  BY <1>5, NoticesBefore DEF NoticesTypeOK
<1> QED
  BY <1>1, <1>2, <1>3, <1>5, <1>6, <1>9, <1>10, <1>11, NoticeMoves

LEMMA CreateInAppStep ==
  ASSUME NoticesInv, NEW m \in Messages, CreateInApp(m)
  PROVE  NoticesInv'
<1> DEFINE u == caster[m].user
           c == [caster[m] EXCEPT !.at = "push"]
<1>b. PICK b \in BOOLEAN : b = Wants(m, "inApp")
  BY DEF Wants
<1> DEFINE n == [notice[m][u] EXCEPT !.app = b]
<1>1. /\ caster[m].at = "app" /\ caster[m] \in Casting /\ ToldInTurn(m)
      /\ u \in caster[m].to /\ u \in Users
  BY NoticesBefore DEF CreateInApp, ToldInTurn, Casting
<1>2. /\ notice[m][u] \in NoticeRow /\ push[m][u] \in Pushing /\ push[m][u].unknown \subseteq dead
      /\ Sound(notice[m][u], push[m][u])
      /\ \A d \in push[m][u].unknown \ push[m][u].refused : token[d] = "inactive"
  BY <1>1, NoticesBefore
<1>3. n \in NoticeRow /\ n.told = notice[m][u].told /\ Sound(n, push[m][u])
  BY <1>2 DEF NoticeRow, Sound
<1>4. c \in Casting /\ c.at = "push" /\ c.to = caster[m].to /\ c.left = caster[m].left /\ c.user = u
  BY <1>1 DEF Casting
<1>5. /\ notice' = [notice EXCEPT ![m] = [@ EXCEPT ![u] = n]]
      /\ caster' = [caster EXCEPT ![m] = c]
      /\ push' = [push EXCEPT ![m] = [@ EXCEPT ![u] = push[m][u]]]
      /\ UNCHANGED <<active, prefs, device, token, dead>>
  BY <1>1, <1>b, NoticesBefore DEF CreateInApp, NoticesTypeOK
<1> HIDE DEF c, n, u
<1>6. /\ caster' \in [Messages -> Casting] /\ caster'[m] = c
      /\ \A k \in Messages : k # m => caster'[k] = caster[k]
  BY <1>4, <1>5, NoticesBefore DEF NoticesTypeOK
<1>7. /\ notice'[m][u] = n /\ \A v \in Users : v # u => notice'[m][v] = notice[m][v]
      /\ \A k \in Messages : k # m => notice'[k] = notice[k]
  BY <1>1, <1>5, NoticesBefore DEF NoticesTypeOK
<1>8. ToldInTurn(m)'
  BY <1>1, <1>3, <1>4, <1>6, <1>7 DEF ToldInTurn, Casting, u
<1>9. \A k \in Messages : ToldInTurn(k)'
  BY <1>6, <1>7, <1>8, NoticesBefore DEF ToldInTurn
<1>10. \A k \in Messages : caster'[k].to = caster[k].to
  BY <1>4, <1>6
<1>11. token' \in [Devices -> {"none", "active", "inactive"}] /\ token' = token
  BY <1>5, NoticesBefore DEF NoticesTypeOK
<1>12. /\ notice[m][u].told => n.told
       /\ push[m][u].unknown \subseteq dead
       /\ \A d \in push[m][u].unknown \ push[m][u].refused : token'[d] = "inactive"
       /\ \A d \in Devices : token'[d] = token[d] \/ (token'[d] = "inactive" /\ d \in dead)
  BY <1>2, <1>3, <1>11
<1>13. u \in Users /\ u \in caster[m].to /\ n \in NoticeRow /\ push[m][u] \in Pushing /\ Sound(n, push[m][u])
  BY <1>1, <1>2, <1>3
<1>14. caster' \in [Messages -> Casting]
  BY <1>6
<1>15. token' \in [Devices -> {"none", "active", "inactive"}]
  BY <1>11
<1> QED
  BY <1>5, <1>9, <1>10, <1>12, <1>13, <1>14, <1>15, NoticeMoves

LEMMA CreatePushStep ==
  ASSUME NoticesInv, NEW m \in Messages, CreatePush(m)
  PROVE  NoticesInv'
<1> DEFINE u == caster[m].user
           c == [caster[m] EXCEPT !.at = "next"]
           n == IF Wants(m, "push") THEN [notice[m][u] EXCEPT !.push = "QUEUED"] ELSE notice[m][u]
           p == IF Wants(m, "push") THEN [push[m][u] EXCEPT !.at = "begun"] ELSE push[m][u]
<1>1. /\ caster[m].at = "push" /\ caster[m] \in Casting /\ ToldInTurn(m)
      /\ u \in caster[m].to /\ u \in Users
  BY NoticesBefore DEF CreatePush, ToldInTurn, Casting
<1>2. /\ notice[m][u] \in NoticeRow /\ push[m][u] \in Pushing /\ push[m][u].unknown \subseteq dead
      /\ Sound(notice[m][u], push[m][u])
      /\ \A d \in push[m][u].unknown \ push[m][u].refused : token[d] = "inactive"
  BY <1>1, NoticesBefore
<1>3. /\ n \in NoticeRow /\ p \in Pushing /\ n.told = notice[m][u].told /\ Sound(n, p)
      /\ p.unknown = push[m][u].unknown /\ p.refused = push[m][u].refused
  <2>1. CASE Wants(m, "push")
    BY <1>2, <2>1 DEF NoticeRow, Pushing, Sound
  <2>2. CASE ~Wants(m, "push")
    BY <1>2, <2>2
  <2> QED
    BY <2>1, <2>2
<1>4. c \in Casting /\ c.at = "next" /\ c.to = caster[m].to /\ c.left = caster[m].left /\ c.user = u
  BY <1>1 DEF Casting
<1>5. /\ notice' = [notice EXCEPT ![m] = [@ EXCEPT ![u] = n]]
      /\ caster' = [caster EXCEPT ![m] = c]
      /\ push' = [push EXCEPT ![m] = [@ EXCEPT ![u] = p]]
      /\ UNCHANGED <<active, prefs, device, token, dead>>
  <2>1. CASE Wants(m, "push")
    BY <1>1, <2>1, NoticesBefore DEF CreatePush, NoticesTypeOK
  <2>2. CASE ~Wants(m, "push")
    BY <1>1, <2>2, NoticesBefore DEF CreatePush, NoticesTypeOK
  <2> QED
    BY <2>1, <2>2
<1> HIDE DEF c, n, u, p
<1>6. /\ caster' \in [Messages -> Casting] /\ caster'[m] = c
      /\ \A k \in Messages : k # m => caster'[k] = caster[k]
  BY <1>4, <1>5, NoticesBefore DEF NoticesTypeOK
<1>7. /\ notice'[m][u] = n /\ \A v \in Users : v # u => notice'[m][v] = notice[m][v]
      /\ \A k \in Messages : k # m => notice'[k] = notice[k]
  BY <1>1, <1>5, NoticesBefore DEF NoticesTypeOK
<1>8. ToldInTurn(m)'
  BY <1>1, <1>3, <1>4, <1>6, <1>7 DEF ToldInTurn, Casting, u
<1>9. \A k \in Messages : ToldInTurn(k)'
  BY <1>6, <1>7, <1>8, NoticesBefore DEF ToldInTurn
<1>10. \A k \in Messages : caster'[k].to = caster[k].to
  BY <1>4, <1>6
<1>11. token' \in [Devices -> {"none", "active", "inactive"}] /\ token' = token
  BY <1>5, NoticesBefore DEF NoticesTypeOK
<1>12. /\ notice[m][u].told => n.told
       /\ p.unknown \subseteq dead
       /\ \A d \in p.unknown \ p.refused : token'[d] = "inactive"
       /\ \A d \in Devices : token'[d] = token[d] \/ (token'[d] = "inactive" /\ d \in dead)
  BY <1>2, <1>3, <1>11
<1>13. u \in Users /\ u \in caster[m].to /\ n \in NoticeRow /\ p \in Pushing /\ Sound(n, p)
  BY <1>1, <1>2, <1>3
<1>14. caster' \in [Messages -> Casting]
  BY <1>6
<1>15. token' \in [Devices -> {"none", "active", "inactive"}]
  BY <1>11
<1> QED
  BY <1>5, <1>9, <1>10, <1>12, <1>13, <1>14, <1>15, NoticeMoves

-----------------------------------------------------------------------------
(* A step of a push, or of the list: no request tells anybody. *)
LEMMA PushMoves ==
  ASSUME NoticesInv, NEW m \in Messages, NEW u \in Users, NEW n \in NoticeRow, NEW p \in Pushing,
         u \in caster[m].to,
         notice' = [notice EXCEPT ![m] = [@ EXCEPT ![u] = n]],
         push' = [push EXCEPT ![m] = [@ EXCEPT ![u] = p]],
         notice[m][u].told => n.told, Sound(n, p), p.unknown \subseteq dead,
         \A d \in p.unknown \ p.refused : token'[d] = "inactive",
         token' \in [Devices -> {"none", "active", "inactive"}],
         \A d \in Devices : token'[d] = token[d] \/ (token'[d] = "inactive" /\ d \in dead),
         UNCHANGED <<active, prefs, device, dead, caster>>
  PROVE  NoticesInv'
<1>1. \A k \in Messages, v \in Users : notice[k][v].told => notice'[k][v].told
  BY NoticesBefore DEF NoticesTypeOK
<1>2. \A k \in Messages : ToldInTurn(k)'
  <2> SUFFICES ASSUME NEW k \in Messages PROVE ToldInTurn(k)'
    OBVIOUS
  <2>1. ToldInTurn(k) /\ caster[k].to \subseteq Users
    BY NoticesBefore DEF Casting
  <2> QED
    BY <1>1, <2>1 DEF ToldInTurn
<1>3. caster' \in [Messages -> Casting] /\ \A k \in Messages : caster'[k].to = caster[k].to
  BY NoticesBefore DEF NoticesTypeOK
<1> QED
  BY <1>2, <1>3, NoticeMoves

(* What a push knows, and that its user is a recipient. *)
LEMMA PushBefore ==
  ASSUME NoticesInv, NEW m \in Messages, NEW u \in Users
  PROVE  /\ notice[m][u] \in NoticeRow /\ push[m][u] \in Pushing /\ push[m][u].unknown \subseteq dead
         /\ Sound(notice[m][u], push[m][u])
         /\ \A d \in push[m][u].unknown \ push[m][u].refused : token[d] = "inactive"
         /\ push[m][u].at # "idle" => u \in caster[m].to
         /\ notice[m][u].told => u \in caster[m].to
         /\ token \in [Devices -> {"none", "active", "inactive"}] /\ dead \subseteq Devices
         /\ notice = [notice EXCEPT ![m] = [@ EXCEPT ![u] = notice[m][u]]]
         /\ push = [push EXCEPT ![m] = [@ EXCEPT ![u] = push[m][u]]]
BY NoticesBefore DEF NoticesTypeOK

LEMMA FindTokensStep ==
  ASSUME NoticesInv, NEW m \in Messages, NEW u \in Users, FindTokens(m, u)
  PROVE  NoticesInv'
<1> DEFINE tokens == {d \in device : OwnerOf[d] = u /\ token[d] = "active"}
           p == [push[m][u] EXCEPT !.at = "sending", !.todo = tokens]
<1>1. tokens \subseteq Devices /\ push[m][u].at = "begun" /\ push[m][u] \in Pushing
  BY NoticesBefore DEF FindTokens, NoticesTypeOK
<1>2. push' = [push EXCEPT ![m] = [@ EXCEPT ![u] = p]]
  BY PushBefore DEF FindTokens, NoticesTypeOK
<1>3. /\ p \in Pushing /\ p.at = "sending" /\ p.unknown = push[m][u].unknown
      /\ p.refused = push[m][u].refused /\ p.failed = push[m][u].failed
  BY <1>1 DEF Pushing
<1> HIDE DEF p
<1>4. Sound(notice[m][u], p)
  BY <1>1, <1>3, PushBefore DEF Sound
<1>5. /\ u \in caster[m].to /\ notice[m][u] \in NoticeRow /\ p.unknown \subseteq dead
      /\ \A d \in p.unknown \ p.refused : token[d] = "inactive"
  BY <1>1, <1>3, PushBefore
<1>6. notice' = [notice EXCEPT ![m] = [@ EXCEPT ![u] = notice[m][u]]]
      /\ token' = token /\ token' \in [Devices -> {"none", "active", "inactive"}]
      /\ UNCHANGED <<active, prefs, device, dead, caster>>
  BY PushBefore DEF FindTokens
<1> QED
  BY <1>2, <1>3, <1>4, <1>5, <1>6, PushMoves

LEMMA SendStep ==
  ASSUME NoticesInv, NEW m \in Messages, NEW u \in Users, NEW d \in Devices, Send(m, u, d)
  PROVE  NoticesInv'
<1>1. /\ push[m][u].at = "sending" /\ push[m][u].refused = {} /\ push[m][u] \in Pushing
      /\ Sound(notice[m][u], push[m][u])
  BY PushBefore DEF Send
<1>2. PICK p \in Pushing :
        /\ push' = [push EXCEPT ![m] = [@ EXCEPT ![u] = p]]
        /\ p.at = "sending"
        /\ push[m][u].failed => p.failed
        /\ \/ p.refused = {} /\ p.unknown = push[m][u].unknown
           \/ /\ d \in dead /\ p.failed
              /\ p.refused = {d} /\ p.unknown = push[m][u].unknown \cup {d}
  <2> DEFINE p1 == [push[m][u] EXCEPT !.todo = @ \ {d}]
             p2 == [p1 EXCEPT !.failed = TRUE]
             p3 == [p2 EXCEPT !.refused = {d}, !.unknown = @ \cup {d}]
  <2>1. CASE push' = [push EXCEPT ![m] = [@ EXCEPT ![u] = p1]]
    <3>1. /\ p1 \in Pushing /\ p1.at = "sending" /\ p1.failed = push[m][u].failed
          /\ p1.refused = {} /\ p1.unknown = push[m][u].unknown
      BY <1>1 DEF Pushing
    <3> HIDE DEF p1
    <3> QED
      BY <2>1, <3>1
  <2>2. CASE push' = [push EXCEPT ![m] = [@ EXCEPT ![u] = p2]]
    <3>1. /\ p2 \in Pushing /\ p2.at = "sending" /\ p2.failed
          /\ p2.refused = {} /\ p2.unknown = push[m][u].unknown
      BY <1>1 DEF Pushing
    <3> HIDE DEF p2
    <3> QED
      BY <2>2, <3>1
  <2>3. CASE d \in dead /\ push' = [push EXCEPT ![m] = [@ EXCEPT ![u] = p3]]
    <3>1. /\ p3 \in Pushing /\ p3.at = "sending" /\ p3.failed
          /\ p3.refused = {d} /\ p3.unknown = push[m][u].unknown \cup {d}
      BY <1>1 DEF Pushing
    <3> HIDE DEF p3
    <3> QED
      BY <2>3, <3>1
  <2> QED
    <3> HIDE DEF p1, p2, p3
    <3>1. \/ push' = [push EXCEPT ![m][u] = p1]
          \/ push' = [push EXCEPT ![m][u] = p2]
          \/ d \in dead /\ push' = [push EXCEPT ![m][u] = p3]
      BY DEF Send, p1, p2, p3
    <3> QED
      BY <2>1, <2>2, <2>3, <3>1
<1>3. Sound(notice[m][u], p)
  BY <1>1, <1>2 DEF Sound
<1>4. p.unknown \subseteq dead /\ \A e \in p.unknown \ p.refused : token[e] = "inactive"
  BY <1>1, <1>2, PushBefore
<1>5. u \in caster[m].to /\ notice[m][u] \in NoticeRow
  BY <1>1, PushBefore
<1>6. notice' = [notice EXCEPT ![m] = [@ EXCEPT ![u] = notice[m][u]]]
      /\ token' = token /\ token' \in [Devices -> {"none", "active", "inactive"}]
      /\ UNCHANGED <<active, prefs, device, dead, caster>>
  BY PushBefore DEF Send
<1> QED
  BY <1>2, <1>3, <1>4, <1>5, <1>6, PushMoves

LEMMA HandleTokenResultStep ==
  ASSUME NoticesInv, NEW m \in Messages, NEW u \in Users, HandleTokenResult(m, u)
  PROVE  NoticesInv'
<1> DEFINE p == [push[m][u] EXCEPT !.refused = {}]
<1>1. /\ push[m][u].at = "sending" /\ push[m][u] \in Pushing
      /\ Sound(notice[m][u], push[m][u]) /\ push[m][u].unknown \subseteq dead
  BY PushBefore DEF HandleTokenResult
<1>2. /\ p \in Pushing /\ p.at = "sending" /\ p.unknown = push[m][u].unknown
      /\ p.refused = {} /\ p.failed = push[m][u].failed
  BY <1>1 DEF Pushing
<1>3. push' = [push EXCEPT ![m] = [@ EXCEPT ![u] = p]]
  BY PushBefore DEF HandleTokenResult, NoticesTypeOK
<1> HIDE DEF p
<1>4. Sound(notice[m][u], p)
  BY <1>1, <1>2 DEF Sound
<1>5. /\ token' \in [Devices -> {"none", "active", "inactive"}]
      /\ \A d \in Devices : token'[d] = IF d \in push[m][u].refused THEN "inactive" ELSE token[d]
  BY PushBefore DEF HandleTokenResult
<1>6. push[m][u].refused \subseteq dead
  BY <1>1 DEF Sound
<1>7. /\ \A d \in p.unknown \ p.refused : token'[d] = "inactive"
      /\ \A d \in Devices : token'[d] = token[d] \/ (token'[d] = "inactive" /\ d \in dead)
  BY <1>1, <1>2, <1>5, <1>6, PushBefore
<1>8. u \in caster[m].to /\ notice[m][u] \in NoticeRow /\ p.unknown \subseteq dead
  BY <1>1, <1>2, PushBefore
<1>9. notice' = [notice EXCEPT ![m] = [@ EXCEPT ![u] = notice[m][u]]]
      /\ UNCHANGED <<active, prefs, device, dead, caster>>
  BY PushBefore DEF HandleTokenResult
<1> QED
  BY <1>2, <1>3, <1>4, <1>5, <1>7, <1>8, <1>9, PushMoves

(* A push ends, with its result or with none. *)
LEMMA PushEndsStep ==
  ASSUME NoticesInv, NEW m \in Messages, NEW u \in Users, PushEnds(m, u) \/ PushFails(m, u)
  PROVE  NoticesInv'
<1>1. PICK how \in {"SENT", "FAILED"} :
        /\ how = "SENT" => ~push[m][u].failed
        /\ notice' = [notice EXCEPT ![m][u].push = how]
        /\ push' = [push EXCEPT ![m][u].at = "done"]
        /\ push[m][u].at # "idle"
        /\ UNCHANGED <<active, prefs, device, token, dead, caster>>
  BY DEF PushEnds, PushFails, Result
<1> DEFINE n == [notice[m][u] EXCEPT !.push = how]
           p == [push[m][u] EXCEPT !.at = "done"]
<1>2. push[m][u] \in Pushing /\ notice[m][u] \in NoticeRow /\ Sound(notice[m][u], push[m][u])
  BY PushBefore
<1>3. /\ n \in NoticeRow /\ n.push = how /\ n.told = notice[m][u].told
      /\ n.gone = notice[m][u].gone /\ n.read = notice[m][u].read
  BY <1>2 DEF NoticeRow
<1>4. /\ p \in Pushing /\ p.at = "done" /\ p.unknown = push[m][u].unknown
      /\ p.refused = push[m][u].refused /\ p.failed = push[m][u].failed
  BY <1>2 DEF Pushing
<1>5. notice' = [notice EXCEPT ![m] = [@ EXCEPT ![u] = n]]
      /\ push' = [push EXCEPT ![m] = [@ EXCEPT ![u] = p]]
  BY <1>1, NoticesBefore DEF NoticesTypeOK
<1> HIDE DEF n, p
<1>6. Sound(n, p)
  BY <1>1, <1>2, <1>3, <1>4 DEF Sound
<1>7. /\ u \in caster[m].to /\ p.unknown \subseteq dead
      /\ \A d \in p.unknown \ p.refused : token[d] = "inactive"
  BY <1>1, <1>4, PushBefore
<1>8. token' = token /\ token' \in [Devices -> {"none", "active", "inactive"}]
      /\ UNCHANGED <<active, prefs, device, dead, caster>>
  BY <1>1, PushBefore
<1> QED
  BY <1>3, <1>4, <1>5, <1>6, <1>7, <1>8, PushMoves

(* The list of a recipient changes what is read of it, and what is gone.   *)
LEMMA ListMoves ==
  ASSUME NoticesInv, notice' \in [Messages -> [Users -> NoticeRow]],
         \A m \in Messages, u \in Users :
           \/ notice'[m][u] = notice[m][u]
           \/ /\ notice[m][u].told /\ notice'[m][u].told
              /\ notice'[m][u].push = notice[m][u].push
              /\ notice'[m][u].gone = "cleared" => notice'[m][u].read,
         UNCHANGED <<active, prefs, device, token, dead, caster, push>>
  PROVE  NoticesInv'
<1>1. NoticesTypeOK'
  BY NoticesBefore DEF NoticesTypeOK
<1>2. \A m \in Messages : ToldInTurn(m)' /\ caster[m].to \subseteq caster'[m].to
  <2> SUFFICES ASSUME NEW m \in Messages PROVE ToldInTurn(m)'
    OBVIOUS
  <2>1. ToldInTurn(m) /\ caster[m].to \subseteq Users
    BY NoticesBefore DEF Casting
  <2>2. \A u \in Users : notice[m][u].told => notice'[m][u].told
    OBVIOUS
  <2> QED
    BY <2>1, <2>2 DEF ToldInTurn
<1>3. ASSUME NEW m \in Messages, NEW u \in Users, notice'[m][u] # notice[m][u]
      PROVE  /\ u \in caster[m].to
             /\ Sound(notice'[m][u], push'[m][u])
             /\ push'[m][u].unknown \subseteq dead'
             /\ \A d \in push'[m][u].unknown \ push'[m][u].refused : token'[d] = "inactive"
  <2>1. /\ notice[m][u].told /\ notice'[m][u].push = notice[m][u].push
        /\ notice'[m][u].gone = "cleared" => notice'[m][u].read
        /\ push'[m][u] = push[m][u]
    BY <1>3
  <2>2. Sound(notice'[m][u], push[m][u])
    BY <2>1, PushBefore DEF Sound
  <2> QED
    BY <2>1, <2>2, PushBefore
<1> QED
  BY <1>1, <1>2, <1>3, NoticesBefore, NoticesKept

LEMMA ListSteps ==
  ASSUME NoticesInv, NEW u \in Users,
         \/ \E m \in Messages : MarkRead(m, u) \/ ArchiveOne(m, u)
         \/ MarkAllRead(u) \/ ClearRead(u)
  PROVE  NoticesInv'
<1>t. notice \in [Messages -> [Users -> NoticeRow]]
  BY NoticesBefore DEF NoticesTypeOK
<1>1. ASSUME NEW m \in Messages, MarkRead(m, u) \/ ArchiveOne(m, u) PROVE NoticesInv'
  <2>1. PICK n \in {[notice[m][u] EXCEPT !.read = TRUE], [notice[m][u] EXCEPT !.gone = "archived"]} :
          notice' = [notice EXCEPT ![m] = [@ EXCEPT ![u] = n]]
    BY <1>1, <1>t DEF MarkRead, ArchiveOne
  <2>2. notice[m][u] \in NoticeRow /\ notice[m][u].told
        /\ UNCHANGED <<active, prefs, device, token, dead, caster, push>>
    BY <1>1, <1>t DEF MarkRead, ArchiveOne, Listed
  <2>3. /\ n \in NoticeRow /\ n.told /\ n.push = notice[m][u].push
        /\ n.gone = "cleared" => n.read
    <3>1. CASE n = [notice[m][u] EXCEPT !.read = TRUE]
      BY <2>2, <3>1 DEF NoticeRow
    <3>2. CASE n = [notice[m][u] EXCEPT !.gone = "archived"]
      BY <2>2, <3>2 DEF NoticeRow
    <3> QED
      BY <3>1, <3>2
  <2>4. /\ notice' \in [Messages -> [Users -> NoticeRow]]
        /\ \A k \in Messages, v \in Users :
             notice'[k][v] = IF k = m /\ v = u THEN n ELSE notice[k][v]
    BY <1>t, <2>1, <2>3
  <2> QED
    BY <2>2, <2>3, <2>4, ListMoves
<1>2. CASE MarkAllRead(u)
  <2>1. ASSUME NEW m \in Messages
        PROVE  /\ notice'[m] \in [Users -> NoticeRow]
               /\ \A v \in Users :
                    \/ notice'[m][v] = notice[m][v]
                    \/ /\ notice[m][v].told /\ notice'[m][v].told
                       /\ notice'[m][v].push = notice[m][v].push
                       /\ notice'[m][v].gone = "cleared" => notice'[m][v].read
    <3> DEFINE b == notice[m][u].read \/ Listed(m, u)
               n == [notice[m][u] EXCEPT !.read = b]
    <3>1. notice'[m] = [notice[m] EXCEPT ![u] = n]
      BY <1>2, <1>t DEF MarkAllRead
    <3>2. notice[m][u] \in NoticeRow /\ b \in BOOLEAN
      BY <1>t DEF Listed
    <3>3. /\ n \in NoticeRow /\ n.read = b /\ n.told = notice[m][u].told
          /\ n.push = notice[m][u].push /\ n.gone = notice[m][u].gone
      <4> HIDE DEF b
      <4> QED
        BY <3>2 DEF NoticeRow
    <3>4. notice[m][u].read => b
      OBVIOUS
    <3>5. ~notice[m][u].told => n = notice[m][u]
      <4> SUFFICES ASSUME ~notice[m][u].told PROVE n = notice[m][u]
        OBVIOUS
      <4>1. b = notice[m][u].read
        <5>1. ~Listed(m, u)
          BY DEF Listed
        <5>2. notice[m][u].read \in BOOLEAN
          BY <3>2 DEF NoticeRow
        <5> DEFINE r == notice[m][u].read
        <5> HIDE DEF r
        <5>3. b = (r \/ Listed(m, u))
          BY DEF r
        <5>4. b = r
          BY <5>1, <5>2, <5>3 DEF r
        <5> QED
          BY <5>4 DEF r
      <4> HIDE DEF b
      <4> QED
        BY <3>2, <4>1 DEF NoticeRow
    <3>6. notice[m][u].gone = "cleared" => notice[m][u].read
      BY PushBefore DEF Sound
    <3> HIDE DEF n, b
    <3>7. /\ notice'[m] \in [Users -> NoticeRow] /\ notice'[m][u] = n
          /\ \A v \in Users : v # u => notice'[m][v] = notice[m][v]
      BY <1>t, <3>1, <3>3
    <3>8. ASSUME NEW v \in Users
          PROVE  \/ notice'[m][v] = notice[m][v]
                 \/ /\ notice[m][v].told /\ notice'[m][v].told
                    /\ notice'[m][v].push = notice[m][v].push
                    /\ notice'[m][v].gone = "cleared" => notice'[m][v].read
      <4>1. CASE v = u
        BY <3>3, <3>4, <3>5, <3>6, <3>7, <4>1
      <4>2. CASE v # u
        BY <3>7, <4>2
      <4> QED
        BY <4>1, <4>2
    <3> QED
      BY <3>7, <3>8
  <2>2. notice' \in [Messages -> [Users -> NoticeRow]]
    BY <1>2, <2>1 DEF MarkAllRead
  <2> QED
    BY <1>2, <2>1, <2>2, ListMoves DEF MarkAllRead
<1>3. CASE ClearRead(u)
  <2>1. ASSUME NEW m \in Messages
        PROVE  /\ notice'[m] \in [Users -> NoticeRow]
               /\ \A v \in Users :
                    \/ notice'[m][v] = notice[m][v]
                    \/ /\ notice[m][v].told /\ notice'[m][v].told
                       /\ notice'[m][v].push = notice[m][v].push
                       /\ notice'[m][v].gone = "cleared" => notice'[m][v].read
    <3> DEFINE n == [notice[m][u] EXCEPT !.gone = "cleared"]
    <3>1. CASE Listed(m, u) /\ notice[m][u].read
      <4>1. notice'[m] = [notice[m] EXCEPT ![u] = n]
        BY <1>3, <1>t, <3>1 DEF ClearRead
      <4>2. /\ n \in NoticeRow /\ n.read /\ n.told /\ notice[m][u].told
            /\ n.push = notice[m][u].push
        <5>1. notice[m][u] \in NoticeRow
          BY <1>t
        <5>2. notice[m][u].told /\ notice[m][u].read
          BY <3>1 DEF Listed
        <5> QED
          BY <5>1, <5>2 DEF NoticeRow
      <4> HIDE DEF n
      <4> QED
        BY <1>t, <4>1, <4>2
    <3>2. CASE ~(Listed(m, u) /\ notice[m][u].read)
      BY <1>3, <1>t, <3>2 DEF ClearRead
    <3> QED
      BY <3>1, <3>2
  <2>2. notice' \in [Messages -> [Users -> NoticeRow]]
    BY <1>3, <2>1 DEF ClearRead
  <2> QED
    BY <1>3, <2>1, <2>2, ListMoves DEF ClearRead
<1> QED
  BY <1>1, <1>2, <1>3

(* What changes beside: preferences, tokens, apps, devices, accounts. *)
LEMMA BesideSteps ==
  ASSUME NoticesInv,
         \/ \E u \in Users : UpdatePreferences(u) \/ AccountMoves(u)
         \/ \E d \in Devices : RegisterPushToken(d) \/ AppRemoved(d) \/ DeviceMoves(d)
  PROVE  NoticesInv'
<1>1. UNCHANGED <<notice, caster, push>>
  BY DEF UpdatePreferences, AccountMoves, RegisterPushToken, AppRemoved, DeviceMoves
<1>2. /\ active' \subseteq Users /\ prefs' \in [Users -> Preferences]
      /\ device' \subseteq Devices
  BY NoticesBefore DEF NoticesTypeOK, UpdatePreferences, AccountMoves,
                       RegisterPushToken, AppRemoved, DeviceMoves
<1>3. /\ token' \in [Devices -> {"none", "active", "inactive"}]
      /\ dead \subseteq dead' /\ dead' \subseteq Devices
      /\ \A d \in Devices : token'[d] = token[d] \/ (d \notin dead /\ token'[d] = "active")
  BY NoticesBefore DEF NoticesTypeOK, UpdatePreferences, AccountMoves,
                       RegisterPushToken, AppRemoved, DeviceMoves
<1>4. NoticesTypeOK'
  BY <1>1, <1>2, <1>3, NoticesBefore DEF NoticesTypeOK
<1>5. \A m \in Messages : ToldInTurn(m)' /\ caster[m].to \subseteq caster'[m].to
  BY <1>1, NoticesBefore DEF ToldInTurn
<1>6. \A d \in Devices :
           /\ token'[d] = "inactive" => d \in dead'
           /\ token[d] = "inactive" /\ d \in dead => token'[d] = "inactive"
  BY <1>3, NoticesBefore
<1> QED
  BY <1>1, <1>3, <1>4, <1>5, <1>6, NoticesKept

(* The server stops: a request that has not answered has failed, and the   *)
(* pushes under way are lost.                                              *)
LEMMA StopStep ==
  ASSUME NoticesInv, Stop
  PROVE  NoticesInv'
<1>1. ASSUME NEW m \in Messages
      PROVE  /\ caster'[m] \in Casting /\ caster'[m].to = caster[m].to /\ ToldInTurn(m)'
  <2>1. CASE caster[m].at \in {"idle", "answered"}
    <3>1. caster'[m] = caster[m]
      BY <2>1 DEF Stop
    <3> QED
      BY <3>1, NoticesBefore DEF ToldInTurn, Stop
  <2>2. CASE caster[m].at \notin {"idle", "answered"}
    <3>1. caster'[m] = Ended(m, "failed")
      BY <2>2 DEF Stop
    <3>2. caster'[m].at = "failed" /\ caster'[m].left = {}
      BY <3>1, EndsLike
    <3> QED
      BY <3>1, <3>2, EndsLike DEF ToldInTurn
  <2> QED
    BY <2>1, <2>2
<1>2. ASSUME NEW m \in Messages, NEW u \in Users
      PROVE  /\ push'[m][u] \in Pushing
             /\ \/ push'[m][u] = push[m][u]
                \/ /\ u \in caster[m].to
                   /\ Sound(notice[m][u], push'[m][u])
                   /\ push'[m][u].unknown = push[m][u].unknown
                   /\ push'[m][u].refused = push[m][u].refused
  <2> DEFINE p == [push[m][u] EXCEPT !.at = "lost"]
  <2>1. push[m][u] \in Pushing /\ Sound(notice[m][u], push[m][u])
    BY PushBefore
  <2>2. CASE push[m][u].at \in {"idle", "done"}
    BY <2>1, <2>2 DEF Stop
  <2>3. CASE push[m][u].at \notin {"idle", "done"}
    <3>1. push'[m][u] = p /\ u \in caster[m].to
      BY <2>3, PushBefore DEF Stop
    <3>2. /\ p \in Pushing /\ p.at = "lost" /\ p.unknown = push[m][u].unknown
          /\ p.refused = push[m][u].refused /\ p.failed = push[m][u].failed
      BY <2>1 DEF Pushing
    <3> HIDE DEF p
    <3>3. Sound(notice[m][u], p)
      BY <2>1, <2>3, <3>2 DEF Sound
    <3> QED
      BY <3>1, <3>2, <3>3
  <2> QED
    BY <2>2, <2>3
<1>3. UNCHANGED <<active, prefs, device, token, dead, notice>>
  BY DEF Stop
<1>4. caster' \in [Messages -> Casting]
  <2>1. caster' = [m \in Messages |-> caster'[m]]
    BY DEF Stop
  <2> QED
    BY <1>1, <2>1
<1>5. push' \in [Messages -> [Users -> Pushing]]
  <2>1. \A m \in Messages : push'[m] = [u \in Users |-> push'[m][u]]
    BY DEF Stop
  <2>2. push' = [m \in Messages |-> push'[m]]
    BY DEF Stop
  <2>3. \A m \in Messages : push'[m] \in [Users -> Pushing]
    BY <1>2, <2>1
  <2> QED
    BY <2>2, <2>3
<1>6. NoticesTypeOK'
  BY <1>3, <1>4, <1>5, NoticesBefore DEF NoticesTypeOK
<1>7. \A m \in Messages, u \in Users :
           \/ notice'[m][u] = notice[m][u] /\ push'[m][u] = push[m][u]
           \/ /\ u \in caster[m].to
              /\ Sound(notice'[m][u], push'[m][u])
              /\ push'[m][u].unknown \subseteq dead'
              /\ \A d \in push'[m][u].unknown \ push'[m][u].refused : token'[d] = "inactive"
  BY <1>2, <1>3, PushBefore
<1>8. \A m \in Messages : ToldInTurn(m)' /\ caster[m].to \subseteq caster'[m].to
  BY <1>1
<1>9. \A d \in Devices :
           /\ token'[d] = "inactive" => d \in dead'
           /\ token[d] = "inactive" /\ d \in dead => token'[d] = "inactive"
  BY <1>3, NoticesBefore
<1> QED
  BY <1>3, <1>6, <1>7, <1>8, <1>9, NoticesKept

-----------------------------------------------------------------------------
LEMMA NoticesInitially == NoticesInit => NoticesInv
<1> SUFFICES ASSUME NoticesInit PROVE NoticesInv
  OBVIOUS
<1>1. NoNotice \in NoticeRow /\ NoPush \in Pushing /\ NoCaster \in Casting
  BY DefaultIsPreferences DEF NoNotice, NoticeRow, NoPush, Pushing, NoCaster, Casting
<1>2. NoticesTypeOK
  BY <1>1 DEF NoticesInit, NoticesTypeOK
<1>3. \A m \in Messages : ToldInTurn(m) /\ \A u \in Users : PushStands(m, u)
  BY DEF NoticesInit, ToldInTurn, PushStands, NoCaster, NoPush, NoNotice
<1>4. NoticesTold
  BY DEF NoticesInit, NoticesTold, NoNotice, NoPush, NoCaster
<1> QED
  BY <1>2, <1>3, <1>4 DEF NoticesInv

LEMMA NoticesNextKeeps == NoticesInv /\ [NoticesNext]_noticeVars => NoticesInv'
<1> SUFFICES ASSUME NoticesInv, [NoticesNext]_noticeVars PROVE NoticesInv'
  OBVIOUS
<1>1. ASSUME NEW m \in Messages,
             Cast(m) \/ NextRecipient(m) \/ CreateRow(m) \/ CreateInApp(m) \/ CreatePush(m)
               \/ CastFails(m)
      PROVE  NoticesInv'
  BY <1>1, CastStep, NextRecipientStep, CreateRowStep, CreateInAppStep, CreatePushStep,
     CastFailsStep
<1>2. ASSUME NEW m \in Messages, NEW u \in Users,
             \/ FindTokens(m, u) \/ HandleTokenResult(m, u) \/ PushEnds(m, u) \/ PushFails(m, u)
             \/ \E d \in Devices : Send(m, u, d)
      PROVE  NoticesInv'
  BY <1>2, FindTokensStep, HandleTokenResultStep, PushEndsStep, SendStep
<1>3. ASSUME NEW u \in Users,
             \/ \E m \in Messages : MarkRead(m, u) \/ ArchiveOne(m, u)
             \/ MarkAllRead(u) \/ ClearRead(u)
      PROVE  NoticesInv'
  BY <1>3, ListSteps
<1>4. CASE \/ \E u \in Users : UpdatePreferences(u) \/ AccountMoves(u)
           \/ \E d \in Devices : RegisterPushToken(d) \/ AppRemoved(d) \/ DeviceMoves(d)
  BY <1>4, BesideSteps
<1>5. CASE Stop
  BY <1>5, StopStep
<1>6. CASE UNCHANGED noticeVars
  <2>1. NoticesTypeOK'
    BY <1>6, NoticesBefore DEF noticeVars, NoticesTypeOK
  <2>2. \A m \in Messages : ToldInTurn(m)' /\ caster[m].to \subseteq caster'[m].to
    BY <1>6, NoticesBefore DEF noticeVars, ToldInTurn
  <2> QED
    BY <1>6, <2>1, <2>2, NoticesBefore, NoticesKept DEF noticeVars
<1> QED
  BY <1>1, <1>2, <1>3, <1>4, <1>5, <1>6 DEF NoticesNext

(* Whatever order requests, pushes and the recipient's own taps take, and  *)
(* wherever the server stops: who was told, what is still waited for, and  *)
(* which tokens are given up (notifyUsers, createAndDeliver and            *)
(* deliverPushNotification of notifications.service, sendToUser of         *)
(* push.service).                                                          *)
THEOREM Told == NoticesInit /\ [][NoticesNext]_noticeVars => []NoticesTold
<1>1. NoticesInit => NoticesInv
  BY NoticesInitially
<1>2. NoticesInv /\ [NoticesNext]_noticeVars => NoticesInv'
  BY NoticesNextKeeps
<1>3. NoticesInv => NoticesTold
  BY DEF NoticesInv
<1> QED
  BY <1>1, <1>2, <1>3, PTL
=============================================================================
