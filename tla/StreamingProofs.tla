-------------------------- MODULE StreamingProofs --------------------------
(***************************************************************************)
(* The request cache and the streaming server, for every number of         *)
(* requests and tokens, every maxInFlight and every cacheTTL.              *)
(***************************************************************************)
EXTENDS Streaming, FiniteSetTheorems, TLAPS

\* Types, and that only finitely many entries were inserted.
CacheTypeOK ==
  /\ now \in Nat
  /\ ll \in Seq(Entry)
  /\ tokens \in [DOMAIN tokens -> Entry]
  /\ inserted \subseteq Requests
  /\ waiting \subseteq Entry /\ IsFiniteSet(waiting)
  /\ served \in [Requests -> Nat]
  /\ refused \in BOOLEAN

\* The entries in the list were inserted, were not given out, and are young.
EntriesWait ==
  \A i \in 1..Len(ll) :
    /\ ll[i] \in waiting
    /\ ll[i].req \in inserted
    /\ served[ll[i].req] = 0
    /\ ll[i].expireTime <= now + CacheTTL

\* What was not inserted was not given out.
NotServedBefore == \A r \in Requests : r \notin inserted => served[r] = 0

CacheInv ==
  CacheTypeOK /\ CacheOK /\ EntriesWait /\ NotServedBefore /\ ServedOnce /\ LiveRequestsKept

-----------------------------------------------------------------------------
(* The operations of the list.                                             *)

\* A new entry comes first and the others move back one place.
LEMMA PushFrontFacts ==
  ASSUME NEW l \in Seq(Entry), NEW e \in Entry
  PROVE  /\ PushFront(l, e) \in Seq(Entry)
         /\ Len(PushFront(l, e)) = Len(l) + 1
         /\ PushFront(l, e)[1] = e
         /\ \A i \in 2..(Len(l) + 1) : PushFront(l, e)[i] = l[i - 1]
<1>1. \A i \in 1..(Len(l) + 1) : (IF i = 1 THEN e ELSE l[i - 1]) \in Entry
  OBVIOUS
<1>2. PushFront(l, e) \in [1..(Len(l) + 1) -> Entry]
  BY <1>1, Zenon DEF PushFront
<1>. QED  BY <1>2 DEF PushFront

\* Taking out the k-th entry moves the ones behind it one place forward.
LEMMA WithoutIndexFacts ==
  ASSUME NEW l \in Seq(Entry), NEW k \in 1..Len(l)
  PROVE  /\ WithoutIndex(l, k) \in Seq(Entry)
         /\ Len(WithoutIndex(l, k)) = Len(l) - 1
         /\ \A i \in 1..(Len(l) - 1) :
              WithoutIndex(l, k)[i] = IF i < k THEN l[i] ELSE l[i + 1]
<1>1. \A i \in 1..(Len(l) - 1) : (IF i < k THEN l[i] ELSE l[i + 1]) \in Entry
  OBVIOUS
<1>2. WithoutIndex(l, k) \in [1..(Len(l) - 1) -> Entry]
  BY <1>1, Zenon DEF WithoutIndex
<1>. QED  BY <1>2 DEF WithoutIndex

\* What gc leaves is the first k entries.
LEMMA CollectedFacts ==
  ASSUME ll \in Seq(Entry), NEW k \in 0..Len(ll)
  PROVE  /\ Collected(k) \in Seq(Entry)
         /\ Len(Collected(k)) = k
         /\ \A i \in 1..k : Collected(k)[i] = ll[i]
<1>1. \A i \in 1..k : ll[i] \in Entry
  OBVIOUS
<1>2. Collected(k) \in [1..k -> Entry]
  BY <1>1, Zenon DEF Collected
<1>. QED  BY <1>2 DEF Collected

-----------------------------------------------------------------------------
(* Collection.                                                             *)

\* A live entry that waits is in the list.
LEMMA LiveInList ==
  ASSUME CacheInv, NEW e \in waiting, now <= e.expireTime
  PROVE  \E i \in 1..Len(ll) : ll[i] = e
<1>1. e.token \in DOMAIN tokens /\ tokens[e.token] = e
  BY DEF CacheInv, LiveRequestsKept
<1>2. PICK i \in 1..Len(ll) : ll[i].token = e.token
  BY <1>1 DEF CacheInv, CacheOK
<1>. QED  BY <1>1, <1>2 DEF CacheInv, CacheOK

\* After gc the list is the first k entries and the map holds just these; no
\* entry that is live was among the others.
LEMMA GcFacts ==
  ASSUME CacheInv, NEW k \in 0..Len(ll), Kept(k)
  PROVE  /\ DOMAIN Without(tokens, Gone(k)) = {ll[i].token : i \in 1..k}
         /\ \A i \in 1..k : Without(tokens, Gone(k))[ll[i].token] = ll[i]
         /\ Without(tokens, Gone(k)) \in [DOMAIN Without(tokens, Gone(k)) -> Entry]
         /\ \A e \in waiting : now <= e.expireTime => \E i \in 1..k : ll[i] = e
<1>. USE DEF CacheInv, CacheTypeOK, CacheOK
<1>1. DOMAIN Without(tokens, Gone(k)) = DOMAIN tokens \ Gone(k)
  BY DEF Without
<1>2. ASSUME NEW i \in 1..k PROVE ll[i].token \notin Gone(k)
  <2>1. ASSUME NEW j \in (k + 1)..Len(ll) PROVE ll[i].token # ll[j].token
    <3>1. i \in 1..Len(ll) /\ j \in 1..Len(ll) /\ i < j
      OBVIOUS
    <3>. QED  BY <3>1
  <2>. QED  BY <2>1 DEF Gone
<1>3. \A i \in 1..Len(ll) : i \in 1..k \/ i \in (k + 1)..Len(ll)
  OBVIOUS
<1>4. DOMAIN tokens \ Gone(k) = {ll[i].token : i \in 1..k}
  BY <1>2, <1>3 DEF Gone
<1>5. \A i \in 1..k : Without(tokens, Gone(k))[ll[i].token] = ll[i]
  BY <1>1, <1>4 DEF Without
<1>6. Without(tokens, Gone(k)) \in [DOMAIN Without(tokens, Gone(k)) -> Entry]
  BY <1>1 DEF Without
<1>7. ASSUME NEW e \in waiting, now <= e.expireTime PROVE \E i \in 1..k : ll[i] = e
  <2>1. PICK i \in 1..Len(ll) : ll[i] = e
    BY <1>7, LiveInList
  <2>2. i \notin (k + 1)..Len(ll)
    BY <1>7, <2>1, SMTT(30) DEF Kept, Expired, Entry
  <2>. QED  BY <2>1, <2>2, <1>3
<1>. QED  BY <1>1, <1>4, <1>5, <1>6, <1>7

\* gc alone keeps the invariant.
LEMMA GcInv ==
  ASSUME CacheInv, NEW k \in 0..Len(ll), Kept(k), k <= MaxInFlight,
         ll' = Collected(k), tokens' = Without(tokens, Gone(k)), refused' \in BOOLEAN,
         UNCHANGED <<now, inserted, waiting, served>>
  PROVE  CacheInv'
<1>. USE CacheAssumption
<1>0. Collected(k) \in Seq(Entry) /\ Len(Collected(k)) = k
      /\ \A i \in 1..k : Collected(k)[i] = ll[i]
  BY CollectedFacts DEF CacheInv, CacheTypeOK
<1>1. CacheTypeOK'
  BY <1>0, GcFacts, ZenonT(30) DEF CacheInv, CacheTypeOK
<1>2. CacheOK'
  <2>1. k \in Nat /\ \A i \in 1..k : i \in 1..Len(ll)
    BY DEF CacheInv, CacheTypeOK
  <2>0. \A i \in 1..k : ll'[i] = ll[i]
    BY <1>0
  <2>5. DOMAIN tokens' = {ll[i].token : i \in 1..k} /\ \A i \in 1..k : tokens'[ll[i].token] = ll[i]
    BY GcFacts, Zenon
  <2>2. DOMAIN tokens' = {ll'[i].token : i \in 1..k}
    BY <2>0, <2>5
  <2>3. \A i \in 1..k : tokens'[ll'[i].token] = ll'[i]
    BY <2>0, <2>5
  <2>4. \A i, j \in 1..k :
          i < j => ll'[i].token # ll'[j].token /\ ll'[i].req # ll'[j].req
                   /\ ll'[i].expireTime >= ll'[j].expireTime
    BY <1>0, <2>1 DEF CacheInv, CacheOK
  <2>. QED  BY <1>0, <2>1, <2>2, <2>3, <2>4, SMTT(30) DEF CacheOK
<1>3. EntriesWait'
  BY <1>0 DEF CacheInv, CacheTypeOK, EntriesWait
<1>4. NotServedBefore' /\ ServedOnce'
  BY DEF CacheInv, NotServedBefore, ServedOnce
<1>5. LiveRequestsKept'
  <2>1. SUFFICES ASSUME NEW e \in waiting, now <= e.expireTime
                 PROVE  e.token \in DOMAIN tokens' /\ tokens'[e.token] = e
    BY DEF LiveRequestsKept
  <2>2. PICK i \in 1..k : ll[i] = e
    BY <2>1, GcFacts, ZenonT(30)
  <2>. QED  BY <2>2, GcFacts, ZenonT(30)
<1>. QED  BY <1>1, <1>2, <1>3, <1>4, <1>5 DEF CacheInv

-----------------------------------------------------------------------------
(* The steps.                                                              *)

\* The empty cache satisfies the invariant.
LEMMA CacheInitInv == CacheInit => CacheInv
<1>. SUFFICES ASSUME CacheInit PROVE CacheInv
  OBVIOUS
<1>1. ll = <<>> /\ Len(ll) = 0 /\ DOMAIN tokens = {}
  BY DEF CacheInit
<1>2. CacheTypeOK
  <2>1. tokens \in [DOMAIN tokens -> Entry]
    BY DEF CacheInit
  <2>2. served \in [Requests -> Nat]
    BY DEF CacheInit
  <2>3. waiting \subseteq Entry /\ IsFiniteSet(waiting)
    BY FS_EmptySet DEF CacheInit
  <2>4. ll \in Seq(Entry)
    BY <1>1
  <2>5. now \in Nat /\ inserted \subseteq Requests /\ refused \in BOOLEAN
    BY ZenonT(30) DEF CacheInit
  <2>. QED  BY <2>1, <2>2, <2>3, <2>4, <2>5 DEF CacheTypeOK
<1>3. CacheOK
  BY <1>1, CacheAssumption DEF CacheOK
<1>. QED
  BY <1>1, <1>2, <1>3
     DEF CacheInit, CacheInv, EntriesWait, NotServedBefore, ServedOnce, LiveRequestsKept

\* A new entry, after gc, keeps the invariant: its token is free, its request
\* is new, and no entry expires later.
LEMMA NewEntryInv ==
  ASSUME CacheInv, NEW req \in Requests, NEW t \in Tokens, req \notin inserted,
         NEW k \in 0..Len(ll), Kept(k), k < MaxInFlight,
         NEW e, e = [token |-> t, req |-> req, expireTime |-> now + CacheTTL],
         t \notin DOMAIN Without(tokens, Gone(k)),
         ll' = PushFront(Collected(k), e),
         tokens' = With(Without(tokens, Gone(k)), t, e),
         inserted' = inserted \cup {req}, waiting' = waiting \cup {e},
         refused' = FALSE, UNCHANGED <<now, served>>
  PROVE  CacheInv'
<1>. USE CacheAssumption
<1>. DEFINE m == Without(tokens, Gone(k))
<1>0. /\ e \in Entry /\ e.token = t /\ e.req = req /\ e.expireTime = now + CacheTTL
      /\ now \in Nat /\ k \in Nat /\ MaxInFlight \in Nat /\ ll \in Seq(Entry)
      /\ \A i \in 1..k : i \in 1..Len(ll)
  BY DEF CacheInv, CacheTypeOK, Entry
<1>1. /\ Collected(k) \in Seq(Entry) /\ Len(Collected(k)) = k
      /\ \A i \in 1..k : Collected(k)[i] = ll[i]
  BY CollectedFacts, <1>0
<1>2. /\ ll' \in Seq(Entry) /\ Len(ll') = k + 1 /\ ll'[1] = e
      /\ \A i \in 2..(k + 1) : ll'[i] = Collected(k)[i - 1]
  <2>. DEFINE c == Collected(k)
            p == PushFront(c, e)
  <2>1. c \in Seq(Entry) /\ e \in Entry
    BY <1>0, <1>1
  <2>. HIDE DEF c
  <2>. HIDE DEF p
  <2>2. /\ p \in Seq(Entry) /\ Len(p) = Len(c) + 1 /\ p[1] = e
        /\ \A i \in 2..(Len(c) + 1) : p[i] = c[i - 1]
    BY <2>1, PushFrontFacts, ZenonT(30) DEF p
  <2>3. ll' = p
    BY DEF c, p
  <2>. QED  BY <1>1, <2>2, <2>3, ZenonT(30) DEF c
<1>3. \A i \in 2..(k + 1) : i - 1 \in 1..k /\ ll'[i] = ll[i - 1]
  BY <1>0, <1>1, <1>2
<1>4. \A i \in 1..(k + 1) : i = 1 \/ i \in 2..(k + 1)
  BY <1>0
<1>5. /\ DOMAIN m = {ll[i].token : i \in 1..k}
      /\ \A i \in 1..k : m[ll[i].token] = ll[i]
      /\ m \in [DOMAIN m -> Entry]
      /\ \A f \in waiting : now <= f.expireTime => \E i \in 1..k : ll[i] = f
  BY GcFacts, Zenon
<1>6. /\ DOMAIN tokens' = DOMAIN m \cup {t} /\ tokens'[t] = e
      /\ \A u \in DOMAIN m : tokens'[u] = m[u]
      /\ tokens' \in [DOMAIN tokens' -> Entry]
  BY <1>0, <1>5 DEF With
<1>. HIDE DEF m
<1>7. CacheTypeOK'
  <2>1. IsFiniteSet(waiting')
    BY FS_AddElement, ZenonT(30) DEF CacheInv, CacheTypeOK
  <2>. QED  BY <1>0, <1>2, <1>6, <2>1, ZenonT(30) DEF CacheInv, CacheTypeOK
<1>8. CacheOK'
  <2>1. DOMAIN tokens' = {ll'[i].token : i \in 1..(k + 1)}
    <3>1. \A i \in 1..k : i + 1 \in 2..(k + 1) /\ i + 1 \in 1..(k + 1) /\ ll'[i + 1] = ll[i]
      BY <1>0, <1>3
    <3>2. 1 \in 1..(k + 1)
      BY <1>0
    <3>3. ASSUME NEW u \in DOMAIN tokens' PROVE \E i \in 1..(k + 1) : u = ll'[i].token
      <4>1. CASE u = t
        BY <4>1, <3>2, <1>0, <1>2
      <4>2. CASE u \in DOMAIN m
        BY <4>2, <3>1, <1>5
      <4>. QED  BY <4>1, <4>2, <1>6
    <3>4. ASSUME NEW i \in 1..(k + 1) PROVE ll'[i].token \in DOMAIN tokens'
      <4>1. CASE i = 1
        BY <4>1, <1>0, <1>2, <1>6
      <4>2. CASE i \in 2..(k + 1)
        BY <4>2, <1>3, <1>5, <1>6
      <4>. QED  BY <4>1, <4>2, <1>4
    <3>. QED  BY <3>3, <3>4, ZenonT(30)
  <2>2. ASSUME NEW i \in 1..(k + 1) PROVE tokens'[ll'[i].token] = ll'[i]
    <3>1. CASE i = 1
      BY <3>1, <1>0, <1>2, <1>6
    <3>2. CASE i \in 2..(k + 1)
      BY <3>2, <1>3, <1>5, <1>6, SMTT(30)
    <3>. QED  BY <3>1, <3>2, <1>4
  <2>3. ASSUME NEW i \in 1..(k + 1), NEW j \in 1..(k + 1), i < j
        PROVE  /\ ll'[i].token # ll'[j].token /\ ll'[i].req # ll'[j].req
               /\ ll'[i].expireTime >= ll'[j].expireTime
    <3>0. \A a, b \in 1..Len(ll) :
            a < b => /\ ll[a].token # ll[b].token /\ ll[a].req # ll[b].req
                     /\ ll[a].expireTime >= ll[b].expireTime
      BY DEF CacheInv, CacheOK
    <3>1. j \in 2..(k + 1) /\ j - 1 \in 1..k /\ j - 1 \in 1..Len(ll) /\ ll'[j] = ll[j - 1]
      BY <2>3, <1>0, <1>3
    <3>2. CASE i = 1
      BY <3>1, <3>2, <1>0, <1>2, <1>5 DEF m, CacheInv, EntriesWait
    <3>3. CASE i \in 2..(k + 1)
      <4>1. i - 1 \in 1..Len(ll) /\ ll'[i] = ll[i - 1] /\ i - 1 < j - 1
        BY <2>3, <3>3, <1>0, <1>3
      <4>2. /\ ll[i - 1].token # ll[j - 1].token /\ ll[i - 1].req # ll[j - 1].req
            /\ ll[i - 1].expireTime >= ll[j - 1].expireTime
        BY <3>0, <3>1, <4>1
      <4>. QED  BY <3>1, <4>1, <4>2, SMTT(30)
    <3>. QED  BY <3>2, <3>3, <1>4
  <2>4. Len(ll') = k + 1 /\ k + 1 <= MaxInFlight
    BY <1>0, <1>2
  <2>. QED  BY <2>1, <2>2, <2>3, <2>4, ZenonT(30) DEF CacheOK
<1>9. EntriesWait'
  <2>1. SUFFICES ASSUME NEW i \in 1..(k + 1)
                 PROVE  /\ ll'[i] \in waiting' /\ ll'[i].req \in inserted'
                        /\ served[ll'[i].req] = 0 /\ ll'[i].expireTime <= now + CacheTTL
    BY <1>2, SMTT(30) DEF EntriesWait
  <2>2. CASE i = 1
    BY <2>2, <1>0, <1>2 DEF CacheInv, NotServedBefore
  <2>3. CASE i \in 2..(k + 1)
    <3>1. i - 1 \in 1..Len(ll) /\ ll'[i] = ll[i - 1]
      BY <2>3, <1>0, <1>3
    <3>. QED  BY <3>1 DEF CacheInv, EntriesWait
  <2>. QED  BY <2>2, <2>3, <1>4
<1>10. NotServedBefore' /\ ServedOnce'
  BY DEF CacheInv, NotServedBefore, ServedOnce
<1>11. LiveRequestsKept'
  <2>1. SUFFICES ASSUME NEW f \in waiting', now <= f.expireTime
                 PROVE  f.token \in DOMAIN tokens' /\ tokens'[f.token] = f
    BY DEF LiveRequestsKept
  <2>2. CASE f = e
    BY <2>2, <1>0, <1>6
  <2>3. CASE f \in waiting
    <3>1. PICK i \in 1..k : ll[i] = f
      BY <2>1, <2>3, <1>5
    <3>. QED  BY <3>1, <1>5, <1>6, ZenonT(30)
  <2>. QED  BY <2>2, <2>3
<1>. QED  BY <1>7, <1>8, <1>9, <1>10, <1>11 DEF CacheInv

\* Insert keeps the invariant, whether it adds the request or refuses it.
LEMMA InsertInv ==
  ASSUME CacheInv, NEW req \in Requests, NEW t \in Tokens, Insert(req, t)
  PROVE  CacheInv'
<1>1. PICK k \in 0..Len(ll) :
        /\ Kept(k)
        /\ \/ /\ k = MaxInFlight /\ refused' = TRUE
              /\ ll' = Collected(k) /\ tokens' = Without(tokens, Gone(k))
              /\ UNCHANGED <<inserted, waiting>>
           \/ LET e == [token |-> t, req |-> req, expireTime |-> now + CacheTTL]
              IN /\ k # MaxInFlight /\ t \notin DOMAIN Without(tokens, Gone(k))
                 /\ refused' = FALSE
                 /\ ll' = PushFront(Collected(k), e)
                 /\ tokens' = With(Without(tokens, Gone(k)), t, e)
                 /\ inserted' = inserted \cup {req} /\ waiting' = waiting \cup {e}
  BY Zenon DEF Insert
<1>2. req \notin inserted /\ UNCHANGED <<now, served>>
  BY DEF Insert
<1>3. k <= MaxInFlight /\ (k # MaxInFlight => k < MaxInFlight)
  BY CacheAssumption DEF CacheInv, CacheTypeOK, CacheOK
<1>4. CASE k = MaxInFlight /\ refused' = TRUE
  BY <1>1, <1>2, <1>3, <1>4, GcInv, Zenon
<1>5. CASE k # MaxInFlight /\ refused' = FALSE
  <2>. DEFINE e == [token |-> t, req |-> req, expireTime |-> now + CacheTTL]
  <2>1. /\ t \notin DOMAIN Without(tokens, Gone(k))
        /\ ll' = PushFront(Collected(k), e)
        /\ tokens' = With(Without(tokens, Gone(k)), t, e)
        /\ inserted' = inserted \cup {req} /\ waiting' = waiting \cup {e}
    BY <1>1, <1>5
  <2>. QED  BY <1>1, <1>2, <1>3, <1>5, <2>1, NewEntryInv, Zenon
<1>. QED  BY <1>1, <1>4, <1>5, ZenonT(30)

\* Consume keeps the invariant: the entry it takes out is the only one with
\* its token and with its request.
LEMMA ConsumeInv ==
  ASSUME CacheInv, NEW t \in Tokens, Consume(t)
  PROVE  CacheInv'
<1>. DEFINE e == tokens[t]
            n == Len(ll)
<1>1. PICK k \in 1..n : ll[k] = e /\ ll' = WithoutIndex(ll, k)
  BY DEF Consume
<1>2. /\ t \in DOMAIN tokens /\ tokens' = Without(tokens, {t}) /\ waiting' = waiting \ {e}
      /\ served' = IF Expired(e) THEN served ELSE [served EXCEPT ![e.req] = @ + 1]
      /\ UNCHANGED <<now, inserted, refused>>
  BY DEF Consume
<1>3. /\ n \in Nat /\ ll \in Seq(Entry) /\ n = Len(ll)
      /\ \A i \in 1..n : ll[i] \in Entry /\ ll[i].token \in DOMAIN tokens /\ tokens[ll[i].token] = ll[i]
      /\ \A i, j \in 1..n :
           i < j => /\ ll[i].token # ll[j].token /\ ll[i].req # ll[j].req
                    /\ ll[i].expireTime >= ll[j].expireTime
  BY DEF CacheInv, CacheTypeOK, CacheOK
<1>4. e.token = t
  <2>1. PICK i \in 1..n : t = ll[i].token
    BY <1>2 DEF CacheInv, CacheOK
  <2>. QED  BY <2>1, <1>3
<1>. HIDE DEF n
<1>5. /\ ll' \in Seq(Entry) /\ Len(ll') = n - 1
      /\ \A i \in 1..(n - 1) : ll'[i] = IF i < k THEN ll[i] ELSE ll[i + 1]
  BY <1>1, <1>3, WithoutIndexFacts, ZenonT(30)
<1>. DEFINE src(i) == IF i < k THEN i ELSE i + 1
<1>6. /\ \A i \in 1..(n - 1) : src(i) \in 1..n /\ src(i) # k /\ ll'[i] = ll[src(i)]
      /\ \A i, j \in 1..(n - 1) : i < j => src(i) < src(j)
      /\ \A j \in 1..n : j # k => \E i \in 1..(n - 1) : src(i) = j
  <2>1. \A i \in 1..(n - 1) : src(i) \in 1..n /\ src(i) # k /\ ll'[i] = ll[src(i)]
    BY <1>3, <1>5
  <2>2. \A i, j \in 1..(n - 1) : i < j => src(i) < src(j)
    BY <1>3
  <2>3. ASSUME NEW j \in 1..n, j # k PROVE \E i \in 1..(n - 1) : src(i) = j
    <3>1. CASE j < k
      <4>1. j \in 1..(n - 1) /\ src(j) = j
        BY <1>3, <3>1
      <4>. QED  BY <4>1
    <3>2. CASE j > k
      <4>1. j - 1 \in 1..(n - 1) /\ src(j - 1) = j
        BY <1>3, <3>2
      <4>. QED  BY <4>1
    <3>. QED  BY <2>3, <3>1, <3>2, <1>3
  <2>. QED  BY <2>1, <2>2, <2>3
<1>. HIDE DEF src, e
<1>7. \A j \in 1..n : j # k => ll[j].token # t /\ ll[j].req # e.req /\ ll[j] # e
  BY <1>1, <1>3, <1>4
<1>8. DOMAIN tokens' = DOMAIN tokens \ {t} /\ \A u \in DOMAIN tokens' : tokens'[u] = tokens[u]
  BY <1>2 DEF Without
<1>9. served' \in [Requests -> Nat] /\ \A r \in Requests : r # e.req => served'[r] = served[r]
  BY <1>1, <1>2, <1>3 DEF CacheInv, CacheTypeOK, Entry
<1>10. served'[e.req] <= 1
  BY <1>1, <1>2, <1>3, SMTT(30) DEF CacheInv, CacheTypeOK, Entry, EntriesWait, n
<1>11. CacheTypeOK'
  <2>1. IsFiniteSet(waiting')
    BY <1>2, FS_Subset DEF CacheInv, CacheTypeOK
  <2>2. tokens' \in [DOMAIN tokens' -> Entry]
    BY <1>2 DEF CacheInv, CacheTypeOK, Without
  <2>. QED  BY <1>2, <1>5, <1>9, <2>1, <2>2, ZenonT(30) DEF CacheInv, CacheTypeOK
<1>12. CacheOK'
  <2>1. Len(ll') <= MaxInFlight
    BY <1>3, <1>5, CacheAssumption DEF CacheInv, CacheOK
  <2>2. ASSUME NEW u \in DOMAIN tokens' PROVE \E i \in 1..(n - 1) : u = ll'[i].token
    <3>1. PICK j \in 1..n : u = ll[j].token
      BY <1>8 DEF CacheInv, CacheOK, n
    <3>2. j # k
      BY <3>1, <1>1, <1>4, <1>8
    <3>. QED  BY <3>1, <3>2, <1>6
  <2>3. ASSUME NEW i \in 1..(n - 1)
        PROVE  ll'[i].token \in DOMAIN tokens' /\ tokens'[ll'[i].token] = ll'[i]
    BY <1>3, <1>6, <1>7, <1>8
  <2>4. ASSUME NEW i \in 1..(n - 1), NEW j \in 1..(n - 1), i < j
        PROVE  /\ ll'[i].token # ll'[j].token /\ ll'[i].req # ll'[j].req
               /\ ll'[i].expireTime >= ll'[j].expireTime
    <3>1. /\ src(i) \in 1..n /\ src(j) \in 1..n /\ src(i) < src(j)
          /\ ll'[i] = ll[src(i)] /\ ll'[j] = ll[src(j)]
      BY <2>4, <1>6
    <3>2. /\ ll[src(i)].token # ll[src(j)].token /\ ll[src(i)].req # ll[src(j)].req
          /\ ll[src(i)].expireTime >= ll[src(j)].expireTime
      BY <1>3, <3>1
    <3>. QED  BY <3>1, <3>2
  <2>5. DOMAIN tokens' = {ll'[i].token : i \in 1..(n - 1)}
    BY <2>2, <2>3, ZenonT(30)
  <2>. QED  BY <1>5, <2>1, <2>3, <2>4, <2>5 DEF CacheOK
<1>13. EntriesWait'
  <2>1. SUFFICES ASSUME NEW i \in 1..(n - 1)
                 PROVE  /\ ll'[i] \in waiting' /\ ll'[i].req \in inserted
                        /\ served'[ll'[i].req] = 0 /\ ll'[i].expireTime <= now + CacheTTL
    BY <1>2, <1>5 DEF EntriesWait
  <2>2. PICK j \in 1..n : j # k /\ ll'[i] = ll[j]
    BY <1>6
  <2>3. /\ ll[j] \in waiting /\ ll[j].req \in inserted /\ served[ll[j].req] = 0
        /\ ll[j].expireTime <= now + CacheTTL
    BY DEF CacheInv, EntriesWait, n
  <2>. QED  BY <1>2, <1>3, <1>7, <1>9, <2>2, <2>3 DEF Entry
<1>14. NotServedBefore'
  <2>1. e.req \in inserted
    BY <1>1 DEF CacheInv, EntriesWait, n
  <2>. QED  BY <2>1, <1>2, <1>9 DEF CacheInv, NotServedBefore
<1>15. ServedOnce'
  BY <1>9, <1>10 DEF CacheInv, ServedOnce
<1>16. LiveRequestsKept'
  <2>1. SUFFICES ASSUME NEW f \in waiting', now <= f.expireTime
                 PROVE  f.token \in DOMAIN tokens' /\ tokens'[f.token] = f
    BY <1>2 DEF LiveRequestsKept
  <2>2. f \in waiting /\ f # e
    BY <1>2
  <2>3. f.token \in DOMAIN tokens /\ tokens[f.token] = f
    BY <2>1, <2>2 DEF CacheInv, LiveRequestsKept
  <2>4. f.token # t
    BY <2>2, <2>3 DEF e
  <2>. QED  BY <2>3, <2>4, <1>8
<1>. QED  BY <1>11, <1>12, <1>13, <1>14, <1>15, <1>16 DEF CacheInv

\* The passing of time keeps the invariant.
LEMMA TickInv == ASSUME CacheInv, Tick PROVE CacheInv'
<1>1. CacheTypeOK'
  BY DEF CacheInv, CacheTypeOK, Tick
<1>2. EntriesWait'
  BY CacheAssumption, SMTT(30) DEF CacheInv, CacheTypeOK, EntriesWait, Tick, Entry
<1>3. LiveRequestsKept'
  BY DEF CacheInv, CacheTypeOK, LiveRequestsKept, Tick, Entry
<1>. QED
  BY <1>1, <1>2, <1>3 DEF CacheInv, CacheOK, NotServedBefore, ServedOnce, Tick

\* Every operation keeps the invariant.
LEMMA CacheNextInv == CacheInv /\ [CacheNext]_cacheVars => CacheInv'
<1>. SUFFICES ASSUME CacheInv, [CacheNext]_cacheVars PROVE CacheInv'
  OBVIOUS
<1>1. CASE \E req \in Requests, t \in Tokens : Insert(req, t)
  BY <1>1, InsertInv
<1>2. CASE \E req \in Requests : InsertFails(req)
  <2>1. PICK k \in 0..Len(ll) :
          /\ Kept(k) /\ refused' = FALSE
          /\ ll' = Collected(k) /\ tokens' = Without(tokens, Gone(k))
    BY <1>2 DEF InsertFails
  <2>2. UNCHANGED <<now, inserted, waiting, served>>
    BY <1>2 DEF InsertFails
  <2>3. k <= MaxInFlight
    BY CacheAssumption DEF CacheInv, CacheTypeOK, CacheOK
  <2>4. refused' \in BOOLEAN
    BY <2>1, ZenonT(30)
  <2>. QED  BY <2>1, <2>2, <2>3, <2>4, GcInv, Zenon
<1>3. CASE \E t \in Tokens : Consume(t)
  BY <1>3, ConsumeInv
<1>4. CASE Tick
  BY <1>4, TickInv
<1>5. CASE UNCHANGED cacheVars
  BY <1>5 DEF CacheInv, CacheTypeOK, CacheOK, EntriesWait, NotServedBefore, ServedOnce,
              LiveRequestsKept, cacheVars
<1>. QED  BY <1>1, <1>2, <1>3, <1>4, <1>5 DEF CacheNext

\* A refusal leaves maxInFlight entries, none of which has expired: gc stopped
\* at one that has not, and the others are younger.
LEMMA RefusalFull ==
  ASSUME CacheInv, [CacheNext]_cacheVars, refused', ~refused
  PROVE  Cardinality({e \in waiting : now <= e.expireTime}) >= MaxInFlight
<1>. DEFINE live == {e \in waiting : now <= e.expireTime}
<1>1. PICK k \in 0..Len(ll) : Kept(k) /\ k = MaxInFlight
  <2>1. PICK req \in Requests, t \in Tokens : Insert(req, t)
    BY ZenonT(30) DEF CacheNext, cacheVars, InsertFails, Consume, Tick
  <2>. QED  BY <2>1 DEF Insert
<1>2. IsFiniteSet(live) /\ k \in Nat
  BY FS_Subset DEF CacheInv, CacheTypeOK
<1>3. ASSUME NEW i \in 1..k PROVE ll[i] \in live
  <2>1. i \in 1..Len(ll) /\ k \in 1..Len(ll) /\ k > 0
    BY DEF CacheInv, CacheTypeOK
  <2>2. /\ now \in Nat /\ ll[k].expireTime \in Nat /\ ll[i].expireTime \in Nat
        /\ ll[i] \in waiting
    BY <2>1 DEF CacheInv, CacheTypeOK, EntriesWait, Entry
  <2>3. now <= ll[k].expireTime
    BY <1>1, <2>1, <2>2 DEF Kept, Expired
  <2>4. ll[k].expireTime <= ll[i].expireTime
    BY <2>1, <2>2 DEF CacheInv, CacheOK
  <2>. QED  BY <2>2, <2>3, <2>4
<1>4. \A i, j \in 1..k : ll[i] = ll[j] => i = j
  <2>1. \A i \in 1..k : i \in 1..Len(ll) /\ i \in Int
    BY DEF CacheInv, CacheTypeOK
  <2>. QED  BY <2>1 DEF CacheInv, CacheOK
<1>. HIDE DEF live
<1>5. [i \in 1..k |-> ll[i]] \in Injection(1..k, live)
  BY <1>3, <1>4 DEF Injection, IsInjective
<1>6. Cardinality(1..k) <= Cardinality(live)
  BY <1>2, <1>5, FS_Injection
<1>7. Cardinality(1..k) = k /\ Cardinality(live) \in Nat
  BY <1>2, FS_Interval, FS_CardinalityType
<1>. QED  BY <1>1, <1>2, <1>6, <1>7 DEF live

-----------------------------------------------------------------------------
(* The streaming server, which is the cache with what is answered.         *)

\* Every step of the server is an operation of the cache or leaves it alone.
LEMMA ServerSteps ==
  [StreamingNext]_<<cacheVars, streamVars>> => [CacheNext]_cacheVars
<1>. SUFFICES ASSUME [StreamingNext]_<<cacheVars, streamVars>> PROVE [CacheNext]_cacheVars
  OBVIOUS
<1>1. CASE \E r \in Requests : GetURL(r)
  BY <1>1 DEF GetURL, CacheNext
<1>2. CASE \E t \in Tokens, endpoint \in {"exec", "attach", "portforward"} : Serve(t, endpoint)
  BY <1>2 DEF Serve, CacheNext
<1>3. CASE ServerStarts \/ ContainerEnds
  BY <1>3 DEF ServerStarts, ContainerEnds
<1>4. CASE now < MaxNow /\ Tick /\ UNCHANGED streamVars
  BY <1>4 DEF CacheNext
<1>5. CASE UNCHANGED <<cacheVars, streamVars>>
  BY <1>5
<1>. QED  BY <1>1, <1>2, <1>3, <1>4, <1>5 DEF StreamingNext

SessionInv == session \in [Requests -> {"none", "exec", "attach", "portforward"}] /\ SessionAsAsked

\* A session is opened for a request that was never given out before, and by
\* the endpoint of its kind.
LEMMA ServeInv ==
  ASSUME CacheInv, SessionInv, NEW t \in Tokens,
         NEW endpoint \in {"exec", "attach", "portforward"}, Serve(t, endpoint)
  PROVE  SessionInv'
<1>. DEFINE r == tokens[t].req
<1>1. /\ t \in DOMAIN tokens
      /\ served' = IF Expired(tokens[t]) THEN served ELSE [served EXCEPT ![r] = @ + 1]
  BY DEF Serve, Consume
<1>2. PICK k \in 1..Len(ll) : ll[k] = tokens[t]
  BY DEF Serve, Consume
<1>3. r \in Requests /\ served[r] = 0 /\ served \in [Requests -> Nat]
  BY <1>2, SMTT(30) DEF CacheInv, CacheTypeOK, EntriesWait, Entry
<1>4. session[r] = "none"
  BY <1>3 DEF SessionInv, SessionAsAsked
<1>5. CASE UNCHANGED session
  BY <1>1, <1>3, <1>4, <1>5 DEF SessionInv, SessionAsAsked
<1>6. CASE ~Expired(tokens[t]) /\ KindOf[r] = endpoint /\ session' = [session EXCEPT ![r] = endpoint]
  <2>1. session' \in [Requests -> {"none", "exec", "attach", "portforward"}]
    BY <1>3, <1>6 DEF SessionInv
  <2>2. served'[r] = 1 /\ session'[r] = KindOf[r]
    BY <1>1, <1>3, <1>6 DEF SessionInv
  <2>3. \A q \in Requests : q # r => served'[q] = served[q] /\ session'[q] = session[q]
    BY <1>1, <1>3, <1>6 DEF SessionInv
  <2>. QED  BY <2>1, <2>2, <2>3 DEF SessionInv, SessionAsAsked
<1>. QED  BY <1>5, <1>6 DEF Serve, Opens

\* Every step of the server keeps what is said of sessions.
LEMMA SessionNextInv ==
  CacheInv /\ SessionInv /\ [StreamingNext]_<<cacheVars, streamVars>> => SessionInv'
<1>. SUFFICES ASSUME CacheInv, SessionInv, [StreamingNext]_<<cacheVars, streamVars>>
              PROVE  SessionInv'
  OBVIOUS
<1>1. CASE \E t \in Tokens, endpoint \in {"exec", "attach", "portforward"} : Serve(t, endpoint)
  BY <1>1, ServeInv
<1>2. CASE UNCHANGED <<served, session>>
  BY <1>2, SMTT(30) DEF SessionInv, SessionAsAsked
<1>3. ASSUME NEW r \in Requests, GetURL(r) PROVE UNCHANGED <<served, session>>
  BY <1>3, ZenonT(30) DEF GetURL, Insert, InsertFails
<1>. QED
  BY <1>1, <1>2, <1>3 DEF StreamingNext, ServerStarts, ContainerEnds, Tick, cacheVars, streamVars

\* The cache of the streaming server is well formed and loses no request that
\* can still be fetched, and gives none out twice, whatever the order of the
\* requests, of the clients that fetch them and of the collections.
THEOREM CacheCorrect ==
  StreamingSpec => [](CacheOK /\ LiveRequestsKept /\ ServedOnce)
<1>1. StreamingInit => CacheInv
  BY CacheInitInv DEF StreamingInit
<1>2. CacheInv /\ [StreamingNext]_<<cacheVars, streamVars>> => CacheInv'
  BY ServerSteps, CacheNextInv
<1>3. CacheInv => CacheOK /\ LiveRequestsKept /\ ServedOnce
  BY DEF CacheInv
<1>. QED  BY <1>1, <1>2, <1>3, PTL DEF StreamingSpec

\* The server refuses a request for want of room only if maxInFlight others can
\* still be fetched: gc runs before the room is counted.
THEOREM RefusalsCorrect == StreamingSpec => RefusedOnlyWhenFull
<1>1. StreamingInit => CacheInv
  BY CacheInitInv DEF StreamingInit
<1>2. CacheInv /\ [StreamingNext]_<<cacheVars, streamVars>> => CacheInv'
  BY ServerSteps, CacheNextInv
<1>3. CacheInv /\ [StreamingNext]_<<cacheVars, streamVars>> =>
        [refused' /\ ~refused =>
           Cardinality({e \in waiting : now <= e.expireTime}) >= MaxInFlight]_cacheVars
  BY ServerSteps, RefusalFull
<1>. QED  BY <1>1, <1>2, <1>3, PTL DEF StreamingSpec, RefusedOnlyWhenFull

\* serveExec, serveAttach and servePortForward open at most one session for a
\* request, and of the kind that was asked for.
THEOREM SessionsCorrect == StreamingSpec => []SessionAsAsked
<1>1. StreamingInit => CacheInv /\ SessionInv
  BY CacheInitInv DEF StreamingInit, SessionInv, SessionAsAsked
<1>2. CacheInv /\ SessionInv /\ [StreamingNext]_<<cacheVars, streamVars>> =>
        CacheInv' /\ SessionInv'
  BY ServerSteps, CacheNextInv, SessionNextInv
<1>3. SessionInv => SessionAsAsked
  BY DEF SessionInv
<1>. QED  BY <1>1, <1>2, <1>3, PTL DEF StreamingSpec
=============================================================================
