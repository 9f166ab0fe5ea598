---------------------------- MODULE RouterProofs ----------------------------
(***************************************************************************)
(* Proofs about RouterBuild, for all routes: the tree that ready() grows   *)
(* does not depend on the order the HashSet gives the routes in.           *)
(***************************************************************************)
EXTENDS PipelineProofs, SequenceTheorems, FiniteSetTheorems, WellFoundedInduction

Texts == DOMAIN Rank

-----------------------------------------------------------------------------
(* Least numbers and longest members *)

LEMMA LeastNat ==
  ASSUME NEW S \in SUBSET Nat, S # {}
  PROVE  \E m \in S : \A n \in S : m <= n
<1>1. IsWellFoundedOn(OpToRel(<, Nat), Nat)
  BY NatLessThanWellFounded
<1>2. PICK m \in S : \A n \in S : ~ (<<n, m>> \in OpToRel(<, Nat))
  BY <1>1, WFMin
<1>3. \A n \in S : ~ (n < m)
  BY <1>2 DEF OpToRel
<1> QED  BY <1>3

(* Of sequences no longer than a bound one is the longest. *)
LEMMA LongestOf ==
  ASSUME NEW T, NEW S \in SUBSET Seq(T), S # {}, NEW bound \in Nat, \A b \in S : Len(b) <= bound
  PROVE  \E b \in S : \A c \in S : Len(c) <= Len(b)
<1> DEFINE gaps == {bound - Len(b) : b \in S}
<1>1. gaps \in SUBSET Nat /\ gaps # {}
  BY LenProperties
<1>2. PICK m \in gaps : \A n \in gaps : m <= n
  BY <1>1, LeastNat
<1>3. PICK b \in S : m = bound - Len(b)
  BY <1>2
<1>4. ASSUME NEW c \in S  PROVE Len(c) <= Len(b)
  <2>1. bound - Len(b) <= bound - Len(c)
    BY <1>2, <1>3, <1>4
  <2> QED  BY <2>1, <1>4, LenProperties
<1> QED  BY <1>4

-----------------------------------------------------------------------------
(* Prefixes *)

LEMMA FrontIs ==
  ASSUME NEW T, NEW p \in Seq(T), p # <<>>
  PROVE  /\ Front(p) \in Seq(T) /\ Len(Front(p)) = Len(p) - 1
         /\ \A i \in 1..Len(p) - 1 : Front(p)[i] = p[i]
  BY DEF Front

LEMMA PrefixIs ==
  ASSUME NEW T, NEW p \in Seq(T), NEW l \in 0..Len(p)
  PROVE  /\ SubSeq(p, 1, l) \in Seq(T) /\ Len(SubSeq(p, 1, l)) = l
         /\ \A i \in 1..l : SubSeq(p, 1, l)[i] = p[i]
  OBVIOUS

(* Two beginnings are the same when their texts are. *)
LEMMA SameBeginning ==
  ASSUME NEW T, NEW p \in Seq(T), NEW q \in Seq(T), NEW l \in 0..Len(p), l <= Len(q)
  PROVE  SubSeq(p, 1, l) = SubSeq(q, 1, l) <=> \A i \in 1..l : p[i] = q[i]
<1> DEFINE a == SubSeq(p, 1, l)  b == SubSeq(q, 1, l)
<1>1. /\ a \in Seq(T) /\ Len(a) = l /\ \A i \in 1..l : a[i] = p[i]
      /\ b \in Seq(T) /\ Len(b) = l /\ \A i \in 1..l : b[i] = q[i]
  BY PrefixIs
<1> HIDE DEF a, b
<1>2. ASSUME \A i \in 1..l : p[i] = q[i]  PROVE a = b
  BY <1>1, <1>2, SeqEqual
<1>3. ASSUME a = b  PROVE \A i \in 1..l : p[i] = q[i]
  BY <1>1, <1>3
<1> QED  BY <1>2, <1>3 DEF a, b

LEMMA PrefixesOf ==
  ASSUME NEW T, NEW p \in Seq(T)
  PROVE  /\ p \in Prefixes(p) /\ <<>> \in Prefixes(p)
         /\ \A b \in Prefixes(p) :
              /\ b \in Seq(T) /\ Len(b) <= Len(p)
              /\ b # <<>> => Front(b) \in Prefixes(p)
              /\ Prefixes(b) \subseteq Prefixes(p)
<1>1. p \in Prefixes(p) /\ <<>> \in Prefixes(p)
  <2>1. SubSeq(p, 1, Len(p)) = p /\ Len(p) \in 0..Len(p)
    BY SubSeqFull, LenProperties
  <2>2. SubSeq(p, 1, 0) = <<>> /\ 0 \in 0..Len(p)
    BY SubSeqEmpty, LenProperties
  <2> QED  BY <2>1, <2>2 DEF Prefixes
<1>2. ASSUME NEW l \in 0..Len(p), NEW k \in 0..l
      PROVE  SubSeq(SubSeq(p, 1, l), 1, k) = SubSeq(p, 1, k)
  <2> DEFINE b == SubSeq(p, 1, l)
  <2>1. b \in Seq(T) /\ Len(b) = l /\ \A i \in 1..l : b[i] = p[i]
    BY PrefixIs
  <2> HIDE DEF b
  <2>2. k \in 0..Len(p) /\ k <= Len(b)
    BY <2>1, LenProperties
  <2>3. \A i \in 1..k : p[i] = b[i]
    BY <2>1
  <2> QED  BY <2>1, <2>2, <2>3, SameBeginning DEF b
<1>3. ASSUME NEW b \in Prefixes(p)
      PROVE  /\ b \in Seq(T) /\ Len(b) <= Len(p)
             /\ b # <<>> => Front(b) \in Prefixes(p)
             /\ Prefixes(b) \subseteq Prefixes(p)
  <2>1. PICK l \in 0..Len(p) : b = SubSeq(p, 1, l)
    BY DEF Prefixes
  <2>2. b \in Seq(T) /\ Len(b) = l
    BY <2>1, PrefixIs
  <2>3. ASSUME b # <<>>  PROVE Front(b) \in Prefixes(p)
    <3>1. l > 0
      BY <2>2, <2>3, EmptySeq
    <3>2. l - 1 \in 0..l /\ l - 1 \in 0..Len(p)
      BY <3>1
    <3>3. Front(b) = SubSeq(p, 1, l - 1)
      BY <1>2, <2>1, <2>2, <3>2 DEF Front
    <3> QED  BY <3>2, <3>3 DEF Prefixes
  <2>4. ASSUME NEW c \in Prefixes(b)  PROVE c \in Prefixes(p)
    <3>1. PICK k \in 0..l : c = SubSeq(b, 1, k)
      BY <2>2, <2>4 DEF Prefixes
    <3>2. c = SubSeq(p, 1, k) /\ k \in 0..Len(p)
      BY <1>2, <2>1, <3>1
    <3> QED  BY <3>2 DEF Prefixes
  <2> QED  BY <2>1, <2>2, <2>3, <2>4, LenProperties
<1> QED  BY <1>1, <1>3

-----------------------------------------------------------------------------
(* The order of paths *)

(* Up to place i the same texts; there p has ended or has the earlier text. *)
Parts(p, q, i) ==
  /\ i \in 1..Len(q) /\ i <= Len(p) + 1
  /\ \A j \in 1..i - 1 : p[j] = q[j]
  /\ i <= Len(p) => Rank[p[i]] < Rank[q[i]]

LEMMA EarlierParts ==
  ASSUME NEW p \in Seq(Texts), NEW q \in Seq(Texts)
  PROVE  Earlier(p, q) <=> \E i \in Nat : Parts(p, q, i)
<1>0. Len(p) \in Nat /\ Len(q) \in Nat /\ DOMAIN p = 1..Len(p) /\ DOMAIN q = 1..Len(q)
  BY LenProperties
<1>1. ASSUME IsStrictPrefix(p, q)  PROVE Parts(p, q, Len(p) + 1)
  <2>1. Len(p) <= Len(q) /\ SubSeq(p, 1, Len(p)) = SubSeq(q, 1, Len(p)) /\ p # q
    BY <1>1 DEF IsStrictPrefix, IsPrefix
  <2>2. \A j \in 1..Len(p) : p[j] = q[j]
    BY <1>0, <2>1, SameBeginning
  <2>3. Len(p) # Len(q)
    BY <2>1, <2>2, SeqEqual
  <2>4. (Len(p) + 1) - 1 = Len(p) /\ Len(p) + 1 \in 1..Len(q) /\ ~ (Len(p) + 1 <= Len(p))
    <3>1. \A m, n \in Nat : m <= n /\ m # n =>
             (m + 1) - 1 = m /\ m + 1 \in 1..n /\ ~ (m + 1 <= m)
      OBVIOUS
    <3> QED  BY <1>0, <2>1, <2>3, <3>1
  <2> QED  BY <1>0, <2>2, <2>4 DEF Parts
<1>2. ASSUME NEW i \in DOMAIN p \cap DOMAIN q,
             SubSeq(p, 1, i - 1) = SubSeq(q, 1, i - 1), Rank[p[i]] < Rank[q[i]]
      PROVE  Parts(p, q, i)
  <2>1. i - 1 \in 0..Len(p) /\ i - 1 <= Len(q)
    BY <1>0
  <2>2. \A j \in 1..i - 1 : p[j] = q[j]
    BY <1>2, <2>1, SameBeginning
  <2> QED  BY <1>0, <1>2, <2>2 DEF Parts
<1>3. ASSUME NEW i \in Nat, Parts(p, q, i), i = Len(p) + 1  PROVE IsStrictPrefix(p, q)
  <2>1. Len(p) <= Len(q) /\ \A j \in 1..Len(p) : p[j] = q[j]
    BY <1>0, <1>3 DEF Parts
  <2>2. SubSeq(p, 1, Len(p)) = SubSeq(q, 1, Len(p))
    BY <1>0, <2>1, SameBeginning
  <2>3. Len(p) # Len(q)
    <3>1. Len(p) + 1 <= Len(q)
      BY <1>3 DEF Parts
    <3>2. \A m, n \in Nat : m + 1 <= n => m # n
      OBVIOUS
    <3> QED  BY <1>0, <3>1, <3>2
  <2> QED  BY <2>1, <2>2, <2>3 DEF IsStrictPrefix, IsPrefix
<1>4. ASSUME NEW i \in Nat, Parts(p, q, i), i # Len(p) + 1  PROVE Earlier(p, q)
  <2>1. i \in DOMAIN p \cap DOMAIN q /\ Rank[p[i]] < Rank[q[i]]
    BY <1>0, <1>4 DEF Parts
  <2>2. i - 1 \in 0..Len(p) /\ i - 1 <= Len(q) /\ \A j \in 1..i - 1 : p[j] = q[j]
    BY <1>0, <1>4, <2>1 DEF Parts
  <2>3. SubSeq(p, 1, i - 1) = SubSeq(q, 1, i - 1)
    BY <2>2, SameBeginning
  <2> QED  BY <2>1, <2>3 DEF Earlier
<1>5. Len(p) + 1 \in Nat /\ \A i \in DOMAIN p : i \in Nat
  BY <1>0
<1> QED  BY <1>1, <1>2, <1>3, <1>4, <1>5 DEF Earlier

LEMMA EarlierTotal ==
  ASSUME NEW p \in Seq(Texts), NEW q \in Seq(Texts), p # q
  PROVE  Earlier(p, q) \/ Earlier(q, p)
<1>0. Len(p) \in Nat /\ Len(q) \in Nat
  BY LenProperties
<1> DEFINE D == {i \in Nat \ {0} : i > Len(p) \/ i > Len(q) \/ p[i] # q[i]}
<1>1. D \in SUBSET Nat /\ Len(p) + 1 \in D
  BY <1>0
<1>2. PICK i \in D : \A n \in D : i <= n
  BY <1>1, LeastNat
<1>3. i <= Len(p) + 1 /\ i <= Len(q) + 1
  <2>1. Len(q) + 1 \in D
    BY <1>0
  <2> QED  BY <1>1, <1>2, <2>1
<1>4. i \in Nat \ {0} /\ \A j \in 1..i - 1 : j <= Len(p) /\ j <= Len(q) /\ p[j] = q[j]
  <2>1. i \in Nat \ {0}
    BY <1>2
  <2>2. ASSUME NEW j \in 1..i - 1  PROVE j \notin D /\ j \in Nat \ {0}
    BY <1>2, <2>1
  <2> QED  BY <1>0, <2>1, <2>2
<1>5. CASE i > Len(p)
  <2>1. i = Len(p) + 1
    BY <1>0, <1>3, <1>4, <1>5
  <2>2. CASE i > Len(q)
    <3>1. Len(p) = Len(q) /\ \A j \in 1..Len(p) : p[j] = q[j]
      BY <1>0, <1>3, <1>4, <2>1, <2>2
    <3> QED  BY <3>1, SeqEqual
  <2>3. CASE i <= Len(q)
    <3>1. Parts(p, q, i)
      BY <1>0, <1>4, <2>1, <2>3 DEF Parts
    <3> QED  BY <1>4, <3>1, EarlierParts
  <2> QED  BY <1>0, <1>4, <2>2, <2>3
<1>6. CASE i <= Len(p) /\ i > Len(q)
  <2>1. Parts(q, p, i)
    BY <1>0, <1>3, <1>4, <1>6 DEF Parts
  <2> QED  BY <1>4, <2>1, EarlierParts
<1>7. CASE i <= Len(p) /\ i <= Len(q)
  <2>1. p[i] # q[i]
    BY <1>0, <1>2, <1>7
  <2>2. p[i] \in Texts /\ q[i] \in Texts
    BY <1>4, <1>7, ElementOfSeq
  <2>3. Rank[p[i]] < Rank[q[i]] \/ Rank[q[i]] < Rank[p[i]]
    BY <2>1, <2>2, RanksOK DEF Texts
  <2>4. Parts(p, q, i) \/ Parts(q, p, i)
    BY <1>0, <1>3, <1>4, <1>7, <2>3 DEF Parts
  <2> QED  BY <1>4, <2>4, EarlierParts
<1> QED  BY <1>0, <1>4, <1>5, <1>6, <1>7

LEMMA EarlierTransitive ==
  ASSUME NEW p \in Seq(Texts), NEW q \in Seq(Texts), NEW r \in Seq(Texts),
         Earlier(p, q), Earlier(q, r)
  PROVE  Earlier(p, r)
<1>0. Len(p) \in Nat /\ Len(q) \in Nat /\ Len(r) \in Nat
  BY LenProperties
<1>1. PICK i \in Nat : Parts(p, q, i)
  BY EarlierParts
<1>2. PICK k \in Nat : Parts(q, r, k)
  BY EarlierParts
<1>3. \A j \in 1..Len(p) : Rank[p[j]] \in Nat
  BY ElementOfSeq, RanksOK DEF Texts
<1>4. \A j \in 1..Len(q) : Rank[q[j]] \in Nat
  BY ElementOfSeq, RanksOK DEF Texts
<1>5. \A j \in 1..Len(r) : Rank[r[j]] \in Nat
  BY ElementOfSeq, RanksOK DEF Texts
<1>6. CASE i < k
  <2>0. i \in 1..k - 1 /\ \A j \in 1..i - 1 : j \in 1..k - 1
    BY <1>1, <1>2, <1>6 DEF Parts
  <2>1. i \in 1..Len(r) /\ q[i] = r[i] /\ \A j \in 1..i - 1 : p[j] = r[j]
    BY <1>0, <1>1, <1>2, <2>0 DEF Parts
  <2>2. Parts(p, r, i)
    BY <1>0, <1>1, <2>1 DEF Parts
  <2> QED  BY <2>2, EarlierParts
<1>7. CASE i = k
  <2>1. i \in 1..Len(r) /\ i \in 1..Len(q) /\ \A j \in 1..i - 1 : p[j] = r[j]
    BY <1>0, <1>1, <1>2, <1>7 DEF Parts
  <2>2. i <= Len(p) => Rank[p[i]] < Rank[r[i]]
    <3>1. Rank[q[i]] < Rank[r[i]]
      BY <1>0, <1>2, <1>7, <2>1 DEF Parts
    <3>2. i <= Len(p) => Rank[p[i]] < Rank[q[i]] /\ i \in 1..Len(p)
      BY <1>0, <1>1, <2>1 DEF Parts
    <3> QED  BY <1>3, <1>4, <1>5, <2>1, <3>1, <3>2
  <2>3. Parts(p, r, i)
    BY <1>1, <2>1, <2>2 DEF Parts
  <2> QED  BY <2>3, EarlierParts
<1>8. CASE k < i
  <2>1. k \in 1..Len(p) /\ k \in 1..Len(q) /\ k \in 1..Len(r) /\ p[k] = q[k]
    BY <1>0, <1>1, <1>2, <1>8 DEF Parts
  <2>2. \A j \in 1..k - 1 : p[j] = r[j]
    BY <1>0, <1>1, <1>2, <1>8 DEF Parts
  <2>3. Parts(p, r, k)
    BY <1>0, <1>2, <2>1, <2>2 DEF Parts
  <2> QED  BY <2>3, EarlierParts
<1> QED  BY <1>6, <1>7, <1>8

(* What comes before a path is not the path or one that starts with it. *)
LEMMA EarlierNotBelow ==
  ASSUME NEW p \in Seq(Texts), NEW l \in 0..Len(p)
  PROVE  ~ Earlier(p, SubSeq(p, 1, l))
<1> DEFINE b == SubSeq(p, 1, l)
<1>1. b \in Seq(Texts) /\ Len(b) = l /\ \A i \in 1..l : b[i] = p[i]
  BY PrefixIs
<1>2. Len(p) \in Nat /\ \A i \in 1..Len(p) : Rank[p[i]] \in Nat
  BY LenProperties, ElementOfSeq, RanksOK DEF Texts
<1> HIDE DEF b
<1>3. SUFFICES ASSUME Earlier(p, b)  PROVE FALSE
  BY DEF b
<1>4. PICK i \in Nat : Parts(p, b, i)
  BY <1>1, <1>3, EarlierParts
<1>5. i \in 1..l /\ i \in 1..Len(p) /\ Rank[p[i]] < Rank[b[i]]
  BY <1>1, <1>2, <1>4 DEF Parts
<1> QED  BY <1>1, <1>2, <1>5

(* A finite set of paths has a first one. *)
LEMMA FirstOfPaths ==
  ASSUME NEW S \in SUBSET Seq(Texts), IsFiniteSet(S), S # {}
  PROVE  \E b \in S : \A c \in S : c = b \/ Earlier(b, c)
<1> DEFINE Has(G) == \E b \in G : \A c \in G : c = b \/ Earlier(b, c)
           bad == {G \in SUBSET S : G # {} /\ ~ Has(G)}
           sizes == {Cardinality(G) : G \in bad}
<1>1. SUFFICES ASSUME bad # {}  PROVE FALSE
  OBVIOUS
<1>2. \A G \in bad : IsFiniteSet(G) /\ Cardinality(G) \in Nat
  BY FS_Subset, FS_CardinalityType
<1>3. sizes \in SUBSET Nat /\ sizes # {}
  BY <1>1, <1>2
<1>4. PICK m \in sizes : \A n \in sizes : m <= n
  BY <1>3, LeastNat
<1>5. PICK G \in bad : m = Cardinality(G)
  BY <1>4
<1>6. PICK x \in G : TRUE
  BY <1>5
<1> DEFINE R == G \ {x}
<1>7. R \in SUBSET S /\ R \notin bad
  <2>1. Cardinality(R) = Cardinality(G) - 1
    BY <1>2, <1>5, <1>6, FS_RemoveElement
  <2>2. Cardinality(R) \notin sizes
    <3>0. \A k \in Nat : ~ (k <= k - 1)
      OBVIOUS
    <3>1. ~ (m <= Cardinality(R))
      BY <1>2, <1>5, <2>1, <3>0
    <3> QED  BY <1>4, <3>1
  <2> QED  BY <1>5, <2>2
<1>8. x \in Seq(Texts) /\ G \subseteq Seq(Texts)
  BY <1>5, <1>6
<1>9. CASE R = {}
  BY <1>5, <1>6, <1>9
<1>10. CASE R # {}
  <2>1. PICK b \in R : \A c \in R : c = b \/ Earlier(b, c)
    BY <1>7, <1>10
  <2>2. b \in Seq(Texts) /\ b # x /\ b \in G
    BY <1>8, <2>1
  <2>3. CASE Earlier(b, x)
    <3>1. \A c \in G : c = b \/ Earlier(b, c)
      BY <2>1, <2>3
    <3> QED  BY <1>5, <2>2, <3>1
  <2>4. CASE Earlier(x, b)
    <3>1. \A c \in G : c = x \/ Earlier(x, c)
      BY <1>8, <2>1, <2>2, <2>4, EarlierTransitive
    <3> QED  BY <1>5, <1>6, <3>1
  <2> QED  BY <1>8, <2>2, <2>3, <2>4, EarlierTotal
<1> QED  BY <1>9, <1>10

-----------------------------------------------------------------------------
(* More about prefixes *)

LEMMA PrefixesSplit ==
  ASSUME NEW T, NEW p \in Seq(T), p # <<>>
  PROVE  Prefixes(p) \subseteq {p} \cup Prefixes(Front(p))
<1>1. Len(p) \in Nat /\ Len(p) # 0
  BY LenProperties, EmptySeq
<1>2. ASSUME NEW l \in 0..Len(p)  PROVE SubSeq(p, 1, l) \in {p} \cup Prefixes(Front(p))
  <2>1. CASE l = Len(p)
    BY <2>1, SubSeqFull
  <2>2. CASE l # Len(p)
    <3> DEFINE f == Front(p)
    <3>1. f \in Seq(T) /\ Len(f) = Len(p) - 1 /\ \A i \in 1..Len(p) - 1 : f[i] = p[i]
      BY FrontIs
    <3> HIDE DEF f
    <3>2. l \in 0..Len(f) /\ l <= Len(p) /\ \A i \in 1..l : f[i] = p[i]
      BY <1>1, <2>2, <3>1
    <3>3. SubSeq(f, 1, l) = SubSeq(p, 1, l)
      BY <3>1, <3>2, SameBeginning
    <3> QED  BY <3>2, <3>3 DEF f, Prefixes
  <2> QED  BY <2>1, <2>2
<1> QED  BY <1>2 DEF Prefixes

LEMMA PrefixesOfNone == Prefixes(<<>>) = {<<>>}
<1>1. Len(<<>>) = 0 /\ SubSeq(<<>>, 1, 0) = <<>>
  BY EmptySeq, SubSeqEmpty
<1>2. 0..0 = {0}
  OBVIOUS
<1>3. 0..Len(<<>>) = {0}
  BY <1>1, <1>2
<1> QED  BY <1>1, <1>3 DEF Prefixes

LEMMA PrefixesFinite ==
  ASSUME NEW T, NEW p \in Seq(T)
  PROVE  IsFiniteSet(Prefixes(p))
<1> DEFINE f == [l \in 0..Len(p) |-> SubSeq(p, 1, l)]
<1>1. f \in Surjection(0..Len(p), Prefixes(p))
  BY DEF Surjection, Prefixes
<1>2. IsFiniteSet(0..Len(p))
  BY FS_Interval, LenProperties
<1> QED  BY <1>1, <1>2, FS_Surjection

LEMMA IsPrefixIn ==
  ASSUME NEW T, NEW p \in Seq(T), NEW b \in Seq(T), IsPrefix(b, p)
  PROVE  b \in Prefixes(p)
<1>1. Len(b) \in 0..Len(p)
  BY LenProperties DEF IsPrefix
<1>2. b = SubSeq(p, 1, Len(b))
  BY SubSeqFull DEF IsPrefix
<1> QED  BY <1>1, <1>2 DEF Prefixes

-----------------------------------------------------------------------------
(* The tree while it grows *)

Paths == {a.path : a \in Range(apis)}

(* The branches that are there, and those that the remains handler sets. *)
There == DOMAIN tree
Missed == DOMAIN fills

(* A branch never stands without those above it, whatever has its routes    *)
(* has all of them, and no route is lost on the way from the HashSet to the *)
(* tree.  A parent takes no children any more once the handler is at work.  *)
Growing ==
  /\ <<>> \in There /\ There \subseteq Branches
  /\ tree = [b \in There |-> Group(b)]
  /\ \A b \in There : Prefixes(b) \subseteq There
  /\ parents \subseteq There
  /\ loose \subseteq Paths \ There
  /\ Paths \subseteq loose \cup There \cup Missed
  /\ IsFiniteSet(Missed) /\ Missed \subseteq Branches \ There
  /\ parents # {} => Missed = {}
  /\ \A b \in Missed : Prefixes(b) \subseteq There \cup Missed
  /\ \A b \in Missed : fills[b] = Group(b) \/ (b \in loose /\ fills[b] = {})

(* Where ready() has come to. *)
Progress ==
  /\ router \in Routers
  /\ at = "broken" => Ambiguous
  /\ at \notin {"new", "broken"} => loose = {} /\ Missed = {}

GInv == Growing /\ Progress

LEMMA BranchesOf ==
  ASSUME router \in Routers
  PROVE  /\ <<>> \notin Paths /\ Paths \subseteq Branches /\ Paths \subseteq Seq(Texts)
         /\ <<>> \in Branches /\ Branches \subseteq Seq(Texts)
         /\ \A b \in Branches : Prefixes(b) \subseteq Branches
         /\ \A b \in Branches : b \notin Paths => Group(b) = {}
<1>1. \A p \in Paths : p \in Seq(Texts) /\ p # <<>>
  BY PathsOK DEF Paths, apis, Texts
<1>2. Branches = {<<>>} \cup UNION {Prefixes(p) : p \in Paths}
  BY DEF Branches, Paths
<1>3. <<>> \in Seq(Texts) /\ Prefixes(<<>>) = {<<>>}
  BY EmptySeq, PrefixesOfNone
<1>4. ASSUME NEW b \in Branches  PROVE b \in Seq(Texts) /\ Prefixes(b) \subseteq Branches
  <2>1. CASE b = <<>>
    BY <1>2, <1>3, <2>1
  <2>2. CASE b # <<>>
    <3>1. PICK p \in Paths : b \in Prefixes(p)
      BY <1>2, <1>4, <2>2
    <3> QED  BY <1>1, <1>2, <3>1, PrefixesOf
  <2> QED  BY <2>1, <2>2
<1>5. Paths \subseteq Branches
  BY <1>1, <1>2, PrefixesOf
<1>6. \A b : b \notin Paths => Group(b) = {}
  BY DEF Group, Paths
<1> QED  BY <1>1, <1>2, <1>4, <1>5, <1>6

LEMMA GInvInit == PipeInit => GInv
<1> SUFFICES ASSUME PipeInit  PROVE GInv
  OBVIOUS
<1>1. /\ router \in Routers /\ at = "new" /\ loose = Paths /\ parents = {<<>>}
      /\ tree = [b \in {<<>>} |-> {}] /\ fills = [b \in {} |-> {}]
  BY DEF PipeInit, Init, BuildInit, Paths
<1>2. Group(<<>>) = {} /\ Prefixes(<<>>) = {<<>>}
  BY <1>1, BranchesOf, PrefixesOfNone
<1>3. There = {<<>>} /\ Missed = {}
  BY <1>1 DEF There, Missed
<1>4. Growing
  BY <1>1, <1>2, <1>3, BranchesOf, FS_EmptySet DEF Growing
<1> QED  BY <1>1, <1>4 DEF GInv, Progress

LEMMA PlantGrows ==
  ASSUME GInv, Plant
  PROVE  GInv'
<1>1. /\ at = "new" /\ UNCHANGED <<router, at, fills>>
  BY DEF Plant, Building
<1>2. PICK pa \in parents : LET own == {p \in loose : Front(p) = pa} IN
        /\ tree' = [b \in own \cup DOMAIN tree |-> IF b \in own THEN Group(b) ELSE tree[b]]
        /\ loose' = loose \ own
        /\ parents' = (parents \ {pa}) \cup own
  BY DEF Plant
<1> DEFINE own == {p \in loose : Front(p) = pa}
<1>3. /\ There' = own \cup There /\ Missed' = Missed /\ Missed = {}
      /\ Paths' = Paths /\ Branches' = Branches /\ \A b : Group(b)' = Group(b)
  BY <1>1, <1>2 DEF There, Missed, Paths, Branches, Group, apis, GInv, Growing
<1>4. own \subseteq loose /\ own \subseteq Paths /\ Paths \subseteq Branches
  BY BranchesOf DEF GInv, Growing, Progress
<1>5. \A p \in own : Prefixes(p) \subseteq own \cup There
  <2>1. ASSUME NEW p \in own  PROVE Prefixes(p) \subseteq own \cup There
    <3>1. p \in Seq(Texts) /\ p # <<>> /\ Front(p) \in There
      BY <1>4, BranchesOf DEF GInv, Growing, Progress
    <3>2. Prefixes(Front(p)) \subseteq There
      BY <3>1 DEF GInv, Growing
    <3> QED  BY <2>1, <3>1, <3>2, PrefixesSplit
  <2> QED  BY <2>1
<1>6. tree' = [b \in There' |-> Group(b)']
  <2>1. \A b \in There : tree[b] = Group(b)
    BY DEF GInv, Growing
  <2> QED  BY <1>2, <1>3, <2>1 DEF There
<1>7. loose' = loose \ own /\ parents' \subseteq parents \cup own
  BY <1>2
<1> HIDE DEF own
<1>8. Growing'
  BY <1>3, <1>4, <1>5, <1>6, <1>7 DEF GInv, Growing
<1> QED  BY <1>1, <1>3, <1>8 DEF GInv, Progress

LEMMA FillGrows ==
  ASSUME GInv, Fill
  PROVE  GInv'
<1>1. at = "new" /\ parents = {} /\ UNCHANGED <<router, at, parents, tree>>
  BY DEF Fill, Building
<1>2. PICK p \in loose :
        LET missed == {b \in Prefixes(p) \ {<<>>, p} : b \notin DOMAIN tree \cup DOMAIN fills} IN
        /\ fills' = [b \in {p} \cup missed \cup DOMAIN fills |->
                       CASE b = p -> Group(p) [] b \in missed -> {} [] OTHER -> fills[b]]
        /\ loose' = loose \ {p}
  BY DEF Fill
<1> DEFINE missed == {b \in Prefixes(p) \ {<<>>, p} : b \notin DOMAIN tree \cup DOMAIN fills}
<1>3. /\ There' = There /\ Missed' = {p} \cup missed \cup Missed
      /\ Paths' = Paths /\ Branches' = Branches /\ \A b : Group(b)' = Group(b)
  BY <1>1, <1>2 DEF There, Missed, Paths, Branches, Group, apis
<1>4. p \in Paths /\ p \in Branches /\ p \in Seq(Texts) /\ p # <<>> /\ p \notin There
  BY BranchesOf DEF GInv, Growing, Progress
<1>5. Prefixes(p) \subseteq {p} \cup missed \cup There \cup Missed
  BY DEF There, Missed, GInv, Growing
<1>6. /\ missed \subseteq Prefixes(p) /\ missed \subseteq Branches \ There /\ missed \cap Missed = {}
      /\ p \notin missed
  BY <1>4, BranchesOf DEF GInv, Progress, There, Missed
<1>7. \A b \in missed : Prefixes(b) \subseteq Prefixes(p)
  BY <1>4, <1>6, PrefixesOf
<1>8. \A b \in Missed' : Prefixes(b) \subseteq There' \cup Missed'
  BY <1>3, <1>5, <1>7 DEF GInv, Growing
<1>9. \A b \in Missed' : fills'[b] = Group(b)' \/ (b \in loose' /\ fills'[b] = {})
  <2>1. ASSUME NEW b \in Missed'  PROVE fills'[b] = Group(b) \/ (b \in loose' /\ fills'[b] = {})
    <3>1. CASE b = p
      <4>1. fills'[p] = CASE p = p -> Group(p) [] p \in missed -> {} [] OTHER -> fills[p]
        BY <1>2
      <4>2. (CASE p = p -> Group(p) [] p \in missed -> {} [] OTHER -> fills[p]) = Group(p)
        BY <1>6
      <4>3. fills'[p] = Group(p)
        BY <4>1, <4>2
      <4> QED  BY <3>1, <4>3
    <3>2. CASE b \in missed
      <4>1. fills'[b] = {}
        BY <1>2, <1>6, <3>2
      <4>2. b \notin Paths \/ b \in loose
        BY <1>6, <3>2 DEF GInv, Growing
      <4>3. b \notin Paths => Group(b) = {}
        BY <1>6, <3>2, BranchesOf DEF GInv, Progress
      <4> QED  BY <1>2, <3>2, <4>1, <4>2, <4>3
    <3>3. CASE b # p /\ b \notin missed
      <4>1. b \in Missed /\ fills'[b] = fills[b]
        BY <1>2, <1>3, <2>1, <3>3 DEF Missed
      <4>2. fills[b] = Group(b) \/ (b \in loose /\ fills[b] = {})
        BY <4>1 DEF GInv, Growing
      <4> QED  BY <1>2, <3>3, <4>1, <4>2
    <3> QED  BY <3>1, <3>2, <3>3
  <2> QED  BY <1>3, <2>1
<1>10. IsFiniteSet(Missed')
  <2>1. IsFiniteSet(missed)
    BY <1>4, <1>6, PrefixesFinite, FS_Subset
  <2>2. IsFiniteSet({p} \cup missed)
    BY <2>1, FS_Singleton, FS_Union
  <2> QED  BY <1>3, <2>2, FS_Union DEF GInv, Growing
<1>11. loose' = loose \ {p}
  BY <1>2
<1>12. tree' = [b \in There' |-> Group(b)']
  BY <1>1, <1>3 DEF GInv, Growing
<1> HIDE DEF missed
<1>13. Growing'
  BY <1>1, <1>3, <1>4, <1>6, <1>8, <1>9, <1>10, <1>11, <1>12 DEF GInv, Growing
<1> QED  BY <1>1, <1>3, <1>13 DEF GInv, Progress

(* The handler sets the branches in the order of their paths, so that the   *)
(* one above is always there already.                                       *)
LEMMA FirstMissed ==
  ASSUME GInv, Missed # {}
  PROVE  LET b == CHOOSE b \in Missed : \A c \in Missed : c = b \/ Earlier(b, c)
         IN  b \in Missed /\ b # <<>> /\ Front(b) \in There
<1> DEFINE b == CHOOSE b \in Missed : \A c \in Missed : c = b \/ Earlier(b, c)
<1>1. Missed \subseteq Seq(Texts) /\ <<>> \notin Missed
  BY BranchesOf DEF GInv, Growing, Progress
<1>2. \E d \in Missed : \A c \in Missed : c = d \/ Earlier(d, c)
  BY <1>1, FirstOfPaths DEF GInv, Growing
<1>3. b \in Missed /\ \A c \in Missed : c = b \/ Earlier(b, c)
  BY <1>2
<1> HIDE DEF b
<1>4. b \in Seq(Texts) /\ b # <<>> /\ Len(b) \in Nat /\ Len(b) # 0
  BY <1>1, <1>3, LenProperties, EmptySeq
<1>5. Front(b) \in Prefixes(b) /\ Len(Front(b)) = Len(b) - 1
  BY <1>4, PrefixesOf, FrontIs
<1>6. Front(b) \notin Missed
  <2>1. Front(b) # b
    BY <1>4, <1>5
  <2>2. Len(b) - 1 \in 0..Len(b)
    BY <1>4
  <2>3. ~ Earlier(b, Front(b))
    BY <1>4, <2>2, EarlierNotBelow DEF Front
  <2> QED  BY <1>3, <2>1, <2>3
<1>7. Front(b) \in There
  BY <1>3, <1>5, <1>6 DEF GInv, Growing
<1> QED  BY <1>3, <1>4, <1>7 DEF b

LEMMA SetFillGrows ==
  ASSUME GInv, SetFill
  PROVE  GInv'
<1>1. /\ at = "new" /\ parents = {} /\ loose = {} /\ Missed # {}
      /\ UNCHANGED <<router, at, loose, parents>>
  BY DEF SetFill, Building, Missed
<1> DEFINE b == CHOOSE b \in DOMAIN fills : \A c \in DOMAIN fills : c = b \/ Earlier(b, c)
<1>2. b \in Missed /\ b # <<>> /\ Front(b) \in There
  BY <1>1, FirstMissed DEF Missed
<1>3. /\ tree' = IF Front(b) \notin DOMAIN tree THEN tree
                 ELSE [c \in {c \in DOMAIN tree : ~ IsPrefix(b, c)} \cup {b} |->
                         IF c = b THEN fills[b] ELSE tree[c]]
      /\ fills' = [c \in DOMAIN fills \ {b} |-> fills[c]]
  BY DEF SetFill
<1> HIDE DEF b
<1>4. b \in Seq(Texts) /\ b \in Branches /\ b \notin There /\ There \subseteq Seq(Texts)
  BY <1>2, BranchesOf DEF GInv, Growing, Progress
<1>5. \A c \in There : ~ IsPrefix(b, c)
  BY <1>4, IsPrefixIn DEF GInv, Growing
<1>6. fills[b] = Group(b)
  BY <1>1, <1>2 DEF GInv, Growing
<1>7. tree' = [c \in There \cup {b} |-> IF c = b THEN fills[b] ELSE tree[c]]
  BY <1>2, <1>3, <1>5 DEF There
<1>8. /\ There' = There \cup {b} /\ Missed' = Missed \ {b}
      /\ Paths' = Paths /\ Branches' = Branches /\ \A c : Group(c)' = Group(c)
  BY <1>1, <1>3, <1>7 DEF There, Missed, Paths, Branches, Group, apis
<1>9. tree' = [c \in There' |-> Group(c)']
  <2>1. \A c \in There : tree[c] = Group(c)
    BY DEF GInv, Growing
  <2> QED  BY <1>6, <1>7, <1>8, <2>1
<1>10. \A c \in There' : Prefixes(c) \subseteq There'
  <2>1. Prefixes(b) \subseteq {b} \cup Prefixes(Front(b))
    BY <1>2, <1>4, PrefixesSplit
  <2> QED  BY <1>2, <1>8, <2>1 DEF GInv, Growing
<1>11. \A c \in Missed' : Prefixes(c) \subseteq There' \cup Missed'
  BY <1>8 DEF GInv, Growing
<1>12. \A c \in Missed' : fills'[c] = Group(c)' \/ (c \in loose' /\ fills'[c] = {})
  <2>1. \A c \in Missed' : c \in Missed /\ fills'[c] = fills[c]
    BY <1>3, <1>8 DEF Missed
  <2> QED  BY <1>1, <1>8, <2>1 DEF GInv, Growing
<1>13. IsFiniteSet(Missed')
  BY <1>8, FS_RemoveElement DEF GInv, Growing
<1>14. Growing'
  BY <1>1, <1>4, <1>8, <1>9, <1>10, <1>11, <1>12, <1>13 DEF GInv, Growing
<1> QED  BY <1>1, <1>8, <1>14 DEF GInv, Progress

-----------------------------------------------------------------------------
(* ready() refuses a table only for a reason that the routes give. *)

LEMMA HolderAbove ==
  ASSUME GInv, NEW n \in Branches
  PROVE  Holder(n) \in Prefixes(n)
<1>1. n \in Seq(Texts) /\ Len(n) \in Nat
  BY BranchesOf, LenProperties DEF GInv, Progress
<1> DEFINE S == Prefixes(n) \ Omitted
<1>2. <<>> \in S
  <2>1. Omitted \subseteq Paths
    BY DEF Omitted, Paths
  <2> QED  BY <1>1, <2>1, PrefixesOf, BranchesOf DEF GInv, Progress
<1>3. S \in SUBSET Seq(Texts) /\ \A b \in S : Len(b) <= Len(n)
  BY <1>1, PrefixesOf
<1>4. \E b \in S : \A c \in S : Len(c) <= Len(b)
  BY <1>1, <1>2, <1>3, LongestOf
<1> QED  BY <1>4 DEF Holder

LEMMA LinkPanicsAmbiguous ==
  ASSUME GInv, LinkPanics
  PROVE  Ambiguous
<1> DEFINE n == Last(nodes)  b == Holder(n)
<1>1. PICK c \in DOMAIN tree \ {<<>>} : Front(c) = n
  BY DEF LinkPanics, Children
<1>2. Kind(b) \notin {"text", "required"}
  BY DEF LinkPanics
<1>3. c \in Branches \ {<<>>} /\ c \in Seq(Texts)
  BY <1>1, BranchesOf DEF GInv, Growing, Progress, There
<1>4. n \in Branches
  BY <1>1, <1>3, PrefixesOf, BranchesOf DEF GInv, Progress
<1>5. b \in Branches
  BY <1>4, HolderAbove, BranchesOf DEF GInv, Progress
<1>6. c \in Below(b)
  BY <1>1, <1>3 DEF Below, Above
<1> QED  BY <1>2, <1>5, <1>6 DEF Ambiguous

LEMMA BuildGrows ==
  ASSUME GInv, BuildStep
  PROVE  GInv'
<1>1. CASE Plant
  BY <1>1, PlantGrows
<1>2. CASE Fill
  BY <1>2, FillGrows
<1>3. CASE SetFill
  BY <1>3, SetFillGrows
<1>4. ASSUME UNCHANGED <<router, treeVars>>
      PROVE  /\ Growing' /\ router' = router /\ loose' = loose /\ Missed' = Missed
             /\ (Ambiguous <=> Ambiguous')
  BY <1>4 DEF treeVars, GInv, Growing, There, Missed, Paths, Branches, Group, Ambiguous, Omitted,
     Below, Above, Holder, apis
<1>5. CASE OmittedVar
  <2>1. UNCHANGED <<router, treeVars>> /\ at' = "broken"
    BY <1>5 DEF OmittedVar, built
  <2>2. Ambiguous
    BY <1>5 DEF OmittedVar, Ambiguous
  <2> QED  BY <1>4, <2>1, <2>2 DEF GInv, Progress
<1>6. CASE LinkPanics
  <2>1. UNCHANGED <<router, treeVars>> /\ at' = "broken"
    BY <1>6 DEF LinkPanics, built
  <2> QED  BY <1>4, <1>6, <2>1, LinkPanicsAmbiguous DEF GInv, Progress
<1>7. CASE Link \/ Close
  <2>1. UNCHANGED <<router, treeVars>> /\ UNCHANGED at
    BY <1>7 DEF Link, Close
  <2> QED  BY <1>4, <2>1 DEF GInv, Progress
<1>8. CASE Ready
  <2>1. UNCHANGED <<router, treeVars>> /\ at' = "idle" /\ loose = {} /\ Missed = {}
    BY <1>8 DEF Ready, Grown, built, Missed
  <2> QED  BY <1>4, <2>1 DEF GInv, Progress
<1> QED  BY <1>1, <1>2, <1>3, <1>5, <1>6, <1>7, <1>8 DEF BuildStep

(* Nothing else touches what ready() has built. *)
LEMMA OnlyReadyBuilds ==
  ASSUME PInv, PipeNext, ~ BuildStep
  PROVE  /\ UNCHANGED built
         /\ at' = at \/ (at \notin {"new", "broken"} /\ at' \notin {"new", "broken"})
<1>1. CASE Step
  <2>1. at \in Locating /\ at' \in Locating \cup Answered
    BY <1>1, StepMoves
  <2>2. UNCHANGED built
    BY <1>1 DEF Step, Lookup, Finish, Descend, OutOfBounds, TakeRest, BranchOut, NotFound, Select,
       Target
  <2> QED  BY <2>1, <2>2 DEF Locating, Answered
<1>2. CASE Serve
  <2>1. UNCHANGED vars
    BY <1>2 DEF Serve, NotRouted, Before, ReadBody, ReadDto, ReadBodyPanics, ReadSuffix, SetSid,
       Return, Raise, After, HandleResult
  <2> QED  BY <2>1 DEF vars
<1>3. CASE Done
  <2>1. UNCHANGED built /\ at \in Answered /\ at' = "idle"
    BY <1>3 DEF Done, Respond
  <2> QED  BY <2>1 DEF Answered
<1>4. CASE \E raw \in Raws[proto] : Receive(raw)
  <2>1. UNCHANGED built
    BY <1>4 DEF Receive, Locate, LocateId
  <2> QED  BY <1>4, <2>1, ReceiveMoves DEF Locating, Answered
<1>5. CASE \E raw \in Raws[proto] : ReceivePanics(raw)
  BY <1>5 DEF ReceivePanics
<1> QED  BY <1>1, <1>2, <1>3, <1>4, <1>5 DEF PipeNext, Route, Build

LEMMA GInvStep == PInv /\ GInv /\ [PipeNext]_pipeVars => GInv'
<1> SUFFICES ASSUME PInv, GInv, [PipeNext]_pipeVars  PROVE GInv'
  OBVIOUS
<1>1. CASE BuildStep
  BY <1>1, BuildGrows
<1>2. CASE ~ BuildStep
  <2>1. /\ UNCHANGED built
        /\ at' = at \/ (at \notin {"new", "broken"} /\ at' \notin {"new", "broken"})
    <3>1. CASE PipeNext
      BY <1>2, <3>1, OnlyReadyBuilds
    <3>2. CASE UNCHANGED pipeVars
      <4>1. UNCHANGED vars
        BY <3>2 DEF pipeVars
      <4> QED  BY <4>1 DEF vars
    <3> QED  BY <3>1, <3>2
  <2>2. UNCHANGED <<router, tree, fills, loose, parents>>
    BY <2>1 DEF built, treeVars
  <2>3. /\ There' = There /\ Missed' = Missed /\ Paths' = Paths /\ Branches' = Branches
        /\ \A b : Group(b)' = Group(b)
        /\ (Ambiguous <=> Ambiguous')
    BY <2>2 DEF There, Missed, Paths, Branches, Group, Ambiguous, Omitted, Below, Above, Holder, apis
  <2>4. Growing'
    BY <2>2, <2>3 DEF GInv, Growing
  <2> QED  BY <2>1, <2>2, <2>3, <2>4 DEF GInv, Progress
<1> QED  BY <1>1, <1>2

(***************************************************************************)
(* For every table of routes, in whatever order the HashSet gives them:    *)
(* when ready() is done the tree has one branch for every prefix of a      *)
(* path, with the routes of that path, and it refuses only ambiguous       *)
(* routes (build_tree, ATree::build, set_by_path).                         *)
(***************************************************************************)
THEOREM TreeOfRoutes == Spec => []TreeBuilt
<1>1. GInv => TreeBuilt
  <2> SUFFICES ASSUME GInv  PROVE TreeBuilt
    OBVIOUS
  <2>1. ASSUME at = "idle"  PROVE tree = [b \in Branches |-> Group(b)]
    <3>1. Paths \subseteq There /\ There \subseteq Branches /\ <<>> \in There
      BY <2>1 DEF GInv, Growing, Progress
    <3>2. \A p \in Paths : Prefixes(p) \subseteq There
      BY <3>1 DEF GInv, Growing
    <3>3. Branches \subseteq There
      BY <3>1, <3>2 DEF Branches, Paths
    <3>4. There = Branches
      BY <3>1, <3>3
    <3> QED  BY <3>4 DEF GInv, Growing
  <2> QED  BY <2>1 DEF GInv, Progress, TreeBuilt
<1> QED  BY <1>1, PInvInit, PInvStep, GInvInit, GInvStep, PTL DEF Spec
=============================================================================
