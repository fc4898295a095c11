-------------------------- MODULE Landing_proofs --------------------------
(***************************************************************************)
(* Proofs about Landing for any number of landings and files, any scopes   *)
(* and any number of writes, foreign commits, stagings and faults.         *)
(***************************************************************************)
EXTENDS Landing, FiniteSetTheorems, SequenceTheorems, WellFoundedInduction, TLAPS

(* A commit: some files, each with a version. *)
Patch == UNION {[D -> Nat] : D \in SUBSET Files}

Branch == Seq(Patch)
-----------------------------------------------------------------------------
(* Histories. *)

(* A bounded set of numbers has a greatest element. *)
LEMMA Greatest ==
    ASSUME NEW n \in Nat, NEW S \in SUBSET (0..n), S # {}
    PROVE  \E m \in S : \A j \in S : j <= m
<1> DEFINE T == {n - k : k \in S}
<1>0. \A k \in S : k \in Nat /\ k <= n /\ n - k \in Nat
  OBVIOUS
<1>1. T \subseteq Nat /\ T # {}
  BY <1>0
<1>2. \E x \in T : \A y \in T : ~(<<y, x>> \in OpToRel(<, Nat))
  <2> HIDE DEF T
  <2> QED
    BY <1>1, NatLessThanWellFounded, WFMin
<1>3. PICK x \in T : \A y \in T : ~(<<y, x>> \in OpToRel(<, Nat))
  BY <1>2
<1>4. \A y \in T : x <= y
  <2> SUFFICES ASSUME NEW y \in T PROVE x <= y
    OBVIOUS
  <2>1. x \in Nat /\ y \in Nat
    BY <1>1
  <2>2. <<y, x>> \notin OpToRel(<, Nat)
    BY <1>3
  <2> HIDE DEF T
  <2> QED
    BY <2>1, <2>2 DEF OpToRel
<1>5. PICK m \in S : x = n - m
  OBVIOUS
<1>6. \A j \in S : n - j \in T
  OBVIOUS
<1>7. \A j \in S : j <= m
  <2> SUFFICES ASSUME NEW j \in S PROVE j <= m
    OBVIOUS
  <2>1. n - m <= n - j
    BY <1>4, <1>5, <1>6
  <2> QED
    BY <1>0, <2>1
<1> QED
  BY <1>7

(* A commit is a function from some of the files. *)
LEMMA PatchFacts ==
    ASSUME NEW p \in Patch
    PROVE  DOMAIN p \subseteq Files /\ \A f \in DOMAIN p : p[f] \in Nat
<1>1. PICK D \in SUBSET Files : p \in [D -> Nat]
  BY DEF Patch
<1> QED
  BY <1>1

(* The version a branch has of a file is that of the last commit that      *)
(* changes it.                                                             *)
LEMMA LastVersion ==
    ASSUME NEW h \in Branch, NEW f
    PROVE  \/ /\ Version(h, f) = 0
              /\ \A i \in 1..Len(h) : f \notin DOMAIN h[i]
           \/ \E i \in 1..Len(h) :
                 /\ f \in DOMAIN h[i] /\ Version(h, f) = h[i][f]
                 /\ \A j \in 1..Len(h) : f \in DOMAIN h[j] => j <= i
<1> DEFINE at == {i \in 1..Len(h) : f \in DOMAIN h[i]}
<1>0. Len(h) \in Nat
  BY DEF Branch
<1>1. CASE at = {}
  BY <1>1 DEF Version
<1>2. CASE at # {}
  <2> DEFINE m == CHOOSE i \in at : \A j \in at : j <= i
  <2>1. at \in SUBSET (0..Len(h))
    BY <1>0
  <2>2. \E i \in at : \A j \in at : j <= i
    <3> HIDE DEF at
    <3> QED
      BY <1>0, <1>2, <2>1, Greatest
  <2>3. m \in at /\ \A j \in at : j <= m
    <3> HIDE DEF at
    <3> QED
      BY <2>2
  <2>4. Version(h, f) = h[m][f]
    BY <1>2 DEF Version
  <2> QED
    BY <2>3, <2>4
<1> QED
  BY <1>1, <1>2

(* What a branch has brought in. *)
LEMMA PairsAre ==
    ASSUME NEW h, NEW q
    PROVE  q \in Pairs(h) <=>
              \/ \E f \in Files : q = <<f, 0>>
              \/ \E i \in 1..Len(h) : \E f \in DOMAIN h[i] : q = <<f, h[i][f]>>
BY DEF Pairs, PairsOf

LEMMA VersionInPairs ==
    ASSUME NEW h \in Branch, NEW f \in Files
    PROVE  <<f, Version(h, f)>> \in Pairs(h)
BY LastVersion, PairsAre

(* One branch brings in no more than another if all its commits are there. *)
LEMMA PairsOfCommits ==
    ASSUME NEW a, NEW b,
           \A i \in 1..Len(a) : \E j \in 1..Len(b) : a[i] = b[j]
    PROVE  Pairs(a) \subseteq Pairs(b)
<1> SUFFICES ASSUME NEW q \in Pairs(a) PROVE q \in Pairs(b)
  OBVIOUS
<1> QED
  BY PairsAre

LEMMA PairsOfPrefix ==
    ASSUME NEW a \in Branch, NEW b \in Branch, IsPrefix(a, b)
    PROVE  Pairs(a) \subseteq Pairs(b)
<1>0. Len(a) \in Nat /\ Len(b) \in Nat
  BY DEF Branch
<1>1. Len(a) <= Len(b) /\ SubSeq(a, 1, Len(a)) = SubSeq(b, 1, Len(a))
  BY DEF IsPrefix
<1>2. \A i \in 1..Len(a) : a[i] = b[i]
  <2> SUFFICES ASSUME NEW i \in 1..Len(a) PROVE a[i] = b[i]
    OBVIOUS
  <2>1. SubSeq(a, 1, Len(a))[i] = a[i] /\ SubSeq(b, 1, Len(a))[i] = b[i]
    BY <1>0, <1>1 DEF Branch
  <2> QED
    BY <1>1, <2>1
<1> QED
  BY <1>0, <1>1, <1>2, PairsOfCommits

(* A commit on top: its files get its versions, the others keep theirs.    *)
LEMMA AppendedCommit ==
    ASSUME NEW h \in Branch, NEW p \in Patch
    PROVE  /\ Append(h, p) \in Branch
           /\ Pairs(Append(h, p)) = Pairs(h) \cup PairsOf(p)
           /\ \A f : Version(Append(h, p), f) = IF f \in DOMAIN p THEN p[f] ELSE Version(h, f)
<1> DEFINE g == Append(h, p)
<1>1. /\ g \in Branch /\ Len(h) \in Nat /\ Len(g) = Len(h) + 1 /\ g[Len(h) + 1] = p
      /\ \A i \in 1..Len(h) : g[i] = h[i]
  BY DEF Branch
<1> HIDE DEF g
<1>2. Pairs(g) = Pairs(h) \cup PairsOf(p)
  <2>1. \A q \in Pairs(g) : q \in Pairs(h) \cup PairsOf(p)
    <3> SUFFICES ASSUME NEW q \in Pairs(g), q \notin Pairs(h) PROVE q \in PairsOf(p)
      OBVIOUS
    <3>1. PICK i \in 1..Len(g) : \E f \in DOMAIN g[i] : q = <<f, g[i][f]>>
      BY PairsAre
    <3>2. i \notin 1..Len(h)
      BY <1>1, <3>1, PairsAre
    <3>3. i = Len(h) + 1
      BY <1>1, <3>2
    <3> QED
      BY <1>1, <3>1, <3>3 DEF PairsOf
  <2>2. Pairs(h) \subseteq Pairs(g)
    BY <1>1, PairsOfCommits
  <2>3. PairsOf(p) \subseteq Pairs(g)
    <3> SUFFICES ASSUME NEW f \in DOMAIN p PROVE <<f, p[f]>> \in Pairs(g)
      BY DEF PairsOf
    <3>1. Len(h) + 1 \in 1..Len(g)
      BY <1>1
    <3> QED
      BY <1>1, <3>1, PairsAre
  <2> QED
    BY <2>1, <2>2, <2>3
<1>3. ASSUME NEW f PROVE Version(g, f) = IF f \in DOMAIN p THEN p[f] ELSE Version(h, f)
  <2>1. CASE f \in DOMAIN p
    <3>1. PICK i \in 1..Len(g) : /\ f \in DOMAIN g[i] /\ Version(g, f) = g[i][f]
                                 /\ \A j \in 1..Len(g) : f \in DOMAIN g[j] => j <= i
      BY <1>1, <2>1, LastVersion
    <3>2. i = Len(h) + 1
      BY <1>1, <2>1, <3>1
    <3> QED
      BY <1>1, <2>1, <3>1, <3>2
  <2>2. CASE f \notin DOMAIN p
    <3>1. \A i \in 1..Len(g) : f \in DOMAIN g[i] => i \in 1..Len(h)
      BY <1>1, <2>2
    <3>2. CASE \A i \in 1..Len(h) : f \notin DOMAIN h[i]
      <4>1. \A i \in 1..Len(g) : f \notin DOMAIN g[i]
        BY <1>1, <3>1, <3>2
      <4>2. Version(h, f) = 0
        BY <3>2, LastVersion
      <4>3. Version(g, f) = 0
        BY <1>1, <4>1, LastVersion
      <4> QED
        BY <2>2, <4>2, <4>3
    <3>3. CASE \E i \in 1..Len(h) : f \in DOMAIN h[i]
      <4>1. PICK i \in 1..Len(h) : /\ f \in DOMAIN h[i] /\ Version(h, f) = h[i][f]
                                   /\ \A j \in 1..Len(h) : f \in DOMAIN h[j] => j <= i
        BY <3>3, LastVersion
      <4>2. i \in 1..Len(g) /\ f \in DOMAIN g[i]
        BY <1>1, <4>1
      <4>3. PICK k \in 1..Len(g) : /\ f \in DOMAIN g[k] /\ Version(g, f) = g[k][f]
                                   /\ \A j \in 1..Len(g) : f \in DOMAIN g[j] => j <= k
        BY <1>1, <4>2, LastVersion
      <4>4. k \in 1..Len(h) /\ f \in DOMAIN h[k]
        BY <1>1, <3>1, <4>3
      <4>5. k = i
        BY <1>1, <4>1, <4>2, <4>3, <4>4
      <4> QED
        BY <1>1, <2>2, <4>1, <4>3, <4>5
    <3> QED
      BY <3>2, <3>3
  <2> QED
    BY <2>1, <2>2
<1> QED
  BY <1>1, <1>2, <1>3 DEF g

(* Cherry-picking adds what is picked to what is there. *)
LEMMA PairsOfConcat ==
    ASSUME NEW a \in Branch, NEW b \in Branch
    PROVE  Pairs(a \o b) = Pairs(a) \cup Pairs(b)
<1> DEFINE c == a \o b
<1>1. /\ Len(a) \in Nat /\ Len(b) \in Nat /\ Len(c) = Len(a) + Len(b)
      /\ \A i \in 1..Len(a) : c[i] = a[i]
      /\ \A i \in 1..Len(b) : c[Len(a) + i] = b[i]
  BY DEF Branch
<1> HIDE DEF c
<1>2. Pairs(a) \subseteq Pairs(c)
  <2> SUFFICES ASSUME NEW i \in 1..Len(a) PROVE \E j \in 1..Len(c) : a[i] = c[j]
    BY PairsOfCommits
  <2>1. i \in 1..Len(c)
    BY <1>1
  <2> QED
    BY <1>1, <2>1
<1>3. Pairs(b) \subseteq Pairs(c)
  <2> SUFFICES ASSUME NEW i \in 1..Len(b) PROVE \E j \in 1..Len(c) : b[i] = c[j]
    BY PairsOfCommits
  <2>1. Len(a) + i \in 1..Len(c)
    BY <1>1
  <2> QED
    BY <1>1, <2>1
<1>4. ASSUME NEW q \in Pairs(c) PROVE q \in Pairs(a) \cup Pairs(b)
  <2>1. CASE \E f \in Files : q = <<f, 0>>
    BY <2>1, PairsAre
  <2>2. CASE \E i \in 1..Len(c) : \E f \in DOMAIN c[i] : q = <<f, c[i][f]>>
    <3>1. PICK i \in 1..Len(c) : \E f \in DOMAIN c[i] : q = <<f, c[i][f]>>
      BY <2>2
    <3>2. CASE i \in 1..Len(a)
      BY <1>1, <3>1, <3>2, PairsAre
    <3>3. CASE i \notin 1..Len(a)
      <4>1. i - Len(a) \in 1..Len(b) /\ Len(a) + (i - Len(a)) = i
        BY <1>1, <3>3
      <4>2. c[i] = b[i - Len(a)]
        BY <1>1, <4>1
      <4> QED
        BY <3>1, <4>1, <4>2, PairsAre
    <3> QED
      BY <3>2, <3>3
  <2> QED
    BY <1>4, <2>1, <2>2, PairsAre
<1> QED
  BY <1>2, <1>3, <1>4 DEF c

(* The commits two branches share are a prefix of both. *)
LEMMA Shared ==
    ASSUME NEW a \in Branch, NEW b \in Branch
    PROVE  /\ Fork(a, b) \in 0..Len(a)
           /\ Fork(a, b) <= Len(b)
           /\ \A i \in 1..Fork(a, b) : a[i] = b[i]
<1> DEFINE Good(n) == /\ n <= Len(b)
                      /\ \A i \in 1..n : a[i] = b[i]
           Shares(n) == /\ n <= Len(b)
                        /\ n < Len(a) /\ n < Len(b) => a[n + 1] # b[n + 1]
                        /\ \A i \in 1..n : a[i] = b[i]
           S == {n \in 0..Len(a) : Good(n)}
<1>0. Len(a) \in Nat /\ Len(b) \in Nat
  BY DEF Branch
<1>1. S \in SUBSET (0..Len(a)) /\ 0 \in S
  BY <1>0
<1>2. PICK m \in S : \A j \in S : j <= m
  <2> HIDE DEF S
  <2> QED
    BY <1>0, <1>1, Greatest
<1>3. m \in 0..Len(a) /\ Good(m)
  OBVIOUS
<1>4. ASSUME m < Len(a), m < Len(b), a[m + 1] = b[m + 1] PROVE FALSE
  <2>1. m + 1 \in 0..Len(a) /\ m + 1 <= Len(b)
    BY <1>0, <1>3, <1>4
  <2>2. \A i \in 1..(m + 1) : a[i] = b[i]
    BY <1>0, <1>3, <1>4
  <2>3. m + 1 \in S
    BY <2>1, <2>2
  <2> QED
    BY <1>0, <1>2, <1>3, <2>3
<1>5. \E n \in 0..Len(a) : Shares(n)
  BY <1>3, <1>4
<1>6. Fork(a, b) = CHOOSE n \in 0..Len(a) : Shares(n)
  BY DEF Fork
<1>7. Fork(a, b) \in 0..Len(a) /\ Shares(Fork(a, b))
  <2> HIDE DEF Shares
  <2> QED
    BY <1>5, <1>6
<1> QED
  BY <1>7

(* The commits a branch has beyond another are its own last ones. *)
LEMMA BeyondIs ==
    ASSUME NEW a \in Branch, NEW b \in Branch
    PROVE  /\ Beyond(a, b) \in Branch
           /\ Len(Beyond(a, b)) = Len(a) - Fork(a, b)
           /\ \A i \in 1..(Len(a) - Fork(a, b)) : Beyond(a, b)[i] = a[Fork(a, b) + i]
<1>0. Len(a) \in Nat /\ Fork(a, b) \in 0..Len(a)
  BY Shared DEF Branch
<1>1. \A i \in (Fork(a, b) + 1)..Len(a) : a[i] \in Patch
  BY <1>0, ElementOfSeq DEF Branch
<1> QED
  BY <1>0, <1>1, SubSeqProperties DEF Beyond, Branch

(* Nothing is lost between the shared commits and those beyond: a commit   *)
(* of one branch is on the other or is beyond it.                          *)
LEMMA SharedOrBeyond ==
    ASSUME NEW a \in Branch, NEW b \in Branch, NEW i \in 1..Len(a)
    PROVE  \/ i \in 1..Len(b) /\ a[i] = b[i]
           \/ a[i] \in ToSet(Beyond(a, b))
<1>0. /\ Len(a) \in Nat /\ Len(b) \in Nat
      /\ Fork(a, b) \in 0..Len(a) /\ Fork(a, b) <= Len(b)
      /\ \A k \in 1..Fork(a, b) : a[k] = b[k]
  BY Shared DEF Branch
<1>1. CASE i <= Fork(a, b)
  BY <1>0, <1>1
<1>2. CASE i > Fork(a, b)
  <2>1. i - Fork(a, b) \in 1..Len(Beyond(a, b))
    BY <1>0, <1>2, BeyondIs
  <2>2. Beyond(a, b)[i - Fork(a, b)] = a[i]
    <3>1. i - Fork(a, b) \in 1..(Len(a) - Fork(a, b))
      BY <1>0, <1>2
    <3>2. Beyond(a, b)[i - Fork(a, b)] = a[Fork(a, b) + (i - Fork(a, b))]
      BY <3>1, BeyondIs
    <3>3. Fork(a, b) + (i - Fork(a, b)) = i
      BY <1>0
    <3> QED
      BY <3>2, <3>3
  <2>3. DOMAIN Beyond(a, b) = 1..Len(Beyond(a, b))
    BY BeyondIs, LenProperties DEF Branch
  <2> QED
    BY <2>1, <2>2, <2>3 DEF ToSet
<1> QED
  BY <1>0, <1>1, <1>2

(* Conversely, what is beyond another branch is on the branch. *)
LEMMA BeyondIsOwn ==
    ASSUME NEW a \in Branch, NEW b \in Branch, NEW p \in ToSet(Beyond(a, b))
    PROVE  \E i \in 1..Len(a) : p = a[i]
<1>0. Len(a) \in Nat /\ Fork(a, b) \in 0..Len(a)
  BY Shared DEF Branch
<1>1. DOMAIN Beyond(a, b) = 1..Len(Beyond(a, b))
  BY BeyondIs, LenProperties DEF Branch
<1>2. PICK i \in 1..Len(Beyond(a, b)) : p = Beyond(a, b)[i]
  BY <1>1 DEF ToSet
<1>3. i \in 1..(Len(a) - Fork(a, b)) /\ p = a[Fork(a, b) + i]
  BY <1>2, BeyondIs
<1>4. Fork(a, b) + i \in 1..Len(a)
  BY <1>0, <1>3
<1> QED
  BY <1>3, <1>4

(* Entries keeps the order and drops nothing: as there are as many places  *)
(* as entries, no two entries have the same place, so every place is used. *)
LEMMA EntriesAre ==
    ASSUME NEW h \in Branch, NEW at \in SUBSET (1..Len(h))
    PROVE  /\ Entries(h, at) \in Branch
           /\ \A k \in 1..Len(Entries(h, at)) : \E i \in at : Entries(h, at)[k] = h[i]
           /\ \A i \in at : \E k \in 1..Len(Entries(h, at)) : Entries(h, at)[k] = h[i]
<1> DEFINE Upto(i) == {j \in at : j <= i}
           Rank == [i \in at |-> Cardinality(Upto(i))]
           N == Cardinality(at)
           Pick(k) == CHOOSE i \in at : Cardinality(Upto(i)) = k
<1>0. Len(h) \in Nat /\ IsFiniteSet(1..Len(h))
  <2>1. Len(h) \in Nat
    BY DEF Branch
  <2> QED
    BY <2>1, FS_Interval
<1>1. IsFiniteSet(at) /\ N \in Nat
  BY <1>0, FS_Subset, FS_CardinalityType
<1>2. ASSUME NEW i \in at PROVE IsFiniteSet(Upto(i)) /\ Rank[i] \in 1..N
  <2>1. IsFiniteSet(Upto(i)) /\ Cardinality(Upto(i)) <= N
    BY <1>1, FS_Subset
  <2>2. i \in Upto(i)
    OBVIOUS
  <2>3. Cardinality(Upto(i)) \in Nat /\ Cardinality(Upto(i)) # 0
    BY <2>1, <2>2, FS_CardinalityType, FS_EmptySet
  <2> QED
    BY <1>1, <2>1, <2>3
<1>3. ASSUME NEW i \in at, NEW j \in at, i < j PROVE Rank[i] # Rank[j]
  <2>0. ASSUME NEW k \in at, k <= i PROVE k <= j
    <3>1. i \in Nat /\ j \in Nat /\ k \in Nat
      BY <1>0
    <3> QED
      BY <1>3, <2>0, <3>1
  <2>1. Upto(i) \in SUBSET Upto(j)
    BY <2>0
  <2>2. j \in Upto(j) /\ j \notin Upto(i)
    BY <1>3
  <2>3. Upto(i) # Upto(j)
    BY <2>2
  <2> HIDE DEF Upto
  <2> QED
    BY <1>2, <2>1, <2>3, FS_Subset
<1>4. Rank \in Injection(at, 1..N)
  <2>1. Rank \in [at -> 1..N]
    BY <1>2
  <2>2. ASSUME NEW i \in at, NEW j \in at, Rank[i] = Rank[j] PROVE i = j
    BY <1>3, <2>2
  <2> QED
    BY <2>1, <2>2 DEF Injection, IsInjective
<1>5. Rank \in Surjection(at, 1..N)
  <2>1. IsFiniteSet(1..N) /\ Cardinality(1..N) = N
    BY <1>1, FS_Interval
  <2> HIDE DEF Rank
  <2> QED
    BY <1>4, <2>1, FS_Injection
<1>6. ASSUME NEW k \in 1..N PROVE Pick(k) \in at /\ Rank[Pick(k)] = k
  <2>1. \E i \in at : Rank[i] = k
    BY <1>5 DEF Surjection
  <2>2. \E i \in at : Cardinality(Upto(i)) = k
    BY <2>1
  <2>3. Pick(k) \in at /\ Cardinality(Upto(Pick(k))) = k
    <3> HIDE DEF Upto
    <3> QED
      BY <2>2
  <2> QED
    BY <2>3
<1>7. Entries(h, at) = [k \in 1..N |-> h[Pick(k)]]
  BY DEF Entries
<1>8. \A k \in 1..N : h[Pick(k)] \in Patch
  BY <1>6, ElementOfSeq DEF Branch
<1>9. Entries(h, at) \in Branch /\ Len(Entries(h, at)) = N
  <2> HIDE DEF Pick, N
  <2> QED
    BY <1>1, <1>7, <1>8 DEF Branch
<1>10. ASSUME NEW k \in 1..N PROVE \E i \in at : Entries(h, at)[k] = h[i]
  <2>1. Entries(h, at)[k] = h[Pick(k)]
    BY <1>7
  <2> QED
    BY <1>6, <2>1
<1>11. ASSUME NEW i \in at PROVE \E k \in 1..N : Entries(h, at)[k] = h[i]
  <2>1. Rank[i] \in 1..N
    BY <1>2
  <2>2. Pick(Rank[i]) \in at /\ Rank[Pick(Rank[i])] = Rank[i]
    BY <1>6, <2>1
  <2>3. Pick(Rank[i]) = i
    BY <1>4, <2>2 DEF Injection, IsInjective
  <2>4. Entries(h, at)[Rank[i]] = h[Pick(Rank[i])]
    BY <1>7, <2>1
  <2> QED
    BY <2>1, <2>3, <2>4
<1> QED
  BY <1>9, <1>10, <1>11

(* What the branch lacks at the other is lost by no cherry-pick: every     *)
(* commit of it is at the other or among those to pick.                    *)
LEMMA UnpickedIs ==
    ASSUME NEW a \in Branch, NEW b \in Branch
    PROVE  /\ Unpicked(a, b) \in Branch
           /\ Pairs(Unpicked(a, b)) \subseteq Pairs(a)
           /\ Pairs(a) \subseteq Pairs(b) \cup Pairs(Unpicked(a, b))
<1> DEFINE own == Beyond(a, b)
           at == {i \in 1..Len(own) : own[i] \in Missing(a, b)}
           u == Unpicked(a, b)
<1>0. own \in Branch /\ DOMAIN own = 1..Len(own)
  BY BeyondIs, LenProperties DEF Branch
<1>1. u = Entries(own, at)
  BY DEF Unpicked
<1>2. at \in SUBSET (1..Len(own))
  OBVIOUS
<1>3. /\ u \in Branch
      /\ \A k \in 1..Len(u) : \E i \in at : u[k] = own[i]
      /\ \A i \in at : \E k \in 1..Len(u) : u[k] = own[i]
  <2> HIDE DEF own, at, u
  <2> QED
    BY <1>0, <1>1, <1>2, EntriesAre
<1>4. Pairs(u) \subseteq Pairs(a)
  <2> SUFFICES ASSUME NEW k \in 1..Len(u) PROVE \E j \in 1..Len(a) : u[k] = a[j]
    BY PairsOfCommits
  <2>1. PICK i \in 1..Len(own) : u[k] = own[i]
    BY <1>3
  <2>2. u[k] \in ToSet(own)
    BY <1>0, <2>1 DEF ToSet
  <2> QED
    BY <2>2, BeyondIsOwn
<1>5. ASSUME NEW i \in 1..Len(a)
      PROVE  \/ \E j \in 1..Len(b) : a[i] = b[j]
             \/ \E k \in 1..Len(u) : a[i] = u[k]
  <2>1. CASE i \in 1..Len(b) /\ a[i] = b[i]
    BY <2>1
  <2>2. CASE a[i] \in ToSet(own) /\ a[i] \in ToSet(Beyond(b, a))
    BY <2>2, BeyondIsOwn
  <2>3. CASE a[i] \in ToSet(own) /\ a[i] \notin ToSet(Beyond(b, a))
    <3>1. PICK j \in 1..Len(own) : a[i] = own[j]
      BY <1>0, <2>3 DEF ToSet
    <3>2. j \in at
      BY <2>3, <3>1 DEF Missing
    <3> QED
      BY <1>3, <3>1, <3>2
  <2> QED
    BY <2>1, <2>2, <2>3, SharedOrBeyond
<1>6. ASSUME NEW q \in Pairs(a) PROVE q \in Pairs(b) \cup Pairs(u)
  <2>1. CASE \E f \in Files : q = <<f, 0>>
    BY <2>1, PairsAre
  <2>2. CASE \E i \in 1..Len(a) : \E f \in DOMAIN a[i] : q = <<f, a[i][f]>>
    <3>1. PICK i \in 1..Len(a) : \E f \in DOMAIN a[i] : q = <<f, a[i][f]>>
      BY <2>2
    <3>2. CASE \E j \in 1..Len(b) : a[i] = b[j]
      BY <3>1, <3>2, PairsAre
    <3>3. CASE \E k \in 1..Len(u) : a[i] = u[k]
      <4> HIDE DEF u
      <4> QED
        BY <3>1, <3>3, PairsAre
    <3> QED
      BY <1>5, <3>2, <3>3
  <2> QED
    BY <1>6, <2>1, <2>2, PairsAre
<1> QED
  BY <1>3, <1>4, <1>6
-----------------------------------------------------------------------------
(* The inductive invariant.                                                *)

Job == [pc : Pcs, manifest : SUBSET Files, kept : SUBSET Files, snap : [Files -> Nat],
        pairs : SUBSET (Files \X Nat), hash : Branch, tip : Branch]

TypeInv ==
    /\ tree \in [Files -> Nat] /\ index \in [Files -> Nat]
    /\ fresh \in [Files -> Nat] /\ latest \in [Files -> Nat]
    /\ local \in Branch /\ remote \in Branch /\ seen \in Branch
    /\ job \in [Runs -> Job]
    /\ landed \in [Runs -> SUBSET (Files \X Nat)]
    /\ committed \in SUBSET (Files \X Nat)

(* What has ever been committed, here or elsewhere.  No step takes         *)
(* anything away from it.                                                  *)
Known == committed \cup Pairs(remote)

KnownInv ==
    /\ Pairs(local) \subseteq Known
    /\ Pairs(seen) \subseteq Pairs(remote)
    /\ \A r \in Runs : /\ job[r].pairs \subseteq Known
                       /\ landed[r] \subseteq Known
                       /\ Pairs(job[r].tip) \subseteq Known

(* Versions are numbered: nothing has a number that is still to be given.  *)
NumberInv ==
    \A f \in Files : /\ tree[f] <= fresh[f]
                     /\ latest[f] <= fresh[f]
                     /\ \A v \in Nat : <<f, v>> \in Known => v <= fresh[f]

(* A file in the work tree is as on the branch or in a version that nobody *)
(* has committed yet, so that a commit always brings in something new.     *)
TreeInv == \A f \in Files : tree[f] = Version(local, f) \/ <<f, tree[f]>> \notin Known

(* What was last written here is not committed by anybody else. *)
LatestInv == \A f \in Files : <<f, latest[f]>> \in Known =>
                <<f, latest[f]>> \in committed \cup {<<f, 0>>}

(* What a landing on its way is about to report: of what it speaks for,    *)
(* nothing is on the branch alone.                                         *)
PickInv ==
    \A r \in Runs :
        /\ AtStep(r, "pushPick") =>
              job[r].pairs \cap Pairs(local) \subseteq Pairs(job[r].tip) \cup Pairs(remote)
        /\ job[r].pc \in {"settle", "move"} =>
              job[r].pairs \cap Pairs(local) \subseteq Pairs(remote)

(* What a step does to the branches, the work tree and the numbers.        *)
Quiet == /\ UNCHANGED <<tree, local, remote, history>>
         /\ seen' \in {seen, remote}

Commits(p) ==
    /\ UNCHANGED <<tree, remote, seen, fresh, latest>>
    /\ \A f \in DOMAIN p : p[f] = tree[f] /\ tree[f] # Version(local, f)
    /\ local' = Append(local, p)
    /\ committed' = committed \cup PairsOf(p)

Publishes(h) ==
    /\ UNCHANGED <<tree, local, history>>
    /\ IsPrefix(remote, h)
    /\ remote' = h /\ seen' = h

Follows ==
    /\ UNCHANGED <<remote, seen, history>>
    /\ InTheWay(local, seen) = {}
    /\ local' = seen
    /\ tree' = [f \in Files |-> IF Version(local, f) # Version(seen, f)
                                THEN Version(seen, f) ELSE tree[f]]

Writes(f) ==
    /\ UNCHANGED <<git, committed>>
    /\ fresh' = [fresh EXCEPT ![f] = @ + 1]
    /\ latest' = [latest EXCEPT ![f] = fresh[f] + 1]
    /\ tree' = [tree EXCEPT ![f] = fresh[f] + 1]

Arrives(f) ==
    /\ UNCHANGED <<tree, local, seen, latest, committed>>
    /\ fresh' = [fresh EXCEPT ![f] = @ + 1]
    /\ remote' = Append(remote, [g \in {f} |-> fresh[f] + 1])

GitEffect ==
    \/ Quiet
    \/ \E p \in Patch : Commits(p)
    \/ Publishes(local)
    \/ \E r \in Runs : Publishes(job[r].tip)
    \/ Follows
    \/ \E f \in Files : Writes(f) \/ Arrives(f)

(* What it does to one landing. *)
Stays(r) == job'[r] = job[r] /\ landed'[r] = landed[r]

GivesUp(r) == job'[r] = Idle /\ landed'[r] = {}

IsLanded(r) ==
    /\ job'[r] = Idle /\ landed'[r] = {<<f, tree[f]>> : f \in Scope[r]}
    /\ Scope[r] \cap Dirty = {} /\ Unpushed(r) = {}
    /\ UNCHANGED <<local, remote>>

Proceeds(r) ==
    /\ landed'[r] = landed[r]
    /\ job'[r].pairs \subseteq job[r].pairs \cup Pairs(local')
    /\ job'[r].tip \in {job[r].tip, <<>>}
    /\ job'[r].pc \notin {"pushPick", "settle", "move"}

Picks(r) ==
    /\ landed'[r] = landed[r]
    /\ job'[r].pairs = job[r].pairs /\ job'[r].pc = "pushPick"
    /\ job'[r].tip = remote \o Unpicked(local, remote)
    /\ UNCHANGED <<local, remote>>

Settles(r) ==
    /\ landed'[r] = landed[r]
    /\ job'[r].pairs = job[r].pairs /\ job'[r].tip = job[r].tip
    /\ UNCHANGED local
    /\ \/ job[r].pc = "pushPick" /\ job'[r].pc = "settle" /\ remote' = job[r].tip
       \/ job[r].pc = "settle" /\ job'[r].pc = "move" /\ UNCHANGED remote

Passes(r) ==
    /\ job'[r] = Idle /\ landed'[r] = job[r].pairs
    /\ \/ remote' = local /\ local' = local
       \/ job[r].pc \in {"settle", "move"} /\ remote' = remote /\ local' \in {local, seen}

RunEffect(r) == \/ Stays(r) \/ GivesUp(r) \/ IsLanded(r) \/ Proceeds(r)
                \/ Picks(r) \/ Settles(r) \/ Passes(r)
-----------------------------------------------------------------------------
(* Ending a landing changes nothing of the others. *)
LEMMA EndsAre ==
    ASSUME TypeInv, NEW r \in Runs, NEW S, End(r, S)
    PROVE  /\ job'[r] = Idle /\ landed'[r] = S
           /\ \A q \in Runs \ {r} : Stays(q)
BY DEF TypeInv, End, Stays

LEMMA IdleType ==
    /\ Idle \in Job
    /\ Idle.pc = "idle" /\ Idle.pairs = {} /\ Idle.tip = <<>>
<1>1. NoFiles \in [Files -> Nat]
  BY DEF NoFiles
<1>2. <<>> \in Branch
  BY DEF Branch
<1> QED
  BY <1>1, <1>2 DEF Idle, Job, Pcs

(* The versions of a branch are numbers. *)
LEMMA VersionType ==
    ASSUME NEW h \in Branch, NEW f
    PROVE  Version(h, f) \in Nat
<1>1. CASE Version(h, f) = 0
  BY <1>1
<1>2. CASE \E i \in 1..Len(h) : f \in DOMAIN h[i] /\ Version(h, f) = h[i][f]
  BY <1>2, PatchFacts, ElementOfSeq DEF Branch
<1> QED
  BY <1>1, <1>2, LastVersion

LEMMA PairsType ==
    ASSUME NEW h \in Branch
    PROVE  Pairs(h) \subseteq Files \X Nat
<1> SUFFICES ASSUME NEW q \in Pairs(h) PROVE q \in Files \X Nat
  OBVIOUS
<1>1. CASE \E f \in Files : q = <<f, 0>>
  BY <1>1
<1>2. CASE \E i \in 1..Len(h) : \E f \in DOMAIN h[i] : q = <<f, h[i][f]>>
  <2>1. PICK i \in 1..Len(h) : \E f \in DOMAIN h[i] : q = <<f, h[i][f]>>
    BY <1>2
  <2>2. h[i] \in Patch
    BY ElementOfSeq DEF Branch
  <2> QED
    BY <2>1, <2>2, PatchFacts
<1> QED
  BY <1>1, <1>2, PairsAre

(* The patch a landing commits. *)
LEMMA ChangedFiles ==
    ASSUME NEW D \in SUBSET Files, tree \in [Files -> Nat]
    PROVE  [f \in D |-> tree[f]] \in Patch
<1>1. [f \in D |-> tree[f]] \in [D -> Nat]
  OBVIOUS
<1> QED
  BY <1>1 DEF Patch
-----------------------------------------------------------------------------
(* Types. *)
LEMMA TypeInit == Init => TypeInv
<1>1. NoFiles \in [Files -> Nat]
  BY DEF NoFiles
<1>2. <<>> \in Branch
  BY DEF Branch
<1> QED
  BY <1>1, <1>2, IdleType DEF Init, TypeInv

(* A landing changes only its own entries. *)
LEMMA OwnJob ==
    ASSUME TypeInv, NEW r \in Runs, NEW j, job' = [job EXCEPT ![r] = j]
    PROVE  /\ job'[r] = j
           /\ \A q \in Runs \ {r} : job'[q] = job[q]
           /\ j \in Job => job' \in [Runs -> Job]
BY DEF TypeInv

LEMMA EndType ==
    ASSUME TypeInv, NEW r \in Runs, NEW S \in SUBSET (Files \X Nat), End(r, S)
    PROVE  job' \in [Runs -> Job] /\ landed' \in [Runs -> SUBSET (Files \X Nat)]
BY IdleType DEF TypeInv, End

LEMMA RefusedType ==
    ASSUME TypeInv, NEW r \in Runs, Refused(r)
    PROVE  job' \in [Runs -> Job] /\ landed' \in [Runs -> SUBSET (Files \X Nat)]
BY EndType DEF Refused

LEMMA UnstagedType ==
    ASSUME TypeInv, NEW r \in Runs
    PROVE  Unstaged(r) \in [Files -> Nat]
<1>1. job[r].snap \in [Files -> Nat]
  BY DEF TypeInv, Job
<1>2. \A f \in Files : Version(local, f) \in Nat
  BY VersionType DEF TypeInv
<1> QED
  BY <1>1, <1>2 DEF Unstaged, TypeInv

LEMMA TypeLand ==
    ASSUME TypeInv, LandingAssumption, NEW r \in Runs, Land(r)
    PROVE  TypeInv'
<1> USE DEF AtStep, git, history
<1>0. /\ Scope[r] \subseteq Files
      /\ job[r] \in Job
      /\ \A h \in {local, remote, seen} : \A f \in Files : Version(h, f) \in Nat
  BY VersionType DEF TypeInv, LandingAssumption
<1>1. CASE AlreadyLanded(r)
  <2>1. {<<f, tree[f]>> : f \in Scope[r]} \in SUBSET (Files \X Nat)
    BY <1>0 DEF TypeInv
  <2> QED
    BY <1>1, <2>1, EndType DEF AlreadyLanded, TypeInv
<1>2. CASE RetryPush(r)
  <2> DEFINE S == UNION {PairsOf(p) : p \in Unpushed(r)}
             j == [Idle EXCEPT !.pc = "fetch", !.hash = local, !.pairs = S]
  <2>1. S \in SUBSET (Files \X Nat)
    <3>1. S \subseteq Pairs(local)
      <4> SUFFICES ASSUME NEW p \in Unpushed(r), NEW f \in DOMAIN p
                   PROVE  <<f, p[f]>> \in Pairs(local)
        BY DEF PairsOf
      <4>1. p \in ToSet(Beyond(local, seen))
        BY DEF Unpushed
      <4> QED
        BY <4>1, BeyondIsOwn, PairsAre DEF TypeInv
    <3> QED
      BY <3>1, PairsType DEF TypeInv
  <2>2. j \in Job
    <3> HIDE DEF S
    <3> QED
      BY <2>1, IdleType DEF Job, Pcs, TypeInv
  <2> QED
    BY <1>2, <2>2, OwnJob DEF RetryPush, TypeInv
<1>3. CASE RefuseOverlap(r) \/ RefuseUnpushed(r)
  BY <1>3, RefusedType DEF RefuseOverlap, RefuseUnpushed, TypeInv
<1>4. CASE Plan(r)
  <2> DEFINE j == [Idle EXCEPT !.pc = "stage",
                     !.manifest = {f \in Scope[r] : tree[f] # Version(local, f)},
                     !.kept = Scope[r] \cap Staged]
  <2>1. j \in Job
    BY <1>0, IdleType DEF Job, Pcs
  <2> QED
    BY <1>4, <2>1, OwnJob DEF Plan, TypeInv
<1>5. CASE Stage(r)
  <2>1. index' \in [Files -> Nat]
    BY <1>0, <1>5 DEF Stage, TypeInv
  <2>2. CASE Refused(r)
    BY <1>5, <2>1, <2>2, RefusedType DEF Stage, TypeInv
  <2>3. CASE ~Refused(r)
    <3> DEFINE j == [job[r] EXCEPT !.pc = "commit",
                                   !.snap = IF job[r].kept # {} THEN index ELSE NoFiles]
    <3>1. NoFiles \in [Files -> Nat] /\ index \in [Files -> Nat]
      BY DEF NoFiles, TypeInv
    <3>2. j \in Job
      BY <1>0, <3>1 DEF Job, Pcs
    <3>3. job' = [job EXCEPT ![r] = j] /\ landed' = landed
      BY <1>5, <2>3 DEF Stage
    <3> QED
      BY <1>5, <2>1, <3>2, <3>3, OwnJob DEF Stage, TypeInv
  <2> QED
    BY <2>2, <2>3
<1>6. CASE Commit(r)
  <2> DEFINE changed == {f \in job[r].manifest : tree[f] # Version(local, f)}
             patch == [f \in changed |-> tree[f]]
  <2>1. job[r].manifest \subseteq Files /\ patch \in Patch
    <3>1. job[r].manifest \subseteq Files
      BY <1>0 DEF Job
    <3> QED
      BY <3>1, ChangedFiles DEF TypeInv
  <2>2. PairsOf(patch) \in SUBSET (Files \X Nat)
    BY <2>1, PatchFacts DEF PairsOf
  <2>3. CASE changed # {}
    <3> DEFINE j == [Idle EXCEPT !.pc = "verify", !.pairs = PairsOf(patch),
                                 !.manifest = job[r].manifest]
    <3> HIDE DEF patch
    <3>1. j \in Job
      BY <2>1, <2>2, IdleType DEF Job, Pcs
    <3>2. /\ job' = [job EXCEPT ![r] = j] /\ landed' = landed
          /\ local' = Append(local, patch) /\ committed' = committed \cup PairsOf(patch)
          /\ index' = [f \in Files |-> IF f \in job[r].manifest THEN tree[f] ELSE index[f]]
          /\ UNCHANGED <<tree, remote, seen, fresh, latest>>
      BY <1>6, <2>3 DEF Commit, patch
    <3>3. local' \in Branch /\ index' \in [Files -> Nat]
      BY <2>1, <3>2, AppendedCommit DEF TypeInv
    <3> QED
      BY <2>2, <3>1, <3>2, <3>3, OwnJob DEF TypeInv
  <2>4. CASE changed = {}
    BY <1>6, <2>4, RefusedType, UnstagedType DEF Commit, TypeInv
  <2> QED
    BY <2>3, <2>4
<1>7. CASE Verify(r)
  <2>1. CASE Refused(r)
    BY <1>7, <2>1, RefusedType DEF Verify, TypeInv
  <2>2. CASE ~Refused(r)
    <3> DEFINE j == [job[r] EXCEPT !.pc = "fetch", !.hash = local, !.manifest = {}]
    <3>1. j \in Job
      BY <1>0 DEF Job, Pcs, TypeInv
    <3>2. job' = [job EXCEPT ![r] = j] /\ landed' = landed
      BY <1>7, <2>2 DEF Verify
    <3> QED
      BY <1>7, <3>1, <3>2, OwnJob DEF Verify, TypeInv
  <2> QED
    BY <2>1, <2>2
<1>8. CASE Fetch(r)
  <2>1. CASE Refused(r)
    BY <1>8, <2>1, RefusedType DEF Fetch, TypeInv
  <2>2. CASE ~IsPrefix(remote, local) /\ ToPick(r)
    <3> DEFINE j == [job[r] EXCEPT !.pc = "pushPick", !.hash = <<>>,
                                   !.tip = remote \o Unpicked(local, remote)]
    <3>1. remote \o Unpicked(local, remote) \in Branch /\ <<>> \in Branch
      BY UnpickedIs, ConcatProperties, EmptySeq DEF TypeInv, Branch
    <3>2. j \in Job
      BY <1>0, <3>1 DEF Job, Pcs
    <3>3. job' = [job EXCEPT ![r] = j] /\ landed' = landed
      BY <1>8, <2>2 DEF Fetch
    <3> QED
      BY <1>8, <3>2, <3>3, OwnJob DEF Fetch, TypeInv
  <2>3. CASE IsPrefix(remote, local)
    <3> DEFINE j == [job[r] EXCEPT !.pc = "push"]
    <3>1. j \in Job
      BY <1>0 DEF Job, Pcs
    <3>2. job' = [job EXCEPT ![r] = j] /\ landed' = landed
      BY <1>8, <2>3 DEF Fetch, Goto
    <3> QED
      BY <1>8, <3>1, <3>2, OwnJob DEF Fetch, TypeInv
  <2> QED
    BY <1>8, <2>1, <2>2, <2>3 DEF Fetch
<1>9. CASE Push(r)
  <2>1. job[r].pairs \in SUBSET (Files \X Nat)
    BY <1>0 DEF Job
  <2>2. job' \in [Runs -> Job] /\ landed' \in [Runs -> SUBSET (Files \X Nat)]
    BY <1>9, <2>1, EndType, RefusedType DEF Push
  <2> QED
    BY <1>9, <2>2 DEF Push, TypeInv
<1>10. CASE PushPick(r)
  <2>1. job[r].tip \in Branch
    BY <1>0 DEF Job
  <2>2. CASE Refused(r)
    BY <1>10, <2>1, <2>2, RefusedType DEF PushPick, TypeInv
  <2>3. CASE ~Refused(r)
    <3> DEFINE j == [job[r] EXCEPT !.pc = "settle"]
    <3>1. j \in Job
      BY <1>0 DEF Job, Pcs
    <3>2. job' = [job EXCEPT ![r] = j] /\ landed' = landed
      BY <1>10, <2>3 DEF PushPick, Goto
    <3> QED
      BY <1>10, <2>1, <3>1, <3>2, OwnJob DEF PushPick, TypeInv
  <2> QED
    BY <2>2, <2>3
<1>11. CASE Settle(r)
  <2>1. job[r].pairs \in SUBSET (Files \X Nat)
    BY <1>0 DEF Job
  <2>2. CASE End(r, job[r].pairs)
    BY <1>11, <2>1, <2>2, EndType DEF Settle, TypeInv
  <2>3. CASE ~End(r, job[r].pairs)
    <3> DEFINE j == [job[r] EXCEPT !.pc = "move", !.kept = Staged,
                                   !.snap = IF Staged # {} THEN index ELSE NoFiles]
    <3>1. NoFiles \in [Files -> Nat] /\ index \in [Files -> Nat] /\ Staged \subseteq Files
      BY DEF NoFiles, TypeInv, Staged
    <3>2. j \in Job
      <4> HIDE DEF Staged
      <4> QED
        BY <1>0, <3>1 DEF Job, Pcs
    <3>3. job' = [job EXCEPT ![r] = j] /\ landed' = landed
      BY <1>11, <2>3 DEF Settle
    <3> QED
      BY <1>11, <3>2, <3>3, OwnJob DEF Settle, TypeInv
  <2> QED
    BY <2>2, <2>3
<1>12. CASE Move(r)
  <2>1. job[r].pairs \in SUBSET (Files \X Nat) /\ job[r].snap \in [Files -> Nat]
    BY <1>0 DEF Job
  <2>2. job' \in [Runs -> Job] /\ landed' \in [Runs -> SUBSET (Files \X Nat)]
    BY <1>12, <2>1, EndType DEF Move
  <2>3. tree' \in [Files -> Nat] /\ index' \in [Files -> Nat] /\ local' \in Branch
    BY <1>0, <1>12, <2>1 DEF Move, TypeInv
  <2> QED
    BY <1>12, <2>2, <2>3 DEF Move, TypeInv
<1> QED
  BY <1>1, <1>2, <1>3, <1>4, <1>5, <1>6, <1>7, <1>8, <1>9, <1>10, <1>11, <1>12 DEF Land

LEMMA TypeStep ==
    ASSUME TypeInv, LandingAssumption, [Next]_vars
    PROVE  TypeInv'
<1> USE DEF git, history
<1>1. ASSUME NEW r \in Runs, Land(r) PROVE TypeInv'
  BY <1>1, TypeLand
<1>2. ASSUME NEW r \in Runs, HookRefuses(r) PROVE TypeInv'
  BY <1>2, RefusedType, UnstagedType DEF HookRefuses, TypeInv
<1>3. ASSUME NEW r \in Runs, LoseConnection(r) PROVE TypeInv'
  BY <1>3, RefusedType DEF LoseConnection, TypeInv
<1>4. ASSUME NEW r \in Runs, Kill(r) PROVE TypeInv'
  BY <1>4, EndType DEF Kill, TypeInv
<1>5. ASSUME NEW f \in Files, Write(f) PROVE TypeInv'
  BY <1>5 DEF Write, TypeInv
<1>6. ASSUME NEW f \in Files, StageByHand(f) PROVE TypeInv'
  BY <1>6 DEF StageByHand, TypeInv
<1>7. ASSUME NEW f \in Files, PushFromElsewhere(f) PROVE TypeInv'
  <2>1. fresh' \in [Files -> Nat] /\ fresh'[f] \in Nat
    BY <1>7 DEF PushFromElsewhere, TypeInv
  <2>2. [g \in {f} |-> fresh'[f]] \in Patch
    <3>1. [g \in {f} |-> fresh'[f]] \in [{f} -> Nat]
      BY <2>1
    <3> QED
      BY <3>1 DEF Patch
  <2>3. remote' \in Branch
    BY <1>7, <2>2, AppendedCommit DEF PushFromElsewhere, TypeInv
  <2> QED
    BY <1>7, <2>1, <2>3 DEF PushFromElsewhere, TypeInv
<1>8. CASE UNCHANGED vars
  BY <1>8 DEF vars, TypeInv
<1> QED
  BY <1>1, <1>2, <1>3, <1>4, <1>5, <1>6, <1>7, <1>8 DEF Next
-----------------------------------------------------------------------------
(* What a step does. *)

LEMMA RefusedIs ==
    ASSUME TypeInv, NEW r \in Runs, Refused(r)
    PROVE  GivesUp(r) /\ \A q \in Runs \ {r} : Stays(q)
BY EndsAre DEF Refused, GivesUp

(* Whatever becomes of r, the other landings stay as they are. *)
LEMMA OneMoves ==
    ASSUME TypeInv, NEW r \in Runs, NEW j, job' = [job EXCEPT ![r] = j], landed' = landed
    PROVE  /\ job'[r] = j /\ landed'[r] = landed[r]
           /\ \A q \in Runs \ {r} : Stays(q)
BY OwnJob DEF Stays

LEMMA PushReports ==
    ASSUME TypeInv, NEW r \in Runs, End(r, job[r].pairs)
    PROVE  /\ job'[r] = Idle /\ landed'[r] = job[r].pairs
           /\ \A q \in Runs \ {r} : Stays(q)
BY EndsAre

LEMMA LandEffect ==
    ASSUME TypeInv, LandingAssumption, NEW r \in Runs, Land(r)
    PROVE  GitEffect /\ RunEffect(r) /\ \A q \in Runs \ {r} : Stays(q)
<1> USE DEF AtStep, git, history
<1>0. job[r] \in Job
  BY DEF TypeInv
<1>1. CASE AlreadyLanded(r)
  <2>1. Quiet
    BY <1>1 DEF AlreadyLanded, Quiet
  <2>2. IsLanded(r) /\ \A q \in Runs \ {r} : Stays(q)
    BY <1>1, EndsAre DEF AlreadyLanded, IsLanded
  <2> QED
    BY <2>1, <2>2 DEF GitEffect, RunEffect
<1>2. CASE RetryPush(r)
  <2> DEFINE S == UNION {PairsOf(p) : p \in Unpushed(r)}
             j == [Idle EXCEPT !.pc = "fetch", !.hash = local, !.pairs = S]
  <2>1. S \subseteq Pairs(local)
    <3> SUFFICES ASSUME NEW p \in Unpushed(r), NEW f \in DOMAIN p
                 PROVE  <<f, p[f]>> \in Pairs(local)
      BY DEF PairsOf
    <3>1. p \in ToSet(Beyond(local, seen))
      BY DEF Unpushed
    <3> QED
      BY <3>1, BeyondIsOwn, PairsAre DEF TypeInv
  <2>2. Quiet
    BY <1>2 DEF RetryPush, Quiet
  <2>3. job'[r] = j /\ landed'[r] = landed[r] /\ \A q \in Runs \ {r} : Stays(q)
    BY <1>2, OneMoves DEF RetryPush
  <2>4. j.pairs = S /\ j.tip = <<>> /\ j.pc = "fetch"
    <3> HIDE DEF S
    <3> QED
      BY DEF Idle
  <2>5. local' = local
    BY <1>2 DEF RetryPush
  <2>6. Proceeds(r)
    <3> HIDE DEF S, j
    <3> QED
      BY <2>1, <2>3, <2>4, <2>5 DEF Proceeds
  <2> QED
    BY <2>2, <2>3, <2>6 DEF GitEffect, RunEffect
<1>3. CASE RefuseOverlap(r) \/ RefuseUnpushed(r)
  <2>1. Quiet
    BY <1>3 DEF RefuseOverlap, RefuseUnpushed, Quiet
  <2> QED
    BY <1>3, <2>1, RefusedIs DEF RefuseOverlap, RefuseUnpushed, GitEffect, RunEffect
<1>4. CASE Plan(r)
  <2> DEFINE j == [Idle EXCEPT !.pc = "stage",
                     !.manifest = {f \in Scope[r] : tree[f] # Version(local, f)},
                     !.kept = Scope[r] \cap Staged]
  <2>1. Quiet
    BY <1>4 DEF Plan, Quiet
  <2>2. job'[r] = j /\ landed'[r] = landed[r] /\ \A q \in Runs \ {r} : Stays(q)
    BY <1>4, OneMoves DEF Plan
  <2>3. j.pairs = {} /\ j.tip = <<>> /\ j.pc = "stage"
    BY DEF Idle
  <2>4. Proceeds(r)
    BY <2>2, <2>3 DEF Proceeds
  <2> QED
    BY <2>1, <2>2, <2>4 DEF GitEffect, RunEffect
<1>5. CASE Stage(r)
  <2>1. Quiet
    BY <1>5 DEF Stage, Quiet
  <2>2. CASE Refused(r)
    BY <2>1, <2>2, RefusedIs DEF GitEffect, RunEffect
  <2>3. CASE ~Refused(r)
    <3> DEFINE j == [job[r] EXCEPT !.pc = "commit",
                                   !.snap = IF job[r].kept # {} THEN index ELSE NoFiles]
    <3>1. job' = [job EXCEPT ![r] = j] /\ landed' = landed
      BY <1>5, <2>3 DEF Stage
    <3>2. j.pairs = job[r].pairs /\ j.tip = job[r].tip /\ j.pc = "commit"
      BY <1>0 DEF Job
    <3>3. Proceeds(r) /\ \A q \in Runs \ {r} : Stays(q)
      <4> HIDE DEF j
      <4> QED
        BY <3>1, <3>2, OneMoves DEF Proceeds
    <3> QED
      BY <2>1, <3>3 DEF GitEffect, RunEffect
  <2> QED
    BY <2>2, <2>3
<1>6. CASE Commit(r)
  <2> DEFINE changed == {f \in job[r].manifest : tree[f] # Version(local, f)}
             patch == [f \in changed |-> tree[f]]
  <2>1. job[r].manifest \subseteq Files /\ patch \in Patch
    <3>1. job[r].manifest \subseteq Files
      BY <1>0 DEF Job
    <3> QED
      BY <3>1, ChangedFiles DEF TypeInv
  <2>2. CASE changed # {}
    <3> DEFINE j == [Idle EXCEPT !.pc = "verify", !.pairs = PairsOf(patch),
                                 !.manifest = job[r].manifest]
    <3>1. /\ job' = [job EXCEPT ![r] = j] /\ landed' = landed
          /\ local' = Append(local, patch) /\ committed' = committed \cup PairsOf(patch)
          /\ UNCHANGED <<tree, remote, seen, fresh, latest>>
      BY <1>6, <2>2 DEF Commit
    <3>2. \A f \in DOMAIN patch : patch[f] = tree[f] /\ tree[f] # Version(local, f)
      OBVIOUS
    <3> HIDE DEF patch
    <3>3. Commits(patch)
      BY <3>1, <3>2 DEF Commits
    <3>4. j.pairs = PairsOf(patch) /\ j.tip = <<>> /\ j.pc = "verify"
      BY DEF Idle
    <3>5. PairsOf(patch) \subseteq Pairs(local')
      BY <2>1, <3>1, AppendedCommit DEF TypeInv
    <3>6. job'[r] = j /\ landed'[r] = landed[r] /\ \A q \in Runs \ {r} : Stays(q)
      BY <3>1, OneMoves
    <3>7. Proceeds(r)
      BY <3>4, <3>5, <3>6 DEF Proceeds
    <3> QED
      BY <2>1, <3>3, <3>6, <3>7 DEF GitEffect, RunEffect
  <2>3. CASE changed = {}
    <3>1. Quiet /\ Refused(r)
      BY <1>6, <2>3 DEF Commit, Quiet
    <3> QED
      BY <3>1, RefusedIs DEF GitEffect, RunEffect
  <2> QED
    BY <2>2, <2>3
<1>7. CASE Verify(r)
  <2>1. Quiet
    BY <1>7 DEF Verify, Quiet
  <2>2. CASE Refused(r)
    BY <2>1, <2>2, RefusedIs DEF GitEffect, RunEffect
  <2>3. CASE ~Refused(r)
    <3> DEFINE j == [job[r] EXCEPT !.pc = "fetch", !.hash = local, !.manifest = {}]
    <3>1. job' = [job EXCEPT ![r] = j] /\ landed' = landed
      BY <1>7, <2>3 DEF Verify
    <3>2. j.pairs = job[r].pairs /\ j.tip = job[r].tip /\ j.pc = "fetch"
      BY <1>0 DEF Job
    <3>3. Proceeds(r) /\ \A q \in Runs \ {r} : Stays(q)
      <4> HIDE DEF j
      <4> QED
        BY <3>1, <3>2, OneMoves DEF Proceeds
    <3> QED
      BY <2>1, <3>3 DEF GitEffect, RunEffect
  <2> QED
    BY <2>2, <2>3
<1>8. CASE Fetch(r)
  <2>1. Quiet /\ UNCHANGED <<local, remote>>
    BY <1>8 DEF Fetch, Quiet
  <2>2. CASE Refused(r)
    BY <2>1, <2>2, RefusedIs DEF GitEffect, RunEffect
  <2>3. CASE ~IsPrefix(remote, local) /\ ToPick(r)
    <3> DEFINE j == [job[r] EXCEPT !.pc = "pushPick", !.hash = <<>>,
                                   !.tip = remote \o Unpicked(local, remote)]
    <3>1. job' = [job EXCEPT ![r] = j] /\ landed' = landed
      BY <1>8, <2>3 DEF Fetch
    <3>2. /\ j.pairs = job[r].pairs /\ j.pc = "pushPick"
          /\ j.tip = remote \o Unpicked(local, remote)
      BY <1>0 DEF Job
    <3>3. Picks(r) /\ \A q \in Runs \ {r} : Stays(q)
      <4> HIDE DEF j
      <4> QED
        BY <2>1, <3>1, <3>2, OneMoves DEF Picks
    <3> QED
      BY <2>1, <3>3 DEF GitEffect, RunEffect
  <2>4. CASE IsPrefix(remote, local)
    <3> DEFINE j == [job[r] EXCEPT !.pc = "push"]
    <3>1. job' = [job EXCEPT ![r] = j] /\ landed' = landed
      BY <1>8, <2>4 DEF Fetch, Goto
    <3>2. j.pairs = job[r].pairs /\ j.tip = job[r].tip /\ j.pc = "push"
      BY <1>0 DEF Job
    <3>3. Proceeds(r) /\ \A q \in Runs \ {r} : Stays(q)
      <4> HIDE DEF j
      <4> QED
        BY <3>1, <3>2, OneMoves DEF Proceeds
    <3> QED
      BY <2>1, <3>3 DEF GitEffect, RunEffect
  <2> QED
    BY <1>8, <2>2, <2>3, <2>4 DEF Fetch
<1>9. CASE Push(r)
  <2>1. CASE IsPrefix(remote, local)
    <3>1. Publishes(local) /\ remote' = local /\ local' = local
      BY <1>9, <2>1 DEF Push, Publishes
    <3>2. CASE Refused(r)
      BY <3>1, <3>2, RefusedIs DEF GitEffect, RunEffect
    <3>3. CASE End(r, job[r].pairs)
      BY <3>1, <3>3, PushReports DEF GitEffect, RunEffect, Passes
    <3> QED
      BY <1>9, <2>1, <3>2, <3>3 DEF Push
  <2>2. CASE ~IsPrefix(remote, local)
    <3>1. Quiet /\ Refused(r)
      BY <1>9, <2>2 DEF Push, Quiet
    <3> QED
      BY <3>1, RefusedIs DEF GitEffect, RunEffect
  <2> QED
    BY <2>1, <2>2
<1>10. CASE PushPick(r)
  <2>1. CASE IsPrefix(remote, job[r].tip)
    <3> DEFINE j == [job[r] EXCEPT !.pc = "settle"]
    <3>1. /\ Publishes(job[r].tip) /\ remote' = job[r].tip /\ local' = local
          /\ job[r].pc = "pushPick"
      BY <1>10, <2>1 DEF PushPick, Publishes
    <3>2. job' = [job EXCEPT ![r] = j] /\ landed' = landed
      BY <1>10, <2>1 DEF PushPick, Goto
    <3>3. j.pairs = job[r].pairs /\ j.tip = job[r].tip /\ j.pc = "settle"
      BY <1>0 DEF Job
    <3>4. job'[r] = j /\ landed'[r] = landed[r] /\ \A q \in Runs \ {r} : Stays(q)
      BY <3>2, OneMoves
    <3>5. Settles(r)
      <4> HIDE DEF j
      <4> QED
        BY <3>1, <3>3, <3>4 DEF Settles
    <3> QED
      BY <3>1, <3>4, <3>5 DEF GitEffect, RunEffect
  <2>2. CASE ~IsPrefix(remote, job[r].tip)
    <3>1. Quiet /\ Refused(r)
      BY <1>10, <2>2 DEF PushPick, Quiet
    <3> QED
      BY <3>1, RefusedIs DEF GitEffect, RunEffect
  <2> QED
    BY <2>1, <2>2
<1>11. CASE Settle(r)
  <2>1. Quiet /\ UNCHANGED <<local, remote>> /\ job[r].pc = "settle"
    BY <1>11 DEF Settle, Quiet
  <2>2. CASE End(r, job[r].pairs)
    BY <2>1, <2>2, PushReports DEF GitEffect, RunEffect, Passes
  <2>3. CASE ~End(r, job[r].pairs)
    <3> DEFINE j == [job[r] EXCEPT !.pc = "move", !.kept = Staged,
                                   !.snap = IF Staged # {} THEN index ELSE NoFiles]
    <3>1. job' = [job EXCEPT ![r] = j] /\ landed' = landed
      BY <1>11, <2>3 DEF Settle
    <3>2. j.pairs = job[r].pairs /\ j.tip = job[r].tip /\ j.pc = "move"
      BY <1>0 DEF Job
    <3>3. Settles(r) /\ \A q \in Runs \ {r} : Stays(q)
      <4> HIDE DEF j
      <4> QED
        BY <2>1, <3>1, <3>2, OneMoves DEF Settles
    <3> QED
      BY <2>1, <3>3 DEF GitEffect, RunEffect
  <2> QED
    BY <2>2, <2>3
<1>12. CASE Move(r)
  <2>1. End(r, job[r].pairs) /\ job[r].pc = "move" /\ remote' = remote
    BY <1>12 DEF Move
  <2>2. CASE InTheWay(local, seen) = {}
    <3>1. Follows /\ local' = seen
      BY <1>12, <2>2 DEF Move, Follows
    <3> QED
      BY <2>1, <3>1, PushReports DEF GitEffect, RunEffect, Passes
  <2>3. CASE InTheWay(local, seen) # {}
    <3>1. Quiet /\ local' = local
      BY <1>12, <2>3 DEF Move, Quiet
    <3> QED
      BY <2>1, <3>1, PushReports DEF GitEffect, RunEffect, Passes
  <2> QED
    BY <2>2, <2>3
<1> QED
  BY <1>1, <1>2, <1>3, <1>4, <1>5, <1>6, <1>7, <1>8, <1>9, <1>10, <1>11, <1>12 DEF Land

LEMMA Effect ==
    ASSUME TypeInv, LandingAssumption, [Next]_vars
    PROVE  GitEffect /\ \A q \in Runs : RunEffect(q)
<1> USE DEF git, history
<1>1. ASSUME NEW r \in Runs, Land(r) PROVE GitEffect /\ \A q \in Runs : RunEffect(q)
  BY <1>1, LandEffect DEF RunEffect
<1>2. ASSUME NEW r \in Runs, HookRefuses(r) \/ LoseConnection(r)
      PROVE  GitEffect /\ \A q \in Runs : RunEffect(q)
  <2>1. Quiet /\ Refused(r)
    BY <1>2 DEF HookRefuses, LoseConnection, Quiet
  <2> QED
    BY <2>1, RefusedIs DEF GitEffect, RunEffect
<1>3. ASSUME NEW r \in Runs, Kill(r) PROVE GitEffect /\ \A q \in Runs : RunEffect(q)
  <2>1. Quiet /\ Refused(r)
    BY <1>3 DEF Kill, Quiet, Refused
  <2> QED
    BY <2>1, RefusedIs DEF GitEffect, RunEffect
<1>4. ASSUME NEW f \in Files, Write(f) PROVE GitEffect /\ \A q \in Runs : RunEffect(q)
  <2>1. fresh'[f] = fresh[f] + 1
    BY <1>4 DEF Write, TypeInv
  <2>2. Writes(f)
    BY <1>4, <2>1 DEF Write, Writes
  <2>3. \A q \in Runs : Stays(q)
    BY <1>4 DEF Write, Stays
  <2> QED
    BY <2>2, <2>3 DEF GitEffect, RunEffect
<1>5. ASSUME NEW f \in Files, StageByHand(f) PROVE GitEffect /\ \A q \in Runs : RunEffect(q)
  <2>1. Quiet
    BY <1>5 DEF StageByHand, Quiet
  <2>2. \A q \in Runs : Stays(q)
    BY <1>5 DEF StageByHand, Stays
  <2> QED
    BY <2>1, <2>2 DEF GitEffect, RunEffect
<1>6. ASSUME NEW f \in Files, PushFromElsewhere(f)
      PROVE  GitEffect /\ \A q \in Runs : RunEffect(q)
  <2>1. fresh'[f] = fresh[f] + 1
    BY <1>6 DEF PushFromElsewhere, TypeInv
  <2>2. Arrives(f)
    BY <1>6, <2>1 DEF PushFromElsewhere, Arrives
  <2>3. \A q \in Runs : Stays(q)
    BY <1>6 DEF PushFromElsewhere, Stays
  <2> QED
    BY <2>2, <2>3 DEF GitEffect, RunEffect
<1>7. CASE UNCHANGED vars
  BY <1>7 DEF vars, GitEffect, Quiet, RunEffect, Stays
<1> QED
  BY <1>1, <1>2, <1>3, <1>4, <1>5, <1>6, <1>7 DEF Next
-----------------------------------------------------------------------------
(* What is known only grows, and only by the commit that is made here or   *)
(* the one that arrives from elsewhere.                                    *)
LEMMA KnownGrows ==
    ASSUME TypeInv, KnownInv, GitEffect
    PROVE  /\ Known \subseteq Known' /\ Pairs(remote) \subseteq Pairs(remote')
           /\ Pairs(local') \subseteq Known' /\ Pairs(seen') \subseteq Pairs(remote')
<1> USE DEF Known, history, git
<1>1. CASE Quiet
  BY <1>1 DEF Quiet, KnownInv
<1>2. ASSUME NEW p \in Patch, Commits(p)
      PROVE  /\ Known \subseteq Known' /\ Pairs(remote) \subseteq Pairs(remote')
             /\ Pairs(local') \subseteq Known' /\ Pairs(seen') \subseteq Pairs(remote')
  <2>1. Pairs(local') = Pairs(local) \cup PairsOf(p)
    BY <1>2, AppendedCommit DEF Commits, TypeInv
  <2> QED
    BY <1>2, <2>1 DEF Commits, KnownInv
<1>3. ASSUME NEW h \in Branch, Publishes(h)
      PROVE  /\ Known \subseteq Known' /\ Pairs(remote) \subseteq Pairs(remote')
             /\ Pairs(local') \subseteq Known' /\ Pairs(seen') \subseteq Pairs(remote')
  <2>1. Pairs(remote) \subseteq Pairs(h)
    BY <1>3, PairsOfPrefix DEF Publishes, TypeInv
  <2> QED
    BY <1>3, <2>1 DEF Publishes, KnownInv
<1>4. CASE Follows
  BY <1>4 DEF Follows, KnownInv
<1>5. ASSUME NEW f \in Files, Writes(f)
      PROVE  /\ Known \subseteq Known' /\ Pairs(remote) \subseteq Pairs(remote')
             /\ Pairs(local') \subseteq Known' /\ Pairs(seen') \subseteq Pairs(remote')
  BY <1>5 DEF Writes, KnownInv
<1>6. ASSUME NEW f \in Files, Arrives(f)
      PROVE  /\ Known \subseteq Known' /\ Pairs(remote) \subseteq Pairs(remote')
             /\ Pairs(local') \subseteq Known' /\ Pairs(seen') \subseteq Pairs(remote')
  <2>1. [g \in {f} |-> fresh[f] + 1] \in Patch
    <3>1. [g \in {f} |-> fresh[f] + 1] \in [{f} -> Nat]
      BY DEF TypeInv
    <3> QED
      BY <3>1 DEF Patch
  <2>2. Pairs(remote) \subseteq Pairs(remote')
    BY <1>6, <2>1, AppendedCommit DEF Arrives, TypeInv
  <2> QED
    BY <1>6, <2>2 DEF Arrives, KnownInv
<1>7. \A r \in Runs : job[r].tip \in Branch
  BY DEF TypeInv, Job
<1>8. local \in Branch
  BY DEF TypeInv
<1> QED
  BY <1>1, <1>2, <1>3, <1>4, <1>5, <1>6, <1>7, <1>8 DEF GitEffect

(* The versions that become known in a step. *)
News(f) == {v \in Nat : <<f, v>> \in Known' /\ <<f, v>> \notin Known}

LEMMA NothingNew ==
    ASSUME TypeInv, KnownInv, GitEffect, NEW f \in Files
    PROVE  \/ News(f) = {}
           \/ /\ News(f) = {tree[f]} /\ <<f, tree[f]>> \in committed'
              /\ UNCHANGED <<fresh, tree, latest>> /\ Version(local', f) = tree[f]
           \/ /\ News(f) = {fresh[f] + 1} /\ fresh'[f] = fresh[f] + 1
              /\ UNCHANGED <<tree, latest, local>>
<1> USE DEF Known, history, git
<1>1. CASE Known' \subseteq Known
  BY <1>1 DEF News
<1>2. ASSUME NEW p \in Patch, Commits(p), News(f) # {}
      PROVE  /\ News(f) = {tree[f]} /\ <<f, tree[f]>> \in committed'
             /\ UNCHANGED <<fresh, tree, latest>> /\ Version(local', f) = tree[f]
  <2>1. Known' = Known \cup PairsOf(p)
    BY <1>2 DEF Commits
  <2>2. \A v : <<f, v>> \in PairsOf(p) <=> f \in DOMAIN p /\ v = tree[f]
    BY <1>2 DEF PairsOf, Commits
  <2>3. News(f) \subseteq {tree[f]} /\ f \in DOMAIN p
    BY <1>2, <2>1, <2>2 DEF News
  <2>4. Version(local', f) = tree[f]
    BY <1>2, <2>3, AppendedCommit DEF Commits, TypeInv
  <2> QED
    BY <1>2, <2>2, <2>3, <2>4 DEF Commits
<1>3. ASSUME NEW g \in Files, Arrives(g), News(f) # {}
      PROVE  /\ News(f) = {fresh[f] + 1} /\ fresh'[f] = fresh[f] + 1
             /\ UNCHANGED <<tree, latest, local>>
  <2> DEFINE p == [x \in {g} |-> fresh[g] + 1]
  <2>1. p \in Patch
    <3>1. p \in [{g} -> Nat]
      BY DEF TypeInv
    <3> QED
      BY <3>1 DEF Patch
  <2>2. PairsOf(p) = {<<g, fresh[g] + 1>>}
    BY DEF PairsOf
  <2>3. Known' = Known \cup {<<g, fresh[g] + 1>>}
    <3>1. Pairs(remote') = Pairs(remote) \cup PairsOf(p)
      BY <1>3, <2>1, AppendedCommit DEF Arrives, TypeInv
    <3> QED
      BY <1>3, <2>2, <3>1 DEF Arrives
  <2>4. News(f) \subseteq {fresh[f] + 1} /\ f = g
    BY <1>3, <2>3 DEF News
  <2>5. fresh'[f] = fresh[f] + 1
    BY <1>3, <2>4 DEF Arrives, TypeInv
  <2> QED
    BY <1>3, <2>4, <2>5 DEF Arrives
<1>4. CASE Quiet \/ Follows
  <2>1. Known' = Known
    BY <1>4 DEF Quiet, Follows
  <2> QED
    BY <1>1, <2>1
<1>5. ASSUME NEW h, Publishes(h), Pairs(h) \subseteq Known PROVE Known' \subseteq Known
  BY <1>5 DEF Publishes
<1>6. ASSUME NEW g \in Files, Writes(g) PROVE Known' \subseteq Known
  BY <1>6 DEF Writes
<1>7. /\ Pairs(local) \subseteq Known
      /\ \A r \in Runs : Pairs(job[r].tip) \subseteq Known
  BY DEF KnownInv
<1> QED
  BY <1>1, <1>2, <1>3, <1>4, <1>5, <1>6, <1>7 DEF GitEffect

LEMMA KnownStep ==
    ASSUME TypeInv, LandingAssumption, KnownInv, [Next]_vars
    PROVE  KnownInv'
<1>1. GitEffect /\ \A r \in Runs : RunEffect(r)
  BY Effect
<1>2. /\ Known \subseteq Known' /\ Pairs(local') \subseteq Known'
      /\ Pairs(seen') \subseteq Pairs(remote')
  BY <1>1, KnownGrows
<1>3. ASSUME NEW r \in Runs
      PROVE  /\ job'[r].pairs \subseteq Known' /\ landed'[r] \subseteq Known'
             /\ Pairs(job'[r].tip) \subseteq Known'
  <2>0. /\ job[r].pairs \subseteq Known' /\ landed[r] \subseteq Known'
        /\ Pairs(job[r].tip) \subseteq Known'
    BY <1>2 DEF KnownInv
  <2>1. Pairs(<<>>) \subseteq Known'
    BY <1>2 DEF Pairs
  <2>2. Idle.pairs = {} /\ Idle.tip = <<>>
    BY IdleType
  <2>3. CASE Stays(r) \/ GivesUp(r) \/ Proceeds(r) \/ Settles(r) \/ Passes(r)
    BY <1>2, <2>0, <2>1, <2>2, <2>3 DEF Stays, GivesUp, Proceeds, Settles, Passes
  <2>4. CASE IsLanded(r)
    <3>1. landed'[r] \subseteq Pairs(local')
      <4> SUFFICES ASSUME NEW f \in Scope[r] PROVE <<f, tree[f]>> \in Pairs(local)
        BY <2>4 DEF IsLanded
      <4>1. f \in Files
        BY DEF LandingAssumption
      <4>2. tree[f] = Version(local, f)
        BY <2>4, <4>1 DEF IsLanded, Dirty
      <4> QED
        BY <4>1, <4>2, VersionInPairs DEF TypeInv
    <3> QED
      BY <1>2, <2>1, <2>2, <2>4, <3>1 DEF IsLanded
  <2>5. CASE Picks(r)
    <3>1. Pairs(remote \o Unpicked(local, remote)) \subseteq Known
      <4>1. Pairs(remote \o Unpicked(local, remote))
              \subseteq Pairs(remote) \cup Pairs(Unpicked(local, remote))
        BY UnpickedIs, PairsOfConcat DEF TypeInv
      <4>2. Pairs(Unpicked(local, remote)) \subseteq Pairs(local)
        BY UnpickedIs DEF TypeInv
      <4> QED
        BY <4>1, <4>2 DEF KnownInv, Known
    <3> QED
      BY <1>2, <2>0, <2>5, <3>1 DEF Picks
  <2> QED
    BY <1>1, <2>3, <2>4, <2>5 DEF RunEffect
<1> QED
  BY <1>2, <1>3 DEF KnownInv

LEMMA NumberStep ==
    ASSUME TypeInv, LandingAssumption, KnownInv, NumberInv, [Next]_vars
    PROVE  NumberInv'
<1>1. GitEffect
  BY Effect
<1> SUFFICES ASSUME NEW f \in Files
             PROVE  /\ tree'[f] <= fresh'[f] /\ latest'[f] <= fresh'[f]
                    /\ \A v \in Nat : <<f, v>> \in Known' => v <= fresh'[f]
  BY DEF NumberInv
<1> USE DEF history, git
<1>0. /\ tree[f] \in Nat /\ latest[f] \in Nat /\ fresh[f] \in Nat
      /\ tree[f] <= fresh[f] /\ latest[f] <= fresh[f]
      /\ \A v \in Nat : <<f, v>> \in Known => v <= fresh[f]
  BY DEF TypeInv, NumberInv
<1>2. fresh'[f] \in Nat /\ fresh[f] <= fresh'[f]
  <2>1. CASE fresh' = fresh
    BY <1>0, <2>1
  <2>2. ASSUME NEW g \in Files, fresh' = [fresh EXCEPT ![g] = @ + 1]
        PROVE  fresh'[f] \in Nat /\ fresh[f] <= fresh'[f]
    BY <1>0, <2>2 DEF TypeInv
  <2>3. fresh' = fresh \/ \E g \in Files : fresh' = [fresh EXCEPT ![g] = @ + 1]
    BY <1>1 DEF GitEffect, Quiet, Commits, Publishes, Follows, Writes, Arrives
  <2> QED
    BY <2>1, <2>2, <2>3
<1>3. \A v \in Nat : <<f, v>> \in Known' => v <= fresh'[f]
  <2> SUFFICES ASSUME NEW v \in Nat, v \in News(f) PROVE v <= fresh'[f]
    BY <1>0, <1>2 DEF News
  <2>1. CASE News(f) = {tree[f]} /\ fresh' = fresh
    <3>1. v = tree[f]
      BY <2>1
    <3> QED
      BY <1>0, <2>1, <3>1
  <2>2. CASE News(f) = {fresh[f] + 1} /\ fresh'[f] = fresh[f] + 1
    <3>1. v = fresh[f] + 1
      BY <2>2
    <3> QED
      BY <1>0, <2>2, <3>1
  <2> QED
    BY <1>1, <2>1, <2>2, NothingNew
<1>4. latest'[f] <= fresh'[f]
  <2>1. CASE latest' = latest
    BY <1>0, <1>2, <2>1
  <2>2. ASSUME NEW g \in Files, Writes(g) PROVE latest'[f] <= fresh'[f]
    BY <1>0, <2>2 DEF Writes, TypeInv
  <2>3. latest' = latest \/ \E g \in Files : Writes(g)
    BY <1>1 DEF GitEffect, Quiet, Commits, Publishes, Follows, Arrives
  <2> QED
    BY <2>1, <2>2, <2>3
<1>5. tree'[f] <= fresh'[f]
  <2>1. CASE tree' = tree
    BY <1>0, <1>2, <2>1
  <2>2. ASSUME NEW g \in Files, Writes(g) PROVE tree'[f] <= fresh'[f]
    BY <1>0, <2>2 DEF Writes, TypeInv
  <2>3. CASE Follows
    <3>1. Version(seen, f) \in Nat /\ <<f, Version(seen, f)>> \in Known
      BY VersionType, VersionInPairs DEF TypeInv, KnownInv, Known
    <3>2. Version(seen, f) <= fresh[f]
      BY <1>0, <3>1
    <3> QED
      BY <1>0, <1>2, <2>3, <3>1, <3>2 DEF Follows
  <2>4. tree' = tree \/ Follows \/ \E g \in Files : Writes(g)
    BY <1>1 DEF GitEffect, Quiet, Commits, Publishes, Arrives
  <2> QED
    BY <2>1, <2>2, <2>3, <2>4
<1> QED
  BY <1>3, <1>4, <1>5

LEMMA TreeStep ==
    ASSUME TypeInv, LandingAssumption, KnownInv, NumberInv, TreeInv, [Next]_vars
    PROVE  TreeInv'
<1>1. GitEffect
  BY Effect
<1> SUFFICES ASSUME NEW f \in Files
             PROVE  tree'[f] = Version(local', f) \/ <<f, tree'[f]>> \notin Known'
  BY DEF TreeInv
<1> USE DEF history, git
<1>0. /\ tree[f] \in Nat /\ fresh[f] \in Nat /\ tree[f] <= fresh[f]
      /\ tree[f] = Version(local, f) \/ <<f, tree[f]>> \notin Known
      /\ \A v \in Nat : <<f, v>> \in Known => v <= fresh[f]
  BY DEF TypeInv, NumberInv, TreeInv
<1>2. CASE tree'[f] = tree[f] /\ Version(local', f) = Version(local, f)
  <2>1. CASE tree[f] \notin News(f)
    BY <1>0, <1>2, <2>1 DEF News
  <2>2. CASE tree[f] \in News(f)
    <3>1. \/ News(f) = {tree[f]} /\ Version(local', f) = tree[f]
          \/ News(f) = {fresh[f] + 1}
      BY <1>1, <2>2, NothingNew
    <3> QED
      BY <1>0, <1>2, <2>2, <3>1
  <2> QED
    BY <2>1, <2>2
<1>3. ASSUME NEW p \in Patch, Commits(p)
      PROVE  tree'[f] = Version(local', f) \/ <<f, tree'[f]>> \notin Known'
  <2>1. Version(local', f) = IF f \in DOMAIN p THEN p[f] ELSE Version(local, f)
    BY <1>3, AppendedCommit DEF Commits, TypeInv
  <2> QED
    BY <1>2, <1>3, <2>1 DEF Commits
<1>4. CASE Follows
  <2>1. \/ tree'[f] = Version(local', f)
        \/ tree'[f] = tree[f] /\ Version(local', f) = Version(local, f)
    BY <1>4 DEF Follows
  <2> QED
    BY <1>2, <2>1
<1>5. ASSUME NEW g \in Files, Writes(g)
      PROVE  tree'[f] = Version(local', f) \/ <<f, tree'[f]>> \notin Known'
  <2>1. CASE g = f
    <3>1. tree'[f] = fresh[f] + 1 /\ Known' = Known
      BY <1>5, <2>1 DEF Writes, TypeInv, Known
    <3>2. fresh[f] + 1 \in Nat /\ ~(fresh[f] + 1 <= fresh[f])
      BY <1>0
    <3> QED
      BY <1>0, <3>1, <3>2
  <2>2. CASE g # f
    BY <1>2, <1>5, <2>2 DEF Writes, TypeInv
  <2> QED
    BY <2>1, <2>2
<1>6. (tree' = tree /\ local' = local) \/ (\E p \in Patch : Commits(p)) \/ Follows
         \/ \E g \in Files : Writes(g)
  BY <1>1 DEF GitEffect, Quiet, Publishes, Arrives
<1> QED
  BY <1>2, <1>3, <1>4, <1>5, <1>6

LEMMA LatestStep ==
    ASSUME TypeInv, LandingAssumption, KnownInv, NumberInv, LatestInv, [Next]_vars
    PROVE  LatestInv' /\ committed \subseteq committed'
<1>1. GitEffect
  BY Effect
<1> USE DEF history, git
<1>2. committed \subseteq committed'
  BY <1>1 DEF GitEffect, Quiet, Commits, Publishes, Follows, Writes, Arrives
<1> SUFFICES ASSUME NEW f \in Files, <<f, latest'[f]>> \in Known'
             PROVE  <<f, latest'[f]>> \in committed' \cup {<<f, 0>>}
  BY <1>2 DEF LatestInv
<1>0. /\ latest[f] \in Nat /\ fresh[f] \in Nat /\ latest[f] <= fresh[f]
      /\ <<f, latest[f]>> \in Known => <<f, latest[f]>> \in committed \cup {<<f, 0>>}
      /\ \A v \in Nat : <<f, v>> \in Known => v <= fresh[f]
  BY DEF TypeInv, NumberInv, LatestInv
<1>3. CASE latest'[f] = latest[f]
  <2>1. CASE <<f, latest[f]>> \in Known
    BY <1>0, <1>2, <1>3, <2>1
  <2>2. CASE <<f, latest[f]>> \notin Known
    <3>1. latest[f] \in News(f)
      BY <1>0, <1>3, <2>2 DEF News
    <3>2. \/ News(f) = {tree[f]} /\ <<f, tree[f]>> \in committed'
          \/ News(f) = {fresh[f] + 1}
      BY <1>1, <3>1, NothingNew
    <3> QED
      BY <1>0, <1>3, <3>1, <3>2
  <2> QED
    BY <2>1, <2>2
<1>4. ASSUME NEW g \in Files, Writes(g), latest'[f] # latest[f] PROVE FALSE
  <2>1. latest'[f] = fresh[f] + 1 /\ Known' = Known
    BY <1>4 DEF Writes, TypeInv, Known
  <2>2. fresh[f] + 1 \in Nat /\ ~(fresh[f] + 1 <= fresh[f])
    BY <1>0
  <2> QED
    BY <1>0, <2>1, <2>2
<1>5. latest' = latest \/ \E g \in Files : Writes(g)
  BY <1>1 DEF GitEffect, Quiet, Commits, Publishes, Follows, Arrives
<1> QED
  BY <1>3, <1>4, <1>5

LEMMA WorkStep ==
    ASSUME TypeInv, LandingAssumption, KnownInv, NumberInv, LatestInv, WorkKept, [Next]_vars
    PROVE  WorkKept'
<1>1. GitEffect /\ committed \subseteq committed'
  BY Effect, LatestStep
<1> SUFFICES ASSUME NEW f \in Files
             PROVE  latest'[f] = tree'[f] \/ <<f, latest'[f]>> \in committed' \cup {<<f, 0>>}
  BY DEF WorkKept
<1> USE DEF history, git
<1>0. latest[f] = tree[f] \/ <<f, latest[f]>> \in committed' \cup {<<f, 0>>}
  BY <1>1 DEF WorkKept
<1>2. CASE latest'[f] = latest[f] /\ tree'[f] = tree[f]
  BY <1>0, <1>2
<1>3. CASE Follows
  <2>1. CASE Version(local, f) # Version(seen, f) /\ latest[f] = tree[f]
    <3>1. tree[f] = Version(local, f)
      BY <1>3, <2>1 DEF Follows, InTheWay, Dirty
    <3>2. <<f, latest[f]>> \in Known
      BY <2>1, <3>1, VersionInPairs DEF TypeInv, KnownInv
    <3> QED
      BY <1>1, <1>3, <3>2 DEF LatestInv, Follows
  <2>2. CASE Version(local, f) = Version(seen, f)
    BY <1>2, <1>3, <2>2 DEF Follows
  <2>3. CASE latest[f] # tree[f]
    BY <1>0, <1>3, <2>3 DEF Follows
  <2> QED
    BY <2>1, <2>2, <2>3
<1>4. ASSUME NEW g \in Files, Writes(g)
      PROVE  latest'[f] = tree'[f] \/ <<f, latest'[f]>> \in committed' \cup {<<f, 0>>}
  <2>1. CASE g = f
    BY <1>4, <2>1 DEF Writes, TypeInv
  <2>2. CASE g # f
    BY <1>2, <1>4, <2>2 DEF Writes, TypeInv
  <2> QED
    BY <2>1, <2>2
<1>5. (latest' = latest /\ tree' = tree) \/ Follows \/ \E g \in Files : Writes(g)
  BY <1>1 DEF GitEffect, Quiet, Commits, Publishes, Arrives
<1> QED
  BY <1>2, <1>3, <1>4, <1>5
-----------------------------------------------------------------------------
(* What is published. *)

(* Of what was known before a step, the step brings nothing onto the       *)
(* branch that is not at the remote: a commit is always of something new.  *)
LEMMA StaysPublished ==
    ASSUME TypeInv, KnownInv, TreeInv, GitEffect, NEW S, NEW X, S \subseteq Known,
           S \cap Pairs(local) \subseteq X \cup Pairs(remote)
    PROVE  S \cap Pairs(local') \subseteq X \cup Pairs(remote')
<1>0. Pairs(remote) \subseteq Pairs(remote')
  BY KnownGrows
<1> USE DEF history, git
<1>1. CASE local' = local
  BY <1>0, <1>1
<1>2. ASSUME NEW p \in Patch, Commits(p)
      PROVE  S \cap Pairs(local') \subseteq X \cup Pairs(remote')
  <2>1. Pairs(local') = Pairs(local) \cup PairsOf(p)
    BY <1>2, AppendedCommit DEF Commits, TypeInv
  <2>2. PairsOf(p) \cap Known = {}
    <3> SUFFICES ASSUME NEW f \in DOMAIN p PROVE <<f, p[f]>> \notin Known
      BY DEF PairsOf
    <3>1. f \in Files
      BY PatchFacts
    <3>2. p[f] = tree[f] /\ tree[f] # Version(local, f)
      BY <1>2 DEF Commits
    <3> QED
      BY <3>1, <3>2 DEF TreeInv
  <2> QED
    BY <1>0, <2>1, <2>2
<1>3. CASE Follows
  BY <1>0, <1>3 DEF Follows, KnownInv
<1> QED
  BY <1>1, <1>2, <1>3 DEF GitEffect, Quiet, Publishes, Writes, Arrives

(* A scope that is clean and that no commit beyond the remote touches is   *)
(* at the remote: the commit a version comes from is a shared one.         *)
LEMMA CleanIsPublished ==
    ASSUME TypeInv, LandingAssumption, KnownInv, NEW r \in Runs, IsLanded(r)
    PROVE  landed'[r] \subseteq Pairs(remote)
<1> SUFFICES ASSUME NEW f \in Scope[r] PROVE <<f, tree[f]>> \in Pairs(remote)
  BY DEF IsLanded
<1>1. f \in Files
  BY DEF LandingAssumption
<1>2. tree[f] = Version(local, f)
  BY <1>1 DEF IsLanded, Dirty
<1>3. CASE Version(local, f) = 0
  BY <1>1, <1>2, <1>3, PairsAre
<1>4. CASE \E i \in 1..Len(local) : f \in DOMAIN local[i] /\ Version(local, f) = local[i][f]
  <2>1. PICK i \in 1..Len(local) : f \in DOMAIN local[i] /\ Version(local, f) = local[i][f]
    BY <1>4
  <2>2. local[i] \notin ToSet(Beyond(local, seen))
    BY <2>1 DEF IsLanded, Unpushed
  <2>3. i \in 1..Len(seen) /\ local[i] = seen[i]
    BY <2>2, SharedOrBeyond DEF TypeInv
  <2>4. <<f, tree[f]>> \in Pairs(seen)
    BY <1>2, <2>1, <2>3, PairsAre
  <2> QED
    BY <2>4 DEF KnownInv
<1> QED
  BY <1>3, <1>4, LastVersion DEF TypeInv

LEMMA PublishedStep ==
    ASSUME TypeInv, LandingAssumption, KnownInv, TreeInv, PickInv, PassIsPublished,
           [Next]_vars
    PROVE  PickInv' /\ PassIsPublished'
<1>1. GitEffect /\ \A r \in Runs : RunEffect(r)
  BY Effect
<1>2. Pairs(remote) \subseteq Pairs(remote')
  BY <1>1, KnownGrows
<1> USE DEF AtStep
<1>3. ASSUME NEW r \in Runs
      PROVE  /\ job'[r].pc = "pushPick" =>
                   job'[r].pairs \cap Pairs(local') \subseteq Pairs(job'[r].tip) \cup Pairs(remote')
             /\ job'[r].pc \in {"settle", "move"} =>
                   job'[r].pairs \cap Pairs(local') \subseteq Pairs(remote')
             /\ landed'[r] \cap Pairs(local') \subseteq Pairs(remote')
  <2> DEFINE P == job[r].pairs
  <2>1. landed[r] \cap Pairs(local') \subseteq Pairs(remote')
    BY <1>1, StaysPublished DEF KnownInv, PassIsPublished
  <2>2. job[r].pc = "pushPick" => P \cap Pairs(local') \subseteq Pairs(job[r].tip) \cup Pairs(remote')
    BY <1>1, StaysPublished DEF KnownInv, PickInv
  <2>3. job[r].pc \in {"settle", "move"} => P \cap Pairs(local') \subseteq Pairs(remote')
    <3> SUFFICES ASSUME job[r].pc \in {"settle", "move"}
                 PROVE  P \cap Pairs(local') \subseteq {} \cup Pairs(remote')
      OBVIOUS
    <3>1. P \cap Pairs(local) \subseteq {} \cup Pairs(remote) /\ P \subseteq Known
      BY DEF KnownInv, PickInv
    <3> HIDE DEF P
    <3> QED
      BY <1>1, <3>1, StaysPublished
  <2>4. Idle.pc = "idle"
    BY IdleType
  <2>5. CASE Stays(r)
    BY <2>1, <2>2, <2>3, <2>5 DEF Stays
  <2>6. CASE GivesUp(r)
    BY <2>4, <2>6 DEF GivesUp
  <2>7. CASE IsLanded(r)
    BY <1>2, <2>4, <2>7, CleanIsPublished DEF IsLanded
  <2>8. CASE Proceeds(r)
    BY <2>1, <2>8 DEF Proceeds
  <2>9. CASE Picks(r)
    <3>1. Pairs(local) \subseteq Pairs(remote) \cup Pairs(Unpicked(local, remote))
      BY UnpickedIs DEF TypeInv
    <3>2. Pairs(Unpicked(local, remote)) \subseteq Pairs(remote \o Unpicked(local, remote))
      BY UnpickedIs, PairsOfConcat DEF TypeInv
    <3> QED
      BY <2>1, <2>9, <3>1, <3>2 DEF Picks
  <2>10. CASE Settles(r)
    BY <2>1, <2>2, <2>3, <2>10 DEF Settles
  <2>11. CASE Passes(r)
    BY <2>3, <2>4, <2>11 DEF Passes
  <2> QED
    BY <1>1, <2>5, <2>6, <2>7, <2>8, <2>9, <2>10, <2>11 DEF RunEffect
<1> QED
  BY <1>3 DEF PickInv, PassIsPublished
-----------------------------------------------------------------------------
LandInv == TypeInv /\ KnownInv /\ NumberInv /\ TreeInv /\ LatestInv /\ PickInv

LEMMA InvInit == Init => LandInv /\ WorkKept /\ PassIsPublished
<1> SUFFICES ASSUME Init PROVE LandInv /\ WorkKept /\ PassIsPublished
  OBVIOUS
<1>1. TypeInv
  BY TypeInit
<1>2. Pairs(<<>>) = {<<f, 0>> : f \in Files} /\ \A f : Version(<<>>, f) = 0
  BY DEF Pairs, Version
<1>3. /\ tree = NoFiles /\ latest = NoFiles /\ fresh = NoFiles /\ committed = {}
      /\ local = <<>> /\ remote = <<>> /\ seen = <<>>
      /\ \A r \in Runs : job[r] = Idle /\ landed[r] = {}
      /\ \A f \in Files : NoFiles[f] = 0
  BY DEF Init, NoFiles
<1>4. KnownInv /\ PickInv /\ PassIsPublished
  BY <1>2, <1>3, IdleType DEF KnownInv, PickInv, PassIsPublished, Known, AtStep
<1>5. NumberInv
  BY <1>2, <1>3 DEF NumberInv, Known
<1>6. TreeInv /\ LatestInv /\ WorkKept
  BY <1>2, <1>3 DEF TreeInv, LatestInv, WorkKept
<1> QED
  BY <1>1, <1>4, <1>5, <1>6 DEF LandInv

LEMMA InvStep ==
    LandingAssumption /\ LandInv /\ WorkKept /\ PassIsPublished /\ [Next]_vars
       => LandInv' /\ WorkKept' /\ PassIsPublished'
BY TypeStep, KnownStep, NumberStep, TreeStep, LatestStep, WorkStep, PublishedStep DEF LandInv

(* What was last written to a file in this checkout stays in its work tree *)
(* until it has been committed, whatever landings do meanwhile: the only   *)
(* step of theirs that writes to the work tree leaves every file alone     *)
(* that differs from the branch (git reset --keep).                        *)
THEOREM WorkIsKept == Spec => []WorkKept
<1>1. LandingAssumption
  BY LandingAssumption
<1> QED
  BY <1>1, InvInit, InvStep, PTL DEF Spec

(* A landing that reports success does not speak for a commit that is only *)
(* local, wherever other landings, other checkouts and faults come between *)
(* its steps (land_governance, _push_governance, _settle_after_push).      *)
THEOREM PassesArePublished == Spec => []PassIsPublished
<1>1. LandingAssumption
  BY LandingAssumption
<1> QED
  BY <1>1, InvInit, InvStep, PTL DEF Spec

(* The types of the variables. *)
THEOREM TypeCorrect == Spec => []TypeOK
<1>1. LandingAssumption
  BY LandingAssumption
<1>2. TypeInv => TypeOK
  <2> SUFFICES ASSUME TypeInv PROVE TypeOK
    OBVIOUS
  <2>1. ASSUME NEW h \in {local, remote, seen}, NEW i \in 1..Len(h) PROVE DOMAIN h[i] \subseteq Files
    <3>1. h[i] \in Patch
      BY ElementOfSeq DEF TypeInv, Branch
    <3> QED
      BY <3>1, PatchFacts
  <2>2. \A r \in Runs : job[r].pc \in Pcs
    BY DEF TypeInv, Job
  <2> QED
    BY <2>1, <2>2 DEF TypeInv, TypeOK
<1> QED
  BY <1>1, <1>2, TypeInit, TypeStep, PTL DEF Spec
=============================================================================
