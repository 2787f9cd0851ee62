--------------------------- MODULE CrossLinkProofs ---------------------------
(***************************************************************************)
(* Linking and unlinking on any card, for any folders and aliases.  First  *)
(* what the chains of the FAT are: lemmas about ClusterAt, by induction    *)
(* along a chain, of which the step is WFMin.  Then the loops of the EE,   *)
(* and on top of them the folders and the entries.                         *)
(***************************************************************************)
EXTENDS CrossLink, FiniteSetTheorems, WellFoundedInduction, TLAPS

LEMMA LeastElement == ASSUME NEW S \in SUBSET Nat, S # {} PROVE \E x \in S : \A y \in S : x <= y
<1>1. PICK x \in S : \A y \in S : ~ (<<y, x>> \in OpToRel(<, Nat))
  BY NatLessThanWellFounded, WFMin
<1>2. \A y \in S : ~(y < x)
  BY <1>1 DEF OpToRel
<1>3. ASSUME NEW y \in S PROVE x <= y
  <2>1. x \in Nat /\ y \in Nat /\ ~(y < x)
    BY <1>2
  <2> QED
    BY <2>1
<1> QED
  BY <1>3

(* Induction, for a set instead of a predicate. *)
LEMMA Induction ==
  ASSUME NEW n \in Nat, NEW S, 0 \in S, \A k \in 0 .. n - 1 : k \in S => k + 1 \in S
  PROVE  \A k \in 0 .. n : k \in S
<1> DEFINE T == {k \in 0 .. n : k \notin S}
<1> SUFFICES ASSUME T # {} PROVE FALSE
  OBVIOUS
<1>1. \E x \in T : \A y \in T : x <= y
  <2>1. T \subseteq Nat
    OBVIOUS
  <2> HIDE DEF T
  <2> QED
    BY <2>1, LeastElement
<1>2. PICK x \in T : \A y \in T : x <= y
  BY <1>1
<1>3. x \in 0 .. n /\ x \notin S /\ x # 0
  OBVIOUS
<1>4. x - 1 \in 0 .. n - 1 /\ x - 1 \in 0 .. n /\ x - 1 < x /\ x - 1 + 1 = x
  BY <1>3
<1>5. x - 1 \in S
  BY <1>2, <1>4
<1> QED
  BY <1>3, <1>4, <1>5

-----------------------------------------------------------------------------
(* The equation of the recursive function of ClusterAt, and that it has a  *)
(* solution.                                                               *)
ChainEquation(g, first, fat, n) ==
  g = [j \in 0 .. n |-> IF j = 0 THEN first
                        ELSE IF g[j - 1] \in Clusters THEN fat[g[j - 1]] ELSE g[j - 1]]

LEMMA ChainFunction ==
  ASSUME NEW first, NEW fat, NEW n \in Nat
  PROVE  \E g : ChainEquation(g, first, fat, n)
<1> DEFINE Eq(g, k) == ChainEquation(g, first, fat, k)
           S == {k \in 0 .. n : \E g : Eq(g, k)}
<1>1. 0 \in S
  <2> DEFINE g == [j \in 0 .. 0 |-> first]
  <2>1. Eq(g, 0)
    BY DEF ChainEquation
  <2> HIDE DEF g, Eq
  <2> QED
    BY <2>1
<1>2. ASSUME NEW k \in 0 .. n - 1, k \in S PROVE k + 1 \in S
  <2>1. PICK g : Eq(g, k)
    BY <1>2
  <2> DEFINE h == [j \in 0 .. k + 1 |-> IF j <= k THEN g[j]
                                        ELSE IF g[k] \in Clusters THEN fat[g[k]] ELSE g[k]]
  <2>2. \A j \in 0 .. k : h[j] = g[j]
    OBVIOUS
  <2>3. ASSUME NEW j \in 0 .. k + 1
        PROVE  h[j] = IF j = 0 THEN first
                      ELSE IF h[j - 1] \in Clusters THEN fat[h[j - 1]] ELSE h[j - 1]
    <3>1. CASE j = 0
      BY <2>1, <2>2, <3>1 DEF ChainEquation
    <3>2. CASE j \in 1 .. k
      <4>1. j - 1 \in 0 .. k /\ j \in 0 .. k /\ j # 0
        BY <3>2
      <4>2. g[j] = IF g[j - 1] \in Clusters THEN fat[g[j - 1]] ELSE g[j - 1]
        BY <2>1, <4>1 DEF ChainEquation
      <4> HIDE DEF h
      <4> QED
        BY <2>2, <4>1, <4>2
    <3>3. CASE j = k + 1
      <4>1. j - 1 = k /\ j # 0 /\ ~(j <= k) /\ k \in 0 .. k
        BY <3>3
      <4>2. h[j] = IF g[k] \in Clusters THEN fat[g[k]] ELSE g[k]
        BY <4>1
      <4> HIDE DEF h
      <4> QED
        BY <2>2, <4>1, <4>2
    <3> QED
      BY <3>1, <3>2, <3>3
  <2>4. Eq(h, k + 1)
    <3>1. h = [j \in 0 .. k + 1 |-> h[j]]
      OBVIOUS
    <3> HIDE DEF h
    <3> QED
      BY <2>3, <3>1 DEF ChainEquation
  <2> HIDE DEF h, Eq
  <2> QED
    BY <2>4
<1>3. n \in S
  <2> HIDE DEF S
  <2> QED
    BY <1>1, <1>2, Induction
<1> QED
  BY <1>3

LEMMA AtUnfolds ==
  ASSUME NEW s, NEW f
  PROVE  /\ ClusterAt(s, f, 0) = FirstCluster[f]
         /\ \A k \in 0 .. NumClusters - 1 :
              ClusterAt(s, f, k + 1) = IF ClusterAt(s, f, k) \in Clusters THEN s.fat[ClusterAt(s, f, k)]
                                       ELSE ClusterAt(s, f, k)
<1> DEFINE Eq(g) == ChainEquation(g, FirstCluster[f], s.fat, NumClusters)
           c == CHOOSE g : Eq(g)
<1>1. NumClusters \in Nat
  BY SizesAssumption
<1>2. Eq(c)
  <2>1. \E g : Eq(g)
    BY <1>1, ChainFunction
  <2> HIDE DEF Eq
  <2> QED
    BY <2>1
<1>3. \A k : ClusterAt(s, f, k) = c[k]
  BY DEF ClusterAt, ChainEquation
<1> HIDE DEF c
<1>4. c[0] = FirstCluster[f]
  BY <1>1, <1>2 DEF ChainEquation
<1>5. ASSUME NEW k \in 0 .. NumClusters - 1
      PROVE  c[k + 1] = IF c[k] \in Clusters THEN s.fat[c[k]] ELSE c[k]
  <2>1. k + 1 \in 0 .. NumClusters /\ k + 1 # 0 /\ (k + 1) - 1 = k
    BY <1>1
  <2> QED
    BY <1>2, <2>1 DEF ChainEquation
<1> QED
  BY <1>3, <1>4, <1>5

-----------------------------------------------------------------------------
(* The chain of folder f has m + 1 clusters, the last one at its end.      *)
Chain(s, f, m) ==
  /\ m \in 0 .. NumClusters
  /\ \A k \in 0 .. m : ClusterAt(s, f, k) \in Clusters
  /\ s.fat[ClusterAt(s, f, m)] = EOC

LEMMA ClusterFacts == NumClusters \in Nat \ {0} /\ EOC \notin Clusters /\ FREE \notin Clusters /\ EOC # FREE
  BY SizesAssumption DEF Clusters, EOC, FREE

LEMMA ClustersFinite == IsFiniteSet(Clusters) /\ Cardinality(Clusters) = NumClusters
<1>1. NumClusters \in Nat \ {0} /\ 0 \in Int /\ NumClusters - 1 \in Int
  BY SizesAssumption
<1>2. IsFiniteSet(0 .. NumClusters - 1) /\ Cardinality(0 .. NumClusters - 1) = NumClusters - 1 - 0 + 1
  BY <1>1, FS_Interval
<1> QED
  BY <1>1, <1>2 DEF Clusters

(* The clusters before one of the chain are of the chain.                  *)
LEMMA ChainBefore ==
  ASSUME NEW s, NEW f, NEW m \in 0 .. NumClusters, ClusterAt(s, f, m) \in Clusters
  PROVE  \A k \in 0 .. m : ClusterAt(s, f, k) \in Clusters
<1> DEFINE S == {d \in 0 .. m : ClusterAt(s, f, m - d) \in Clusters}
<1>1. m \in Nat /\ NumClusters \in Nat
  BY ClusterFacts
<1>2. 0 \in S
  BY <1>1
<1>3. ASSUME NEW d \in 0 .. m - 1, d \in S PROVE d + 1 \in S
  <2> DEFINE k == m - (d + 1)
  <2>1. k \in 0 .. NumClusters - 1 /\ k + 1 = m - d /\ d + 1 \in 0 .. m
    BY <1>1
  <2>2. ClusterAt(s, f, k + 1) \in Clusters
    BY <1>3, <2>1
  <2>3. ClusterAt(s, f, k) \in Clusters
    <3> HIDE DEF k
    <3> QED
      BY <2>1, <2>2, AtUnfolds
  <2> QED
    BY <2>1, <2>3
<1>4. \A d \in 0 .. m : d \in S
  <2> HIDE DEF S
  <2> QED
    BY <1>1, <1>2, <1>3, Induction
<1> QED
  <2> TAKE k \in 0 .. m
  <2>1. m - k \in 0 .. m /\ m - (m - k) = k
    BY <1>1
  <2> QED
    BY <1>4, <2>1

(* Behind the end there is nothing.                                        *)
LEMMA ChainAfter ==
  ASSUME NEW s, NEW f, NEW m, Chain(s, f, m)
  PROVE  \A k \in m + 1 .. NumClusters : ClusterAt(s, f, k) = EOC
<1> DEFINE S == {d \in 0 .. NumClusters - m - 1 : ClusterAt(s, f, m + 1 + d) = EOC}
<1>1. m \in Nat /\ NumClusters \in Nat /\ m <= NumClusters
  BY ClusterFacts DEF Chain
<1> SUFFICES ASSUME m < NumClusters PROVE \A k \in m + 1 .. NumClusters : ClusterAt(s, f, k) = EOC
  BY <1>1
<1>2. NumClusters - m - 1 \in Nat
  BY <1>1
<1>3. 0 \in S
  <2>1. m \in 0 .. NumClusters - 1 /\ m \in 0 .. m /\ m + 1 + 0 = m + 1
    BY <1>1
  <2>2. ClusterAt(s, f, m + 1) = EOC
    BY <2>1, AtUnfolds DEF Chain
  <2> QED
    BY <1>2, <2>1, <2>2
<1>4. ASSUME NEW d \in 0 .. (NumClusters - m - 1) - 1, d \in S PROVE d + 1 \in S
  <2> DEFINE k == m + 1 + d
  <2>1. k \in 0 .. NumClusters - 1 /\ k + 1 = m + 1 + (d + 1) /\ d + 1 \in 0 .. NumClusters - m - 1
    BY <1>1
  <2>2. ClusterAt(s, f, k) = EOC
    BY <1>4
  <2>3. ClusterAt(s, f, k + 1) = EOC
    <3> HIDE DEF k
    <3> QED
      BY <2>1, <2>2, AtUnfolds, ClusterFacts
  <2> QED
    BY <2>1, <2>3
<1>5. \A d \in 0 .. NumClusters - m - 1 : d \in S
  <2> HIDE DEF S
  <2> QED
    BY <1>2, <1>3, <1>4, Induction
<1> QED
  <2> TAKE k \in m + 1 .. NumClusters
  <2>1. k - m - 1 \in 0 .. NumClusters - m - 1 /\ m + 1 + (k - m - 1) = k
    BY <1>1
  <2> QED
    BY <1>5, <2>1

(* No cluster comes twice: from there on the chain would repeat itself and *)
(* have no end.                                                            *)
LEMMA ChainDistinct ==
  ASSUME NEW s, NEW f, NEW m, Chain(s, f, m), NEW i \in 0 .. m, NEW j \in 0 .. m, i < j
  PROVE  ClusterAt(s, f, i) # ClusterAt(s, f, j)
<1> SUFFICES ASSUME ClusterAt(s, f, i) = ClusterAt(s, f, j) PROVE FALSE
  OBVIOUS
<1> DEFINE S == {d \in 0 .. m - j : ClusterAt(s, f, i + d) = ClusterAt(s, f, j + d)}
<1>1. m \in Nat /\ NumClusters \in Nat /\ m <= NumClusters /\ i \in Nat /\ j \in Nat /\ m - j \in Nat
  BY ClusterFacts DEF Chain
<1>2. 0 \in S
  BY <1>1
<1>3. ASSUME NEW d \in 0 .. (m - j) - 1, d \in S PROVE d + 1 \in S
  <2>1. /\ i + d \in 0 .. NumClusters - 1 /\ (i + d) + 1 = i + (d + 1)
        /\ j + d \in 0 .. NumClusters - 1 /\ (j + d) + 1 = j + (d + 1)
        /\ d + 1 \in 0 .. m - j
    BY <1>1
  <2>2. ClusterAt(s, f, (i + d) + 1) = ClusterAt(s, f, (j + d) + 1)
    BY <1>3, <2>1, AtUnfolds
  <2> QED
    BY <2>1, <2>2
<1>4. m - j \in S
  <2>1. m - j \in 0 .. m - j
    BY <1>1
  <2> HIDE DEF S
  <2> QED
    BY <1>1, <1>2, <1>3, <2>1, Induction
<1> DEFINE k == i + (m - j)
<1>5. k \in 0 .. NumClusters - 1 /\ k + 1 \in 0 .. m /\ k \in 0 .. m /\ j + (m - j) = m
  BY <1>1
<1>6. ClusterAt(s, f, k) = ClusterAt(s, f, m)
  BY <1>4, <1>5
<1> HIDE DEF k
<1>7. ClusterAt(s, f, k + 1) = EOC
  BY <1>5, <1>6, AtUnfolds DEF Chain
<1> QED
  BY <1>5, <1>7, ClusterFacts DEF Chain

(* So a chain has no more clusters than there are.                         *)
LEMMA ChainFits ==
  ASSUME NEW s, NEW f, NEW m, Chain(s, f, m),
         NEW T \in SUBSET Clusters, \A k \in 0 .. m : ClusterAt(s, f, k) \in T
  PROVE  m + 1 <= Cardinality(T)
<1> DEFINE c == [k \in 0 .. m |-> ClusterAt(s, f, k)]
<1>1. m \in Nat /\ NumClusters \in Nat
  BY ClusterFacts DEF Chain
<1>2. IsFiniteSet(T)
  BY ClustersFinite, FS_Subset
<1>3. c \in Injection(0 .. m, T)
  <2>1. \A i, j \in 0 .. m : c[i] = c[j] => i = j
    <3> TAKE i, j \in 0 .. m
    <3>1. i = j \/ i < j \/ j < i
      BY <1>1
    <3> QED
      BY <3>1, ChainDistinct
  <2> QED
    BY <2>1 DEF Injection, IsInjective
<1>4. Cardinality(0 .. m) <= Cardinality(T)
  BY <1>2, <1>3, FS_Injection
<1> QED
  BY <1>1, <1>4, FS_Interval

LEMMA ChainShort ==
  ASSUME NEW s, NEW f, NEW m, Chain(s, f, m)
  PROVE  /\ m < NumClusters
         /\ \A c \in FreeClusters(s) : m + 1 < NumClusters
<1>1. m \in Nat /\ NumClusters \in Nat
  BY ClusterFacts DEF Chain
<1>2. m + 1 <= NumClusters
  BY ChainFits, ClustersFinite DEF Chain
<1>3. ASSUME NEW c \in FreeClusters(s) PROVE m + 1 <= NumClusters - 1
  <2>1. ASSUME NEW k \in 0 .. m PROVE ClusterAt(s, f, k) # c
    <3>1. CASE k = m
      BY <3>1, <1>3, ClusterFacts DEF Chain, FreeClusters
    <3>2. CASE k < m
      <4>1. k \in 0 .. NumClusters - 1 /\ k + 1 \in 0 .. m
        BY <3>2, <1>1 DEF Chain
      <4>2. s.fat[ClusterAt(s, f, k)] \in Clusters
        BY <4>1, AtUnfolds DEF Chain
      <4> QED
        BY <4>2, <1>3, ClusterFacts DEF FreeClusters
    <3> QED
      BY <1>1, <3>1, <3>2
  <2>2. \A k \in 0 .. m : ClusterAt(s, f, k) \in Clusters \ {c}
    BY <2>1 DEF Chain
  <2>3. Cardinality(Clusters \ {c}) = NumClusters - 1
    BY <1>3, ClustersFinite, FS_RemoveElement DEF FreeClusters
  <2> QED
    BY <2>2, <2>3, ChainFits
<1> QED
  BY <1>1, <1>2, <1>3

(* Each cluster of a chain but the last names the next one.                *)
LEMMA ChainNext ==
  ASSUME NEW s, NEW f, NEW m, Chain(s, f, m), NEW k \in 0 .. m, k # m
  PROVE  s.fat[ClusterAt(s, f, k)] = ClusterAt(s, f, k + 1) /\ s.fat[ClusterAt(s, f, k)] \in Clusters
<1>1. k \in 0 .. NumClusters - 1 /\ k + 1 \in 0 .. m
  BY ClusterFacts DEF Chain
<1> QED
  BY <1>1, AtUnfolds DEF Chain

LEMMA ChainUsed ==
  ASSUME NEW s, NEW f, NEW m, Chain(s, f, m), NEW k \in 0 .. m
  PROVE  ClusterAt(s, f, k) \notin FreeClusters(s)
  BY ChainNext, ClusterFacts DEF Chain, FreeClusters

LEMMA ChainRange ==
  ASSUME NEW s, NEW f, NEW m, Chain(s, f, m)
  PROVE  /\ ChainOf(s, f) = {ClusterAt(s, f, k) : k \in 0 .. m}
         /\ EndOf(s, f) = {ClusterAt(s, f, m)}
<1>1. m \in Nat /\ NumClusters \in Nat /\ m <= NumClusters
  BY ClusterFacts DEF Chain
<1>2. ASSUME NEW k \in 0 .. NumClusters PROVE ClusterAt(s, f, k) \in Clusters <=> k \in 0 .. m
  BY <1>1, ChainAfter, ClusterFacts DEF Chain
<1>3. ChainOf(s, f) = {ClusterAt(s, f, k) : k \in 0 .. m}
  BY <1>1, <1>2 DEF ChainOf
<1>4. EndOf(s, f) = {ClusterAt(s, f, m)}
  <2>1. \A k \in 0 .. m : s.fat[ClusterAt(s, f, k)] = EOC <=> k = m
    BY ChainNext, ClusterFacts DEF Chain
  <2> QED
    BY <1>1, <1>3, <2>1 DEF EndOf
<1> QED
  BY <1>3, <1>4

(* A chain stays as it is while the FAT entries of its clusters do.        *)
LEMMA ChainAgree ==
  ASSUME NEW s, NEW t, NEW f, NEW m \in 0 .. NumClusters,
         \A k \in 0 .. m : ClusterAt(s, f, k) \in Clusters,
         \A k \in 0 .. m : k # m => t.fat[ClusterAt(s, f, k)] = s.fat[ClusterAt(s, f, k)]
  PROVE  \A k \in 0 .. m : ClusterAt(t, f, k) = ClusterAt(s, f, k)
<1> DEFINE S == {k \in 0 .. m : ClusterAt(t, f, k) = ClusterAt(s, f, k)}
<1>1. m \in Nat /\ NumClusters \in Nat
  BY ClusterFacts
<1>2. 0 \in S
  BY <1>1, AtUnfolds
<1>3. ASSUME NEW k \in 0 .. m - 1, k \in S PROVE k + 1 \in S
  <2>1. k \in 0 .. NumClusters - 1 /\ k + 1 \in 0 .. m /\ k \in 0 .. m /\ k # m
    BY <1>1
  <2>2. ClusterAt(t, f, k + 1) = ClusterAt(s, f, k + 1)
    BY <1>3, <2>1, AtUnfolds
  <2> QED
    BY <2>1, <2>2
<1>4. \A k \in 0 .. m : k \in S
  <2> HIDE DEF S
  <2> QED
    BY <1>1, <1>2, <1>3, Induction
<1> QED
  BY <1>4

(* A chain none of whose clusters has another entry in t is the chain of t. *)
SameEntries(s, t, f, m) == \A k \in 0 .. m : t.fat[ClusterAt(s, f, k)] = s.fat[ClusterAt(s, f, k)]
SameChain(s, t, f) == \A k \in 0 .. NumClusters : ClusterAt(t, f, k) = ClusterAt(s, f, k)

LEMMA ChainKept ==
  ASSUME NEW s, NEW t, NEW f, NEW m, Chain(s, f, m), SameEntries(s, t, f, m)
  PROVE  Chain(t, f, m) /\ SameChain(s, t, f)
<1>1. m \in Nat /\ NumClusters \in Nat /\ m <= NumClusters
  BY ClusterFacts DEF Chain
<1>2. \A k \in 0 .. m : ClusterAt(t, f, k) = ClusterAt(s, f, k)
  BY ChainAgree DEF Chain, SameEntries
<1>3. Chain(t, f, m)
  BY <1>1, <1>2 DEF Chain, SameEntries
<1>4. \A k \in m + 1 .. NumClusters : ClusterAt(t, f, k) = EOC /\ ClusterAt(s, f, k) = EOC
  BY <1>3, ChainAfter
<1> QED
  BY <1>1, <1>2, <1>3, <1>4 DEF SameChain

(* AddFATRecord: a free cluster becomes the end of the chain.              *)
LEMMA ChainGrows ==
  ASSUME NEW s, NEW t, NEW f, NEW m, Chain(s, f, m), NEW x \in FreeClusters(s),
         t.fat[ClusterAt(s, f, m)] = x, t.fat[x] = EOC,
         \A c \in Clusters \ {x, ClusterAt(s, f, m)} : t.fat[c] = s.fat[c]
  PROVE  /\ Chain(t, f, m + 1)
         /\ \A k \in 0 .. m : ClusterAt(t, f, k) = ClusterAt(s, f, k)
         /\ ClusterAt(t, f, m + 1) = x
<1>1. m \in Nat /\ NumClusters \in Nat /\ m + 1 < NumClusters /\ x \in Clusters
  BY ClusterFacts, ChainShort DEF Chain, FreeClusters
<1>2. \A k \in 0 .. m : ClusterAt(s, f, k) \in Clusters /\ ClusterAt(s, f, k) # x
  BY ChainUsed DEF Chain
<1>3. \A k \in 0 .. m : k # m => ClusterAt(s, f, k) # ClusterAt(s, f, m)
  BY <1>1, ChainDistinct
<1>4. \A k \in 0 .. m : k # m => t.fat[ClusterAt(s, f, k)] = s.fat[ClusterAt(s, f, k)]
  BY <1>2, <1>3
<1>5. m \in 0 .. m /\ t.fat[ClusterAt(s, f, m)] = x /\ t.fat[x] = EOC
  BY <1>1, <1>2
<1>6. \A k \in 0 .. m : ClusterAt(t, f, k) = ClusterAt(s, f, k)
  BY <1>4, ChainAgree DEF Chain
<1>7. ClusterAt(t, f, m + 1) = x
  <2>1. m \in 0 .. NumClusters - 1
    BY <1>1
  <2> QED
    BY <1>2, <1>5, <1>6, <2>1, AtUnfolds
<1>8. Chain(t, f, m + 1)
  <2>1. ASSUME NEW k \in 0 .. m + 1 PROVE ClusterAt(t, f, k) \in Clusters
    BY <1>1, <1>2, <1>6, <1>7
  <2> QED
    BY <1>1, <1>5, <1>7, <2>1 DEF Chain
<1> QED
  BY <1>6, <1>7, <1>8

-----------------------------------------------------------------------------
(* The loops of the EE, whatever fails.                                    *)
Loops ==
  /\ session \in {"idle", "create", "delete"} /\ outcome \in {"none", "linked", "failed", "unlinked"}
  /\ loop \in {1, 2} /\ ok \in BOOLEAN
  /\ original \in 1 .. NumAliases + 1
  /\ next \in 1 .. NumAliases + 2 /\ left \in Nat
  /\ session = "create" => outcome = "none"
  /\ session = "create" /\ loop = 1 => next <= original /\ (left > 0 => next + left = original)
  /\ session = "create" /\ loop = 2 /\ left > 0 => next + left = NumAliases + 1
  /\ session = "delete" => outcome = "linked" /\ next <= NumLinked + 1
  /\ left > 0 => session = "create"

(* A batch is a part of what the loop has left.                            *)
Batches ==
  /\ iop \in {"idle", "batch", "grow", "mark", "place", "count"}
  /\ at \in Nat \ {0} /\ last \in Nat /\ made \in Nat
  /\ last <= NumAliases
  /\ session = "idle" => iop = "idle"
  /\ iop # "idle" => next <= at /\ (at <= last \/ at = last + 1) /\ made <= at - next
  /\ iop # "idle" /\ session = "create" => left > 0 /\ next <= last /\ last < next + left
  /\ iop # "idle" /\ session = "delete" => next <= last /\ last <= NumLinked
  /\ iop \in {"grow", "mark", "place", "count"} => session = "create" /\ at <= last

(* While nothing has failed the loops pass over every alias.               *)
Clean == failures = 0 /\ systemArea = "intact"
Passing ==
  /\ ok /\ outcome # "failed"
  /\ iop # "idle" => made = at - next
  /\ session = "create" /\ loop = 1 => next + left = original
  /\ session = "create" /\ loop = 2 =>
       /\ next > original
       /\ next + left = NumAliases + 1 \/ (left = 0 /\ next = NumAliases + 2)

LoopInv == Loops /\ Batches /\ failures \in Nat /\ (Clean => Passing)

-----------------------------------------------------------------------------
(* The card, while a folder grows: the cluster that was linked counts as   *)
(* the end of its chain, which it will be.                                 *)
Grown == IF iop = "mark" THEN [fs EXCEPT !.fat[target] = EOC] ELSE fs
Longer == iop \in {"mark", "count"} \/ (iop = "place" /\ target >= AllocStart)
Ends == [f \in Folders |-> (IF Longer /\ f = Folder THEN fs.len[f] ELSE fs.len[f] - 1) \div ClusterPages]

(* Every folder has a chain for its records, and none shares a cluster.    *)
Tidy(s, ends) ==
  /\ \A f \in Folders : /\ s.len[f] \in Nat \ {0}
                        /\ Chain(s, f, ends[f])
                        /\ (s.len[f] - 1) \div ClusterPages <= ends[f]
  /\ \A f, g \in Folders : f # g =>
       \A i \in 0 .. ends[f], j \in 0 .. ends[g] : ClusterAt(s, f, i) # ClusterAt(s, g, j)

(* Where the new record will be, once it is counted.                       *)
Growing ==
  /\ iop \in {"grow", "mark", "place"} => fs.len[Folder] % ClusterPages = 0
  /\ iop = "mark" => /\ target \in Clusters
                     /\ target = ClusterAt(Grown, Folder, fs.len[Folder] \div ClusterPages)
  /\ iop = "place" /\ target >= AllocStart =>
       target - AllocStart = ClusterAt(fs, Folder, fs.len[Folder] \div ClusterPages)
  /\ iop = "count" => Record(fs, Folder, fs.len[Folder]) = New

(* Which aliases have an entry: the original, and those the loop passed    *)
(* while linking, or has not reached while unlinking.                      *)
Reached == IF iop = "idle" THEN next ELSE at
Linked(a) ==
  \/ a = original
  \/ session = "create" /\ a < Reached
  \/ session = "delete" /\ \E k \in Reached .. NumLinked : a = Listed(k)
  \/ session = "idle" /\ outcome = "linked"
One(S) == \E x : S = {x}
Entries ==
  \A a \in Aliases : IF Linked(a) THEN One(Named(Grown, FolderOf[a], a)) ELSE Named(Grown, FolderOf[a], a) = {}

CardInv == Clean => fs \in FileSystem /\ Tidy(Grown, Ends) /\ Growing /\ Entries

-----------------------------------------------------------------------------
LEMMA LinkedCount ==
  ASSUME original \in 1 .. NumAliases + 1
  PROVE  NumLinked \in Nat /\ NumLinked = IF original = NumAliases + 1 THEN NumAliases ELSE NumAliases - 1
<1>1. NumAliases \in Nat \ {0} /\ 1 \in Int /\ NumAliases \in Int
  BY SizesAssumption
<1>2. IsFiniteSet(Aliases) /\ Cardinality(Aliases) = NumAliases
  <2>1. IsFiniteSet(1 .. NumAliases) /\ Cardinality(1 .. NumAliases) = NumAliases - 1 + 1
    BY <1>1, FS_Interval
  <2> QED
    BY <1>1, <2>1 DEF Aliases
<1>3. Cardinality(Aliases \ {original}) = IF original \in Aliases THEN NumAliases - 1 ELSE NumAliases
  BY <1>2, FS_RemoveElement
<1> QED
  BY <1>1, <1>3 DEF NumLinked, Aliases

LEMMA LoopInit == Init => LoopInv
<1> SUFFICES ASSUME Init PROVE LoopInv
  OBVIOUS
<1>1. original \in 1 .. NumAliases + 1
  <2>1. \A from \in Installations : from.original \in 1 .. NumAliases + 1
    BY InstallationsAssumption
  <2> QED
    BY <2>1 DEF Init
<1> QED
  BY <1>1, SizesAssumption DEF Init, LoopInv, Loops, Batches, Passing

(* The steps of the EE, outside of a batch.                                *)
LEMMA LoopEE == ASSUME LoopInv, EENext PROVE LoopInv'
<1> USE DEF LoopInv, Clean
<1>1. NumAliases \in Nat \ {0} /\ MaxBatch \in Nat \ {0} /\ failures \in Nat
  BY SizesAssumption
<1>2. /\ NumLinked \in Nat
      /\ NumLinked = IF original = NumAliases + 1 THEN NumAliases ELSE NumAliases - 1
  BY LinkedCount DEF Loops
<1>3. ASSUME NEW kind, Fault(kind) PROVE failures' \in Nat /\ failures' # 0
  BY <1>1, <1>3 DEF Fault
<1>4. ASSUME original' = original PROVE NumLinked' = NumLinked
  BY <1>4 DEF NumLinked
<1>5. CASE BeginCreate
  <2>1. original' = original /\ iop' = iop /\ iop = "idle" /\ systemArea' = systemArea
    BY <1>5 DEF BeginCreate, cardVars, iopVars, Batches
  <2>2. Loops'
    <3>1. CASE UNCHANGED <<session, loop, next, left, ok>> /\ outcome' = "failed"
      BY <1>4, <1>5, <2>1, <3>1 DEF BeginCreate, Loops
    <3>2. CASE session' = "create" /\ loop' = 1 /\ next' = 1 /\ left' = original - 1 /\ ok' = TRUE /\ outcome' = outcome
      BY <1>1, <1>5, <2>1, <3>2 DEF BeginCreate, Loops
    <3> QED
      BY <1>5, <3>1, <3>2 DEF BeginCreate
  <2>3. Batches'
    BY <1>1, <1>5, <2>1 DEF BeginCreate, Batches, iopVars
  <2>4. failures' \in Nat /\ (Clean' => Passing')
    BY <1>1, <1>3, <1>5, <2>1 DEF BeginCreate, Passing, Loops
  <2> QED
    BY <2>2, <2>3, <2>4
<1>6. CASE CreateCall
  <2>1. original' = original /\ session' = session /\ outcome' = outcome /\ systemArea' = systemArea
    BY <1>6 DEF CreateCall, SendBatch, cardVars, eeVars
  <2>2. CASE SendBatch(left, NumAliases)
    <3>1. /\ iop' = "batch" /\ at' = next /\ made' = 0
          /\ loop' = loop /\ next' = next /\ left' = left /\ ok' = ok /\ failures' = failures
          /\ session = "create" /\ left > 0 /\ iop = "idle"
      BY <1>6, <2>2 DEF CreateCall, SendBatch, Ready, eeVars
    <3>2. last' \in Nat /\ last' <= NumAliases /\ next <= last' /\ last' < next + left
      BY <1>1, <1>6, <2>2, <3>1 DEF CreateCall, SendBatch, Loops
    <3>3. Loops'
      BY <1>4, <2>1, <3>1 DEF Loops
    <3>4. Batches'
      <4>1. next \in Nat /\ next >= 1 /\ left \in Nat /\ 0 <= next - next
        BY <1>1 DEF Loops
      <4>2. at' \in Nat \ {0} /\ made' = 0 /\ at' = next' /\ made' \in Nat /\ left' > 0
        BY <1>1, <3>1, <4>1
      <4>3. session' = "create" /\ iop' = "batch"
        BY <2>1, <3>1
      <4>4. last' < next' + left'
        BY <3>1, <3>2
      <4>5. next' <= last'
        BY <3>1, <3>2
      <4>6. at' <= last' /\ next' <= at'
        <5>1. next <= last' /\ next <= next
          BY <3>2, <4>1
        <5> QED
          BY <3>1, <5>1
      <4>7. made' <= at' - next'
        BY <3>1, <4>1
      <4>8. last' <= NumAliases /\ last' \in Nat
        BY <3>2
      <4> QED
        BY <4>2, <4>3, <4>4, <4>5, <4>6, <4>7, <4>8, Zenon DEF Batches
    <3>5. Passing => Passing'
      BY <1>1, <2>1, <3>1, <3>2 DEF Passing, Loops
    <3> QED
      BY <2>1, <3>1, <3>3, <3>4, <3>5
  <2>3. CASE Fault("call") /\ ok' = FALSE /\ left' = 0
             /\ UNCHANGED <<cardVars, original, start, session, outcome, loop, next, iopVars>>
    <3>1. failures' \in Nat /\ failures' # 0
      BY <1>3, <2>3
    <3>2. Loops'
      <4>1. session = "create" /\ ok' \in BOOLEAN
        BY <1>6, <2>3 DEF CreateCall, Ready
      <4>2. NumLinked' = NumLinked
        BY <1>4, <2>3
      <4>3. left' = 0 /\ next' = next /\ loop' = loop /\ session' = session /\ outcome' = outcome
            /\ original' = original
        BY <2>3
      <4> QED
        BY <1>1, <4>1, <4>2, <4>3 DEF Loops
    <3>3. Batches'
      BY <1>1, <1>6, <2>3 DEF CreateCall, Ready, Batches, iopVars
    <3> QED
      BY <3>1, <3>2, <3>3
  <2> QED
    BY <1>6, <2>2, <2>3 DEF CreateCall
<1>7. CASE CreateReply
  <2>1. original' = original /\ systemArea' = systemArea /\ failures' = failures
    BY <1>7 DEF CreateReply, cardVars
  <2>2. Loops'
    <3>1. CASE made > 0
      BY <1>1, <1>7, <2>1, <3>1 DEF CreateReply, Loops, Batches
    <3>2. CASE ~(made > 0)
      <4>1. session = "create" /\ ok' \in BOOLEAN
        BY <1>7, <3>2 DEF CreateReply
      <4>2. NumLinked' = NumLinked
        BY <1>4, <2>1
      <4>3. left' = 0 /\ next' = next /\ loop' = loop /\ session' = session /\ outcome' = outcome
        BY <1>7, <3>2 DEF CreateReply
      <4> QED
        BY <1>1, <2>1, <4>1, <4>2, <4>3 DEF Loops
    <3> QED
      BY <3>1, <3>2
  <2>3. Batches'
    BY <1>1, <1>7, <2>1 DEF CreateReply, Batches
  <2>4. Clean' => Passing'
    BY <1>1, <1>7, <2>1 DEF CreateReply, Passing, Batches, Loops
  <2> QED
    BY <2>1, <2>2, <2>3, <2>4
<1>8. CASE LoopOneEnds
  BY <1>1, <1>4, <1>8 DEF LoopOneEnds, Ready, Loops, Batches, Passing, cardVars, iopVars
<1>9. CASE LoopTwoEnds
  <2>1. Loops' /\ Batches'
    BY <1>1, <1>4, <1>9 DEF LoopTwoEnds, Ready, Loops, Batches, cardVars, iopVars
  <2>2. failures' \in Nat /\ (Clean' => Passing')
    BY <1>1, <1>3, <1>9 DEF LoopTwoEnds, Ready, Passing, cardVars, iopVars
  <2> QED
    BY <2>1, <2>2
<1>10. CASE BeginDelete
  BY <1>1, <1>2, <1>4, <1>10 DEF BeginDelete, Loops, Batches, Passing, cardVars, iopVars
<1>11. CASE DeleteCall
  <2>1. original' = original /\ session' = session /\ outcome' = outcome /\ systemArea' = systemArea
    BY <1>11 DEF DeleteCall, SendBatch, cardVars, eeVars
  <2>2. CASE SendBatch(NumLinked, NumLinked)
    <3>1. /\ iop' = "batch" /\ at' = next /\ made' = 0
          /\ loop' = loop /\ next' = next /\ left' = left /\ ok' = ok /\ failures' = failures
          /\ session = "delete" /\ next <= NumLinked /\ iop = "idle"
      BY <1>11, <2>2 DEF DeleteCall, SendBatch, Ready, eeVars
    <3>2. last' \in Nat /\ last' <= NumLinked /\ next <= last'
      BY <1>1, <1>2, <1>11, <2>2, <3>1 DEF DeleteCall, SendBatch, Loops
    <3>3. Loops'
      BY <1>4, <2>1, <3>1 DEF Loops
    <3>4. Batches'
      <4>1. next \in Nat /\ next >= 1 /\ NumLinked' = NumLinked /\ 0 <= next - next
        BY <1>1, <1>4, <2>1 DEF Loops
      <4>2. at' \in Nat \ {0} /\ made' = 0 /\ at' = next' /\ made' \in Nat
        BY <1>1, <3>1, <4>1
      <4>3. session' = "delete" /\ iop' = "batch"
        BY <2>1, <3>1
      <4>4. last' <= NumLinked' /\ last' <= NumAliases /\ last' \in Nat
        BY <1>1, <1>2, <3>2, <4>1
      <4>5. next' <= last'
        BY <3>1, <3>2
      <4>6. at' <= last' /\ next' <= at'
        <5>1. next <= last' /\ next <= next
          BY <3>2, <4>1
        <5> QED
          BY <3>1, <5>1
      <4>7. made' <= at' - next'
        BY <3>1, <4>1
      <4> QED
        BY <4>2, <4>3, <4>4, <4>5, <4>6, <4>7, Zenon DEF Batches
    <3>5. Passing => Passing'
      BY <1>1, <2>1, <3>1, <3>2 DEF Passing, Loops
    <3> QED
      BY <2>1, <3>1, <3>3, <3>4, <3>5
  <2>3. CASE Fault("call") /\ next' = next + 1
             /\ UNCHANGED <<cardVars, original, start, session, outcome, loop, left, ok, iopVars>>
    <3>1. failures' \in Nat /\ failures' # 0
      BY <1>3, <2>3
    <3> QED
      BY <1>1, <1>2, <1>4, <1>11, <2>3, <3>1 DEF DeleteCall, Ready, Loops, Batches, iopVars
  <2> QED
    BY <1>11, <2>2, <2>3 DEF DeleteCall
<1>12. CASE DeleteReply
  BY <1>1, <1>2, <1>4, <1>12 DEF DeleteReply, Loops, Batches, Passing, cardVars
<1>13. CASE DeleteEnds
  BY <1>1, <1>4, <1>13 DEF DeleteEnds, Ready, Loops, Batches, Passing, cardVars, iopVars
<1> QED
  BY <1>5, <1>6, <1>7, <1>8, <1>9, <1>10, <1>11, <1>12, <1>13 DEF EENext

(* What MCTOOLS does in a batch, as far as the loops can tell.             *)
InBatches == {"grow", "mark", "place", "count"}
BatchStep ==
  /\ UNCHANGED <<eeVars, original, last>>
  /\ iop \in InBatches \/ (iop = "batch" /\ at <= last)
  /\ iop' \in InBatches => session = "create"
  /\ \/ at' = at /\ made' = made /\ iop' \in InBatches
     \/ at' = at + 1 /\ made' = made + 1 /\ iop' = "batch"
     \/ at' = at + 1 /\ made' = made /\ iop' = "batch" /\ ~Clean'
  /\ failures' \in Nat /\ (Clean' => Clean)

LEMMA LoopBatch == ASSUME LoopInv, BatchStep PROVE LoopInv'
<1> USE DEF LoopInv
<1>1. NumAliases \in Nat \ {0}
  BY SizesAssumption
<1>2. NumLinked' = NumLinked
  BY DEF BatchStep, NumLinked
<1>3. Loops'
  BY <1>2 DEF BatchStep, eeVars, Loops
<1>4. /\ original' = original /\ session' = session /\ next' = next /\ left' = left /\ last' = last
      /\ next \in Nat \ {0} /\ left \in Nat
  BY <1>1 DEF BatchStep, eeVars, Loops
<1>5. /\ iop' \in {"batch", "grow", "mark", "place", "count"} /\ iop # "idle" /\ at <= last
      /\ iop' \in InBatches => session = "create"
  BY DEF BatchStep, Batches, InBatches
<1>6. /\ \/ at' = at /\ made' = made
         \/ at' = at + 1 /\ made' = made + 1
         \/ at' = at + 1 /\ made' = made
      /\ iop' \in InBatches => at' = at
  BY DEF BatchStep, InBatches
<1>7. last \in Nat /\ last <= NumAliases
  BY DEF Batches
<1>8. Batches'
  <2>1. at' \in Nat \ {0} /\ made' \in Nat /\ (at' <= last \/ at' = last + 1) /\ next <= at' /\ made' <= at' - next
    BY <1>1, <1>4, <1>5, <1>6, <1>7 DEF Batches
  <2> QED
    BY <1>2, <1>4, <1>5, <1>6, <1>7, <2>1 DEF Batches, InBatches
<1>9. Clean' => Passing'
  BY <1>1, <1>4, <1>5 DEF BatchStep, eeVars, Passing, Batches
<1> QED
  BY <1>3, <1>8, <1>9 DEF BatchStep

LEMMA Failing == ASSUME LoopInv, NEW kind, Fault(kind) PROVE failures' \in Nat /\ failures' # 0
  BY DEF LoopInv, Fault

(* The alias in turn is one that has to be linked.                         *)
LEMMA InTurnCreate ==
  ASSUME LoopInv, Clean, session = "create", iop # "idle", at <= last
  PROVE  InTurn \in Aliases /\ InTurn = at /\ ~Linked(InTurn)
<1>1. /\ NumAliases \in Nat /\ at \in Nat \ {0} /\ last \in Nat /\ last <= NumAliases
      /\ next \in Nat /\ left \in Nat /\ next <= at /\ last < next + left
      /\ original \in Nat /\ loop \in {1, 2}
  BY SizesAssumption DEF LoopInv, Loops, Batches
<1>2. at # original
  <2>1. CASE loop = 1
    <3>1. next + left = original
      BY <2>1 DEF LoopInv, Passing
    <3> QED
      BY <1>1, <3>1
  <2>2. CASE loop = 2
    <3>1. next > original
      BY <2>2 DEF LoopInv, Passing
    <3> QED
      BY <1>1, <3>1
  <2> QED
    BY <1>1, <2>1, <2>2
<1>3. ~(at < at) /\ at \in 1 .. NumAliases
  BY <1>1
<1> QED
  BY <1>2, <1>3 DEF InTurn, Linked, Reached, Aliases

LEMMA ListedFacts ==
  ASSUME LoopInv
  PROVE  /\ \A k \in 1 .. NumLinked : Listed(k) \in Aliases \ {original}
         /\ \A k, l \in 1 .. NumLinked : Listed(k) = Listed(l) => k = l
         /\ \A a \in Aliases \ {original} : \E k \in 1 .. NumLinked : a = Listed(k)
<1>1. /\ NumAliases \in Nat \ {0} /\ original \in 1 .. NumAliases + 1 /\ NumLinked \in Nat
      /\ NumLinked = IF original = NumAliases + 1 THEN NumAliases ELSE NumAliases - 1
  BY SizesAssumption, LinkedCount DEF LoopInv, Loops
<1>2. ASSUME NEW k \in 1 .. NumLinked PROVE Listed(k) \in Aliases \ {original}
  BY <1>1 DEF Listed, Aliases
<1>3. ASSUME NEW k \in 1 .. NumLinked, NEW l \in 1 .. NumLinked, Listed(k) = Listed(l) PROVE k = l
  BY <1>1, <1>3 DEF Listed
<1>4. ASSUME NEW a \in Aliases \ {original} PROVE \E k \in 1 .. NumLinked : a = Listed(k)
  <2>1. a \in 1 .. NumAliases /\ a # original
    BY DEF Aliases
  <2>2. CASE a < original
    <3>1. a \in 1 .. NumLinked /\ a = Listed(a)
      BY <1>1, <2>1, <2>2 DEF Listed
    <3> QED
      BY <3>1
  <2>3. CASE a > original
    <3>1. a - 1 \in 1 .. NumLinked /\ a = Listed(a - 1)
      BY <1>1, <2>1, <2>3 DEF Listed
    <3> QED
      BY <3>1
  <2> QED
    BY <1>1, <2>1, <2>2, <2>3
<1> QED
  BY <1>2, <1>3, <1>4

LEMMA InTurnDelete ==
  ASSUME LoopInv, session = "delete", iop = "batch", at <= last
  PROVE  InTurn \in Aliases /\ InTurn = Listed(at) /\ at \in 1 .. NumLinked /\ InTurn # original /\ Linked(InTurn)
<1>1. at \in Nat \ {0} /\ last \in Nat /\ last <= NumLinked /\ NumLinked \in Nat
  BY LinkedCount DEF LoopInv, Loops, Batches
<1>2. at \in 1 .. NumLinked /\ at \in at .. NumLinked
  BY <1>1
<1> QED
  BY <1>2, ListedFacts DEF InTurn, Linked, Reached

LEMMA LoopMctools == ASSUME LoopInv, CardInv, MctoolsNext PROVE BatchStep
<1> USE DEF LoopInv
<1>1. iop \in InBatches => session = "create"
  BY DEF Batches, InBatches
<1>2. ASSUME NEW kind, Fault(kind) PROVE failures' \in Nat /\ ~Clean'
  BY <1>2, Failing DEF Clean
<1>3. ASSUME failures' = failures, UNCHANGED systemArea PROVE failures' \in Nat /\ (Clean' => Clean)
  BY <1>3 DEF Clean
<1>4. CASE CreateInSlot
  <2>1. session = "create" /\ iop = "batch" /\ at <= last /\ UNCHANGED <<eeVars, original, last>>
    BY <1>4 DEF CreateInSlot, InBatch
  <2>2. (at' = at /\ made' = made /\ iop' = "count") \/ (at' = at + 1 /\ made' = made + 1 /\ iop' = "batch")
    BY <1>4 DEF CreateInSlot, Made
  <2>3. failures' \in Nat /\ (Clean' => Clean)
    BY <1>3, <1>4 DEF CreateInSlot
  <2> QED
    BY <2>1, <2>2, <2>3 DEF BatchStep, InBatches
<1>5. CASE NoSlot
  <2>1. failures' \in Nat /\ (Clean' => Clean)
    BY <1>3, <1>5 DEF NoSlot, cardVars
  <2> QED
    BY <1>5, <2>1 DEF NoSlot, InBatch, BatchStep, InBatches
<1>6. CASE SlotFails
  <2>1. failures' \in Nat /\ ~Clean'
    BY <1>2, <1>6 DEF SlotFails
  <2> QED
    BY <1>6, <2>1 DEF SlotFails, InBatch, NotMade, BatchStep, InBatches
<1>7. CASE Grow
  <2>1. failures' \in Nat /\ (Clean' => Clean)
    BY <1>3, <1>7 DEF Grow
  <2>2. iop' \in InBatches
    BY <1>7 DEF Grow, PlaceAt, InBatches
  <2> QED
    BY <1>1, <1>7, <2>1, <2>2 DEF Grow, BatchStep, InBatches
<1>8. CASE Mark
  <2>1. failures' \in Nat /\ (Clean' => Clean)
    BY <1>3, <1>8 DEF Mark
  <2> QED
    BY <1>1, <1>8, <2>1 DEF Mark, PlaceAt, BatchStep, InBatches
<1>9. CASE GrowFails
  <2>1. failures' \in Nat /\ ~Clean'
    BY <1>2, <1>9 DEF GrowFails
  <2> QED
    BY <1>1, <1>9, <2>1 DEF GrowFails, PlaceAt, BatchStep, InBatches
<1>10. CASE PlaceNew
  <2>1. failures' \in Nat /\ (Clean' => Clean)
    BY <1>10 DEF PlaceNew, Place, Clean
  <2> QED
    BY <1>1, <1>10, <2>1 DEF PlaceNew, BatchStep, InBatches
<1>11. CASE Count
  <2>1. failures' \in Nat /\ (Clean' => Clean)
    BY <1>3, <1>11 DEF Count
  <2> QED
    BY <1>1, <1>11, <2>1 DEF Count, Made, BatchStep, InBatches
<1>12. CASE PlaceOrCountFails
  <2>1. failures' \in Nat /\ ~Clean'
    BY <1>2, <1>12 DEF PlaceOrCountFails
  <2> QED
    BY <1>1, <1>12, <2>1 DEF PlaceOrCountFails, NotMade, BatchStep, InBatches
<1>13. CASE Unlink
  <2>1. failures' \in Nat /\ (Clean' => Clean)
    BY <1>3, <1>13 DEF Unlink
  <2>2. session = "delete" /\ iop = "batch" /\ at <= last /\ UNCHANGED <<eeVars, original, last>>
    BY <1>13 DEF Unlink, InBatch
  <2>3. Clean' => Named(fs, Folder, InTurn) # {}
    <3> SUFFICES ASSUME Clean PROVE Named(fs, Folder, InTurn) # {}
      BY <2>1
    <3>1. One(Named(Grown, Folder, InTurn))
      BY <2>2, InTurnDelete DEF CardInv, Entries, Folder
    <3> QED
      BY <2>2, <3>1 DEF One, Grown
  <2> QED
    BY <1>13, <2>1, <2>2, <2>3 DEF Unlink, Made, NotMade, BatchStep, InBatches
<1>14. CASE UnlinkFails
  <2>1. failures' \in Nat /\ ~Clean'
    BY <1>2, <1>14 DEF UnlinkFails
  <2> QED
    BY <1>14, <2>1 DEF UnlinkFails, NotMade, InBatch, BatchStep, InBatches
<1> QED
  BY <1>4, <1>5, <1>6, <1>7, <1>8, <1>9, <1>10, <1>11, <1>12, <1>13, <1>14 DEF MctoolsNext

LEMMA LoopNext == ASSUME LoopInv, CardInv, [Next]_vars PROVE LoopInv'
<1>1. CASE EENext
  BY <1>1, LoopEE
<1>2. CASE MctoolsNext
  BY <1>2, LoopMctools, LoopBatch
<1>3. CASE UNCHANGED vars
  BY <1>3 DEF vars, cardVars, eeVars, iopVars, LoopInv, Loops, Batches, Clean, Passing, NumLinked
<1> QED
  BY <1>1, <1>2, <1>3 DEF Next, Over

-----------------------------------------------------------------------------
(* Pages of a folder: record r is page r % ClusterPages of a cluster.      *)
LEMMA DivFacts == ASSUME NEW n \in Nat \ {0},
    NEW r \in Nat PROVE r \div n \in Nat /\ r % n \in 0 .. n - 1
<1>1. r \div n \in Int /\ r % n \in 0 .. n - 1
  OBVIOUS
<1>2. r \div n >= 0
  OBVIOUS
<1> QED
  BY <1>1, <1>2

LEMMA DivUnique ==
  ASSUME NEW n \in Nat \ {0}, NEW r \in Nat, NEW q \in Nat, r \div n = q \div n, r % n = q % n
  PROVE  r = q
  OBVIOUS

LEMMA DivRest == ASSUME NEW n \in Nat \ {0}, NEW r \in Nat PROVE r = (r \div n) * n + (r % n)
  OBVIOUS

LEMMA DivMonotone ==
  ASSUME NEW n \in Nat \ {0}, NEW r \in Nat, NEW q \in Nat, r <= q
  PROVE  r \div n <= q \div n
  OBVIOUS

LEMMA DivLast ==
  ASSUME NEW n \in Nat \ {0}, NEW r \in Nat \ {0}
  PROVE  r \div n = IF r % n = 0 THEN (r - 1) \div n + 1 ELSE (r - 1) \div n
  OBVIOUS

LEMMA ModWraps ==
  ASSUME NEW w \in Nat \ {0}, NEW x \in Int
  PROVE  /\ x \in 0 .. w - 1 => x % w = x
         /\ x \in w .. 2 * w - 1 => x % w = x - w
         /\ x < 0 /\ x >= -w => x % w = x + w
<1>1. x \in 0 .. w - 1 => x % w = x
  OBVIOUS
<1>2. x \in w .. 2 * w - 1 => x % w = x - w
  OBVIOUS
<1>3. x < 0 /\ x >= -w => x % w = x + w
  OBVIOUS
<1> QED
  BY <1>1, <1>2, <1>3

LEMMA SameChains ==
  ASSUME NEW s, NEW t, t.fat = s.fat PROVE \A f, k : ClusterAt(t, f, k) = ClusterAt(s, f, k)
  BY DEF ClusterAt

LEMMA PageFound ==
  ASSUME NEW s, NEW ends, Tidy(s, ends), NEW f \in Folders, NEW r \in Nat
  PROVE  HasPage(s, f, r) <=> r \div ClusterPages <= ends[f]
<1> DEFINE k == r \div ClusterPages
<1>1. k \in Nat
  BY DivFacts, SizesAssumption
<1>2. Chain(s, f, ends[f]) /\ ends[f] \in 0 .. NumClusters /\ NumClusters \in Nat
  BY ClusterFacts DEF Tidy, Chain
<1>3. HasPage(s, f, r) <=> k <= NumClusters /\ ClusterAt(s, f, k) \in Clusters
  BY DEF HasPage
<1> HIDE DEF k
<1>4. CASE k <= ends[f]
  <2>1. k \in 0 .. ends[f] /\ k <= NumClusters
    BY <1>1, <1>2, <1>4
  <2> QED
    BY <1>2, <1>3, <1>4, <2>1 DEF Chain, k
<1>5. CASE ~(k <= ends[f])
  <2>1. k <= NumClusters => k \in ends[f] + 1 .. NumClusters
    BY <1>1, <1>2, <1>5
  <2>2. k <= NumClusters => ClusterAt(s, f, k) = EOC
    BY <1>2, <2>1, ChainAfter
  <2> QED
    BY <1>3, <1>5, <2>2, ClusterFacts DEF k
<1> QED
  BY <1>4, <1>5

LEMMA PagesApart ==
  ASSUME NEW s, NEW ends, Tidy(s, ends), NEW f \in Folders, NEW g \in Folders, NEW r \in Nat, NEW q \in Nat,
         HasPage(s, f, r), HasPage(s, g, q), ~(f = g /\ r = q), r % ClusterPages = q % ClusterPages
  PROVE  ClusterAt(s, f, r \div ClusterPages) # ClusterAt(s, g, q \div ClusterPages)
<1> DEFINE i == r \div ClusterPages
           j == q \div ClusterPages
<1>1. i \in Nat /\ j \in Nat
  BY DivFacts, SizesAssumption
<1>2. i <= ends[f] /\ j <= ends[g]
  BY PageFound
<1>3. /\ Chain(s, f, ends[f]) /\ ends[f] \in 0 .. NumClusters
      /\ Chain(s, g, ends[g]) /\ ends[g] \in 0 .. NumClusters /\ NumClusters \in Nat
  BY ClusterFacts DEF Tidy, Chain
<1>4. i = j => f # g
  BY DivUnique, SizesAssumption
<1> HIDE DEF i, j
<1>5. i \in 0 .. ends[f] /\ j \in 0 .. ends[g]
  BY <1>1, <1>2, <1>3
<1>6. ClusterAt(s, f, i) # ClusterAt(s, g, j)
  <2>1. CASE f # g
    BY <1>5, <2>1 DEF Tidy
  <2>2. CASE f = g
    <3>1. i < j \/ j < i
      BY <1>1, <1>4, <2>2
    <3> QED
      BY <1>3, <1>5, <2>2, <3>1, ChainDistinct
  <2> QED
    BY <2>1, <2>2
<1> QED
  BY <1>6 DEF i, j

(* A card with the same FAT and the same lengths is as tidy.               *)
LEMMA StillTidy ==
  ASSUME NEW s, NEW t, NEW ends, Tidy(s, ends), t.fat = s.fat, t.len = s.len
  PROVE  /\ Tidy(t, ends)
         /\ \A g \in Folders, q \in Nat : HasPage(t, g, q) <=> HasPage(s, g, q)
<1>1. \A f, k : ClusterAt(t, f, k) = ClusterAt(s, f, k)
  BY SameChains
<1>2. \A f \in Folders : Chain(t, f, ends[f])
  BY <1>1 DEF Tidy, Chain
<1>3. Tidy(t, ends)
  BY <1>1, <1>2 DEF Tidy
<1> QED
  BY <1>1, <1>3 DEF HasPage

(* UpdateDirEntInformation writes one record and no other.                 *)
LEMMA Written ==
  ASSUME NEW s \in FileSystem, NEW ends, Tidy(s, ends), NEW f \in Folders, NEW r \in Nat, HasPage(s, f, r),
         NEW e \in Entry, NEW t, t = WithRecord(s, f, r, e)
  PROVE  /\ t \in FileSystem /\ t.fat = s.fat /\ t.len = s.len
         /\ Record(t, f, r) = e
         /\ \A g \in Folders, q \in Nat : HasPage(s, g, q) /\ ~(g = f /\ q = r) => Record(t, g, q) = Record(s, g, q)
<1> DEFINE c == ClusterAt(s, f, r \div ClusterPages)
           p == r % ClusterPages
<1>1. c \in Clusters /\ p \in PageNums
  BY DivFacts, SizesAssumption DEF HasPage, PageNums
<1>2. \A q \in Nat : q % ClusterPages \in PageNums
  BY DivFacts, SizesAssumption DEF PageNums
<1>3. /\ s.fat \in [Clusters -> Clusters \cup {FREE, EOC}] /\ s.len \in [Folders -> Nat]
      /\ s.pages \in [Clusters -> [PageNums -> Entry]]
  BY DEF FileSystem
<1>4. t = [s EXCEPT !.pages[c][p] = e]
  BY DEF WithRecord
<1> HIDE DEF c, p
<1>5. /\ t.fat = s.fat /\ t.len = s.len
      /\ t.pages = [s.pages EXCEPT ![c][p] = e]
  BY <1>4 DEF FileSystem
<1>6. t.pages \in [Clusters -> [PageNums -> Entry]]
  BY <1>1, <1>3, <1>5
<1>7. t \in FileSystem
  BY <1>3, <1>4, <1>5, <1>6 DEF FileSystem
<1>8. /\ t.pages[c][p] = e
      /\ \A d \in Clusters, q \in PageNums : ~(d = c /\ q = p) => t.pages[d][q] = s.pages[d][q]
  BY <1>1, <1>3, <1>5
<1>9. \A g, k : ClusterAt(t, g, k) = ClusterAt(s, g, k)
  BY <1>5, SameChains
<1>10. Record(t, f, r) = e
  BY <1>8, <1>9 DEF Record, c, p
<1>11. ASSUME NEW g \in Folders, NEW q \in Nat, HasPage(s, g, q), ~(g = f /\ q = r)
       PROVE  Record(t, g, q) = Record(s, g, q)
  <2>1. q % ClusterPages = p => ClusterAt(s, g, q \div ClusterPages) # c
    BY <1>11, PagesApart DEF c, p
  <2>2. ClusterAt(s, g, q \div ClusterPages) \in Clusters /\ q % ClusterPages \in PageNums
    BY <1>2, <1>11 DEF HasPage
  <2> QED
    BY <1>8, <1>9, <2>1, <2>2 DEF Record
<1> QED
  BY <1>5, <1>7, <1>10, <1>11

LEMMA NamedWritten ==
  ASSUME NEW s \in FileSystem, NEW ends, Tidy(s, ends), NEW f \in Folders, NEW r \in Nat, HasPage(s, f, r),
         NEW e \in Entry, NEW t, t = WithRecord(s, f, r, e), NEW g \in Folders, NEW a
  PROVE  Named(t, g, a) = IF g = f /\ r < s.len[f]
                          THEN (Named(s, g, a) \ {r}) \cup (IF e.exists /\ e.name = a THEN {r} ELSE {})
                          ELSE Named(s, g, a)
<1>1. /\ t.fat = s.fat /\ t.len = s.len /\ Record(t, f, r) = e
      /\ \A q \in Nat : HasPage(s, g, q) /\ ~(g = f /\ q = r) => Record(t, g, q) = Record(s, g, q)
  BY Written
<1>2. \A q \in Nat : HasPage(t, g, q) <=> HasPage(s, g, q)
  BY <1>1, StillTidy
<1>3. s.len[g] \in Nat /\ s.len[f] \in Nat /\ t.len[g] = s.len[g]
  BY <1>1 DEF Tidy
<1>4. \A q \in 0 .. s.len[g] - 1 : q \in Nat
  BY <1>3
<1>5. CASE g = f /\ r < s.len[f]
  <2>1. r \in 0 .. s.len[g] - 1
    BY <1>3, <1>5
  <2>2. r \in Named(t, g, a) <=> e.exists /\ e.name = a
    BY <1>1, <1>2, <1>3, <1>5, <2>1 DEF Named
  <2>3. \A q : q # r => (q \in Named(t, g, a) <=> q \in Named(s, g, a))
    BY <1>1, <1>2, <1>3, <1>4, <1>5 DEF Named
  <2> QED
    BY <1>5, <2>2, <2>3
<1>6. CASE ~(g = f /\ r < s.len[f])
  <2>1. \A q \in 0 .. s.len[g] - 1 : ~(g = f /\ q = r)
    BY <1>3, <1>6
  <2>2. \A q : q \in Named(t, g, a) <=> q \in Named(s, g, a)
    BY <1>1, <1>2, <1>3, <1>4, <2>1 DEF Named
  <2> QED
    BY <1>6, <2>2
<1> QED
  BY <1>5, <1>6

(* The search for a free page of a folder ends at the last record or before. *)
LEMMA SlotIsUnused ==
  ASSUME NEW s, NEW f, s.len[f] \in Nat
  PROVE  Slot(s, f) \in 0 .. s.len[f] /\ Unused(s, f, Slot(s, f))
<1> DEFINE len == s.len[f]
           U == {q \in 0 .. len : Unused(s, f, q)}
<1>1. \E x \in U : \A y \in U : x <= y
  <2>1. U \in SUBSET Nat /\ len \in U
    BY DEF Unused
  <2> HIDE DEF U
  <2> QED
    BY <2>1, LeastElement
<1>2. PICK x \in U : \A y \in U : x <= y
  BY <1>1
<1>3. x \in 0 .. len /\ Unused(s, f, x)
  BY <1>2
<1>4. \A q \in 0 .. x - 1 : ~Unused(s, f, q)
  <2> TAKE q \in 0 .. x - 1
  <2>1. q \in 0 .. len /\ ~(x <= q)
    BY <1>3
  <2> QED
    BY <1>2, <2>1
<1> HIDE DEF U
<1> QED
  BY <1>3, <1>4 DEF Slot

(* It finds a free page, or the folder has as many entries as its clusters *)
(* hold.                                                                   *)
LEMMA SlotFound ==
  ASSUME NEW s, NEW ends, Tidy(s, ends), NEW f \in Folders, ends[f] = (s.len[f] - 1) \div ClusterPages
  PROVE  /\ Slot(s, f) \in 0 .. s.len[f]
         /\ HasSlot(s, f) => /\ HasPage(s, f, Slot(s, f))
                             /\ Slot(s, f) < s.len[f] => ~Record(s, f, Slot(s, f)).exists
         /\ ~HasSlot(s, f) => s.len[f] % ClusterPages = 0
<1> DEFINE len == s.len[f]
           r == Slot(s, f)
<1>1. len \in Nat \ {0} /\ ClusterPages \in Nat \ {0}
  BY SizesAssumption DEF Tidy
<1>3. r \in 0 .. len /\ Unused(s, f, r)
  BY <1>1, SlotIsUnused
<1> HIDE DEF r
<1>4. ASSUME NEW q \in 0 .. len - 1 PROVE HasPage(s, f, q)
  <2>1. q \in Nat /\ len - 1 \in Nat /\ q <= len - 1
    BY <1>1
  <2>2. q \div ClusterPages <= (len - 1) \div ClusterPages
    BY <1>1, <2>1, DivMonotone
  <2> QED
    BY <2>1, <2>2, PageFound
<1>5. r < len => HasPage(s, f, r) /\ ~Record(s, f, r).exists
  <2>1. r < len => r \in 0 .. len - 1 /\ r # len
    BY <1>1, <1>3
  <2> QED
    BY <1>3, <1>4, <2>1 DEF Unused
<1>6. ASSUME ~HasSlot(s, f) PROVE len % ClusterPages = 0
  <2>1. ~HasPage(s, f, r) \/ ~(r < len \/ r % ClusterPages # 0)
    BY <1>6 DEF HasSlot, r
  <2>2. r = len
    BY <1>1, <1>3, <1>5, <2>1
  <2>3. CASE ~HasPage(s, f, r)
    <3>1. ~(len \div ClusterPages <= (len - 1) \div ClusterPages)
      BY <1>1, <2>2, <2>3, PageFound
    <3>2. (len - 1) \div ClusterPages \in Nat
      <4>1. len - 1 \in Nat
        BY <1>1
      <4> QED
        BY <1>1, <4>1, DivFacts
    <3>3. len % ClusterPages # 0 => len \div ClusterPages = (len - 1) \div ClusterPages
      BY <1>1, DivLast
    <3> QED
      BY <3>1, <3>2, <3>3
  <2> QED
    BY <2>1, <2>2, <2>3
<1> QED
  BY <1>3, <1>5, <1>6 DEF HasSlot, r

LEMMA FirstFreeFound == ASSUME NEW s, FreeClusters(s) # {} PROVE FirstFree(s) \in FreeClusters(s)
<1>1. FreeClusters(s) \in SUBSET Nat
  BY ClusterFacts DEF FreeClusters, Clusters
<1>2. \E c \in FreeClusters(s) : \A d \in FreeClusters(s) : c <= d
  BY <1>1, LeastElement
<1> QED
  BY <1>2 DEF FirstFree

(* AddFATRecord on a card of many folders: one has a cluster more, and the *)
(* records are where they were.                                            *)
LEMMA CardGrows ==
  ASSUME NEW s \in FileSystem, NEW ends, Tidy(s, ends), NEW f \in Folders, NEW x \in FreeClusters(s),
         NEW t, t.pages = s.pages, t.len = s.len,
         t.fat = [[s.fat EXCEPT ![ClusterAt(s, f, ends[f])] = x] EXCEPT ![x] = EOC],
         NEW longer, \A g \in Folders : longer[g] = IF g = f THEN ends[g] + 1 ELSE ends[g]
  PROVE  /\ Tidy(t, longer) /\ ClusterAt(t, f, ends[f] + 1) = x
         /\ \A g \in Folders : \A a : Named(t, g, a) = Named(s, g, a)
<1>1. s.fat \in [Clusters -> Clusters \cup {FREE, EOC}]
  BY DEF FileSystem
<1>2. /\ \A g \in Folders : Chain(s, g, ends[g]) /\ ends[g] \in Nat
      /\ NumClusters \in Nat /\ ClusterPages \in Nat \ {0}
  BY SizesAssumption DEF Tidy, Chain
<1>3. /\ Chain(t, f, ends[f] + 1) /\ ClusterAt(t, f, ends[f] + 1) = x
      /\ \A k \in 0 .. ends[f] : ClusterAt(t, f, k) = ClusterAt(s, f, k)
  <2>1. PICK m : m = ends[f]
    OBVIOUS
  <2>2. /\ Chain(s, f, m) /\ t.fat[ClusterAt(s, f, m)] = x /\ t.fat[x] = EOC /\ x \in FreeClusters(s)
        /\ \A c \in Clusters \ {x, ClusterAt(s, f, m)} : t.fat[c] = s.fat[c]
    <3>1. ClusterAt(s, f, m) \in Clusters /\ ClusterAt(s, f, m) # x /\ x \in Clusters
      <4>1. Chain(s, f, m) /\ m \in 0 .. m
        BY <1>2, <2>1
      <4> QED
        BY <4>1, ChainUsed DEF Chain, FreeClusters
    <3> QED
      BY <1>1, <1>2, <2>1, <3>1
  <2>3. /\ Chain(t, f, m + 1) /\ ClusterAt(t, f, m + 1) = x
        /\ \A k \in 0 .. m : ClusterAt(t, f, k) = ClusterAt(s, f, k)
    BY ONLY <2>2, ChainGrows
  <2> QED
    BY <2>1, <2>3
<1>4. ASSUME NEW g \in Folders, g # f
      PROVE  Chain(t, g, ends[g]) /\ \A k \in 0 .. ends[g] : ClusterAt(t, g, k) = ClusterAt(s, g, k)
  <2>1. ASSUME NEW k \in 0 .. ends[g] PROVE t.fat[ClusterAt(s, g, k)] = s.fat[ClusterAt(s, g, k)]
    <3>1. ClusterAt(s, g, k) \in Clusters /\ ClusterAt(s, g, k) # x
      BY <1>2, ChainUsed DEF Chain
    <3>2. ClusterAt(s, g, k) # ClusterAt(s, f, ends[f])
      <4>1. ends[f] \in 0 .. ends[f]
        BY <1>2
      <4> QED
        BY <1>4, <4>1 DEF Tidy
    <3> QED
      BY <1>1, <3>1, <3>2
  <2>2. Chain(t, g, ends[g]) /\ \A k \in 0 .. NumClusters : ClusterAt(t, g, k) = ClusterAt(s, g, k)
    <3>1. PICK m : m = ends[g]
      OBVIOUS
    <3>2. Chain(s, g, m) /\ SameEntries(s, t, g, m)
      BY <1>2, <2>1, <3>1 DEF SameEntries
    <3>3. Chain(t, g, m) /\ SameChain(s, t, g)
      BY ONLY <3>2, ChainKept
    <3> QED
      BY <3>1, <3>3 DEF SameChain
  <2>3. \A k \in 0 .. ends[g] : k \in 0 .. NumClusters
    BY <1>2 DEF Chain
  <2> QED
    BY <2>2, <2>3
<1>5. \A g \in Folders : \A k \in 0 .. ends[g] : ClusterAt(t, g, k) = ClusterAt(s, g, k)
  BY <1>3, <1>4
<1>6. ASSUME NEW g \in Folders, NEW k \in 0 .. longer[g]
      PROVE  k \in 0 .. ends[g] \/ (g = f /\ k = ends[f] + 1)
  BY <1>2
<1>7. Tidy(t, longer)
  <2>1. \A g \in Folders : t.len[g] \in Nat \ {0} /\ Chain(t, g, longer[g])
    BY <1>3, <1>4 DEF Tidy
  <2>2. ASSUME NEW g \in Folders PROVE (t.len[g] - 1) \div ClusterPages <= longer[g]
    <3>1. s.len[g] - 1 \in Nat /\ (s.len[g] - 1) \div ClusterPages <= ends[g]
      BY DEF Tidy
    <3>2. (s.len[g] - 1) \div ClusterPages \in Nat
      BY <1>2, <3>1, DivFacts
    <3> DEFINE d == (s.len[g] - 1) \div ClusterPages
    <3>3. d <= longer[g]
      <4>1. d \in Nat /\ d <= ends[g] /\ ends[g] \in Nat /\ longer[g] \in {ends[g], ends[g] + 1}
        BY <1>2, <3>1, <3>2
      <4> HIDE DEF d
      <4> QED
        BY <4>1
    <3> QED
      BY <3>3
  <2>3. ASSUME NEW g \in Folders, NEW h \in Folders, g # h, NEW i \in 0 .. longer[g], NEW j \in 0 .. longer[h]
        PROVE  ClusterAt(t, g, i) # ClusterAt(t, h, j)
    <3>1. \A e \in Folders : \A k \in 0 .. ends[e] : ClusterAt(s, e, k) # x
      BY <1>2, ChainUsed
    <3>2. CASE i \in 0 .. ends[g] /\ j \in 0 .. ends[h]
      <4>1. ClusterAt(s, g, i) # ClusterAt(s, h, j)
        BY <2>3, <3>2 DEF Tidy
      <4> QED
        BY <1>5, <3>2, <4>1
    <3>3. CASE g = f /\ i = ends[f] + 1 /\ j \in 0 .. ends[h]
      BY <1>3, <1>5, <3>1, <3>3
    <3>4. CASE h = f /\ j = ends[f] + 1 /\ i \in 0 .. ends[g]
      BY <1>3, <1>5, <3>1, <3>4
    <3> QED
      BY <1>6, <2>3, <3>2, <3>3, <3>4
  <2> QED
    BY <2>1, <2>2, <2>3 DEF Tidy
<1>8. ASSUME NEW g \in Folders, NEW a PROVE Named(t, g, a) = Named(s, g, a)
  <2>1. s.len[g] \in Nat \ {0} /\ (s.len[g] - 1) \div ClusterPages <= ends[g]
    BY DEF Tidy
  <2>2. ASSUME NEW q \in 0 .. s.len[g] - 1
        PROVE  /\ HasPage(s, g, q) /\ HasPage(t, g, q)
               /\ ClusterAt(t, g, q \div ClusterPages) = ClusterAt(s, g, q \div ClusterPages)
    <3>1. q \in Nat /\ s.len[g] - 1 \in Nat /\ q <= s.len[g] - 1
      BY <2>1
    <3>2. /\ q \div ClusterPages \in Nat /\ q \div ClusterPages <= (s.len[g] - 1) \div ClusterPages
          /\ (s.len[g] - 1) \div ClusterPages \in Nat
      BY <1>2, <3>1, DivMonotone, DivFacts
    <3> DEFINE k == q \div ClusterPages
               d == (s.len[g] - 1) \div ClusterPages
    <3>3. k \in 0 .. ends[g] /\ k <= longer[g]
      <4>1. k \in Nat /\ d \in Nat /\ k <= d /\ d <= ends[g] /\ ends[g] \in Nat /\ longer[g] \in {ends[g], ends[g] + 1}
        BY <1>2, <2>1, <3>2
      <4> HIDE DEF k, d
      <4> QED
        BY <4>1
    <3>4. HasPage(s, g, q) /\ HasPage(t, g, q)
      BY <1>7, <3>1, <3>3, PageFound
    <3> QED
      BY <1>5, <3>3, <3>4
  <2>3. \A q \in 0 .. s.len[g] - 1 : Record(t, g, q) = Record(s, g, q)
    BY <2>2 DEF Record
  <2>4. \A q \in 0 .. s.len[g] - 1 : HasPage(s, g, q) /\ HasPage(t, g, q)
    BY <2>2
  <2> QED
    BY <2>3, <2>4 DEF Named
<1> QED
  BY <1>3, <1>7, <1>8

-----------------------------------------------------------------------------
(* The steps of the EE change no file; they move what counts as reached.   *)
LEMMA CardFrame ==
  ASSUME CardInv, Clean, fs' = fs, iop \in {"idle", "batch"}, iop' \in {"idle", "batch"},
         \A a \in Aliases : Linked(a)' <=> Linked(a)
  PROVE  CardInv'
<1>1. Grown = fs /\ Grown' = fs /\ ~Longer /\ ~Longer'
  BY DEF Grown, Longer
<1>2. Ends' = Ends
  BY <1>1 DEF Ends
<1>3. fs' \in FileSystem /\ Tidy(Grown', Ends')
  BY <1>1, <1>2 DEF CardInv
<1>4. Entries'
  BY <1>1 DEF CardInv, Entries
<1>5. Growing'
  BY DEF Growing
<1> QED
  BY <1>3, <1>4, <1>5 DEF CardInv

LEMMA LinkedEE ==
  ASSUME LoopInv, CardInv, EENext, Clean, Clean'
  PROVE  /\ fs' = fs /\ original' = original /\ iop \in {"idle", "batch"} /\ iop' \in {"idle", "batch"}
         /\ \A a \in Aliases : Linked(a)' <=> Linked(a)
<1>1. ASSUME NEW kind, Fault(kind) PROVE FALSE
  BY <1>1, Failing DEF Clean
<1>2. /\ NumAliases \in Nat \ {0} /\ original \in 1 .. NumAliases + 1 /\ next \in Nat \ {0} /\ left \in Nat
      /\ NumLinked \in Nat /\ Passing
  BY SizesAssumption, LinkedCount DEF LoopInv, Loops
<1>3. /\ fs' = fs /\ original' = original /\ NumLinked' = NumLinked
      /\ iop \in {"idle", "batch"} /\ iop' \in {"idle", "batch"}
  BY DEF EENext, BeginCreate, CreateCall, CreateReply, LoopOneEnds, LoopTwoEnds, BeginDelete,
      DeleteCall,
         DeleteReply, DeleteEnds, SendBatch, Ready, cardVars, iopVars, NumLinked, LoopInv, Batches
<1>4. \A a \in Aliases : a \in Nat /\ 1 <= a /\ a <= NumAliases
  BY <1>2 DEF Aliases
<1>5. \A k : Listed(k)' = Listed(k)
  BY <1>3 DEF Listed
<1> SUFFICES ASSUME NEW a \in Aliases PROVE Linked(a)' <=> Linked(a)
  BY <1>3
<1>6. CASE BeginCreate
  <2>1. session = "idle" /\ outcome = "none" /\ session' = "create" /\ Reached' = 1
    BY <1>1, <1>6 DEF BeginCreate, Reached, iopVars, LoopInv, Batches
  <2> QED
    BY <1>3, <1>4, <2>1 DEF Linked
<1>7. CASE CreateCall
  <2>1. session = "create" /\ session' = "create" /\ Reached' = Reached
    BY <1>1, <1>7 DEF CreateCall, Ready, SendBatch, Reached, eeVars
  <2> QED
    BY <1>3, <2>1 DEF Linked
<1>8. CASE CreateReply
  <2>1. session = "create" /\ session' = "create" /\ iop = "batch" /\ iop' = "idle" /\ at > last /\ next <= last
    BY <1>8 DEF CreateReply, LoopInv, Batches
  <2>2. made = at - next /\ at \in Nat /\ last \in Nat
    BY <1>2, <2>1 DEF Passing, LoopInv, Batches
  <2>3. next' = at
    BY <1>2, <1>8, <2>1, <2>2 DEF CreateReply
  <2> QED
    BY <1>3, <2>1, <2>3 DEF Linked, Reached
<1>9. CASE LoopOneEnds
  <2>1. session = "create" /\ session' = "create" /\ iop = "idle" /\ iop' = "idle" /\ loop = 1 /\ left = 0 /\ next' = next + 1
    BY <1>9 DEF LoopOneEnds, Ready, iopVars
  <2>2. next = original
    BY <1>2, <2>1 DEF Passing
  <2>3. a < next + 1 <=> a < next \/ a = original
    BY <1>2, <1>4, <2>2
  <2> QED
    BY <1>3, <2>1, <2>3 DEF Linked, Reached
<1>10. CASE LoopTwoEnds
  <2>1. session = "create" /\ session' = "idle" /\ iop = "idle" /\ loop = 2 /\ left = 0 /\ outcome' = "linked"
    BY <1>1, <1>2, <1>10 DEF LoopTwoEnds, Ready, Passing
  <2>2. next = NumAliases + 1 \/ next = NumAliases + 2
    BY <1>2, <2>1 DEF Passing
  <2>3. a < next
    BY <1>2, <1>4, <2>2
  <2> QED
    BY <2>1, <2>3 DEF Linked, Reached
<1>11. CASE BeginDelete
  <2>1. session = "idle" /\ outcome = "linked" /\ session' = "delete" /\ iop' = "idle" /\ next' = 1
    BY <1>11 DEF BeginDelete, iopVars, LoopInv, Batches
  <2>2. a = original \/ \E k \in 1 .. NumLinked : a = Listed(k)
    BY ListedFacts
  <2> QED
    BY <1>3, <1>5, <2>1, <2>2 DEF Linked, Reached
<1>12. CASE DeleteCall
  <2>1. session = "delete" /\ session' = "delete" /\ Reached' = Reached
    BY <1>1, <1>12 DEF DeleteCall, Ready, SendBatch, Reached, eeVars
  <2> QED
    BY <1>3, <1>5, <2>1 DEF Linked
<1>13. CASE DeleteReply
  <2>1. session = "delete" /\ session' = "delete" /\ iop = "batch" /\ iop' = "idle" /\ at > last /\ next <= last
    BY <1>13 DEF DeleteReply, LoopInv, Batches
  <2>2. made = at - next /\ at \in Nat /\ last \in Nat
    BY <1>2, <2>1 DEF Passing, LoopInv, Batches
  <2>3. next' = at
    BY <1>2, <1>13, <2>1, <2>2 DEF DeleteReply
  <2> QED
    BY <1>3, <1>5, <2>1, <2>3 DEF Linked, Reached
<1>14. CASE DeleteEnds
  <2>1. session = "delete" /\ session' = "idle" /\ iop = "idle" /\ outcome' = "unlinked" /\ next > NumLinked
    BY <1>14 DEF DeleteEnds, Ready
  <2>2. next .. NumLinked = {}
    BY <1>2, <2>1
  <2> QED
    BY <1>3, <2>1, <2>2 DEF Linked, Reached
<1> QED
  BY <1>6, <1>7, <1>8, <1>9, <1>10, <1>11, <1>12, <1>13, <1>14 DEF EENext

LEMMA CardEE == ASSUME LoopInv, CardInv, EENext PROVE CardInv'
<1> SUFFICES ASSUME Clean, Clean' PROVE CardInv'
  <2>1. Clean' => Clean
    <3>1. failures \in Nat /\ \A kind : Fault(kind) => failures' # 0
      BY Failing DEF LoopInv
    <3>2. systemArea' = systemArea /\ (failures' = failures \/ \E kind : Fault(kind))
      BY DEF EENext, BeginCreate, CreateCall, CreateReply, LoopOneEnds, LoopTwoEnds, BeginDelete,
          DeleteCall,
             DeleteReply, DeleteEnds, SendBatch, cardVars
    <3> QED
      BY <3>1, <3>2 DEF Clean
  <2> QED
    BY <2>1 DEF CardInv
<1> QED
  BY LinkedEE, CardFrame

-----------------------------------------------------------------------------
(* The steps of MCTOOLS, while nothing fails.  What of the card an alias   *)
(* needs to know: its own entries, and whether it is reached.              *)
LEMMA EntriesMove ==
  ASSUME Entries, NEW b \in Aliases,
         \A a \in Aliases \ {b} :
           (Linked(a)' <=> Linked(a)) /\ Named(Grown', FolderOf[a], a) = Named(Grown, FolderOf[a], a),
         IF Linked(b)' THEN One(Named(Grown', FolderOf[b], b)) ELSE Named(Grown', FolderOf[b], b) = {}
  PROVE  Entries'
<1> SUFFICES ASSUME NEW a \in Aliases
             PROVE  IF Linked(a)' THEN One(Named(Grown', FolderOf[a], a)) ELSE Named(Grown', FolderOf[a], a) = {}
  BY DEF Entries
<1>1. CASE a = b
  BY <1>1
<1>2. CASE a # b
  BY <1>2 DEF Entries
<1> QED
  BY <1>1, <1>2

LEMMA EntriesKept ==
  ASSUME Entries, \A a \in Aliases : Linked(a)' <=> Linked(a),
         \A a \in Aliases : Named(Grown', FolderOf[a], a) = Named(Grown, FolderOf[a], a)
  PROVE  Entries'
<1> SUFFICES ASSUME NEW a \in Aliases
             PROVE  IF Linked(a)' THEN One(Named(Grown', FolderOf[a], a)) ELSE Named(Grown', FolderOf[a], a) = {}
  BY DEF Entries
<1> QED
  BY DEF Entries

(* No folder gets a cluster, or room for more of them.                     *)
Steady == Ends' = Ends /\ Grown'.fat = Grown.fat

(* What is known at a step of MCTOOLS that links an alias.                 *)
LinkingStep ==
  /\ UNCHANGED <<eeVars, original>>
  /\ session = "create" /\ iop # "idle" /\ iop' # "idle" /\ at <= last

LEMMA LinkingFacts ==
  ASSUME LoopInv, CardInv, Clean, LinkingStep
  PROVE  /\ Folder \in Folders /\ New \in Entry /\ InTurn \in Aliases /\ InTurn = at /\ ~Linked(InTurn)
         /\ fs \in FileSystem /\ Tidy(Grown, Ends) /\ Growing /\ Entries
         /\ fs.len[Folder] \in Nat \ {0} /\ ClusterPages \in Nat \ {0} /\ at \in Nat
         /\ at' = at => /\ \A a \in Aliases : Linked(a)' <=> Linked(a)
                        /\ InTurn' = InTurn /\ Folder' = Folder /\ New' = New
         /\ at' = at + 1 => \A a \in Aliases : Linked(a)' <=> Linked(a) \/ a = InTurn
<1>1. InTurn \in Aliases /\ InTurn = at /\ ~Linked(InTurn)
  BY InTurnCreate DEF LinkingStep
<1>2. Folder \in Folders
  BY <1>1, FoldersAssumption DEF Folder
<1>3. New \in Entry
  <2>1. InTurn \in 0 .. NumAliases
    BY <1>1, SizesAssumption DEF Aliases
  <2> QED
    BY <2>1 DEF New, Entry
<1>4. fs \in FileSystem /\ Tidy(Grown, Ends) /\ Growing /\ Entries
  BY DEF CardInv
<1>5. fs.len[Folder] \in Nat \ {0} /\ ClusterPages \in Nat \ {0} /\ at \in Nat
  <2>1. Grown.len = fs.len
    BY <1>4 DEF Grown, FileSystem
  <2> QED
    BY <1>2, <1>4, <2>1, SizesAssumption DEF Tidy, LoopInv, Batches
<1>6. Reached = at /\ Reached' = at'
  BY DEF LinkingStep, Reached
<1>7. ASSUME at' = at
      PROVE  /\ \A a \in Aliases : Linked(a)' <=> Linked(a)
             /\ InTurn' = InTurn /\ Folder' = Folder /\ New' = New
  BY <1>6, <1>7 DEF LinkingStep, Linked, InTurn, Folder, New, Listed, NumLinked, eeVars
<1>8. ASSUME at' = at + 1, NEW a \in Aliases PROVE Linked(a)' <=> Linked(a) \/ a = InTurn
  <2>1. a \in Nat
    BY SizesAssumption DEF Aliases
  <2>2. a < at + 1 <=> a < at \/ a = at
    BY <1>5, <2>1
  <2> QED
    BY <1>1, <1>6, <1>8, <2>2 DEF LinkingStep, Linked, eeVars
<1> QED
  BY <1>1, <1>2, <1>3, <1>4, <1>5, <1>7, <1>8

(* An entry in a free page: of a deleted one, or behind the last one.      *)
LEMMA CardCreateInSlot ==
  ASSUME LoopInv, CardInv, Clean, CreateInSlot
  PROVE  CardInv' /\ Steady /\ fs'.len = fs.len
<1> DEFINE f == Folder
           r == Slot(fs, f)
<1>1. LinkingStep /\ iop = "batch" /\ HasSlot(fs, f) /\ fs' = WithRecord(fs, f, r, New)
  BY DEF CreateInSlot, InBatch, LinkingStep, Made
<1>2. Grown = fs /\ ~Longer
  BY <1>1 DEF Grown, Longer
<1>3. /\ f \in Folders /\ New \in Entry /\ InTurn \in Aliases /\ FolderOf[InTurn] = f /\ ~Linked(InTurn)
      /\ fs \in FileSystem /\ Tidy(fs, Ends) /\ Entries
      /\ fs.len[f] \in Nat \ {0} /\ ClusterPages \in Nat \ {0}
  BY <1>1, <1>2, LinkingFacts DEF Folder
<1>4. Ends[f] = (fs.len[f] - 1) \div ClusterPages
  BY <1>2, <1>3 DEF Ends
<1>5. r \in 0 .. fs.len[f] /\ HasPage(fs, f, r) /\ (r < fs.len[f] => ~Record(fs, f, r).exists)
  BY <1>1, <1>3, <1>4, SlotFound
<1>6. r \in Nat /\ (r < fs.len[f] \/ r = fs.len[f])
  BY <1>3, <1>5
<1>7. /\ fs' \in FileSystem /\ fs'.fat = fs.fat /\ fs'.len = fs.len
      /\ Record(fs', f, r) = New /\ Tidy(fs', Ends)
  BY <1>1, <1>3, <1>5, <1>6, Written, StillTidy
<1>8. ASSUME NEW a \in Aliases
      PROVE  Named(fs', FolderOf[a], a) = IF FolderOf[a] = f /\ r < fs.len[f]
                                          THEN (Named(fs, FolderOf[a], a) \ {r}) \cup (IF a = InTurn THEN {r} ELSE {})
                                          ELSE Named(fs, FolderOf[a], a)
  <2>1. FolderOf[a] \in Folders
    BY FoldersAssumption
  <2>2. New.exists /\ New.name = InTurn
    BY DEF New
  <2> QED
    BY <1>1, <1>3, <1>5, <1>6, <2>1, <2>2, NamedWritten
<1>9. CASE r < fs.len[f]
  <2>1. iop' = "batch" /\ at' = at + 1
    BY <1>9 DEF CreateInSlot, Made
  <2>2. Grown' = fs' /\ ~Longer'
    BY <2>1 DEF Grown, Longer
  <2>3. Ends' = Ends
    BY <1>2, <1>7, <2>2 DEF Ends
  <2>4. \A a \in Aliases : r \notin Named(fs, FolderOf[a], a) \/ FolderOf[a] # f
    BY <1>5, <1>9 DEF Named
  <2>5. \A a \in Aliases \ {InTurn} : Named(fs', FolderOf[a], a) = Named(fs, FolderOf[a], a)
    BY <1>8, <2>4
  <2>6. Named(fs', f, InTurn) = {r}
    <3>1. Named(fs, f, InTurn) = {}
      BY <1>2, <1>3 DEF Entries
    <3>2. Named(fs', f, InTurn) = (Named(fs, f, InTurn) \ {r}) \cup {r}
      BY <1>3, <1>8, <1>9
    <3> QED
      BY <3>1, <3>2
  <2>7. \A a \in Aliases : Linked(a)' <=> Linked(a) \/ a = InTurn
    BY <1>1, <2>1, LinkingFacts
  <2>8. Entries'
    <3>1. One(Named(Grown', FolderOf[InTurn], InTurn))
      BY <1>3, <2>2, <2>6 DEF One
    <3>2. \A a \in Aliases \ {InTurn} :
            (Linked(a)' <=> Linked(a)) /\ Named(Grown', FolderOf[a], a) = Named(Grown, FolderOf[a], a)
      BY <1>2, <2>2, <2>5, <2>7
    <3> QED
      BY <1>3, <2>7, <3>1, <3>2, EntriesMove
  <2>9. Growing'
    BY <2>1 DEF Growing
  <2>10. Tidy(Grown', Ends')
    BY <1>7, <2>2, <2>3
  <2> QED
    BY <1>2, <1>7, <2>2, <2>3, <2>8, <2>9, <2>10 DEF CardInv, Steady
<1>10. CASE r = fs.len[f]
  <2>1. iop' = "count" /\ at' = at
    <3>1. ~(r < fs.len[f])
      BY <1>3, <1>10
    <3> QED
      BY <3>1 DEF CreateInSlot
  <2>2. Grown' = fs' /\ Longer'
    BY <2>1 DEF Grown, Longer
  <2>3. /\ \A a \in Aliases : Linked(a)' <=> Linked(a)
        /\ Folder' = f /\ New' = New
    BY <1>1, <2>1, LinkingFacts
  <2>4. Ends' = Ends
    <3>1. fs.len[f] % ClusterPages # 0
      BY <1>1, <1>3, <1>10 DEF HasSlot
    <3>2. fs.len[f] \div ClusterPages = (fs.len[f] - 1) \div ClusterPages
      BY <1>3, <3>1, DivLast
    <3> QED
      BY <1>2, <1>7, <2>2, <2>3, <3>2 DEF Ends
  <2>5. \A a \in Aliases : Named(Grown', FolderOf[a], a) = Named(Grown, FolderOf[a], a)
    <3>1. ~(r < fs.len[f])
      BY <1>3, <1>10
    <3> QED
      BY <1>2, <1>8, <2>2, <3>1
  <2>6. Entries'
    BY <1>3, <2>3, <2>5, EntriesKept
  <2>7. Growing'
    BY <1>7, <1>10, <2>1, <2>3 DEF Growing
  <2>8. Tidy(Grown', Ends')
    BY <1>7, <2>2, <2>4
  <2> QED
    BY <1>2, <1>7, <2>2, <2>4, <2>6, <2>7, <2>8 DEF CardInv, Steady
<1> QED
  BY <1>6, <1>9, <1>10

LEMMA CardNoSlot ==
  ASSUME LoopInv, CardInv, Clean, NoSlot
  PROVE  CardInv' /\ Steady /\ fs'.len = fs.len
<1>1. LinkingStep /\ iop = "batch" /\ iop' = "grow" /\ ~HasSlot(fs, Folder) /\ fs' = fs /\ at' = at
  BY DEF NoSlot, InBatch, LinkingStep, cardVars
<1>2. Grown = fs /\ ~Longer /\ Grown' = fs /\ ~Longer'
  BY <1>1 DEF Grown, Longer
<1>3. /\ Folder \in Folders /\ fs \in FileSystem /\ Tidy(fs, Ends) /\ Entries
      /\ \A a \in Aliases : Linked(a)' <=> Linked(a)
      /\ Folder' = Folder
  BY <1>1, <1>2, LinkingFacts
<1>4. Ends' = Ends
  BY <1>1, <1>2 DEF Ends
<1>5. fs.len[Folder] % ClusterPages = 0
  <2>1. Ends[Folder] = (fs.len[Folder] - 1) \div ClusterPages
    BY <1>2, <1>3 DEF Ends
  <2> QED
    BY <1>1, <1>3, <2>1, SlotFound
<1>6. Growing'
  BY <1>1, <1>3, <1>5 DEF Growing
<1>7. Entries'
  <2>1. \A a \in Aliases : Named(Grown', FolderOf[a], a) = Named(Grown, FolderOf[a], a)
    BY <1>2
  <2> QED
    BY <1>3, <2>1, EntriesKept
<1>8. Tidy(Grown', Ends') /\ fs' \in FileSystem
  BY <1>1, <1>2, <1>3, <1>4
<1> QED
  BY <1>1, <1>2, <1>4, <1>6, <1>7, <1>8 DEF CardInv, Steady

(* AddFATRecord's cluster numbers, and its error for a full card.          *)
LEMMA Placed ==
  /\ \A c \in Clusters : Unsigned(Unsigned(c) + AllocStart) = c + AllocStart
  /\ \A e \in {1, EIO, EINVAL} : Unsigned(Unsigned(-e) + AllocStart) \in 0 .. AllocStart - 1
<1>1. /\ Word \in Nat \ {0} /\ AllocStart \in Nat /\ NumClusters \in Nat \ {0}
      /\ AllocStart + NumClusters < Word /\ AllocStart >= 22 /\ EINVAL = 22
  BY SizesAssumption DEF EINVAL
<1>2. ASSUME NEW c \in Clusters PROVE Unsigned(Unsigned(c) + AllocStart) = c + AllocStart
  <2>1. c \in Int /\ c \in 0 .. Word - 1 /\ c + AllocStart \in Int /\ c + AllocStart \in 0 .. Word - 1
    BY <1>1 DEF Clusters
  <2>2. c % Word = c
    BY <1>1, <2>1, ModWraps
  <2>3. (c + AllocStart) % Word = c + AllocStart
    BY <1>1, <2>1, ModWraps
  <2> QED
    BY <2>2, <2>3 DEF Unsigned
<1>3. ASSUME NEW e \in {1, EIO, EINVAL} PROVE Unsigned(Unsigned(-e) + AllocStart) \in 0 .. AllocStart - 1
  <2>1. e \in 1 .. 22
    BY DEF EIO, EINVAL
  <2>2. -e \in Int /\ -e < 0 /\ -e >= -Word
    BY <1>1, <2>1
  <2>3. (-e) % Word = -e + Word
    BY <1>1, <2>2, ModWraps
  <2>4. PICK x : x = -e + Word + AllocStart
    OBVIOUS
  <2>5. x \in Int /\ x \in Word .. 2 * Word - 1 /\ x - Word \in 0 .. AllocStart - 1
    BY <1>1, <2>1, <2>4
  <2>6. x % Word = x - Word
    BY <1>1, <2>5, ModWraps
  <2> QED
    BY <2>3, <2>4, <2>5, <2>6 DEF Unsigned
<1> QED
  BY <1>2, <1>3

(* A folder gets a free cluster.                                           *)
Grew ==
  \E x \in FreeClusters(fs) :
    /\ FreeClusters(Grown') = FreeClusters(fs) \ {x} /\ iop' = "mark" /\ fs'.len = fs.len
    /\ \A g \in Folders : Ends'[g] = IF g = Folder THEN Ends[g] + 1 ELSE Ends[g]

LEMMA CardGrow ==
  ASSUME LoopInv, CardInv, Clean, Grow
  PROVE  CardInv' /\ (FreeClusters(fs) # {} => Grew)
<1> DEFINE f == Folder
<1>1. LinkingStep /\ iop = "grow" /\ at' = at /\ iop' \in {"place", "mark"}
  BY DEF Grow, PlaceAt, LinkingStep, LoopInv, Batches
<1>2. Grown = fs /\ ~Longer
  BY <1>1 DEF Grown, Longer
<1>3. /\ f \in Folders /\ fs \in FileSystem /\ Tidy(fs, Ends) /\ Entries /\ Growing
      /\ \A a \in Aliases : Linked(a)' <=> Linked(a)
      /\ Folder' = f
      /\ fs.len[f] \in Nat \ {0} /\ ClusterPages \in Nat \ {0}
  BY <1>1, <1>2, LinkingFacts
<1>4. fs.len[f] % ClusterPages = 0 /\ Ends[f] = (fs.len[f] - 1) \div ClusterPages
  BY <1>1, <1>2, <1>3 DEF Growing, Ends
<1>5. EndOf(fs, f) = {ClusterAt(fs, f, Ends[f])} /\ Chain(fs, f, Ends[f])
  BY <1>3, ChainRange DEF Tidy
<1>6. CASE FreeClusters(fs) = {}
  <2>1. target' = Unsigned(Unsigned(-EINVAL) + AllocStart) /\ iop' = "place" /\ fs' = fs
    BY <1>6 DEF Grow, PlaceAt
  <2>2. Grown' = fs /\ ~Longer'
    <3>1. ~(target' >= AllocStart)
      <4>1. target' \in 0 .. AllocStart - 1
        BY <2>1, Placed
      <4>2. \A y \in 0 .. AllocStart - 1 : ~(y >= AllocStart)
        BY SizesAssumption
      <4> QED
        BY <4>1, <4>2, Zenon
    <3> QED
      BY <2>1, <3>1 DEF Grown, Longer
  <2>3. Ends' = Ends
    BY <1>2, <2>1, <2>2 DEF Ends
  <2>4. Growing'
    BY <1>3, <1>4, <2>1, <2>2 DEF Growing, Longer
  <2>5. Entries'
    <3>1. \A a \in Aliases : Named(Grown', FolderOf[a], a) = Named(Grown, FolderOf[a], a)
      BY <1>2, <2>2
    <3> QED
      BY <1>3, <3>1, EntriesKept
  <2>6. Tidy(Grown', Ends') /\ fs' \in FileSystem
    BY <1>3, <2>1, <2>2, <2>3
  <2> QED
    BY <1>6, <2>4, <2>5, <2>6 DEF CardInv
<1>7. CASE FreeClusters(fs) # {}
  <2> DEFINE x == FirstFree(fs)
             c == ClusterAt(fs, f, Ends[f])
             t == [[fs EXCEPT !.fat[c] = x] EXCEPT !.fat[x] = EOC]
  <2>1. x \in FreeClusters(fs) /\ x \in Clusters /\ c \in Clusters
    <3>1. Ends[f] \in 0 .. Ends[f]
      BY <1>5 DEF Chain
    <3> QED
      BY <1>5, <1>7, <3>1, FirstFreeFound DEF FreeClusters, Chain
  <2>2. fs' = [fs EXCEPT !.fat[c] = x] /\ target' = x /\ iop' = "mark"
    BY <1>5, <1>7 DEF Grow
  <2>3. Grown' = t /\ Longer'
    BY <2>2 DEF Grown, Longer
  <2> HIDE DEF x, c
  <2>4. fs'.len = fs.len /\ fs' \in FileSystem
    <3>1. fs.fat \in [Clusters -> Clusters \cup {FREE, EOC}]
      BY <1>3 DEF FileSystem
    <3>2. [fs.fat EXCEPT ![c] = x] \in [Clusters -> Clusters \cup {FREE, EOC}]
      BY <2>1, <3>1
    <3> QED
      BY <1>3, <2>2, <3>2 DEF FileSystem
  <2>5. t.pages = fs.pages /\ t.len = fs.len /\ t.fat = [[fs.fat EXCEPT ![c] = x] EXCEPT ![x] = EOC]
    BY <1>3 DEF FileSystem
  <2> HIDE DEF t
  <2>6. \A g \in Folders : Ends'[g] = IF g = f THEN Ends[g] + 1 ELSE Ends[g]
    <3>1. fs.len[f] \div ClusterPages = (fs.len[f] - 1) \div ClusterPages + 1
      BY <1>3, <1>4, DivLast
    <3> QED
      BY <1>2, <1>3, <2>3, <2>4, <3>1 DEF Ends
  <2>7. /\ Tidy(t, Ends') /\ ClusterAt(t, f, Ends[f] + 1) = x
        /\ \A g \in Folders : \A a : Named(t, g, a) = Named(fs, g, a)
    <3>1. PICK longer : longer = Ends'
      OBVIOUS
    <3>2. t.fat = [[fs.fat EXCEPT ![ClusterAt(fs, f, Ends[f])] = x] EXCEPT ![x] = EOC]
      BY <2>5 DEF c
    <3>3. /\ Tidy(t, longer) /\ ClusterAt(t, f, Ends[f] + 1) = x
          /\ \A g \in Folders : \A a : Named(t, g, a) = Named(fs, g, a)
      BY <1>3, <2>1, <2>5, <2>6, <3>1, <3>2, CardGrows
    <3> QED
      BY <3>1, <3>3
  <2>8. Growing'
    <3>1. fs'.len[f] % ClusterPages = 0 /\ fs'.len[f] \div ClusterPages = Ends[f] + 1
      BY <1>3, <1>4, <2>4, DivLast
    <3>2. target' \in Clusters /\ target' = ClusterAt(Grown', Folder', fs'.len[Folder'] \div ClusterPages)
      BY <1>3, <2>1, <2>2, <2>3, <2>7, <3>1
    <3> QED
      BY <1>3, <2>2, <3>1, <3>2 DEF Growing
  <2>9. Entries'
    <3>1. \A a \in Aliases : Named(Grown', FolderOf[a], a) = Named(Grown, FolderOf[a], a)
      BY <1>2, <2>3, <2>7, FoldersAssumption
    <3> QED
      BY <1>3, <3>1, EntriesKept
  <2>10. FreeClusters(t) = FreeClusters(fs) \ {x}
    <3>1. fs.fat \in [Clusters -> Clusters \cup {FREE, EOC}] /\ fs.fat[c] = EOC
      BY <1>3, <1>5 DEF FileSystem, Chain, c
    <3>2. \A d \in Clusters : t.fat[d] = FREE <=> fs.fat[d] = FREE /\ d # x
      BY <2>1, <2>5, <3>1, ClusterFacts
    <3> QED
      BY <3>2 DEF FreeClusters
  <2>11. Grew
    BY <2>1, <2>2, <2>3, <2>4, <2>6, <2>10 DEF Grew
  <2> QED
    BY <2>3, <2>4, <2>7, <2>8, <2>9, <2>11 DEF CardInv
<1> QED
  BY <1>6, <1>7

LEMMA CardMark ==
  ASSUME LoopInv, CardInv, Clean, Mark
  PROVE  CardInv' /\ Steady /\ fs'.len = fs.len
<1>1. /\ LinkingStep /\ iop = "mark" /\ at' = at /\ iop' = "place"
      /\ fs' = [fs EXCEPT !.fat[target] = EOC] /\ target' = Unsigned(Unsigned(target) + AllocStart)
  BY DEF Mark, PlaceAt, LinkingStep, LoopInv, Batches
<1>2. Grown = fs' /\ Longer /\ Grown' = fs'
  BY <1>1 DEF Grown, Longer
<1>3. /\ Folder \in Folders /\ fs \in FileSystem /\ Tidy(Grown, Ends) /\ Entries /\ Growing
      /\ \A a \in Aliases : Linked(a)' <=> Linked(a)
      /\ Folder' = Folder
  BY <1>1, LinkingFacts
<1>4. target \in Clusters /\ target = ClusterAt(Grown, Folder, fs.len[Folder] \div ClusterPages)
  BY <1>1, <1>3 DEF Growing
<1>5. target' = target + AllocStart /\ target' >= AllocStart /\ target' - AllocStart = target
  <2>1. target' = target + AllocStart
    BY <1>1, <1>4, Placed
  <2>2. target \in Nat /\ AllocStart \in Nat
    BY <1>4, SizesAssumption DEF Clusters
  <2>3. target + AllocStart >= AllocStart /\ target + AllocStart - AllocStart = target
    BY <2>2
  <2>4. \A y \in Int : y = target + AllocStart => y >= AllocStart /\ y - AllocStart = target
    BY <2>2
  <2>5. target + AllocStart \in Int
    BY <2>2
  <2> QED
    BY <2>1, <2>4, <2>5, Zenon
<1>6. fs'.len = fs.len /\ fs' \in FileSystem
  <2>1. fs.fat \in [Clusters -> Clusters \cup {FREE, EOC}]
    BY <1>3 DEF FileSystem
  <2>2. [fs.fat EXCEPT ![target] = EOC] \in [Clusters -> Clusters \cup {FREE, EOC}]
    BY <1>4, <2>1
  <2> QED
    BY <1>1, <1>3, <2>2 DEF FileSystem
<1>7. Ends' = Ends
  <2>1. Longer'
    BY <1>1, <1>5 DEF Longer
  <2> QED
    BY <1>2, <1>3, <1>6, <2>1 DEF Ends
<1>8. Growing'
  <2>1. fs'.len[Folder] % ClusterPages = 0
    BY <1>1, <1>3, <1>6 DEF Growing
  <2> QED
    BY <1>1, <1>2, <1>3, <1>4, <1>5, <1>6, <2>1 DEF Growing
<1>9. Entries'
  <2>1. \A a \in Aliases : Named(Grown', FolderOf[a], a) = Named(Grown, FolderOf[a], a)
    BY <1>2
  <2> QED
    BY <1>3, <2>1, EntriesKept
<1> QED
  BY <1>2, <1>3, <1>6, <1>7, <1>8, <1>9 DEF CardInv, Steady

LEMMA CardPlaceNew ==
  ASSUME LoopInv, CardInv, Clean, Clean', PlaceNew
  PROVE  CardInv' /\ Steady /\ fs'.len = fs.len
<1> DEFINE f == Folder
           len == fs.len[f]
<1>1. LinkingStep /\ iop = "place" /\ at' = at /\ iop' = "count" /\ target >= AllocStart
  BY DEF PlaceNew, Place, LinkingStep, LoopInv, Batches, Clean
<1>2. Grown = fs /\ Longer /\ Grown' = fs' /\ Longer'
  BY <1>1 DEF Grown, Longer
<1>3. /\ f \in Folders /\ New \in Entry /\ fs \in FileSystem /\ Tidy(fs, Ends) /\ Entries /\ Growing
      /\ \A a \in Aliases : Linked(a)' <=> Linked(a)
      /\ Folder' = f /\ New' = New
      /\ len \in Nat \ {0} /\ ClusterPages \in Nat \ {0}
  BY <1>1, <1>2, LinkingFacts
<1>4. /\ len % ClusterPages = 0 /\ Ends[f] = len \div ClusterPages
      /\ target - AllocStart = ClusterAt(fs, f, len \div ClusterPages)
  BY <1>1, <1>2, <1>3 DEF Growing, Ends
<1>5. fs' = WithRecord(fs, f, len, New)
  BY <1>1, <1>4 DEF PlaceNew, Place, WithRecord
<1>6. HasPage(fs, f, len)
  <2>1. len \div ClusterPages <= Ends[f] /\ len \in Nat
    <3>1. len \in Nat /\ len \div ClusterPages \in Nat
      BY <1>3, DivFacts
    <3> QED
      BY <1>4, <3>1
  <2> QED
    BY <1>3, <2>1, PageFound
<1>7. /\ fs' \in FileSystem /\ fs'.fat = fs.fat /\ fs'.len = fs.len
      /\ Record(fs', f, len) = New /\ Tidy(fs', Ends)
  BY <1>3, <1>5, <1>6, Written, StillTidy
<1>8. \A a \in Aliases : Named(Grown', FolderOf[a], a) = Named(Grown, FolderOf[a], a)
  <2>1. ~(len < len) /\ \A a \in Aliases : FolderOf[a] \in Folders
    BY <1>3, FoldersAssumption
  <2> QED
    BY <1>2, <1>3, <1>5, <1>6, <2>1, NamedWritten
<1>9. Ends' = Ends
  BY <1>2, <1>3, <1>7 DEF Ends
<1>10. Growing'
  BY <1>1, <1>3, <1>7 DEF Growing
<1>11. Entries'
  BY <1>3, <1>8, EntriesKept
<1> QED
  BY <1>2, <1>7, <1>9, <1>10, <1>11 DEF CardInv, Steady

(* The folder gets the length with which the new entry is found.           *)
LEMMA CardCount ==
  ASSUME LoopInv, CardInv, Clean, Count
  PROVE  CardInv' /\ Steady /\ fs'.len = [fs.len EXCEPT ![Folder] = fs.len[Folder] + 1]
<1> DEFINE f == Folder
           len == fs.len[f]
<1>1. /\ LinkingStep /\ iop = "count" /\ at' = at + 1 /\ iop' = "batch"
      /\ fs' = [fs EXCEPT !.len[f] = @ + 1]
  BY DEF Count, Lengthen, Made, LinkingStep, LoopInv, Batches
<1>2. Grown = fs /\ Longer /\ Grown' = fs' /\ ~Longer'
  BY <1>1 DEF Grown, Longer
<1>3. /\ f \in Folders /\ fs \in FileSystem /\ Tidy(fs, Ends) /\ Entries /\ Growing
      /\ InTurn \in Aliases /\ FolderOf[InTurn] = f /\ ~Linked(InTurn)
      /\ \A a \in Aliases : Linked(a)' <=> Linked(a) \/ a = InTurn
      /\ len \in Nat \ {0} /\ ClusterPages \in Nat \ {0}
  BY <1>1, <1>2, LinkingFacts DEF Folder
<1>4. Record(fs, f, len) = New /\ Ends[f] = len \div ClusterPages
  BY <1>1, <1>2, <1>3 DEF Growing, Ends
<1>5. /\ fs' \in FileSystem /\ fs'.fat = fs.fat /\ fs'.pages = fs.pages
      /\ fs'.len = [fs.len EXCEPT ![f] = len + 1]
  <2>1. fs.len \in [Folders -> Nat] /\ len + 1 \in Nat
    BY <1>3 DEF FileSystem
  <2>2. fs'.fat = fs.fat /\ fs'.pages = fs.pages /\ fs'.len = [fs.len EXCEPT ![f] = len + 1]
    BY <1>1, <1>3 DEF FileSystem
  <2>3. [fs.len EXCEPT ![f] = len + 1] \in [Folders -> Nat]
    BY <2>1
  <2> QED
    BY <1>1, <1>3, <2>2, <2>3 DEF FileSystem
<1>6. /\ fs'.len[f] = len + 1 /\ fs'.len[f] - 1 = len /\ fs'.len[f] \in Nat \ {0}
      /\ \A g \in Folders : g # f => fs'.len[g] = fs.len[g]
  <2>1. fs.len \in [Folders -> Nat] /\ len + 1 \in Nat \ {0} /\ len + 1 - 1 = len
    BY <1>3 DEF FileSystem
  <2>2. fs'.len[f] = len + 1 /\ \A g \in Folders : g # f => fs'.len[g] = fs.len[g]
    BY <1>3, <1>5, <2>1
  <2>3. \A y \in Int : y = len + 1 => y - 1 = len /\ y \in Nat \ {0}
    BY <1>3
  <2>4. fs'.len[f] - 1 = len /\ fs'.len[f] \in Nat \ {0}
    <3>1. len + 1 \in Int
      BY <1>3
    <3> QED
      BY <2>2, <2>3, <3>1, Zenon
  <2> QED
    BY <2>2, <2>4
<1>7. Ends' = Ends
  BY <1>2, <1>3, <1>6 DEF Ends
<1>8. \A g, k : ClusterAt(fs', g, k) = ClusterAt(fs, g, k)
  BY <1>5, SameChains
<1>9. Tidy(fs', Ends)
  <2>1. \A g \in Folders : Chain(fs', g, Ends[g]) /\ fs'.len[g] \in Nat \ {0}
    BY <1>3, <1>5, <1>6, <1>8 DEF Tidy, Chain
  <2>2. \A g \in Folders : (fs'.len[g] - 1) \div ClusterPages <= Ends[g]
    <3> TAKE g \in Folders
    <3>1. CASE g = f
      <4>1. len \div ClusterPages \in Nat
        BY <1>3, DivFacts
      <4> QED
        BY <1>4, <1>6, <3>1, <4>1
    <3>2. CASE g # f
      BY <1>3, <1>6, <3>2 DEF Tidy
    <3> QED
      BY <3>1, <3>2
  <2>3. \A g, h \in Folders : g # h =>
           \A i \in 0 .. Ends[g], j \in 0 .. Ends[h] : ClusterAt(fs', g, i) # ClusterAt(fs', h, j)
    BY <1>3, <1>8 DEF Tidy
  <2> QED
    BY <2>1, <2>2, <2>3 DEF Tidy
<1>10. \A g, q : (HasPage(fs', g, q) <=> HasPage(fs, g, q)) /\ Record(fs', g, q) = Record(fs, g, q)
  BY <1>5, <1>8 DEF HasPage, Record
<1>11. HasPage(fs, f, len)
  <2>1. len \div ClusterPages <= Ends[f] /\ len \in Nat
    <3>1. len \in Nat /\ len \div ClusterPages \in Nat
      BY <1>3, DivFacts
    <3> QED
      BY <1>4, <3>1
  <2> QED
    BY <1>3, <2>1, PageFound
<1>12. 0 .. fs'.len[f] - 1 = (0 .. len - 1) \cup {len}
  <2>1. 0 .. len = (0 .. len - 1) \cup {len}
    BY <1>3
  <2> QED
    BY <1>6, <2>1
<1>13. \A a \in Aliases \ {InTurn} : Named(fs', FolderOf[a], a) = Named(fs, FolderOf[a], a)
  <2> TAKE a \in Aliases \ {InTurn}
  <2>1. FolderOf[a] \in Folders
    BY FoldersAssumption
  <2>2. CASE FolderOf[a] # f
    BY <1>6, <1>10, <2>1, <2>2 DEF Named
  <2>3. CASE FolderOf[a] = f
    <3>1. Record(fs, f, len).name # a
      BY <1>4 DEF New
    <3>2. \A q : q \in Named(fs', f, a) <=> q \in Named(fs, f, a)
      BY <1>10, <1>12, <3>1 DEF Named
    <3> QED
      BY <2>3, <3>2
  <2> QED
    BY <2>2, <2>3
<1>14. Named(fs', f, InTurn) = {len}
  <2>1. Named(fs, f, InTurn) = {}
    BY <1>2, <1>3 DEF Entries
  <2>2. Record(fs, f, len).exists /\ Record(fs, f, len).name = InTurn
    BY <1>4 DEF New
  <2>3. \A q : q \in Named(fs', f, InTurn) <=> q = len
    BY <1>10, <1>11, <1>12, <2>1, <2>2 DEF Named
  <2> QED
    BY <2>3
<1>15. Entries'
  <2>1. One(Named(Grown', FolderOf[InTurn], InTurn))
    BY <1>2, <1>3, <1>14 DEF One
  <2>2. \A a \in Aliases \ {InTurn} :
          (Linked(a)' <=> Linked(a)) /\ Named(Grown', FolderOf[a], a) = Named(Grown, FolderOf[a], a)
    BY <1>2, <1>3, <1>13
  <2> QED
    BY <1>3, <2>1, <2>2, EntriesMove
<1>16. Growing'
  BY <1>1 DEF Growing
<1> QED
  BY <1>2, <1>5, <1>7, <1>9, <1>15, <1>16 DEF CardInv, Steady

(* The one entry of an alias that is unlinked.                             *)
LEMMA CardUnlink == ASSUME LoopInv, CardInv, Clean, Unlink PROVE CardInv'
<1> DEFINE f == Folder
<1>0. PICK b : b = InTurn
  OBVIOUS
<1>1. /\ session = "delete" /\ iop = "batch" /\ iop' = "batch" /\ at <= last
      /\ UNCHANGED <<eeVars, original>> /\ (at' = at + 1)
  BY DEF Unlink, InBatch, Made, NotMade
<1>2. Grown = fs /\ ~Longer /\ Grown' = fs' /\ ~Longer'
  BY <1>1 DEF Grown, Longer
<1>3. b \in Aliases /\ b = Listed(at) /\ at \in 1 .. NumLinked /\ b # original /\ Linked(b) /\ NumLinked \in Nat
  BY <1>0, <1>1, InTurnDelete, LinkedCount DEF LoopInv, Loops
<1>4. f \in Folders /\ FolderOf[b] = f /\ fs \in FileSystem /\ Tidy(fs, Ends) /\ Entries
  BY <1>0, <1>2, <1>3, FoldersAssumption DEF CardInv, Folder
<1>5. \E r : Named(fs, f, b) = {r}
  BY <1>2, <1>3, <1>4 DEF Entries, One
<1>6. PICK r : Named(fs, f, b) = {r}
  BY <1>5
<1> DEFINE e == [New EXCEPT !.exists = FALSE]
<1>7. FirstNamed(fs, f, b) = r /\ fs' = WithRecord(fs, f, r, e)
  <2>1. fs.len[f] \in Nat
    BY <1>4 DEF Tidy
  <2>2. r \in Nat
    BY <1>6, <2>1 DEF Named
  <2>3. FirstNamed(fs, f, b) = r
    BY <1>6, <2>2 DEF FirstNamed
  <2> QED
    BY <1>0, <1>6, <2>3 DEF Unlink, Unlinked
<1>8. r \in Nat /\ r < fs.len[f] /\ HasPage(fs, f, r) /\ Record(fs, f, r).exists /\ Record(fs, f, r).name = b
  <2>1. fs.len[f] \in Nat
    BY <1>4 DEF Tidy
  <2> QED
    BY <1>6, <2>1 DEF Named
<1>9. e \in Entry /\ ~e.exists
  <2>1. b \in 0 .. NumAliases
    BY <1>3, SizesAssumption DEF Aliases
  <2> QED
    BY <1>0, <2>1 DEF New, Entry
<1> HIDE DEF e
<1>10. fs' \in FileSystem /\ fs'.fat = fs.fat /\ fs'.len = fs.len /\ Tidy(fs', Ends)
  BY <1>4, <1>7, <1>8, <1>9, Written, StillTidy
<1>11. ASSUME NEW a \in Aliases
       PROVE  Named(fs', FolderOf[a], a) = IF FolderOf[a] = f THEN Named(fs, FolderOf[a], a) \ {r}
                                           ELSE Named(fs, FolderOf[a], a)
  <2>1. FolderOf[a] \in Folders
    BY FoldersAssumption
  <2>2. Named(fs', FolderOf[a], a) = IF FolderOf[a] = f /\ r < fs.len[f]
                                     THEN (Named(fs, FolderOf[a], a) \ {r}) \cup (IF e.exists /\ e.name = a THEN {r} ELSE {})
                                     ELSE Named(fs, FolderOf[a], a)
    <3>1. /\ fs \in FileSystem /\ Tidy(fs, Ends) /\ f \in Folders /\ r \in Nat /\ HasPage(fs, f, r)
          /\ e \in Entry /\ fs' = WithRecord(fs, f, r, e)
      BY <1>4, <1>7, <1>8, <1>9
    <3>2. \A g \in Folders : \A x :
            Named(fs', g, x) = IF g = f /\ r < fs.len[f]
                               THEN (Named(fs, g, x) \ {r}) \cup (IF e.exists /\ e.name = x THEN {r} ELSE {})
                               ELSE Named(fs, g, x)
      BY ONLY <3>1, NamedWritten
    <3> QED
      BY ONLY <2>1, <3>2
  <2> QED
    BY <1>8, <1>9, <2>2
<1>12. Ends' = Ends
  BY <1>2, <1>10 DEF Ends
<1>13. ASSUME NEW a \in Aliases, a # b
       PROVE  (Linked(a)' <=> Linked(a)) /\ Named(Grown', FolderOf[a], a) = Named(Grown, FolderOf[a], a)
  <2>1. FolderOf[a] = f => r \notin Named(fs, FolderOf[a], a)
    BY <1>8, <1>13 DEF Named
  <2>2. Named(Grown', FolderOf[a], a) = Named(Grown, FolderOf[a], a)
    BY <1>2, <1>11, <2>1
  <2>3. Reached = at /\ Reached' = at + 1 /\ \A k : Listed(k)' = Listed(k)
    BY <1>1 DEF Reached, Listed
  <2>4. NumLinked' = NumLinked
    BY <1>1 DEF NumLinked
  <2>5. at .. NumLinked = {at} \cup (at + 1 .. NumLinked)
    BY <1>3
  <2>6. (\E k \in at .. NumLinked : a = Listed(k)) <=> (\E k \in at + 1 .. NumLinked : a = Listed(k))
    BY <1>3, <1>13, <2>5
  <2>7. Linked(a)' <=> Linked(a)
    BY <1>1, <2>3, <2>4, <2>6 DEF Linked, eeVars
  <2> QED
    BY <2>2, <2>7
<1>14. ~Linked(b)'
  <2>1. Reached' = at + 1 /\ NumLinked' = NumLinked /\ \A k : Listed(k)' = Listed(k)
    BY <1>1 DEF Reached, Listed, NumLinked
  <2>2. \A k \in at + 1 .. NumLinked : k \in 1 .. NumLinked /\ k # at
    BY <1>3
  <2>3. ~ \E k \in at + 1 .. NumLinked : b = Listed(k)
    BY <1>3, <2>2, ListedFacts
  <2> QED
    BY <1>1, <1>3, <2>1, <2>3 DEF Linked, eeVars
<1>15. Entries'
  <2>1. Named(Grown', FolderOf[b], b) = {}
    BY <1>2, <1>3, <1>4, <1>6, <1>11
  <2> QED
    BY <1>3, <1>4, <1>13, <1>14, <2>1, EntriesMove
<1>16. Growing'
  BY <1>1 DEF Growing
<1> QED
  BY <1>2, <1>10, <1>12, <1>15, <1>16 DEF CardInv

LEMMA CardNext == ASSUME LoopInv, CardInv, [Next]_vars PROVE CardInv'
<1>1. CASE EENext
  BY <1>1, CardEE
<1>2. CASE MctoolsNext
  <2> SUFFICES ASSUME Clean, Clean' PROVE CardInv'
    BY <1>2, LoopMctools DEF BatchStep, CardInv
  <2>1. ASSUME NEW kind, Fault(kind) PROVE FALSE
    BY <2>1, Failing DEF Clean
  <2>2. CASE SlotFails \/ GrowFails \/ PlaceOrCountFails \/ UnlinkFails
    BY <2>1, <2>2 DEF SlotFails, GrowFails, PlaceOrCountFails, UnlinkFails
  <2> QED
    BY <1>2, <2>2, CardCreateInSlot, CardNoSlot, CardGrow, CardMark, CardPlaceNew, CardCount,
        CardUnlink
       DEF MctoolsNext
<1>3. CASE UNCHANGED vars
  <2>1. Grown' = Grown /\ fs' = fs /\ Clean' = Clean
    BY <1>3 DEF vars, cardVars, iopVars, Grown, Clean
  <2>2. Ends' = Ends /\ Growing' = Growing
    BY <1>3, <2>1 DEF vars, cardVars, eeVars, iopVars, Ends, Longer, Growing, Folder, InTurn,
        Listed, New
  <2>3. Entries' <=> Entries
    BY <1>3, <2>1 DEF vars, cardVars, eeVars, iopVars, Entries, Linked, Reached, Listed, NumLinked
  <2> QED
    BY <2>1, <2>2, <2>3 DEF CardInv
<1> QED
  BY <1>1, <1>2, <1>3 DEF Next, Over

-----------------------------------------------------------------------------
(* What is assumed of the card a session starts on is what the invariant   *)
(* says of it.                                                             *)
LEMMA SoundIsTidy ==
  ASSUME NEW s \in FileSystem, Sound(s), NEW ends,
         \A f \in Folders : ends[f] = (s.len[f] - 1) \div ClusterPages
  PROVE  Tidy(s, ends)
<1>1. NumClusters \in Nat /\ ClusterPages \in Nat \ {0}
  BY SizesAssumption
<1>2. ASSUME NEW f \in Folders
      PROVE  s.len[f] \in Nat \ {0} /\ ends[f] \in Nat /\ Chain(s, f, ends[f])
  <2>1. s.len[f] \in Nat \ {0}
    <3>1. s.len[f] \in Nat /\ s.len[f] > 0
      BY DEF FileSystem, Sound
    <3> QED
      BY <3>1
  <2>2. ends[f] \in Nat
    <3>1. s.len[f] - 1 \in Nat
      BY <2>1
    <3> QED
      BY <1>1, <3>1, DivFacts
  <2>3. ends[f] <= NumClusters /\ ClusterAt(s, f, ends[f]) \in Clusters
    BY DEF Sound, HasPage
  <2>4. \A k \in 0 .. ends[f] : ClusterAt(s, f, k) \in Clusters
    <3>1. PICK m : m = ends[f]
      OBVIOUS
    <3>2. m \in 0 .. NumClusters /\ ClusterAt(s, f, m) \in Clusters
      BY <1>1, <2>2, <2>3, <3>1
    <3>3. \A k \in 0 .. m : ClusterAt(s, f, k) \in Clusters
      BY <3>2, ChainBefore
    <3> QED
      BY <3>1, <3>3
  <2>5. s.fat[ClusterAt(s, f, ends[f])] = EOC
    BY DEF Sound, EndOf
  <2> QED
    BY <1>1, <2>1, <2>2, <2>3, <2>4, <2>5 DEF Chain
<1>3. ASSUME NEW f \in Folders, NEW k \in 0 .. ends[f] PROVE ClusterAt(s, f, k) \in ChainOf(s, f)
  <2>1. k \in 0 .. NumClusters
    BY <1>1, <1>2 DEF Chain
  <2> QED
    BY <1>2, <2>1 DEF ChainOf, Chain
<1>4. ASSUME NEW f \in Folders, NEW g \in Folders, f # g, NEW i \in 0 .. ends[f], NEW j \in 0 .. ends[g]
      PROVE  ClusterAt(s, f, i) # ClusterAt(s, g, j)
  <2>1. ChainOf(s, f) \cap ChainOf(s, g) = {}
    BY <1>4 DEF Sound
  <2> QED
    BY <1>3, <2>1
<1>5. \A f \in Folders : (s.len[f] - 1) \div ClusterPages <= ends[f]
  BY <1>2
<1> QED
  BY <1>2, <1>4, <1>5 DEF Tidy

LEMMA TidyIsSound ==
  ASSUME NEW s, NEW ends, Tidy(s, ends), \A f \in Folders : ends[f] = (s.len[f] - 1) \div ClusterPages
  PROVE  Sound(s)
<1> SUFFICES ASSUME NEW f \in Folders
             PROVE  /\ s.len[f] > 0 /\ HasPage(s, f, s.len[f] - 1)
                    /\ EndOf(s, f) = {ClusterAt(s, f, (s.len[f] - 1) \div ClusterPages)}
                    /\ \A g \in Folders \ {f} : ChainOf(s, f) \cap ChainOf(s, g) = {}
  BY DEF Sound
<1>1. s.len[f] > 0 /\ s.len[f] - 1 \in Nat /\ ends[f] \in Nat
  <2>1. s.len[f] \in Nat \ {0} /\ Chain(s, f, ends[f])
    BY DEF Tidy
  <2> QED
    BY <2>1 DEF Chain
<1>2. HasPage(s, f, s.len[f] - 1)
  BY <1>1, PageFound
<1>3. EndOf(s, f) = {ClusterAt(s, f, ends[f])}
  BY ChainRange DEF Tidy
<1>4. ASSUME NEW g \in Folders \ {f} PROVE ChainOf(s, f) \cap ChainOf(s, g) = {}
  <2>1. /\ ChainOf(s, f) = {ClusterAt(s, f, k) : k \in 0 .. ends[f]}
        /\ ChainOf(s, g) = {ClusterAt(s, g, k) : k \in 0 .. ends[g]}
    BY ChainRange DEF Tidy
  <2>2. \A i \in 0 .. ends[f], j \in 0 .. ends[g] : ClusterAt(s, f, i) # ClusterAt(s, g, j)
    BY DEF Tidy
  <2> QED
    BY <2>1, <2>2
<1> QED
  BY <1>1, <1>2, <1>3, <1>4

LEMMA CountNamed ==
  ASSUME NEW s \in FileSystem, NEW f \in Folders, NEW a
  PROVE  /\ Cardinality(Named(s, f, a)) = 1 <=> One(Named(s, f, a))
         /\ Cardinality(Named(s, f, a)) = 0 <=> Named(s, f, a) = {}
<1>1. IsFiniteSet(Named(s, f, a))
  <2>1. s.len[f] \in Nat
    BY DEF FileSystem
  <2>2. IsFiniteSet(0 .. s.len[f] - 1)
    BY <2>1, FS_Interval
  <2> QED
    BY <2>2, FS_Subset DEF Named
<1>2. \A x : Cardinality({x}) = 1
  BY FS_Singleton
<1> QED
  BY <1>1, <1>2, FS_EmptySet, FS_Singleton DEF One

LEMMA CardInit == Init => CardInv
<1> SUFFICES ASSUME Init PROVE CardInv
  OBVIOUS
<1>1. PICK from \in Installations : fs = from.fs /\ original = from.original
  BY DEF Init
<1>2. /\ fs \in FileSystem /\ Sound(fs)
      /\ \A a \in Aliases : Cardinality(Named(fs, FolderOf[a], a)) = IF a = original THEN 1 ELSE 0
  <2>1. from \in [fs : FileSystem, original : 1 .. NumAliases + 1]
    BY InstallationsAssumption
  <2> QED
    BY <1>1, <2>1, StartsAssumption
<1>3. session = "idle" /\ outcome = "none" /\ iop = "idle"
  BY DEF Init
<1>4. Grown = fs /\ ~Longer
  BY <1>3 DEF Grown, Longer
<1>5. Tidy(fs, Ends)
  <2>1. \A f \in Folders : Ends[f] = (fs.len[f] - 1) \div ClusterPages
    BY <1>4 DEF Ends
  <2> QED
    BY <1>2, <2>1, SoundIsTidy
<1>6. Growing
  BY <1>3 DEF Growing
<1>7. Entries
  <2> SUFFICES ASSUME NEW a \in Aliases
               PROVE  IF Linked(a) THEN One(Named(fs, FolderOf[a], a)) ELSE Named(fs, FolderOf[a], a) = {}
    BY <1>4 DEF Entries
  <2>1. Linked(a) <=> a = original
    BY <1>3 DEF Linked
  <2>2. FolderOf[a] \in Folders
    BY FoldersAssumption
  <2> QED
    BY <1>2, <2>1, <2>2, CountNamed
<1> QED
  BY <1>2, <1>4, <1>5, <1>6, <1>7 DEF CardInv

-----------------------------------------------------------------------------
(* Throughout: the loops pass over each alias once, and while nothing      *)
(* failed the folders are tidy and hold an entry of those reached.         *)
THEOREM Invariance == Spec => [](LoopInv /\ CardInv)
<1>1. LoopInv /\ CardInv /\ [Next]_vars => (LoopInv /\ CardInv)'
  BY LoopNext, CardNext
<1> QED
  BY <1>1, LoopInit, CardInit, PTL DEF Spec

(* Between the calls every folder is sound, on a card of any size and with *)
(* any folders, if nothing failed and there was room (AddFATRecord,        *)
(* CreateNewVirtualDirent, DeleteVirtualDirent).                           *)
THEOREM StaySound == Spec => []FoldersSound
<1>1. CardInv => FoldersSound
  <2> SUFFICES ASSUME CardInv, Clean, iop = "idle" PROVE Sound(fs)
    BY DEF FoldersSound, Clean
  <2>1. Tidy(fs, Ends) /\ \A f \in Folders : Ends[f] = (fs.len[f] - 1) \div ClusterPages
    BY DEF CardInv, Grown, Longer, Ends
  <2> QED
    BY <2>1, TidyIsSound
<1> QED
  BY <1>1, Invariance, PTL

(* However long the list of aliases and short the batches, success means   *)
(* one entry for each alias in its folder (CreateCrossLinkedFiles).        *)
THEOREM EachLinkedOnce == Spec => []LinkedOnce
<1>1. LoopInv /\ CardInv => LinkedOnce
  <2> SUFFICES ASSUME LoopInv, CardInv, Clean, outcome = "linked", session = "idle", NEW a \in Aliases
               PROVE  Cardinality(Named(fs, FolderOf[a], a)) = 1
    BY DEF LinkedOnce, Clean
  <2>1. iop = "idle" /\ Grown = fs
    BY DEF LoopInv, Batches, Grown
  <2>2. One(Named(fs, FolderOf[a], a)) /\ fs \in FileSystem /\ FolderOf[a] \in Folders
    BY <2>1, FoldersAssumption DEF CardInv, Entries, Linked
  <2> QED
    BY <2>2, CountNamed
<1> QED
  BY <1>1, Invariance, PTL

(* Removing them leaves the entry of the original and no other: the list   *)
(* of the uninstall file names every alias but that one.                   *)
THEOREM AllUnlinked == Spec => []UnlinkedAll
<1>1. LoopInv /\ CardInv => UnlinkedAll
  <2> SUFFICES ASSUME LoopInv, CardInv, Clean, outcome = "unlinked", NEW a \in Aliases
               PROVE  Cardinality(Named(fs, FolderOf[a], a)) = IF a = original THEN 1 ELSE 0
    BY DEF UnlinkedAll, Clean
  <2>1. session = "idle" /\ iop = "idle" /\ Grown = fs
    BY DEF LoopInv, Loops, Batches, Grown
  <2>2. Linked(a) <=> a = original
    BY <2>1 DEF Linked
  <2>3. /\ IF a = original THEN One(Named(fs, FolderOf[a], a)) ELSE Named(fs, FolderOf[a], a) = {}
        /\ fs \in FileSystem /\ FolderOf[a] \in Folders
    BY <2>1, <2>2, FoldersAssumption DEF CardInv, Entries
  <2> QED
    BY <2>3, CountNamed
<1> QED
  BY <1>1, Invariance, PTL

-----------------------------------------------------------------------------
(* The room.  What each folder may still grow by is counted in clusters    *)
(* behind the end of its chain; there are as many free ones.               *)
Waiting(f) == {a \in Aliases : FolderOf[a] = f /\ ~Linked(a)}
Wanted == [f \in Folders |-> fs.len[f] + Cardinality(Waiting(f))]
Behind(ends, wanted) ==
  {p \in Folders \X (0 .. NumClusters + NumAliases) :
     p[2] > ends[p[1]] /\ p[2] * ClusterPages < wanted[p[1]]}
Missing == Behind(Ends, Wanted)
Roomy == failures = 0 /\ Cardinality(FreeClusters(start)) >= RoomFor
RoomLeft ==
  /\ iop = "place" => target >= AllocStart
  /\ outcome = "none" => Cardinality(FreeClusters(Grown)) >= Cardinality(Missing)
RoomInv == Roomy => systemArea = "intact" /\ RoomLeft

LEMMA BehindFinite == ASSUME NEW ends, NEW wanted PROVE IsFiniteSet(Behind(ends, wanted))
<1>1. NumClusters + NumAliases \in Int /\ 0 \in Int
  BY SizesAssumption
<1>2. IsFiniteSet(0 .. NumClusters + NumAliases)
  BY <1>1, FS_Interval
<1>3. IsFiniteSet(Folders \X (0 .. NumClusters + NumAliases))
  BY <1>2, FoldersAssumption, FS_Product
<1> QED
  BY <1>3, FS_Subset DEF Behind

LEMMA BehindLess ==
  ASSUME NEW ends, NEW wanted, NEW more,
         \A f \in Folders : wanted[f] \in Nat /\ more[f] \in Nat /\ wanted[f] <= more[f]
  PROVE  Cardinality(Behind(ends, wanted)) <= Cardinality(Behind(ends, more))
<1>1. ClusterPages \in Nat /\ \A j \in 0 .. NumClusters + NumAliases : j * ClusterPages \in Nat
  BY SizesAssumption
<1>2. Behind(ends, wanted) \subseteq Behind(ends, more)
  <2> SUFFICES ASSUME NEW f \in Folders, NEW j \in 0 .. NumClusters + NumAliases,
                      j * ClusterPages < wanted[f]
               PROVE  j * ClusterPages < more[f]
    BY DEF Behind
  <2> DEFINE n == j * ClusterPages
  <2>1. n \in Nat /\ wanted[f] \in Nat /\ more[f] \in Nat /\ wanted[f] <= more[f]
    BY <1>1
  <2>2. n < wanted[f]
    OBVIOUS
  <2> HIDE DEF n
  <2>3. n < more[f]
    BY <2>1, <2>2
  <2> QED
    BY <2>3 DEF n
<1> QED
  BY <1>2, BehindFinite, FS_Subset

LEMMA BehindGrows ==
  ASSUME NEW ends, NEW longer, NEW wanted, NEW f \in Folders,
         \A g \in Folders : ends[g] \in Nat,
         \A g \in Folders : longer[g] = IF g = f THEN ends[g] + 1 ELSE ends[g],
         ends[f] < NumClusters, (ends[f] + 1) * ClusterPages < wanted[f]
  PROVE  /\ Cardinality(Behind(ends, wanted)) \in Nat \ {0}
         /\ Cardinality(Behind(longer, wanted)) = Cardinality(Behind(ends, wanted)) - 1
<1> DEFINE p == <<f, ends[f] + 1>>
<1>1. p \in Behind(ends, wanted)
  <2>1. ends[f] + 1 \in 0 .. NumClusters + NumAliases /\ ends[f] + 1 > ends[f]
    BY SizesAssumption
  <2> QED
    BY <2>1 DEF Behind
<1>2. Behind(longer, wanted) = Behind(ends, wanted) \ {p}
  <2>1. ASSUME NEW g \in Folders, NEW j \in 0 .. NumClusters + NumAliases
        PROVE  j > longer[g] <=> j > ends[g] /\ <<g, j>> # p
    <3>1. j \in Nat /\ ends[g] \in Nat /\ ends[f] \in Nat
      BY SizesAssumption
    <3>2. CASE g = f
      <4>1. j > ends[f] + 1 <=> j > ends[f] /\ j # ends[f] + 1
        BY <3>1
      <4> QED
        BY <3>2, <4>1
    <3>3. CASE g # f
      BY <3>3
    <3> QED
      BY <3>2, <3>3
  <2>2. ASSUME NEW q \in Folders \X (0 .. NumClusters + NumAliases)
        PROVE  q[2] > longer[q[1]] <=> q[2] > ends[q[1]] /\ q # p
    <3>1. q[1] \in Folders /\ q[2] \in 0 .. NumClusters + NumAliases /\ q = <<q[1], q[2]>>
      OBVIOUS
    <3> HIDE DEF p
    <3> QED
      BY <2>1, <3>1
  <2> HIDE DEF p
  <2> QED
    BY <2>2 DEF Behind
<1> HIDE DEF p
<1>3. /\ Cardinality(Behind(ends, wanted)) \in Nat
      /\ Cardinality(Behind(longer, wanted)) = Cardinality(Behind(ends, wanted)) - 1
  BY <1>1, <1>2, BehindFinite, FS_RemoveElement, FS_CardinalityType
<1>4. Cardinality(Behind(ends, wanted)) # 0
  BY <1>1, BehindFinite, FS_EmptySet
<1> QED
  BY <1>3, <1>4

LEMMA WaitingFacts ==
  ASSUME NEW f
  PROVE  IsFiniteSet(Waiting(f)) /\ Cardinality(Waiting(f)) \in Nat
<1>1. IsFiniteSet(Aliases)
  <2>1. 1 \in Int /\ NumAliases \in Int
    BY SizesAssumption
  <2> QED
    BY <2>1, FS_Interval DEF Aliases
<1> QED
  BY <1>1, FS_Subset, FS_CardinalityType DEF Waiting

LEMMA FreeFinite == ASSUME NEW s PROVE IsFiniteSet(FreeClusters(s)) /\ Cardinality(FreeClusters(s)) \in Nat
  BY ClustersFinite, FS_Subset, FS_CardinalityType DEF FreeClusters

(* The clusters of a folder hold its records, and ClusterPages each.       *)
LEMMA Shift ==
  ASSUME NEW n \in Nat \ {0}, NEW len \in Nat \ {0}, NEW e, e = (len - 1) \div n,
         NEW w \in Nat, NEW a \in Nat, w <= a, NEW j \in Nat, j > e, j * n < len + w
  PROVE  j - e - 1 \in 0 .. a - 1 /\ (j - e - 1) * n < w
<1>1. len - 1 \in Nat /\ e \in Nat
  <2>1. len - 1 \in Nat
    OBVIOUS
  <2> QED
    BY <2>1, DivFacts
<1>2. len - 1 = e * n + ((len - 1) % n) /\ (len - 1) % n \in 0 .. n - 1
  BY <1>1, DivRest, DivFacts
<1>3. len <= e * n + n
  <2>1. e * n \in Int /\ (len - 1) % n \in Int /\ (len - 1) % n <= n - 1
    BY <1>1, <1>2
  <2> QED
    BY <1>2, <2>1
<1> DEFINE k == j - e - 1
<1>4. k \in Nat /\ j = k + e + 1
  BY <1>1
<1> HIDE DEF k
<1>5. j * n = k * n + e * n + n
  BY <1>1, <1>4
<1>6. k * n \in Nat /\ e * n \in Nat /\ k <= k * n
  BY <1>1, <1>4
<1>7. k * n < w
  BY <1>3, <1>5, <1>6
<1>8. k < a
  BY <1>4, <1>6, <1>7
<1> QED
  BY <1>4, <1>7, <1>8 DEF k

LEMMA RoomInit == Init => RoomInv
<1> SUFFICES ASSUME Init PROVE RoomInv
  OBVIOUS
<1>1. start = fs /\ systemArea = "intact" /\ iop = "idle" /\ session = "idle"
      /\ outcome = "none"
  BY DEF Init
<1>2. Grown = fs /\ ~Longer
  BY <1>1 DEF Grown, Longer
<1>3. Cardinality(FreeClusters(start)) \in Nat
  BY FreeFinite
<1> DEFINE N == {p \in Folders \X (0 .. NumAliases - 1) : p[2] * ClusterPages < NewIn(p[1])}
<1>4. RoomFor = Cardinality(N)
  BY DEF RoomFor
<1>5. IsFiniteSet(N)
  <2>1. 0 \in Int /\ NumAliases - 1 \in Int
    BY SizesAssumption
  <2>2. IsFiniteSet(Folders \X (0 .. NumAliases - 1))
    BY <2>1, FoldersAssumption, FS_Interval, FS_Product
  <2> QED
    BY <2>2, FS_Subset
<1>6. ASSUME NEW f \in Folders, NEW j \in 0 .. NumClusters + NumAliases, j > Ends[f], j * ClusterPages < Wanted[f]
      PROVE  <<f, j - Ends[f] - 1>> \in N /\ Ends[f] \in Nat
  <2>1. Ends[f] = (fs.len[f] - 1) \div ClusterPages /\ Wanted[f] = fs.len[f] + Cardinality(Waiting(f))
    BY <1>2 DEF Ends, Wanted
  <2>2. fs.len[f] \in Nat \ {0} /\ Ends[f] \in Nat
    <3>1. Tidy(Grown, Ends)
      BY <1>1, CardInit DEF CardInv, Clean, Init
    <3> QED
      BY <1>2, <3>1 DEF Tidy, Chain
  <2>3. NewIn(f) = Cardinality(Waiting(f))
    <3>1. \A a \in Aliases : Linked(a) <=> a = original
      BY <1>1 DEF Linked
    <3>2. Waiting(f) = {a \in Aliases \ {original} : FolderOf[a] = f}
      BY <3>1 DEF Waiting
    <3> QED
      BY <3>2 DEF NewIn
  <2>4. Cardinality(Waiting(f)) \in Nat /\ Cardinality(Waiting(f)) <= NumAliases
    <3>1. IsFiniteSet(Aliases) /\ Cardinality(Aliases) = NumAliases
      <4>1. 1 \in Int /\ NumAliases \in Int /\ NumAliases \in Nat \ {0}
        BY SizesAssumption
      <4> QED
        BY <4>1, FS_Interval DEF Aliases
    <3>2. Waiting(f) \subseteq Aliases
      BY DEF Waiting
    <3> QED
      BY <3>1, <3>2, FS_Subset, WaitingFacts
  <2>5. ClusterPages \in Nat \ {0} /\ NumAliases \in Nat /\ j \in Nat
    BY SizesAssumption
  <2>6. j - Ends[f] - 1 \in 0 .. NumAliases - 1 /\ (j - Ends[f] - 1) * ClusterPages < Cardinality(Waiting(f))
    <3>1. j * ClusterPages < fs.len[f] + Cardinality(Waiting(f))
      BY <1>6, <2>1
    <3> QED
      BY <1>6, <2>1, <2>2, <2>4, <2>5, <3>1, Shift
  <2> QED
    BY <2>2, <2>3, <2>6
<1>7. Cardinality(Missing) <= Cardinality(N)
  <2> DEFINE h == [p \in Missing |-> <<p[1], p[2] - Ends[p[1]] - 1>>]
  <2>1. ASSUME NEW p \in Missing
        PROVE  /\ p[1] \in Folders /\ p[2] \in Int /\ p = <<p[1], p[2]>> /\ Ends[p[1]] \in Int
               /\ <<p[1], p[2] - Ends[p[1]] - 1>> \in N
    <3>1. /\ p[1] \in Folders /\ p[2] \in 0 .. NumClusters + NumAliases /\ p = <<p[1], p[2]>>
          /\ p[2] > Ends[p[1]] /\ p[2] * ClusterPages < Wanted[p[1]]
      BY DEF Missing, Behind
    <3>2. <<p[1], p[2] - Ends[p[1]] - 1>> \in N /\ Ends[p[1]] \in Nat
      <4> HIDE DEF N
      <4> QED
        BY <1>6, <3>1
    <3> HIDE DEF N
    <3> QED
      BY <3>1, <3>2
  <2>2. ASSUME NEW p \in Missing, NEW q \in Missing, h[p] = h[q] PROVE p = q
    <3>1. p[1] = q[1] /\ p[2] - Ends[p[1]] - 1 = q[2] - Ends[q[1]] - 1
      BY <2>2
    <3> HIDE DEF N
    <3>2. p[2] = q[2]
      <4>1. PICK e : e = Ends[p[1]]
        OBVIOUS
      <4>2. e \in Int /\ p[2] \in Int /\ q[2] \in Int /\ p[2] - e - 1 = q[2] - e - 1
        BY <2>1, <3>1, <4>1
      <4> QED
        BY <4>2
    <3> QED
      BY <2>1, <3>1, <3>2
  <2>3. h \in Injection(Missing, N)
    <3>1. h \in [Missing -> N]
      <4> HIDE DEF N
      <4> QED
        BY <2>1
    <3> HIDE DEF N, h
    <3> QED
      BY <2>2, <3>1 DEF Injection, IsInjective
  <2> HIDE DEF N, h
  <2> QED
    BY <1>5, <2>3, FS_Injection
<1>8. ASSUME Roomy PROVE Cardinality(FreeClusters(Grown)) >= Cardinality(Missing)
  <2>1. Cardinality(N) \in Nat /\ Cardinality(Missing) \in Nat /\ Cardinality(FreeClusters(start)) >= Cardinality(N)
    BY <1>4, <1>5, <1>8, BehindFinite, FS_CardinalityType DEF Roomy, Missing
  <2> HIDE DEF N
  <2> QED
    BY <1>1, <1>2, <1>3, <1>7, <2>1
<1> QED
  BY <1>1, <1>3, <1>8 DEF RoomInv, RoomLeft

(* A step that links no fewer aliases and gives no folder a cluster.       *)
LEMMA WantedLess ==
  ASSUME CardInv, Clean, fs'.len = fs.len, \A a \in Aliases : Linked(a) => Linked(a)'
  PROVE  \A f \in Folders : Wanted[f] \in Nat /\ Wanted'[f] \in Nat /\ Wanted'[f] <= Wanted[f]
<1> SUFFICES ASSUME NEW f \in Folders
             PROVE  Wanted[f] \in Nat /\ Wanted'[f] \in Nat /\ Wanted'[f] <= Wanted[f]
  OBVIOUS
<1>1. fs.len[f] \in Nat
  BY DEF CardInv, FileSystem
<1>2. PICK W : W = Waiting(f)'
  OBVIOUS
<1>3. /\ Cardinality(Waiting(f)) \in Nat /\ Cardinality(W) \in Nat
      /\ Cardinality(W) <= Cardinality(Waiting(f))
  <2>1. W \subseteq Waiting(f)
    BY <1>2 DEF Waiting
  <2> QED
    BY <2>1, WaitingFacts, FS_Subset, FS_CardinalityType
<1>4. Wanted[f] = fs.len[f] + Cardinality(Waiting(f)) /\ Wanted'[f] = fs.len[f] + Cardinality(W)
  BY <1>2 DEF Wanted
<1>5. PICK v : v = Wanted'
  OBVIOUS
<1>6. v[f] \in Nat /\ v[f] <= Wanted[f]
  BY <1>1, <1>3, <1>4, <1>5
<1> QED
  BY <1>1, <1>3, <1>4, <1>5, <1>6

LEMMA RoomStays ==
  ASSUME RoomLeft, outcome = "none", Steady,
         \A f \in Folders : Wanted[f] \in Nat /\ Wanted'[f] \in Nat /\ Wanted'[f] <= Wanted[f]
  PROVE  Cardinality(FreeClusters(Grown')) >= Cardinality(Missing')
<1>1. PICK more : more = Wanted
  OBVIOUS
<1>2. PICK less : less = Wanted'
  OBVIOUS
<1>3. Missing = Behind(Ends, more) /\ Missing' = Behind(Ends, less)
  BY <1>1, <1>2 DEF Missing, Behind, Steady
<1>4. Cardinality(Behind(Ends, less)) <= Cardinality(Behind(Ends, more))
  <2>1. \A f \in Folders : less[f] \in Nat /\ more[f] \in Nat /\ less[f] <= more[f]
    BY <1>1, <1>2
  <2> QED
    BY <2>1, BehindLess
<1>5. FreeClusters(Grown') = FreeClusters(Grown)
  BY DEF FreeClusters, Steady
<1>6. /\ Cardinality(Behind(Ends, less)) \in Nat /\ Cardinality(Behind(Ends, more)) \in Nat
      /\ Cardinality(FreeClusters(Grown)) \in Nat
  BY BehindFinite, FreeFinite, FS_CardinalityType
<1>7. Cardinality(FreeClusters(Grown)) >= Cardinality(Behind(Ends, more))
  BY <1>3 DEF RoomLeft
<1>8. Cardinality(FreeClusters(Grown)) >= Cardinality(Behind(Ends, less))
  BY <1>4, <1>6, <1>7
<1> QED
  BY <1>3, <1>5, <1>8

(* The record that is counted is one the folder no longer waits for.       *)
LEMMA WantedCount ==
  ASSUME LoopInv, CardInv, Clean, Count
  PROVE  \A f \in Folders : Wanted[f] \in Nat /\ Wanted'[f] \in Nat /\ Wanted'[f] <= Wanted[f]
<1>1. LinkingStep /\ at' = at + 1
  BY DEF Count, Made, LinkingStep, LoopInv, Batches
<1>2. PICK b : b = InTurn
  OBVIOUS
<1>3. /\ b \in Aliases /\ ~Linked(b) /\ Folder = FolderOf[b] /\ Folder \in Folders /\ fs \in FileSystem
      /\ \A a \in Aliases : Linked(a)' <=> Linked(a) \/ a = b
  BY <1>1, <1>2, LinkingFacts DEF Folder
<1>4. fs'.len = [fs.len EXCEPT ![Folder] = fs.len[Folder] + 1] /\ fs.len \in [Folders -> Nat]
  BY <1>3, CardCount DEF FileSystem
<1> SUFFICES ASSUME NEW f \in Folders
             PROVE  Wanted[f] \in Nat /\ Wanted'[f] \in Nat /\ Wanted'[f] <= Wanted[f]
  OBVIOUS
<1>5. Wanted[f] = fs.len[f] + Cardinality(Waiting(f)) /\ Wanted'[f] = fs'.len[f] + Cardinality(Waiting(f)')
  BY DEF Wanted
<1>6. IsFiniteSet(Waiting(f)) /\ Cardinality(Waiting(f)) \in Nat
  BY WaitingFacts
<1>7. CASE f = Folder
  <2>1. Waiting(f)' = Waiting(f) \ {b} /\ b \in Waiting(f)
    BY <1>3, <1>7 DEF Waiting
  <2>2. Cardinality(Waiting(f) \ {b}) = Cardinality(Waiting(f)) - 1 /\ Cardinality(Waiting(f) \ {b}) \in Nat
    BY <1>6, <2>1, FS_RemoveElement, FS_CardinalityType
  <2>3. fs'.len[f] = fs.len[f] + 1 /\ fs.len[f] \in Nat
    BY <1>4, <1>7
  <2>4. Wanted'[f] = (fs.len[f] + 1) + (Cardinality(Waiting(f)) - 1)
    BY <1>5, <2>1, <2>2, <2>3
  <2>5. (fs.len[f] + 1) + (Cardinality(Waiting(f)) - 1) = fs.len[f] + Cardinality(Waiting(f))
    BY <1>6, <2>3
  <2> QED
    BY <1>5, <1>6, <2>3, <2>4, <2>5
<1>8. CASE f # Folder
  <2>1. Waiting(f)' = Waiting(f)
    BY <1>3, <1>8 DEF Waiting
  <2>2. fs'.len[f] = fs.len[f] /\ fs.len[f] \in Nat
    BY <1>4, <1>8
  <2> QED
    BY <1>5, <1>6, <2>1, <2>2
<1> QED
  BY <1>7, <1>8

(* A folder that grows waits for the alias in turn, and has no page left   *)
(* for it: one of the clusters that were missing is found.                 *)
LEMMA RoomGrow ==
  ASSUME LoopInv, CardInv, RoomLeft, Clean, Grow
  PROVE  RoomLeft'
<1>1. LinkingStep /\ iop = "grow" /\ at' = at /\ outcome = "none"
  BY DEF Grow, PlaceAt, LinkingStep, LoopInv, Batches, Loops
<1>2. Grown = fs /\ ~Longer
  BY <1>1 DEF Grown, Longer
<1>3. PICK f : f = Folder
  OBVIOUS
<1>4. PICK len : len = fs.len[f]
  OBVIOUS
<1>5. /\ f \in Folders /\ fs \in FileSystem /\ Tidy(fs, Ends) /\ Growing
      /\ InTurn \in Aliases /\ FolderOf[InTurn] = f /\ ~Linked(InTurn)
      /\ \A a \in Aliases : Linked(a)' <=> Linked(a)
      /\ len \in Nat \ {0} /\ ClusterPages \in Nat \ {0}
  BY <1>1, <1>2, <1>3, <1>4, LinkingFacts DEF Folder
<1>6. len % ClusterPages = 0 /\ Ends[f] = (len - 1) \div ClusterPages
  BY <1>1, <1>2, <1>3, <1>4, <1>5 DEF Growing, Ends
<1>7. (Ends[f] + 1) * ClusterPages = len
  <2>1. len \div ClusterPages = Ends[f] + 1
    BY <1>5, <1>6, DivLast
  <2>2. len = (len \div ClusterPages) * ClusterPages + (len % ClusterPages)
    BY <1>5, DivRest
  <2>3. (len \div ClusterPages) * ClusterPages \in Int
    BY <1>5, DivFacts
  <2> QED
    BY <1>5, <1>6, <2>1, <2>2, <2>3
<1>8. len < Wanted[f]
  <2>1. Wanted[f] = len + Cardinality(Waiting(f))
    BY <1>4, <1>5 DEF Wanted
  <2>2. InTurn \in Waiting(f)
    BY <1>5 DEF Waiting
  <2>3. IsFiniteSet(Waiting(f)) /\ Cardinality(Waiting(f)) \in Nat /\ Cardinality(Waiting(f)) # 0
    BY <2>2, WaitingFacts, FS_EmptySet
  <2> QED
    BY <1>5, <2>1, <2>3
<1>9. \A g \in Folders : Ends[g] \in Nat /\ Ends[g] < NumClusters
  BY <1>5, ChainShort, ClusterFacts DEF Tidy, Chain
<1>10. Cardinality(Missing) \in Nat \ {0}
  <2> DEFINE longer == [g \in Folders |-> IF g = f THEN Ends[g] + 1 ELSE Ends[g]]
  <2>1. \A g \in Folders : longer[g] = IF g = f THEN Ends[g] + 1 ELSE Ends[g]
    OBVIOUS
  <2> HIDE DEF longer
  <2> QED
    BY <1>5, <1>7, <1>8, <1>9, <2>1, BehindGrows DEF Missing
<1>11. FreeClusters(fs) # {}
  <2>1. Cardinality(FreeClusters(fs)) >= Cardinality(Missing) /\ Cardinality(FreeClusters(fs)) \in Nat
    BY <1>1, <1>2, FreeFinite DEF RoomLeft
  <2>2. Cardinality(FreeClusters(fs)) # 0
    BY <1>10, <2>1
  <2> QED
    BY <2>2, FS_EmptySet
<1>12. Grew
  BY <1>11, CardGrow
<1>13. PICK x \in FreeClusters(fs) :
         /\ FreeClusters(Grown') = FreeClusters(fs) \ {x} /\ iop' = "mark" /\ fs'.len = fs.len
         /\ \A g \in Folders : Ends'[g] = IF g = f THEN Ends[g] + 1 ELSE Ends[g]
  BY <1>3, <1>12 DEF Grew
<1>14. Wanted' = Wanted
  <2>1. \A g : Waiting(g)' = Waiting(g)
    BY <1>5 DEF Waiting
  <2> QED
    BY <1>13, <2>1 DEF Wanted
<1>15. Cardinality(FreeClusters(Grown')) = Cardinality(FreeClusters(fs)) - 1 /\ Cardinality(FreeClusters(fs)) \in Nat
  BY <1>13, FreeFinite, FS_RemoveElement
<1>16. Cardinality(Missing') = Cardinality(Missing) - 1
  <2>1. PICK longer : longer = Ends'
    OBVIOUS
  <2>2. Missing' = Behind(longer, Wanted)
    BY <1>14, <2>1 DEF Missing, Behind
  <2>3. \A g \in Folders : longer[g] = IF g = f THEN Ends[g] + 1 ELSE Ends[g]
    BY <1>13, <2>1
  <2>4. Cardinality(Behind(longer, Wanted)) = Cardinality(Behind(Ends, Wanted)) - 1
    BY <1>5, <1>7, <1>8, <1>9, <2>3, BehindGrows
  <2> QED
    BY <2>2, <2>4 DEF Missing
<1>17. Cardinality(FreeClusters(fs)) >= Cardinality(Missing)
  BY <1>1, <1>2 DEF RoomLeft
<1>18. Cardinality(FreeClusters(fs)) - 1 >= Cardinality(Missing) - 1
  BY <1>10, <1>15, <1>17
<1> QED
  BY <1>13, <1>15, <1>16, <1>18 DEF RoomLeft

LEMMA RoomMctools ==
  ASSUME LoopInv, CardInv, RoomLeft, Clean, Clean', MctoolsNext
  PROVE  RoomLeft'
<1>1. ASSUME NEW kind, Fault(kind) PROVE FALSE
  BY <1>1, Failing DEF Clean
<1>2. CASE SlotFails \/ GrowFails \/ PlaceOrCountFails \/ UnlinkFails
  BY <1>1, <1>2 DEF SlotFails, GrowFails, PlaceOrCountFails, UnlinkFails
<1>3. CASE Grow
  BY <1>3, RoomGrow
<1>4. CASE Unlink
  <2>1. outcome = "linked" /\ outcome' = outcome /\ iop' = "batch"
    BY <1>4 DEF Unlink, InBatch, Made, NotMade, eeVars, LoopInv, Loops
  <2> QED
    BY <2>1 DEF RoomLeft
<1>5. CASE CreateInSlot \/ NoSlot \/ Mark \/ PlaceNew \/ Count
  <2>1. LinkingStep /\ outcome = "none" /\ (at' = at \/ at' = at + 1)
    BY <1>5 DEF CreateInSlot, NoSlot, Mark, PlaceNew, Count, InBatch, Made, PlaceAt, LinkingStep,
        LoopInv, Batches,
                Loops
  <2>2. \A a \in Aliases : Linked(a) => Linked(a)'
    BY <2>1, LinkingFacts
  <2>3. Steady /\ \A f \in Folders : Wanted[f] \in Nat /\ Wanted'[f] \in Nat /\ Wanted'[f] <= Wanted[f]
    <3>1. CASE Count
      BY <3>1, CardCount, WantedCount
    <3>2. CASE ~Count
      <4>1. Steady /\ fs'.len = fs.len
        BY <1>5, <3>2, CardCreateInSlot, CardNoSlot, CardMark, CardPlaceNew
      <4> QED
        BY <2>2, <4>1, WantedLess
    <3> QED
      BY <3>1, <3>2
  <2>4. Cardinality(FreeClusters(Grown')) >= Cardinality(Missing')
    BY <2>1, <2>3, RoomStays
  <2>5. iop' = "place" => target' >= AllocStart
    <3>1. CASE Mark
      <4>1. target \in Clusters /\ target' = Unsigned(Unsigned(target) + AllocStart)
        BY <3>1, <2>1, LinkingFacts DEF Mark, PlaceAt, Growing
      <4>2. target' = target + AllocStart
        BY <4>1, Placed
      <4>3. target \in Nat /\ AllocStart \in Nat
        BY <4>1, SizesAssumption DEF Clusters
      <4>4. \A y \in Int : y = target + AllocStart => y >= AllocStart
        BY <4>3
      <4>5. target + AllocStart \in Int
        BY <4>3
      <4> QED
        BY <4>2, <4>4, <4>5, Zenon
    <3>2. CASE ~Mark
      <4>1. iop' # "place"
        BY <1>5, <3>2 DEF CreateInSlot, NoSlot, PlaceNew, Count, Made
      <4> QED
        BY <4>1
    <3> QED
      BY <3>1, <3>2
  <2> QED
    BY <2>4, <2>5 DEF RoomLeft
<1> QED
  BY <1>2, <1>3, <1>4, <1>5 DEF MctoolsNext

LEMMA RoomEE ==
  ASSUME LoopInv, CardInv, RoomLeft, Clean, Clean', EENext
  PROVE  RoomLeft'
<1>1. /\ fs' = fs /\ iop \in {"idle", "batch"} /\ iop' \in {"idle", "batch"}
      /\ \A a \in Aliases : Linked(a)' <=> Linked(a)
  BY LinkedEE
<1>2. outcome' = "none" => outcome = "none"
  BY DEF EENext, BeginCreate, CreateCall, CreateReply, LoopOneEnds, LoopTwoEnds, BeginDelete,
      DeleteCall,
         DeleteReply, DeleteEnds, SendBatch, eeVars
<1>3. Grown = fs /\ Grown' = fs /\ ~Longer /\ ~Longer'
  BY <1>1 DEF Grown, Longer
<1>4. Steady
  BY <1>1, <1>3 DEF Ends, Steady
<1>5. \A f \in Folders : Wanted[f] \in Nat /\ Wanted'[f] \in Nat /\ Wanted'[f] <= Wanted[f]
  BY <1>1, WantedLess
<1>6. outcome' = "none" => Cardinality(FreeClusters(Grown')) >= Cardinality(Missing')
  BY <1>2, <1>4, <1>5, RoomStays
<1> QED
  BY <1>1, <1>6 DEF RoomLeft

LEMMA RoomNext == ASSUME LoopInv, CardInv, RoomInv, [Next]_vars PROVE RoomInv'
<1>1. start' = start /\ original' = original
  BY DEF Next, EENext, BeginCreate, CreateCall, CreateReply, LoopOneEnds, LoopTwoEnds, BeginDelete,
      DeleteCall,
         DeleteReply, DeleteEnds, SendBatch, MctoolsNext, CreateInSlot, NoSlot, SlotFails, Grow, Mark, GrowFails,
         PlaceNew, Count, PlaceOrCountFails, Unlink, UnlinkFails, Over, vars
<1>2. RoomFor' = RoomFor
  BY <1>1 DEF RoomFor, NewIn
<1> SUFFICES ASSUME Roomy' PROVE systemArea' = "intact" /\ RoomLeft'
  BY DEF RoomInv
<1>3. ASSUME NEW kind, Fault(kind) PROVE FALSE
  BY <1>3, Failing DEF Roomy
<1>4. CASE UNCHANGED vars
  <2>1. Roomy
    BY <1>2, <1>4 DEF Roomy, vars
  <2>2. Grown' = Grown /\ Ends' = Ends /\ Wanted' = Wanted
    <3>1. fs' = fs /\ iop' = iop /\ target' = target /\ Folder' = Folder /\ Longer' = Longer
      BY <1>4 DEF vars, cardVars, eeVars, iopVars, Folder, InTurn, Listed, Longer
    <3>2. \A a : Linked(a)' <=> Linked(a)
      BY <1>4 DEF vars, cardVars, eeVars, iopVars, Linked, Reached, Listed, NumLinked
    <3>3. \A f : Waiting(f)' = Waiting(f)
      BY <3>2 DEF Waiting
    <3> QED
      BY <3>1, <3>3 DEF Grown, Ends, Wanted
  <2>3. Missing' = Missing
    BY <2>2 DEF Missing, Behind
  <2> QED
    BY <1>4, <2>1, <2>2, <2>3 DEF RoomInv, RoomLeft, vars, cardVars, eeVars, iopVars
<1>5. CASE EENext
  <2>1. failures' = failures /\ systemArea' = systemArea
    BY <1>3, <1>5 DEF EENext, BeginCreate, CreateCall, CreateReply, LoopOneEnds, LoopTwoEnds,
        BeginDelete, DeleteCall,
             DeleteReply, DeleteEnds, SendBatch, cardVars
  <2>2. Roomy
    BY <1>1, <1>2, <2>1 DEF Roomy
  <2>3. Clean /\ Clean' /\ RoomLeft
    BY <2>1, <2>2 DEF RoomInv, Clean, Roomy
  <2> QED
    BY <1>5, <2>3, RoomEE DEF Clean
<1>6. CASE MctoolsNext
  <2>1. /\ failures' = failures
        /\ ~(SlotFails \/ GrowFails \/ PlaceOrCountFails \/ UnlinkFails)
    BY <1>3, <1>6 DEF MctoolsNext, CreateInSlot, NoSlot, SlotFails, Grow, Mark, GrowFails,
             PlaceNew, Count, PlaceOrCountFails, Unlink, UnlinkFails
  <2>2. Roomy
    BY <1>1, <1>2, <2>1 DEF Roomy
  <2>3. Clean /\ RoomLeft
    BY <2>2 DEF RoomInv, Clean, Roomy
  <2>4. systemArea' = systemArea
    BY <1>6, <2>1, <2>3 DEF MctoolsNext, CreateInSlot, NoSlot, Grow, Mark, PlaceNew, Place, Count,
        Unlink,
             cardVars, RoomLeft
  <2>5. Clean'
    BY <2>1, <2>3, <2>4 DEF Clean
  <2> QED
    BY <1>6, <2>3, <2>5, RoomMctools DEF Clean
<1> QED
  BY <1>4, <1>5, <1>6 DEF Next, Over

(* A free cluster for every ClusterPages aliases of a folder is enough, on *)
(* a card of any size: without a failure the error of AddFATRecord, which  *)
(* would be taken for a cluster of the system area, is never reached.      *)
THEOREM EnoughRoom == Spec => []RoomSuffices
<1>1. LoopInv /\ CardInv /\ RoomInv /\ [Next]_vars => (LoopInv /\ CardInv /\ RoomInv)'
  BY LoopNext, CardNext, RoomNext
<1>2. RoomInv => RoomSuffices
  BY DEF RoomInv, Roomy, RoomSuffices
<1> QED
  BY <1>1, <1>2, LoopInit, CardInit, RoomInit, PTL DEF Spec

-----------------------------------------------------------------------------
(* What was there at the start, whatever fails.  Of the clusters in use at *)
(* the start only the ends of the folders go on to others, and no cluster  *)
(* that was free goes on to one of them.                                   *)
Used == {c \in Clusters : start.fat[c] # FREE}
StartEnds == [f \in Folders |-> (start.len[f] - 1) \div ClusterPages]
StartInv ==
  /\ start \in FileSystem /\ Tidy(start, StartEnds)
  /\ \A a \in Aliases : a # original => Named(start, FolderOf[a], a) = {}
Table ==
  /\ \A c \in Used :
       \/ fs.fat[c] = start.fat[c]
       \/ start.fat[c] = EOC /\ c \in InChains(start) /\ fs.fat[c] \in Clusters \ Used
  /\ \A c \in Clusters \ Used : fs.fat[c] \notin Used
  /\ \A f \in Folders : fs.len[f] >= start.len[f]
Targets ==
  /\ iop = "mark" => target \in Clusters \ Used
  /\ iop = "place" /\ target >= AllocStart => target - AllocStart \in Clusters \ Used
PagesKept ==
  /\ \A f \in Folders : \A r \in InUse(start, f) :
       fs.pages[ClusterAt(start, f, r \div ClusterPages)][r % ClusterPages] = Record(start, f, r)
  /\ \A c \in Used \ InChains(start) : fs.pages[c] = start.pages[c]
KeptInv == fs \in FileSystem /\ StartInv /\ Table /\ Targets /\ PagesKept

(* The chains of the start are still there, and what was put behind them   *)
(* was free.                                                               *)
LEMMA StartChain ==
  ASSUME StartInv, NEW f \in Folders
  PROVE  /\ StartEnds[f] \in Nat /\ StartEnds[f] <= NumClusters /\ Chain(start, f, StartEnds[f])
         /\ \A k \in 0 .. StartEnds[f] : ClusterAt(start, f, k) \in Used \cap InChains(start)
         /\ \A k \in 0 .. StartEnds[f] : k # StartEnds[f] => start.fat[ClusterAt(start, f, k)] # EOC
<1>1. Chain(start, f, StartEnds[f])
  BY DEF StartInv, Tidy
<1>2. PICK m : m = StartEnds[f]
  OBVIOUS
<1>3. Chain(start, f, m) /\ m \in Nat /\ m <= NumClusters
  BY <1>1, <1>2, ClusterFacts DEF Chain
<1>4. \A k \in 0 .. m : k # m => start.fat[ClusterAt(start, f, k)] # EOC
  BY <1>3, ChainNext, ClusterFacts DEF Chain
<1>5. ASSUME NEW k \in 0 .. m PROVE ClusterAt(start, f, k) \in Used \cap InChains(start)
  <2>1. ClusterAt(start, f, k) \in ChainOf(start, f)
    BY <1>3, ChainRange
  <2>2. ClusterAt(start, f, k) \in Clusters /\ ClusterAt(start, f, k) \notin FreeClusters(start)
    BY <1>3, ChainUsed DEF Chain
  <2> QED
    BY <2>1, <2>2 DEF Used, FreeClusters, InChains
<1> QED
  BY <1>1, <1>2, <1>3, <1>4, <1>5

LEMMA ChainStays ==
  ASSUME StartInv, Table, NEW f \in Folders
  PROVE  /\ \A k \in 0 .. StartEnds[f] : ClusterAt(fs, f, k) = ClusterAt(start, f, k)
         /\ \A k \in 0 .. NumClusters : k > StartEnds[f] => ClusterAt(fs, f, k) \notin Used
<1>1. PICK m : m = StartEnds[f]
  OBVIOUS
<1>2. /\ m \in Nat /\ m <= NumClusters /\ m \in 0 .. NumClusters /\ NumClusters \in Nat
      /\ \A k \in 0 .. m : ClusterAt(start, f, k) \in Used /\ ClusterAt(start, f, k) \in Clusters
      /\ \A k \in 0 .. m : k # m => start.fat[ClusterAt(start, f, k)] # EOC
      /\ start.fat[ClusterAt(start, f, m)] = EOC
  BY <1>1, StartChain, ClusterFacts DEF Used, Chain
<1>3. \A k \in 0 .. m : ClusterAt(fs, f, k) = ClusterAt(start, f, k)
  <2>1. \A k \in 0 .. m : k # m => fs.fat[ClusterAt(start, f, k)] = start.fat[ClusterAt(start, f, k)]
    BY <1>2 DEF Table
  <2>2. m \in 0 .. NumClusters /\ \A k \in 0 .. m : ClusterAt(start, f, k) \in Clusters
    BY <1>2
  <2> QED
    BY ONLY <2>1, <2>2, ChainAgree
<1> DEFINE S == {d \in 0 .. NumClusters - m : m + d > m => ClusterAt(fs, f, m + d) \notin Used}
<1>4. 0 \in S
  BY <1>2
<1>5. ASSUME NEW d \in 0 .. NumClusters - m - 1, d \in S PROVE d + 1 \in S
  <2>1. /\ m + d \in 0 .. NumClusters - 1 /\ (m + d) + 1 = m + (d + 1) /\ d + 1 \in 0 .. NumClusters - m
        /\ m \in 0 .. m /\ (m + d > m \/ m + d = m)
    BY <1>2
  <2>2. PICK k : k = m + d
    OBVIOUS
  <2>3. ClusterAt(fs, f, k + 1) = IF ClusterAt(fs, f, k) \in Clusters THEN fs.fat[ClusterAt(fs, f, k)]
                                  ELSE ClusterAt(fs, f, k)
    BY <2>1, <2>2, AtUnfolds
  <2>4. ClusterAt(fs, f, k + 1) \notin Used
    <3>1. CASE k > m
      <4>1. ClusterAt(fs, f, k) \notin Used
        BY <1>5, <2>2, <3>1
      <4> QED
        BY <2>3, <4>1 DEF Table
    <3>2. CASE k = m
      <4>1. ClusterAt(fs, f, k) = ClusterAt(start, f, m)
        BY <1>3, <2>1, <3>2
      <4>2. ClusterAt(fs, f, k + 1) = fs.fat[ClusterAt(start, f, m)] /\ ClusterAt(start, f, m) \in Used
        BY <1>2, <2>1, <2>3, <4>1
      <4>3. fs.fat[ClusterAt(start, f, m)] = EOC \/ fs.fat[ClusterAt(start, f, m)] \in Clusters \ Used
        BY <1>2, <4>2 DEF Table
      <4> QED
        BY <4>2, <4>3, ClusterFacts DEF Used
    <3> QED
      BY <2>1, <2>2, <3>1, <3>2
  <2> QED
    BY <2>1, <2>2, <2>4
<1>6. \A d \in 0 .. NumClusters - m : d \in S
  <2>1. NumClusters - m \in Nat
    BY <1>2
  <2> HIDE DEF S
  <2> QED
    BY <1>4, <1>5, <2>1, Induction
<1>7. ASSUME NEW k \in 0 .. NumClusters, k > m PROVE ClusterAt(fs, f, k) \notin Used
  <2>1. k - m \in 0 .. NumClusters - m /\ m + (k - m) = k
    BY <1>2, <1>7
  <2> QED
    BY <1>6, <1>7, <2>1
<1> QED
  BY <1>1, <1>3, <1>7

(* The records in use at the start are the records still.                  *)
LEMMA StillThere ==
  ASSUME KeptInv, NEW f \in Folders, NEW r \in InUse(start, f)
  PROVE  /\ r \in Nat /\ r < start.len[f] /\ start.len[f] \in Nat
         /\ HasPage(start, f, r) /\ Record(start, f, r).exists
         /\ HasPage(fs, f, r) /\ Record(fs, f, r) = Record(start, f, r)
<1>1. start.len[f] \in Nat /\ StartInv /\ Table /\ PagesKept
  BY DEF KeptInv, StartInv, FileSystem
<1>2. r \in Nat /\ r < start.len[f] /\ HasPage(start, f, r) /\ Record(start, f, r).exists
  BY <1>1 DEF InUse
<1> DEFINE k == r \div ClusterPages
<1>3. k \in Nat
  BY <1>2, DivFacts, SizesAssumption
<1>4. k <= StartEnds[f]
  BY <1>1, <1>2, PageFound DEF StartInv
<1>5. k \in 0 .. StartEnds[f] /\ k <= NumClusters
  <2> HIDE DEF k
  <2> QED
    BY <1>1, <1>3, <1>4, StartChain, ClusterFacts
<1>6. ClusterAt(fs, f, k) = ClusterAt(start, f, k) /\ ClusterAt(start, f, k) \in Clusters
  <2> HIDE DEF k
  <2> QED
    BY <1>1, <1>5, StartChain, ChainStays DEF Used
<1>7. HasPage(fs, f, r)
  BY <1>5, <1>6 DEF HasPage
<1>8. Record(fs, f, r) = Record(start, f, r)
  BY <1>1, <1>6 DEF Record, PagesKept
<1> QED
  BY <1>1, <1>2, <1>7, <1>8

LEMMA KeptForeign == ASSUME KeptInv PROVE ForeignDataKept
<1>1. ASSUME NEW c \in Clusters \ InChains(start), start.fat[c] # FREE
      PROVE  fs.fat[c] = start.fat[c] /\ fs.pages[c] = start.pages[c]
  BY <1>1 DEF KeptInv, Table, PagesKept, Used
<1> QED
  BY <1>1, StillThere DEF ForeignDataKept

(* A page of a folder that held nothing of the start may be written, and   *)
(* so may those of a cluster that was free.                                *)
Harmless(c, p) ==
  \/ c \in Clusters \ Used
  \/ \E f \in Folders, r \in Nat :
       /\ HasPage(fs, f, r) /\ r \notin InUse(start, f)
       /\ c = ClusterAt(fs, f, r \div ClusterPages) /\ p = r % ClusterPages

WithPage(c, p, e) == [fs EXCEPT !.pages[c][p] = e]

LEMMA WriteKeeps ==
  ASSUME KeptInv, NEW c \in Clusters, NEW p \in PageNums, NEW e \in Entry, Harmless(c, p),
         NEW t, t = WithPage(c, p, e)
  PROVE  /\ t \in FileSystem /\ t.fat = fs.fat /\ t.len = fs.len
         /\ \A f \in Folders : \A r \in InUse(start, f) :
              t.pages[ClusterAt(start, f, r \div ClusterPages)][r % ClusterPages] = Record(start, f, r)
         /\ \A d \in Used \ InChains(start) : t.pages[d] = start.pages[d]
<1>1. /\ fs.fat \in [Clusters -> Clusters \cup {FREE, EOC}] /\ fs.len \in [Folders -> Nat]
      /\ fs.pages \in [Clusters -> [PageNums -> Entry]] /\ StartInv /\ Table /\ PagesKept
  BY DEF KeptInv, FileSystem
<1>2. t.fat = fs.fat /\ t.len = fs.len /\ t.pages = [fs.pages EXCEPT ![c][p] = e]
  BY DEF KeptInv, FileSystem, WithPage
<1>3. t.pages \in [Clusters -> [PageNums -> Entry]]
  BY <1>1, <1>2
<1>4. t \in FileSystem
  BY <1>1, <1>2, <1>3 DEF KeptInv, FileSystem, WithPage
<1>5. \A d \in Clusters : d # c => t.pages[d] = fs.pages[d]
  BY <1>1, <1>2
<1>6. \A q \in PageNums : q # p => t.pages[c][q] = fs.pages[c][q]
  BY <1>1, <1>2
<1>7. c \in Used =>
        \E f \in Folders, r \in Nat :
          /\ HasPage(start, f, r) /\ r \notin InUse(start, f)
          /\ c = ClusterAt(start, f, r \div ClusterPages) /\ p = r % ClusterPages
          /\ c \in InChains(start)
  <2> SUFFICES ASSUME c \in Used
               PROVE  \E f \in Folders, r \in Nat :
                        /\ HasPage(start, f, r) /\ r \notin InUse(start, f)
                        /\ c = ClusterAt(start, f, r \div ClusterPages) /\ p = r % ClusterPages
                        /\ c \in InChains(start)
    OBVIOUS
  <2>1. PICK f \in Folders, r \in Nat :
          /\ HasPage(fs, f, r) /\ r \notin InUse(start, f)
          /\ c = ClusterAt(fs, f, r \div ClusterPages) /\ p = r % ClusterPages
    BY DEF Harmless
  <2>2. PICK k : k = r \div ClusterPages
    OBVIOUS
  <2>3. k \in Nat /\ k <= NumClusters /\ c = ClusterAt(fs, f, k)
    BY <2>1, <2>2, DivFacts, SizesAssumption DEF HasPage
  <2>4. StartEnds[f] \in Nat /\ StartEnds[f] <= NumClusters /\ NumClusters \in Nat
    BY <1>1, StartChain, ClusterFacts
  <2>5. ~(k > StartEnds[f])
    <3>1. k \in 0 .. NumClusters
      BY <2>3, <2>4
    <3> QED
      BY <1>1, <2>3, <3>1, ChainStays
  <2>6. k \in 0 .. StartEnds[f] /\ k <= StartEnds[f]
    BY <2>3, <2>4, <2>5
  <2>7. c = ClusterAt(start, f, k) /\ c \in InChains(start)
    BY <1>1, <2>3, <2>6, ChainStays, StartChain
  <2>8. HasPage(start, f, r)
    BY <1>1, <2>2, <2>6, PageFound DEF StartInv
  <2> QED
    BY <2>1, <2>2, <2>7, <2>8
<1>8. ASSUME NEW f \in Folders, NEW r \in InUse(start, f)
      PROVE  t.pages[ClusterAt(start, f, r \div ClusterPages)][r % ClusterPages] = Record(start, f, r)
  <2>1. r \in Nat /\ HasPage(start, f, r)
    BY StillThere
  <2>2. PICK d : d = ClusterAt(start, f, r \div ClusterPages)
    OBVIOUS
  <2>3. PICK q : q = r % ClusterPages
    OBVIOUS
  <2>4. fs.pages[d][q] = Record(start, f, r)
    BY <1>1, <2>2, <2>3 DEF PagesKept
  <2>5. q \in PageNums
    BY <2>1, <2>3, DivFacts, SizesAssumption DEF PageNums
  <2>6. d \in Used
    <3>1. r \div ClusterPages \in Nat /\ r \div ClusterPages <= StartEnds[f] /\ StartEnds[f] \in Nat
      BY <1>1, <2>1, DivFacts, SizesAssumption, PageFound, StartChain DEF StartInv
    <3>2. PICK k : k = r \div ClusterPages
      OBVIOUS
    <3>3. k \in 0 .. StartEnds[f]
      BY <3>1, <3>2
    <3> QED
      BY <1>1, <2>2, <3>2, <3>3, StartChain
  <2>7. ~(d = c /\ q = p)
    <3> SUFFICES ASSUME d = c, q = p PROVE FALSE
      OBVIOUS
    <3>1. PICK g \in Folders, s \in Nat :
            /\ HasPage(start, g, s) /\ s \notin InUse(start, g)
            /\ c = ClusterAt(start, g, s \div ClusterPages) /\ p = s % ClusterPages
      BY <1>7, <2>6
    <3>2. ~(f = g /\ r = s)
      BY <3>1
    <3>3. Tidy(start, StartEnds)
      BY <1>1 DEF StartInv
    <3> QED
      BY <2>1, <2>2, <2>3, <3>1, <3>2, <3>3, PagesApart
  <2>8. t.pages[d][q] = fs.pages[d][q]
    BY <1>5, <1>6, <2>5, <2>6, <2>7 DEF Used
  <2> QED
    BY <2>2, <2>3, <2>4, <2>8
<1>9. ASSUME NEW d \in Used \ InChains(start) PROVE t.pages[d] = start.pages[d]
  <2>1. d # c /\ d \in Clusters
    BY <1>7 DEF Used
  <2> QED
    BY <1>1, <1>5, <2>1 DEF PagesKept
<1> QED
  BY <1>2, <1>4, <1>8, <1>9

(* The FAT is edited where a folder ends and where a cluster is free.      *)
FatKept(t) ==
  /\ t \in FileSystem /\ t.pages = fs.pages /\ t.len = fs.len
  /\ \A d \in Used :
       \/ t.fat[d] = start.fat[d]
       \/ start.fat[d] = EOC /\ d \in InChains(start) /\ t.fat[d] \in Clusters \ Used
  /\ \A d \in Clusters \ Used : t.fat[d] \notin Used

LEMMA FatKeeps ==
  ASSUME KeptInv, NEW c \in Clusters, NEW x \in (Clusters \ Used) \cup {EOC},
         c \in Used => start.fat[c] = EOC /\ c \in InChains(start) /\ x \in Clusters,
         NEW t, t = [fs EXCEPT !.fat[c] = x]
  PROVE  FatKept(t)
<1>1. /\ fs.fat \in [Clusters -> Clusters \cup {FREE, EOC}] /\ fs.len \in [Folders -> Nat]
      /\ fs.pages \in [Clusters -> [PageNums -> Entry]] /\ Table
  BY DEF KeptInv, FileSystem
<1>2. t.pages = fs.pages /\ t.len = fs.len /\ t.fat = [fs.fat EXCEPT ![c] = x]
  BY DEF KeptInv, FileSystem
<1>3. t.fat \in [Clusters -> Clusters \cup {FREE, EOC}]
  BY <1>1, <1>2
<1>4. t \in FileSystem
  BY <1>1, <1>2, <1>3 DEF KeptInv, FileSystem
<1>5. t.fat[c] = x /\ \A d \in Clusters : d # c => t.fat[d] = fs.fat[d]
  BY <1>1, <1>2
<1>6. x \notin Used
  BY ClusterFacts DEF Used
<1> QED
  BY <1>1, <1>2, <1>4, <1>5, <1>6 DEF FatKept, Table, Used

LEMMA EndFacts ==
  ASSUME KeptInv, NEW f \in Folders, NEW c \in EndOf(fs, f)
  PROVE  c \in Clusters /\ (c \in Used => start.fat[c] = EOC /\ c \in InChains(start))
<1>1. StartInv /\ Table /\ c \in Clusters /\ fs.fat[c] = EOC
  BY DEF KeptInv, EndOf, ChainOf
<1>2. PICK k \in 0 .. NumClusters : c = ClusterAt(fs, f, k)
  BY DEF EndOf, ChainOf
<1>3. ASSUME c \in Used PROVE start.fat[c] = EOC /\ c \in InChains(start)
  <2>1. start.fat[c] = EOC
    BY <1>1, <1>3, ClusterFacts DEF Table
  <2>2. k \in 0 .. StartEnds[f]
    <3>1. ~(k > StartEnds[f])
      BY <1>1, <1>2, <1>3, ChainStays
    <3>2. k \in Nat /\ StartEnds[f] \in Nat
      BY <1>1, ClusterFacts, StartChain
    <3> QED
      BY <3>1, <3>2
  <2>3. c = ClusterAt(start, f, k) /\ c \in InChains(start)
    BY <1>1, <1>2, <2>2, ChainStays, StartChain
  <2> QED
    BY <2>1, <2>3
<1> QED
  BY <1>1, <1>3

LEMMA FreeFacts ==
  ASSUME KeptInv, FreeClusters(fs) # {}
  PROVE  FirstFree(fs) \in Clusters \ Used
<1>1. FirstFree(fs) \in Clusters /\ fs.fat[FirstFree(fs)] = FREE
  BY FirstFreeFound DEF FreeClusters
<1> QED
  BY <1>1, ClusterFacts DEF KeptInv, Table, Used

(* The alias in turn, whatever has failed.                                 *)
LEMMA TurnFacts ==
  ASSUME LoopInv, iop # "idle", session \in {"create", "delete"}, at <= last
  PROVE  InTurn \in Aliases /\ Folder \in Folders /\ New \in Entry /\ (session = "delete" => InTurn # original)
<1>1. InTurn \in Aliases /\ (session = "delete" => InTurn # original)
  <2>1. at \in Nat \ {0} /\ last \in Nat /\ last <= NumAliases /\ NumAliases \in Nat
    BY SizesAssumption DEF LoopInv, Batches
  <2>2. CASE session = "create"
    <3>1. at \in 1 .. NumAliases
      BY <2>1
    <3> QED
      BY <2>2, <3>1 DEF InTurn, Aliases
  <2>3. CASE session = "delete"
    <3>1. at \in 1 .. NumLinked
      <4>1. last <= NumLinked /\ NumLinked \in Nat
        BY <2>3, LinkedCount DEF LoopInv, Loops, Batches
      <4> QED
        BY <2>1, <4>1
    <3> QED
      BY <2>3, <3>1, ListedFacts DEF InTurn
  <2> QED
    BY <2>2, <2>3
<1>2. New \in Entry
  <2>1. InTurn \in 0 .. NumAliases
    BY <1>1, SizesAssumption DEF Aliases
  <2> QED
    BY <2>1 DEF New, Entry
<1> QED
  BY <1>1, <1>2, FoldersAssumption DEF Folder

(* The slot of a new entry is not that of one of the start ...             *)
LEMMA SlotHarmless ==
  ASSUME KeptInv, NEW f \in Folders, HasSlot(fs, f)
  PROVE  /\ Slot(fs, f) \in Nat /\ HasPage(fs, f, Slot(fs, f)) /\ Slot(fs, f) \notin InUse(start, f)
<1>1. fs.len[f] \in Nat /\ start.len[f] <= fs.len[f]
  BY DEF KeptInv, Table, FileSystem
<1>2. PICK r : r = Slot(fs, f)
  OBVIOUS
<1>3. HasPage(fs, f, r)
  BY <1>2 DEF HasSlot
<1>4. r \in 0 .. fs.len[f] /\ Unused(fs, f, r)
  BY <1>1, <1>2, SlotIsUnused
<1>5. ASSUME r \in InUse(start, f) PROVE FALSE
  <2>1. r \in Nat /\ r < start.len[f] /\ start.len[f] \in Nat /\ Record(fs, f, r).exists
    BY <1>5, StillThere
  <2>2. r # fs.len[f]
    BY <1>1, <2>1
  <2> QED
    BY <1>3, <1>4, <2>1, <2>2 DEF Unused
<1> QED
  BY <1>1, <1>2, <1>3, <1>4, <1>5

(* ... and neither is the entry that is deleted.                           *)
LEMMA NamedHarmless ==
  ASSUME KeptInv, NEW a \in Aliases \ {original}, Named(fs, FolderOf[a], a) # {}
  PROVE  LET f == FolderOf[a]
             r == FirstNamed(fs, f, a)
         IN  r \in Nat /\ HasPage(fs, f, r) /\ r \notin InUse(start, f)
<1> DEFINE f == FolderOf[a]
<1>1. f \in Folders /\ fs.len[f] \in Nat /\ a # original /\ a \in Aliases
  BY FoldersAssumption DEF KeptInv, FileSystem
<1>2. PICK r : r = FirstNamed(fs, f, a)
  OBVIOUS
<1>3. r \in Named(fs, f, a)
  <2>1. Named(fs, f, a) \in SUBSET Nat
    BY <1>1 DEF Named
  <2>2. \E x \in Named(fs, f, a) : \A q \in Named(fs, f, a) : x <= q
    BY <2>1, LeastElement
  <2> QED
    BY <1>2, <2>2 DEF FirstNamed
<1>4. r \in Nat /\ HasPage(fs, f, r) /\ Record(fs, f, r).name = a
  BY <1>1, <1>3 DEF Named
<1>5. ASSUME r \in InUse(start, f) PROVE FALSE
  <2>1. Record(fs, f, r) = Record(start, f, r) /\ r \in Nat
    BY <1>1, <1>5, StillThere
  <2>2. r \in Named(start, f, a)
    BY <1>4, <1>5, <2>1 DEF Named, InUse
  <2> QED
    BY <1>1, <2>2 DEF KeptInv, StartInv
<1> QED
  BY <1>2, <1>4, <1>5

(* The steps, by what they do to the card.                                 *)
Frame == start' = start /\ original' = original /\ Targets'

LEMMA KeptFrame ==
  ASSUME KeptInv, Frame, fs' \in FileSystem,
         \A c \in Used :
           \/ fs'.fat[c] = start.fat[c]
           \/ start.fat[c] = EOC /\ c \in InChains(start) /\ fs'.fat[c] \in Clusters \ Used,
         \A c \in Clusters \ Used : fs'.fat[c] \notin Used,
         \A f \in Folders : fs'.len[f] >= start.len[f],
         \A f \in Folders : \A r \in InUse(start, f) :
           fs'.pages[ClusterAt(start, f, r \div ClusterPages)][r % ClusterPages] = Record(start, f, r),
         \A c \in Used \ InChains(start) : fs'.pages[c] = start.pages[c]
  PROVE  KeptInv'
<1>1. Used' = Used
  BY DEF Frame, Used
<1>2. \A f, k : ClusterAt(start, f, k)' = ClusterAt(start, f, k)
  BY ONLY Frame DEF Frame, ClusterAt
<1>3. \A f, r : HasPage(start, f, r)' = HasPage(start, f, r) /\ Record(start, f, r)' = Record(start, f, r)
  BY <1>2 DEF Frame, HasPage, Record
<1>7. InChains(start)' = InChains(start)
  BY <1>2 DEF Frame, InChains, ChainOf
<1>8. \A f : InUse(start, f)' = InUse(start, f)
  BY <1>3 DEF Frame, InUse
<1>4. StartInv'
  <2>1. StartEnds' = StartEnds
    BY DEF Frame, StartEnds
  <2>2. Tidy(start, StartEnds)'
    BY <1>2, <2>1 DEF KeptInv, StartInv, Tidy, Chain, Frame
  <2>3. \A a \in Aliases : Named(start, FolderOf[a], a)' = Named(start, FolderOf[a], a)
    BY <1>2 DEF Named, HasPage, Record, Frame
  <2> QED
    BY <2>2, <2>3 DEF KeptInv, StartInv, Frame
<1>5. Table'
  BY <1>1, <1>7 DEF Table, Frame
<1>6. PagesKept'
  BY <1>1, <1>2, <1>3, <1>7, <1>8 DEF PagesKept, Frame
<1> QED
  BY <1>4, <1>5, <1>6 DEF KeptInv, Frame

LEMMA SameStep == ASSUME KeptInv, Frame, fs' = fs PROVE KeptInv'
  BY KeptFrame DEF KeptInv, Table, PagesKept

LEMMA PageStep ==
  ASSUME KeptInv, Frame, NEW c \in Clusters, NEW p \in PageNums, NEW e \in Entry, Harmless(c, p),
         fs' = [fs EXCEPT !.pages[c][p] = e]
  PROVE  KeptInv'
<1>1. PICK t : t = fs'
  OBVIOUS
<1>2. /\ KeptInv /\ c \in Clusters /\ p \in PageNums /\ e \in Entry /\ Harmless(c, p)
      /\ t = WithPage(c, p, e)
  BY <1>1 DEF WithPage
<1>3. /\ t \in FileSystem /\ t.fat = fs.fat /\ t.len = fs.len
      /\ \A f \in Folders : \A r \in InUse(start, f) :
           t.pages[ClusterAt(start, f, r \div ClusterPages)][r % ClusterPages] = Record(start, f, r)
      /\ \A d \in Used \ InChains(start) : t.pages[d] = start.pages[d]
  BY ONLY <1>2, WriteKeeps
<1> QED
  BY <1>1, <1>3, KeptFrame DEF KeptInv, Table

LEMMA EntryStep ==
  ASSUME KeptInv, Frame, NEW f \in Folders, NEW r \in Nat, HasPage(fs, f, r), r \notin InUse(start, f),
         NEW e \in Entry, fs' = WithRecord(fs, f, r, e)
  PROVE  KeptInv'
<1>1. PICK c : c = ClusterAt(fs, f, r \div ClusterPages)
  OBVIOUS
<1>2. PICK p : p = r % ClusterPages
  OBVIOUS
<1>3. c \in Clusters /\ p \in PageNums
  BY <1>1, <1>2, DivFacts, SizesAssumption DEF HasPage, PageNums
<1>4. Harmless(c, p)
  BY <1>1, <1>2 DEF Harmless
<1>5. fs' = [fs EXCEPT !.pages[c][p] = e]
  BY <1>1, <1>2 DEF WithRecord
<1> QED
  BY <1>3, <1>4, <1>5, PageStep

LEMMA FatStep ==
  ASSUME KeptInv, Frame, NEW c \in Clusters, NEW x \in (Clusters \ Used) \cup {EOC},
         c \in Used => start.fat[c] = EOC /\ c \in InChains(start) /\ x \in Clusters,
         fs' = [fs EXCEPT !.fat[c] = x]
  PROVE  KeptInv'
<1>1. /\ fs' \in FileSystem /\ fs'.pages = fs.pages /\ fs'.len = fs.len
      /\ \A d \in Used :
           \/ fs'.fat[d] = start.fat[d]
           \/ start.fat[d] = EOC /\ d \in InChains(start) /\ fs'.fat[d] \in Clusters \ Used
      /\ \A d \in Clusters \ Used : fs'.fat[d] \notin Used
  <2>1. FatKept(fs')
    BY FatKeeps
  <2> QED
    BY <2>1 DEF FatKept
<1> QED
  BY <1>1, KeptFrame DEF KeptInv, Table, PagesKept

LEMMA LengthStep ==
  ASSUME KeptInv, Frame, NEW f \in Folders, fs' = [fs EXCEPT !.len[f] = @ + 1]
  PROVE  KeptInv'
<1>1. /\ fs.len \in [Folders -> Nat] /\ fs.len[f] + 1 \in Nat
      /\ \A g \in Folders : start.len[g] \in Nat /\ start.len[g] <= fs.len[g]
  BY DEF KeptInv, StartInv, Table, FileSystem
<1>2. PICK t : t = fs'
  OBVIOUS
<1>3. t.fat = fs.fat /\ t.pages = fs.pages /\ t.len = [fs.len EXCEPT ![f] = fs.len[f] + 1]
  BY <1>2 DEF KeptInv, FileSystem
<1>4. t.len \in [Folders -> Nat] /\ \A g \in Folders : t.len[g] >= start.len[g]
  BY <1>1, <1>3
<1>5. t \in FileSystem
  BY <1>2, <1>3, <1>4 DEF KeptInv, FileSystem
<1> QED
  BY <1>2, <1>3, <1>4, <1>5, KeptFrame DEF KeptInv, Table, PagesKept

LEMMA PlacedTargets ==
  ASSUME iop' = "place",
         \/ \E e \in {1, EIO, EINVAL} : target' = Unsigned(Unsigned(-e) + AllocStart)
         \/ \E c \in Clusters \ Used : target' = Unsigned(Unsigned(c) + AllocStart),
         start' = start
  PROVE  Targets'
<1>1. Used' = Used
  BY DEF Used
<1>2. PICK y : y = target'
  OBVIOUS
<1>3. AllocStart \in Nat
  BY SizesAssumption
<1>4. y >= AllocStart => y - AllocStart \in Clusters \ Used
  <2>1. ASSUME NEW e \in {1, EIO, EINVAL}, y = Unsigned(Unsigned(-e) + AllocStart) PROVE ~(y >= AllocStart)
    <3>1. y \in 0 .. AllocStart - 1
      BY <2>1, Placed
    <3> QED
      BY <1>3, <3>1
  <2>2. ASSUME NEW c \in Clusters \ Used, y = Unsigned(Unsigned(c) + AllocStart) PROVE y - AllocStart = c
    <3>1. y = c + AllocStart /\ c \in Int
      BY <2>2, Placed DEF Clusters
    <3> QED
      BY <1>3, <3>1
  <2> QED
    BY <1>2, <2>1, <2>2
<1> QED
  BY <1>1, <1>2, <1>4 DEF Targets

LEMMA KeptMctools == ASSUME LoopInv, KeptInv, MctoolsNext PROVE KeptInv'
<1>1. start' = start /\ original' = original
  BY DEF MctoolsNext, CreateInSlot, NoSlot, SlotFails, Grow, Mark, GrowFails, PlaceNew, Count,
         PlaceOrCountFails, Unlink, UnlinkFails, cardVars
<1>2. iop' \in {"batch", "grow", "count"} => Frame
  BY <1>1 DEF Frame, Targets
<1>3. ASSUME Frame, HasSlot(fs, Folder), InBatch("create"), fs' = WithRecord(fs, Folder, Slot(fs, Folder), New)
      PROVE  KeptInv'
  <2>1. Folder \in Folders /\ New \in Entry
    BY <1>3, TurnFacts DEF InBatch
  <2>2. PICK f : f = Folder
    OBVIOUS
  <2>3. PICK e : e = New
    OBVIOUS
  <2>4. PICK r : r = Slot(fs, f)
    OBVIOUS
  <2>5. r \in Nat /\ HasPage(fs, f, r) /\ r \notin InUse(start, f) /\ f \in Folders /\ e \in Entry
    BY <1>3, <2>1, <2>2, <2>3, <2>4, SlotHarmless
  <2> QED
    BY <1>3, <2>2, <2>3, <2>4, <2>5, EntryStep
<1>4. ASSUME Frame, Named(fs, Folder, InTurn) # {}, InBatch("delete"), fs' = Unlinked
      PROVE  KeptInv'
  <2>1. InTurn \in Aliases \ {original} /\ Folder = FolderOf[InTurn] /\ Folder \in Folders /\ New \in Entry
    BY <1>4, TurnFacts DEF InBatch, Folder
  <2>2. PICK a : a = InTurn
    OBVIOUS
  <2>3. PICK f : f = FolderOf[a]
    OBVIOUS
  <2>4. PICK e : e = [New EXCEPT !.exists = FALSE]
    OBVIOUS
  <2>5. PICK r : r = FirstNamed(fs, f, a)
    OBVIOUS
  <2>6. r \in Nat /\ HasPage(fs, f, r) /\ r \notin InUse(start, f)
    BY <1>4, <2>1, <2>2, <2>3, <2>5, NamedHarmless
  <2>7. e \in Entry
    BY <2>1, <2>4 DEF Entry
  <2>8. fs' = WithRecord(fs, f, r, e) /\ f \in Folders
    BY <1>4, <2>1, <2>2, <2>3, <2>4, <2>5 DEF Unlinked
  <2> QED
    BY <1>4, <2>6, <2>7, <2>8, EntryStep
<1>5. ASSUME Frame, iop = "place", Place PROVE KeptInv'
  <2>1. CASE target >= AllocStart
    <3>1. PICK c : c = target - AllocStart
      OBVIOUS
    <3>2. c \in Clusters \ Used
      BY <1>5, <2>1, <3>1 DEF KeptInv, Targets
    <3>3. PICK e : e = New
      OBVIOUS
    <3>4. e \in Entry
      BY <1>5, <3>3, TurnFacts DEF LoopInv, Batches
    <3>5. 0 \in PageNums
      BY SizesAssumption DEF PageNums
    <3>6. Harmless(c, 0) /\ fs' = [fs EXCEPT !.pages[c][0] = e]
      BY <1>5, <2>1, <3>1, <3>2, <3>3 DEF Harmless, Place
    <3> QED
      BY <1>5, <3>2, <3>4, <3>5, <3>6, PageStep
  <2>2. CASE ~(target >= AllocStart)
    BY <1>5, <2>2, SameStep DEF Place
  <2> QED
    BY <2>1, <2>2
<1>6. ASSUME Frame, iop = "count", Lengthen PROVE KeptInv'
  <2>1. Folder \in Folders
    BY <1>6, TurnFacts DEF LoopInv, Batches
  <2> QED
    BY <1>6, <2>1, LengthStep DEF Lengthen
<1>7. ASSUME Frame, iop = "mark", fs' = [fs EXCEPT !.fat[target] = EOC] PROVE KeptInv'
  <2>1. target \in Clusters /\ target \notin Used
    BY <1>7 DEF KeptInv, Targets
  <2> QED
    BY <1>7, <2>1, FatStep
<1>8. CASE CreateInSlot
  <2>1. iop' \in {"batch", "count"} /\ HasSlot(fs, Folder) /\ InBatch("create")
        /\ fs' = WithRecord(fs, Folder, Slot(fs, Folder), New)
    BY <1>8 DEF CreateInSlot, Made
  <2> QED
    BY <1>2, <1>3, <2>1
<1>9. CASE NoSlot
  BY <1>2, <1>9, SameStep DEF NoSlot, cardVars
<1>10. CASE SlotFails
  BY <1>2, <1>3, <1>10, SameStep DEF SlotFails, NotMade
<1>11. CASE Grow
  <2>1. CASE FreeClusters(fs) = {} \/ EndOf(fs, Folder) = {}
    <3>1. iop' = "place" /\ target' = Unsigned(Unsigned(-EINVAL) + AllocStart) /\ fs' = fs
      BY <1>11, <2>1 DEF Grow, PlaceAt
    <3> QED
      BY <1>1, <3>1, PlacedTargets, SameStep DEF Frame
  <2>2. CASE ~(FreeClusters(fs) = {} \/ EndOf(fs, Folder) = {})
    <3>1. PICK x : x = FirstFree(fs)
      OBVIOUS
    <3>2. x \in Clusters \ Used
      BY <2>2, <3>1, FreeFacts
    <3>3. PICK end \in EndOf(fs, Folder) : fs' = [fs EXCEPT !.fat[end] = x] /\ target' = x /\ iop' = "mark"
      BY <1>11, <2>2, <3>1 DEF Grow
    <3>4. Folder \in Folders
      BY <1>11, TurnFacts DEF Grow, LoopInv, Batches
    <3>5. end \in Clusters /\ (end \in Used => start.fat[end] = EOC /\ end \in InChains(start))
      BY <3>4, EndFacts
    <3>6. Frame
      <4>1. Used' = Used
        BY <1>1 DEF Used
      <4> QED
        BY <1>1, <3>2, <3>3, <4>1 DEF Frame, Targets
    <3> QED
      BY <3>2, <3>3, <3>5, <3>6, FatStep
  <2> QED
    BY <2>1, <2>2
<1>12. CASE Mark
  <2>1. iop' = "place" /\ target' = Unsigned(Unsigned(target) + AllocStart) /\ target \in Clusters \ Used
        /\ fs' = [fs EXCEPT !.fat[target] = EOC] /\ iop = "mark"
    BY <1>12 DEF Mark, PlaceAt, KeptInv, Targets
  <2>2. Frame
    BY <1>1, <2>1, PlacedTargets DEF Frame
  <2> QED
    BY <1>7, <2>1, <2>2
<1>13. CASE GrowFails
  <2>1. iop' = "place" /\ \E e \in {1, EIO, EINVAL} : target' = Unsigned(Unsigned(-e) + AllocStart)
    BY <1>13 DEF GrowFails, PlaceAt
  <2>2. Frame
    BY <1>1, <2>1, PlacedTargets DEF Frame
  <2>3. fs' = fs \/ (iop = "mark" /\ fs' = [fs EXCEPT !.fat[target] = EOC])
    BY <1>13 DEF GrowFails
  <2> QED
    BY <1>7, <2>2, <2>3, SameStep
<1>14. CASE PlaceNew
  BY <1>2, <1>5, <1>14 DEF PlaceNew
<1>15. CASE Count
  BY <1>2, <1>6, <1>15 DEF Count, Made
<1>16. CASE PlaceOrCountFails
  BY <1>2, <1>5, <1>6, <1>16, SameStep DEF PlaceOrCountFails, NotMade, cardVars
<1>17. CASE Unlink
  BY <1>2, <1>4, <1>17, SameStep DEF Unlink, Made, NotMade
<1>18. CASE UnlinkFails
  BY <1>2, <1>4, <1>18, SameStep DEF UnlinkFails, NotMade
<1> QED
  BY <1>8, <1>9, <1>10, <1>11, <1>12, <1>13, <1>14, <1>15, <1>16, <1>17, <1>18 DEF MctoolsNext

LEMMA KeptNext == ASSUME LoopInv, KeptInv, [Next]_vars PROVE KeptInv'
<1>1. CASE EENext
  <2>1. fs' = fs /\ start' = start /\ original' = original /\ iop' \in {"idle", "batch"}
    BY <1>1 DEF EENext, BeginCreate, CreateCall, CreateReply, LoopOneEnds, LoopTwoEnds, BeginDelete,
        DeleteCall,
         DeleteReply, DeleteEnds, SendBatch, Ready, cardVars, iopVars, LoopInv, Batches
  <2> QED
    BY <2>1, SameStep DEF Frame, Targets
<1>2. CASE UNCHANGED vars
  <2>1. fs' = fs /\ Frame
    BY <1>2 DEF vars, cardVars, iopVars, Frame, KeptInv, Targets, Used
  <2> QED
    BY <2>1, SameStep
<1> QED
  BY <1>1, <1>2, KeptMctools DEF Next, Over

LEMMA KeptInit == Init => KeptInv
<1> SUFFICES ASSUME Init PROVE KeptInv
  OBVIOUS
<1>1. PICK from \in Installations : fs = from.fs /\ original = from.original
  BY DEF Init
<1>2. start = fs /\ iop = "idle"
  BY DEF Init
<1>3. start \in FileSystem /\ Sound(start)
  BY <1>1, <1>2, InstallationsAssumption, StartsAssumption
<1>4. StartInv
  <2>1. Tidy(start, StartEnds)
    BY <1>3, SoundIsTidy DEF StartEnds
  <2>2. ASSUME NEW a \in Aliases, a # original PROVE Named(start, FolderOf[a], a) = {}
    <3>1. Cardinality(Named(start, FolderOf[a], a)) = 0
      BY <1>1, <1>2, <2>2, StartsAssumption
    <3> QED
      BY <1>3, <3>1, FoldersAssumption, CountNamed
  <2> QED
    BY <1>3, <2>1, <2>2 DEF StartInv
<1>5. Table
  <2>1. \A f \in Folders : fs.len[f] >= start.len[f]
    BY <1>2, <1>3 DEF FileSystem
  <2>2. FREE \notin Used
    BY ClusterFacts DEF Used
  <2> QED
    BY <1>2, <2>1, <2>2 DEF Table, Used
<1> QED
  BY <1>2, <1>3, <1>4, <1>5 DEF KeptInv, Targets, PagesKept, Record

(* Whatever fails and however often, no entry that was on the card at the  *)
(* start is touched, of the original or of others, nor a cluster in use    *)
(* outside of the folders (AddFATRecord, CreateNewVirtualDirent,           *)
(* DeleteVirtualDirent).                                                   *)
THEOREM ForeignKept == Spec => []ForeignDataKept
<1>1. LoopInv /\ CardInv /\ KeptInv /\ [Next]_vars => (LoopInv /\ CardInv /\ KeptInv)'
  BY LoopNext, CardNext, KeptNext
<1> QED
  BY <1>1, LoopInit, CardInit, KeptInit, KeptForeign, PTL DEF Spec

-----------------------------------------------------------------------------
(* The types, which the invariants above leave only of the positions and   *)
(* the results to be shown.                                                *)
Positions ==
  /\ at \in 1 .. NumAliases + 1 /\ made \in 0 .. NumAliases /\ left \in 0 .. NumAliases
  /\ target \in 0 .. Word - 1
  /\ failures \in 0 .. MaxFailures /\ systemArea \in {"intact", "overwritten"}

LEMMA PositionsEE == ASSUME LoopInv, Positions, EENext PROVE Positions'
<1>1. /\ NumAliases \in Nat \ {0} /\ original \in 1 .. NumAliases + 1 /\ next \in 1 .. NumAliases + 2 /\ left \in Nat
      /\ MaxFailures \in Nat /\ at \in Nat /\ made \in Nat /\ last \in Nat
  BY SizesAssumption, FaultsAssumption DEF LoopInv, Loops, Batches
<1>2. ASSUME NEW kind, Fault(kind) PROVE failures' \in 0 .. MaxFailures
  BY <1>1, <1>2 DEF Fault, Positions
<1>3. failures' \in 0 .. MaxFailures /\ systemArea' = systemArea /\ target' = target
  <2>1. failures' = failures \/ \E kind : Fault(kind)
    BY DEF EENext, BeginCreate, CreateCall, CreateReply, LoopOneEnds, LoopTwoEnds, BeginDelete,
        DeleteCall,
         DeleteReply, DeleteEnds, SendBatch
  <2>2. systemArea' = systemArea /\ target' = target
    BY DEF EENext, BeginCreate, CreateCall, CreateReply, LoopOneEnds, LoopTwoEnds, BeginDelete,
        DeleteCall,
         DeleteReply, DeleteEnds, SendBatch, cardVars, iopVars
  <2> QED
    BY <1>2, <2>1, <2>2 DEF Positions
<1>4. at' \in 1 .. NumAliases + 1 /\ made' \in 0 .. NumAliases
  <2>1. /\ Ready("create") /\ left > 0 => next \in 1 .. NumAliases
        /\ Ready("delete") /\ next <= NumLinked => next \in 1 .. NumAliases
    BY <1>1, LinkedCount DEF Ready, LoopInv, Loops
  <2>2. \/ at' = at /\ made' = made
        \/ at' = next /\ made' = 0 /\ next \in 1 .. NumAliases
    BY <2>1 DEF EENext, BeginCreate, CreateCall, CreateReply, LoopOneEnds, LoopTwoEnds, BeginDelete,
        DeleteCall,
         DeleteReply, DeleteEnds, SendBatch, iopVars
  <2> QED
    BY <1>1, <2>2 DEF Positions
<1>5. left' \in 0 .. NumAliases
  <2>1. CASE CreateReply
    <3>1. made <= at - next /\ at <= last + 1 /\ last < next + left
      BY <1>1, <2>1 DEF CreateReply, LoopInv, Batches
    <3>2. left' = left - made \/ left' = 0
      BY <2>1 DEF CreateReply
    <3> QED
      BY <1>1, <3>1, <3>2 DEF Positions
  <2>2. CASE ~CreateReply
    <3>1. \/ left' = left \/ left' = 0 \/ left' = original - 1
          \/ left' = IF NumAliases > next THEN NumAliases - next ELSE 0
      BY <2>2 DEF EENext, BeginCreate, CreateCall, LoopOneEnds, LoopTwoEnds, BeginDelete,
          DeleteCall,
         DeleteReply, DeleteEnds, SendBatch, eeVars
    <3> QED
      BY <1>1, <3>1 DEF Positions
  <2> QED
    BY <2>1, <2>2
<1> QED
  BY <1>3, <1>4, <1>5 DEF Positions

LEMMA PositionsMctools == ASSUME LoopInv, KeptInv, Positions, MctoolsNext PROVE Positions'
<1>1. /\ NumAliases \in Nat \ {0} /\ at \in Nat \ {0} /\ made \in Nat /\ last \in Nat /\ last <= NumAliases
      /\ next \in Nat \ {0} /\ MaxFailures \in Nat /\ Word \in Nat \ {0} /\ AllocStart \in Nat
      /\ NumClusters \in Nat /\ AllocStart + NumClusters < Word
  BY SizesAssumption, FaultsAssumption DEF LoopInv, Loops, Batches
<1>2. left' = left
  BY DEF MctoolsNext, CreateInSlot, NoSlot, SlotFails, Grow, Mark, GrowFails, PlaceNew, Count,
         PlaceOrCountFails, Unlink, UnlinkFails, eeVars
<1>3. systemArea' \in {"intact", "overwritten"}
  BY DEF Positions, MctoolsNext, CreateInSlot, NoSlot, SlotFails, Grow, Mark, GrowFails, PlaceNew,
      Place, Count,
         PlaceOrCountFails, Unlink, UnlinkFails, cardVars
<1>4. failures' \in 0 .. MaxFailures
  <2>1. failures' = failures \/ \E kind : Fault(kind)
    BY DEF MctoolsNext, CreateInSlot, NoSlot, SlotFails, Grow, Mark, GrowFails, PlaceNew, Count,
         PlaceOrCountFails, Unlink, UnlinkFails
  <2>2. ASSUME NEW kind, Fault(kind) PROVE failures' \in 0 .. MaxFailures
    BY <1>1, <2>2 DEF Fault, Positions
  <2> QED
    BY <2>1, <2>2 DEF Positions
<1>5. at' \in 1 .. NumAliases + 1 /\ made' \in 0 .. NumAliases
  <2>1. at <= last /\ made <= at - next
    BY <1>1 DEF LoopInv, Batches, MctoolsNext, CreateInSlot, NoSlot, SlotFails, Grow, Mark,
        GrowFails, PlaceNew,
         Count, PlaceOrCountFails, Unlink, UnlinkFails, InBatch
  <2>2. at' \in {at, at + 1} /\ made' \in {made, made + 1}
    BY DEF MctoolsNext, CreateInSlot, NoSlot, SlotFails, Grow, Mark, GrowFails, PlaceNew, Count,
         PlaceOrCountFails, Unlink, UnlinkFails, Made, NotMade
  <2>3. at + 1 \in 1 .. NumAliases + 1 /\ made + 1 \in 0 .. NumAliases
    BY <1>1, <2>1
  <2> QED
    BY <2>2, <2>3 DEF Positions
<1>6. target' \in 0 .. Word - 1
  <2>1. ASSUME NEW x \in Int PROVE Unsigned(Unsigned(x) + AllocStart) \in 0 .. Word - 1
    <3>1. x % Word \in Int
      BY <1>1
    <3>2. (x % Word) + AllocStart \in Int
      BY <1>1, <3>1
    <3>3. ASSUME NEW y \in Int PROVE y % Word \in 0 .. Word - 1
      BY <1>1
    <3> QED
      BY <3>2, <3>3 DEF Unsigned
  <2>2. \/ target' = target
        \/ \E x \in Int : target' = Unsigned(Unsigned(x) + AllocStart)
        \/ target' \in Clusters
    <3>1. CASE Grow
      <4>1. CASE FreeClusters(fs) = {} \/ EndOf(fs, Folder) = {}
        <5>1. target' = Unsigned(Unsigned(-EINVAL) + AllocStart) /\ -EINVAL \in Int
          BY <3>1, <4>1 DEF Grow, PlaceAt, EINVAL
        <5> QED
          BY <5>1
      <4>2. CASE ~(FreeClusters(fs) = {} \/ EndOf(fs, Folder) = {})
        BY <3>1, <4>2, FreeFacts DEF Grow
      <4> QED
        BY <4>1, <4>2
    <3>2. CASE Mark
      <4>1. target \in Int
        BY <1>1 DEF Positions
      <4>2. target' = Unsigned(Unsigned(target) + AllocStart)
        BY <3>2 DEF Mark, PlaceAt
      <4> QED
        BY <4>1, <4>2
    <3>3. CASE GrowFails
      <4>1. \E e \in {1, EIO} : -e \in Int /\ target' = Unsigned(Unsigned(-e) + AllocStart)
        BY <3>3 DEF GrowFails, PlaceAt, EIO
      <4> QED
        BY <4>1
    <3>4. CASE ~(Grow \/ Mark \/ GrowFails)
      BY <3>4 DEF MctoolsNext, CreateInSlot, NoSlot, SlotFails, PlaceNew, Count, PlaceOrCountFails,
          Unlink,
           UnlinkFails
    <3> QED
      BY <3>1, <3>2, <3>3, <3>4
  <2>3. Clusters \subseteq 0 .. Word - 1
    BY <1>1 DEF Clusters
  <2> QED
    BY <2>1, <2>2, <2>3 DEF Positions
<1> QED
  BY <1>2, <1>3, <1>4, <1>5, <1>6 DEF Positions

LEMMA PositionsInit == Init => Positions
<1> SUFFICES ASSUME Init PROVE Positions
  OBVIOUS
<1>1. NumAliases \in Nat \ {0} /\ MaxFailures \in Nat /\ Word \in Nat \ {0}
  BY SizesAssumption, FaultsAssumption
<1> QED
  BY <1>1 DEF Init, Positions

(* The variables have their types: whatever fails, no index of the lists   *)
(* and no cluster is out of its range.                                     *)
THEOREM TypeCorrect == Spec => []TypeOK
<1>1. LoopInv /\ CardInv /\ KeptInv /\ Positions /\ [Next]_vars => Positions'
  <2> SUFFICES ASSUME LoopInv, KeptInv, Positions, [Next]_vars PROVE Positions'
    OBVIOUS
  <2>1. CASE UNCHANGED vars
    BY <2>1 DEF vars, eeVars, iopVars, Positions
  <2> QED
    BY <2>1, PositionsEE, PositionsMctools DEF Next, Over
<1>2. LoopInv /\ CardInv /\ KeptInv /\ Positions /\ [Next]_vars => (LoopInv /\ CardInv /\ KeptInv /\ Positions)'
  BY <1>1, LoopNext, CardNext, KeptNext
<1>3. LoopInv /\ KeptInv /\ Positions => TypeOK
  <2> SUFFICES ASSUME LoopInv, KeptInv, Positions PROVE TypeOK
    OBVIOUS
  <2>1. fs \in FileSystem /\ start \in FileSystem
    BY DEF KeptInv, StartInv
  <2>2. ok \in BOOLEAN
    BY DEF LoopInv, Loops
  <2>3. last \in 0 .. NumAliases
    BY SizesAssumption DEF LoopInv, Batches
  <2> QED
    BY <2>1, <2>2, <2>3 DEF TypeOK, LoopInv, Loops, Batches, Positions
<1> QED
  BY <1>2, <1>3, LoopInit, CardInit, KeptInit, PositionsInit, PTL DEF Spec
=============================================================================
