------------------------- MODULE ProductCatalogProofs -------------------------
(***************************************************************************)
(* Proofs about ProductCatalog, for any evidence, terminals, people and ids. *)
(* The argument: what a terminal has decided is sound for the evidence it    *)
(* came from, which never changes; a catalog of sound values in the order of *)
(* their ids survives a registration and is given back by decoding its       *)
(* document; and while a terminal has the writer nobody else replaces the    *)
(* document.                                                                 *)
(***************************************************************************)
EXTENDS ProductCatalog, FiniteSetTheorems, WellFoundedInduction, TLAPS

-----------------------------------------------------------------------------
(* Every nonempty set of naturals has a least element.                     *)
LEMMA LeastOf ==
  ASSUME NEW T, T \subseteq Nat, T # {}
  PROVE  \E x \in T : \A y \in T : x <= y
<1> DEFINE R == OpToRel(<, Nat)
<1>1. IsWellFoundedOn(R, Nat)
  BY NatLessThanWellFounded
<1>2. \A x, y \in Nat : y < x => <<y, x>> \in R
  BY DEF OpToRel
<1> HIDE DEF R
<1>3. PICK x \in T : \A y \in T : ~(<<y, x>> \in R)
  BY <1>1, WFMin
<1>4. \A y \in T : ~(y < x)
  BY <1>2, <1>3
<1> QED
  BY <1>3, <1>4

-----------------------------------------------------------------------------
(***************************************************************************)
(* Pairs and the order of observations.                                     *)
(***************************************************************************)
(* A pair has two different members.                                       *)
LEMMA PairsAre ==
  ASSUME NEW S
  PROVE  /\ \A p \in Pairs(S) : p \subseteq S /\ \E x, y \in S : x # y /\ p = {x, y}
         /\ \A x, y \in S : x # y => {x, y} \in Pairs(S)
<1>1. ASSUME NEW p \in Pairs(S)
      PROVE  p \subseteq S /\ \E x, y \in S : x # y /\ p = {x, y}
  <2>1. PICK x \in S, y \in S : p = {x, y}
    BY <1>1 DEF Pairs
  <2>2. p \notin {{z} : z \in S}
    BY <1>1 DEF Pairs
  <2>3. x # y
    BY <2>1, <2>2
  <2> QED
    BY <2>1, <2>3
<1>2. ASSUME NEW x \in S, NEW y \in S, x # y
      PROVE  {x, y} \in Pairs(S)
  <2>1. {x, y} \in {{a, b} : a, b \in S}
    OBVIOUS
  <2>2. {x, y} \notin {{z} : z \in S}
    <3>1. ASSUME NEW z \in S, {x, y} = {z} PROVE FALSE
      <4>1. x \in {z} /\ y \in {z}
        BY <3>1
      <4> QED
        BY <4>1, <1>2
    <3> QED
      BY <3>1
  <2> QED
    BY <2>1, <2>2 DEF Pairs
<1> QED
  BY <1>1, <1>2

(* How many members of S are smaller.                                      *)
Rank(S, x) == Cardinality({y \in S : y < x})

(* Ranks are different numbers below the size of the set.                  *)
LEMMA Ranks ==
  ASSUME NEW S, IsFiniteSet(S), S \subseteq Nat
  PROVE  /\ \A x \in S : Rank(S, x) \in 0 .. Cardinality(S) - 1
         /\ \A x, y \in S : Rank(S, x) = Rank(S, y) => x = y
         /\ \A k \in 0 .. Cardinality(S) - 1 : \E x \in S : Rank(S, x) = k
<1> DEFINE B(x) == {y \in S : y < x}
           n == Cardinality(S)
<1>1. n \in Nat
  BY FS_CardinalityType
<1>2. \A x \in S : IsFiniteSet(B(x)) /\ Cardinality(B(x)) \in Nat
  <2> TAKE x \in S
  <2>1. B(x) \in SUBSET S
    OBVIOUS
  <2>2. IsFiniteSet(B(x))
    BY <2>1, FS_Subset
  <2> QED
    BY <2>2, FS_CardinalityType
<1>3. ASSUME NEW x \in S PROVE Cardinality(B(x)) <= n - 1
  <2>1. IsFiniteSet(S \ {x}) /\ Cardinality(S \ {x}) = n - 1
    BY FS_RemoveElement
  <2>2. B(x) \in SUBSET (S \ {x})
    OBVIOUS
  <2>3. Cardinality(B(x)) <= Cardinality(S \ {x})
    BY <2>1, <2>2, FS_Subset
  <2> QED
    BY <2>1, <2>3
<1>4. ASSUME NEW x \in S, NEW y \in S, x < y
      PROVE  Cardinality(B(x)) # Cardinality(B(y))
  <2>1. B(x) \in SUBSET B(y)
    <3>1. \A z \in S : z < x => z < y
      BY <1>4
    <3> QED
      BY <3>1
  <2>2. x \in B(y) /\ x \notin B(x)
    BY <1>4
  <2> QED
    BY <2>1, <2>2, <1>2, FS_Subset
<1>5. \A x \in S : Rank(S, x) \in 0 .. n - 1
  BY <1>1, <1>2, <1>3 DEF Rank
<1>6. \A x, y \in S : Rank(S, x) = Rank(S, y) => x = y
  <2> SUFFICES ASSUME NEW x \in S, NEW y \in S, x # y PROVE Rank(S, x) # Rank(S, y)
    OBVIOUS
  <2>1. CASE x < y
    BY <2>1, <1>4 DEF Rank
  <2>2. CASE y < x
    BY <2>2, <1>4 DEF Rank
  <2> QED
    BY <2>1, <2>2
<1>7. ASSUME NEW k \in 0 .. n - 1 PROVE \E x \in S : Rank(S, x) = k
  <2> DEFINE f == [x \in S |-> Rank(S, x)]
             T == 0 .. n - 1
  <2>1. f \in [S -> T] /\ \A x, y \in S : f[x] = f[y] => x = y
    BY <1>5, <1>6
  <2>2. f \in Injection(S, T)
    BY <2>1 DEF Injection, IsInjective
  <2>3. IsFiniteSet(T) /\ Cardinality(T) = n
    BY <1>1, FS_Interval
  <2>4. f \in Surjection(S, T)
    BY <2>2, <2>3, FS_Injection
  <2>5. \E x \in S : f[x] = k
    BY <2>4 DEF Surjection
  <2> QED
    BY <2>5
<1> QED
  BY <1>5, <1>6, <1>7

(* Ascending lists every member once.                                      *)
LEMMA AscendingLists ==
  ASSUME NEW S, IsFiniteSet(S), S \subseteq Nat
  PROVE  /\ Ascending(S) \in [1 .. Cardinality(S) -> S]
         /\ IsInjective(Ascending(S)) /\ ToSet(Ascending(S)) = S
<1> DEFINE n == Cardinality(S)
           a == Ascending(S)
<1>1. n \in Nat
  BY FS_CardinalityType
<1>2. DOMAIN a = 1 .. n /\ a = [i \in 1 .. n |-> a[i]]
  BY DEF Ascending
<1>3. ASSUME NEW i \in 1 .. n PROVE a[i] \in S /\ Rank(S, a[i]) = i - 1
  <2>1. a[i] = CHOOSE x \in S : Rank(S, x) = i - 1
    BY DEF Ascending, Rank
  <2>2. i - 1 \in 0 .. n - 1
    BY <1>1
  <2> QED
    BY <2>1, <2>2, Ranks
<1> HIDE DEF a
<1>4. \A i, j \in 1 .. n : a[i] = a[j] => i = j
  BY <1>1, <1>3
<1>5. ASSUME NEW x \in S PROVE \E i \in 1 .. n : a[i] = x
  <2>1. PICK k \in 0 .. n - 1 : Rank(S, x) = k
    BY Ranks
  <2>2. k + 1 \in 1 .. n /\ (k + 1) - 1 = k
    BY <1>1
  <2>3. a[k + 1] \in S /\ Rank(S, a[k + 1]) = k
    BY <2>2, <1>3
  <2>4. a[k + 1] = x
    BY <2>1, <2>3, Ranks
  <2> QED
    BY <2>2, <2>4
<1>6. ToSet(a) = S
  BY <1>2, <1>3, <1>5 DEF ToSet
<1> QED
  BY <1>2, <1>3, <1>4, <1>6 DEF IsInjective, a

-----------------------------------------------------------------------------
(***************************************************************************)
(* What the evidence says of two observations.                              *)
(***************************************************************************)
RelationOf(w, p) == LET s == Ascending(p) IN ResolveProductEntities(w[s[1]], w[s[2]])

(* It does not matter which of the two is looked at first.                 *)
LEMMA ResolveSymmetric ==
  ASSUME NEW l, NEW r
  PROVE  ResolveProductEntities(l, r) = ResolveProductEntities(r, l)
<1>1. \A a, b : (Overlap(a, b) <=> Overlap(b, a)) /\ (Disjoint(a, b) <=> Disjoint(b, a))
  BY DEF Overlap, Disjoint
<1>2. IdentityConflict(l, r) <=> IdentityConflict(r, l)
  BY <1>1 DEF IdentityConflict
<1>3. FamilyMatch(l, r) <=> FamilyMatch(r, l)
  BY <1>1 DEF FamilyMatch
<1>4. VariantConflict(l, r) <=> VariantConflict(r, l)
  BY DEF VariantConflict
<1> QED
  BY <1>2, <1>3, <1>4 DEF ResolveProductEntities

(* A pair's relationship is that of its members, in either order.          *)
LEMMA RelationOfPair ==
  ASSUME NEW w, NEW x \in Nat, NEW y \in Nat, x # y
  PROVE  /\ RelationOf(w, {x, y}) = ResolveProductEntities(w[x], w[y])
         /\ LET s == Ascending({x, y})
            IN  RelationOf(w, {x, y}) = ResolveProductEntities(w[s[2]], w[s[1]])
<1> DEFINE S == {x, y}
           s == Ascending(S)
<1>1. IsFiniteSet(S) /\ Cardinality(S) = 2 /\ S \subseteq Nat
  <2>1. IsFiniteSet({x}) /\ Cardinality({x}) = 1
    BY FS_Singleton
  <2>2. IsFiniteSet({x} \cup {y}) /\ Cardinality({x} \cup {y}) = 2
    BY <2>1, FS_AddElement
  <2>3. S = {x} \cup {y}
    OBVIOUS
  <2> QED
    BY <2>2, <2>3
<1>2. s \in [1 .. 2 -> S] /\ IsInjective(s)
  BY <1>1, AscendingLists
<1> HIDE DEF s
<1>3. s[1] \in S /\ s[2] \in S /\ s[1] # s[2]
  BY <1>2 DEF IsInjective
<1>4. \/ s[1] = x /\ s[2] = y
      \/ s[1] = y /\ s[2] = x
  BY <1>3
<1>5. RelationOf(w, S) = ResolveProductEntities(w[s[1]], w[s[2]])
  BY DEF RelationOf, s
<1> QED
  BY <1>4, <1>5, ResolveSymmetric DEF s

-----------------------------------------------------------------------------
(***************************************************************************)
(* The searches.                                                            *)
(***************************************************************************)
(* What is reached is the least set with the start that no edge leaves.    *)
LEMMA ReachedIs ==
  ASSUME NEW rel, NEW kinds, NEW o
  PROVE  /\ o \in Reached(rel, kinds, o)
         /\ Closed(Edges(rel, kinds), Reached(rel, kinds, o))
         /\ Reached(rel, kinds, o) \subseteq {o} \cup UNION Edges(rel, kinds)
         /\ \A S : o \in S /\ Closed(Edges(rel, kinds), S) => Reached(rel, kinds, o) \subseteq S
<1> DEFINE E == Edges(rel, kinds)
           all == {o} \cup UNION E
           R == Reached(rel, kinds, o)
<1>1. R = {x \in all : \A S \in SUBSET all : o \in S /\ Closed(E, S) => x \in S}
  BY DEF Reached
<1> HIDE DEF R, E
<1>2. o \in R /\ R \subseteq all
  BY <1>1
<1>3. Closed(E, R)
  <2> SUFFICES ASSUME NEW p \in E, NEW x \in p, x \in R, NEW y \in p PROVE y \in R
    BY DEF Closed, Overlap
  <2>1. y \in all
    OBVIOUS
  <2>2. ASSUME NEW S \in SUBSET all, o \in S, Closed(E, S) PROVE y \in S
    <3>1. x \in S
      BY <2>2, <1>1
    <3> QED
      BY <2>2, <3>1 DEF Closed, Overlap
  <2> QED
    BY <2>1, <2>2, <1>1
<1>4. ASSUME NEW S, o \in S, Closed(E, S) PROVE R \subseteq S
  <2> DEFINE T == S \cap all
  <2>1. T \in SUBSET all /\ o \in T
    BY <1>4
  <2>2. Closed(E, T)
    BY <1>4 DEF Closed, Overlap
  <2> HIDE DEF T
  <2>3. R \subseteq T
    BY <2>1, <2>2, <1>1
  <2> QED
    BY <2>3 DEF T
<1> QED
  BY <1>2, <1>3, <1>4 DEF R, E

(* Edges have no direction: from what is reached the rest is reached.      *)
LEMMA ReachedFromAny ==
  ASSUME NEW rel, NEW kinds, NEW o, NEW x \in Reached(rel, kinds, o)
  PROVE  Reached(rel, kinds, o) \subseteq Reached(rel, kinds, x)
<1> DEFINE E == Edges(rel, kinds)
           R(z) == Reached(rel, kinds, z)
<1>1. x \in R(x) /\ Closed(E, R(x))
  BY ReachedIs
<1>2. o \in R(x)
  <2> SUFFICES ASSUME o \notin R(x) PROVE FALSE
    OBVIOUS
  <2> DEFINE S == R(o) \ R(x)
  <2>1. o \in S /\ x \notin S
    BY <1>1, ReachedIs
  <2>2. Closed(E, S)
    <3>1. Closed(E, R(o))
      BY ReachedIs
    <3> QED
      BY <3>1, <1>1 DEF Closed, Overlap
  <2>3. R(o) \subseteq S
    BY <2>1, <2>2, ReachedIs
  <2> QED
    BY <2>1, <2>3
<1> QED
  BY <1>1, <1>2, ReachedIs

-----------------------------------------------------------------------------
(***************************************************************************)
(* Families.                                                                *)
(***************************************************************************)
(* A family that the evidence w bears out: its pairs are what the evidence *)
(* says of them, and no two of its members are known to differ.            *)
GoodFamily(w, f) ==
  /\ f = [id |-> f.id, members |-> f.members,
          approval |-> [proposal |-> [members |-> f.members, pairs |-> PairsOf(f)],
                        actor |-> f.approval.actor]]
  /\ f.id \in Nat
  /\ f.members \in Seq(DOMAIN w) /\ Len(f.members) >= 2 /\ IsInjective(f.members)
  /\ PairsOf(f) = [p \in Pairs(ToSet(f.members)) |-> RelationOf(w, p)]
  /\ \A p \in Pairs(ToSet(f.members)) : RelationOf(w, p) # "DIFFERENT_PRODUCT"

(* In a group without conflicts no two members are known to differ.        *)
LEMMA GroupAgrees ==
  ASSUME NEW w, NEW obs, NEW o \in obs,
         GroupOf(ResolutionGraph(obs, w), o).conflicts = {}
  PROVE  LET M == Reached(ResolutionGraph(obs, w).rel, Positive, o)
         IN  /\ o \in M /\ M \subseteq obs
             /\ \A p \in Pairs(M) : /\ p \in Pairs(obs)
                                    /\ ResolutionGraph(obs, w).rel[p] = RelationOf(w, p)
                                    /\ RelationOf(w, p) # "DIFFERENT_PRODUCT"
<1> DEFINE g == ResolutionGraph(obs, w)
           rel == g.rel
           M == Reached(rel, Positive, o)
<1>1. rel = [p \in Pairs(obs) |-> RelationOf(w, p)]
  BY DEF ResolutionGraph, RelationOf
<1>2. {c \in FindConflicts(g) : Overlap(c, M)} = {}
  BY DEF GroupOf
<1>3. FindConflicts(g) = {p \in DOMAIN rel : rel[p] = "DIFFERENT_PRODUCT"
                            /\ \E x \in p : p \subseteq Reached(rel, Positive, x)}
  BY DEF FindConflicts
<1> HIDE DEF rel, g
<1>4. o \in M /\ M \subseteq obs
  <2>1. o \in M /\ M \subseteq {o} \cup UNION Edges(rel, Positive)
    BY ReachedIs
  <2>2. Edges(rel, Positive) \subseteq Pairs(obs)
    BY <1>1 DEF Edges
  <2>3. UNION Edges(rel, Positive) \subseteq obs
    BY <2>2, PairsAre
  <2> QED
    BY <2>1, <2>3
<1>5. ASSUME NEW p \in Pairs(M)
      PROVE  p \in Pairs(obs) /\ rel[p] = RelationOf(w, p) /\ RelationOf(w, p) # "DIFFERENT_PRODUCT"
  <2>1. PICK x \in M, y \in M : x # y /\ p = {x, y}
    BY PairsAre
  <2>2. p \in Pairs(obs)
    BY <2>1, <1>4, PairsAre
  <2>3. rel[p] = RelationOf(w, p) /\ p \in DOMAIN rel
    BY <2>2, <1>1
  <2>4. p \subseteq Reached(rel, Positive, x)
    BY <2>1, ReachedFromAny
  <2>5. Overlap(p, M) /\ x \in p
    BY <2>1 DEF Overlap
  <2>6. rel[p] # "DIFFERENT_PRODUCT"
    <3> SUFFICES ASSUME rel[p] = "DIFFERENT_PRODUCT" PROVE FALSE
      OBVIOUS
    <3>1. p \in FindConflicts(g)
      BY <1>3, <2>3, <2>4, <2>5
    <3> QED
      BY <3>1, <2>5, <1>2
  <2> QED
    BY <2>2, <2>3, <2>6
<1> QED
  BY <1>4, <1>5 DEF rel, g

(* A family approved from a plan is borne out by the evidence of the plan. *)
LEMMA PlannedIsGood ==
  ASSUME NEW w, DOMAIN w \subseteq Nat, IsFiniteSet(DOMAIN w),
         NEW obs, obs \subseteq DOMAIN w,
         NEW proposal \in PlanFamilyReview(obs, w), NEW actor, NEW id \in Nat
  PROVE  GoodFamily(w, CreateCanonicalFamily(proposal, actor, id))
<1> DEFINE graph == ResolutionGraph(obs, w)
           f == CreateCanonicalFamily(proposal, actor, id)
<1>1. PICK g \in GroupResolutionGraph(graph) :
         proposal = CreateFamilyMergeProposal(graph, g) /\ proposal # Refused
  BY DEF PlanFamilyReview
<1>2. PICK o \in obs : g = GroupOf(graph, o)
  BY DEF GroupResolutionGraph, ResolutionGraph
<1>3. /\ g.status = "POSITIVE_CONNECTED" /\ g.conflicts = {}
      /\ proposal = [members |-> Ascending(g.members), pairs |-> Restrict(graph.rel, Pairs(g.members))]
  BY <1>1 DEF CreateFamilyMergeProposal
<1> DEFINE M == Reached(graph.rel, Positive, o)
<1>4. g.members = M /\ Cardinality(M) # 1
  BY <1>2, <1>3 DEF GroupOf
<1>5. /\ o \in M /\ M \subseteq obs
      /\ \A p \in Pairs(M) : graph.rel[p] = RelationOf(w, p) /\ RelationOf(w, p) # "DIFFERENT_PRODUCT"
  BY <1>2, <1>3, GroupAgrees
<1> HIDE DEF M, graph
<1>6. IsFiniteSet(M) /\ Cardinality(M) \in Nat /\ Cardinality(M) >= 2 /\ M \subseteq Nat
  <2>1. IsFiniteSet(M) /\ M \subseteq Nat
    BY <1>5, FS_Subset
  <2>2. Cardinality(M) \in Nat /\ Cardinality(M) # 0
    BY <2>1, <1>5, FS_CardinalityType, FS_EmptySet
  <2> QED
    BY <2>1, <2>2, <1>4
<1>7. /\ Ascending(M) \in [1 .. Cardinality(M) -> M]
      /\ IsInjective(Ascending(M)) /\ ToSet(Ascending(M)) = M
  BY <1>6, AscendingLists
<1> DEFINE a == Ascending(M)
<1>8. a \in Seq(DOMAIN w) /\ Len(a) >= 2
  <2>1. a \in [1 .. Cardinality(M) -> DOMAIN w]
    BY <1>5, <1>7
  <2> HIDE DEF a
  <2> QED
    BY <2>1, <1>6
<1>9. Restrict(graph.rel, Pairs(M)) = [p \in Pairs(M) |-> RelationOf(w, p)]
  BY <1>5 DEF Restrict
<1>10. f = [id |-> id, members |-> a,
            approval |-> [proposal |-> [members |-> a, pairs |-> [p \in Pairs(M) |-> RelationOf(w, p)]],
                          actor |-> actor]]
  BY <1>3, <1>4, <1>9 DEF CreateCanonicalFamily
<1> HIDE DEF f, a
<1>11. /\ f.id = id /\ f.members = a /\ f.approval.actor = actor
       /\ PairsOf(f) = [p \in Pairs(M) |-> RelationOf(w, p)]
  BY <1>10 DEF PairsOf
<1>12. ToSet(a) = M /\ IsInjective(a)
  BY <1>7 DEF a
<1>13. GoodFamily(w, f)
  BY <1>5, <1>8, <1>10, <1>11, <1>12 DEF GoodFamily
<1> QED
  BY <1>13 DEF f

-----------------------------------------------------------------------------
(***************************************************************************)
(* The document of one family, and of one variant.                          *)
(***************************************************************************)
(* Positions in a list mean what they were taken for.                      *)
LEMMA PositionsMean ==
  ASSUME NEW s, NEW S, S \subseteq ToSet(s)
  PROVE  /\ \A x \in S : PositionOf(s, x) \in DOMAIN s /\ s[PositionOf(s, x)] = x
         /\ Positions(s, S) \subseteq DOMAIN s
         /\ {s[i] : i \in Positions(s, S)} = S
<1>1. ASSUME NEW x \in S PROVE PositionOf(s, x) \in DOMAIN s /\ s[PositionOf(s, x)] = x
  <2>1. \E i \in DOMAIN s : s[i] = x
    BY DEF ToSet
  <2> QED
    BY <2>1 DEF PositionOf
<1> QED
  BY <1>1 DEF Positions

(* A family is what its document says.                                     *)
LEMMA FamilyRoundTrip ==
  ASSUME NEW w, NEW f, GoodFamily(w, f)
  PROVE  DecodeFamily(EncodeFamily(f)) = f
<1> DEFINE m == f.members
           d == EncodeFamily(f)
           r == PairsOf(f)
<1>1. /\ d.id = f.id /\ d.members = m /\ d.actor = f.approval.actor
      /\ d.pairs = [p \in Pairs(DOMAIN m) |-> r[{m[i] : i \in p}]]
  BY DEF EncodeFamily
<1>2. Len(m) >= 2 /\ IsInjective(m) /\ DOMAIN r = Pairs(ToSet(m)) /\ r = [q \in Pairs(ToSet(m)) |-> r[q]]
  BY DEF GoodFamily
<1> HIDE DEF d, r
<1>3. ASSUME NEW q \in Pairs(ToSet(m)) PROVE d.pairs[Positions(m, q)] = r[q]
  <2>1. PICK x \in ToSet(m), y \in ToSet(m) : x # y /\ q = {x, y}
    BY PairsAre
  <2>2. q \subseteq ToSet(m)
    BY <2>1
  <2>3. Positions(m, q) = {PositionOf(m, x), PositionOf(m, y)}
    BY <2>1 DEF Positions
  <2>4. /\ PositionOf(m, x) \in DOMAIN m /\ PositionOf(m, y) \in DOMAIN m
        /\ m[PositionOf(m, x)] = x /\ m[PositionOf(m, y)] = y
    BY <2>1, <2>2, PositionsMean
  <2>5. PositionOf(m, x) # PositionOf(m, y)
    BY <2>1, <2>4
  <2>6. Positions(m, q) \in Pairs(DOMAIN m)
    BY <2>3, <2>4, <2>5, PairsAre
  <2>7. {m[i] : i \in Positions(m, q)} = q
    BY <2>2, PositionsMean
  <2>8. d.pairs[Positions(m, q)] = r[{m[i] : i \in Positions(m, q)}]
    BY <2>6, <1>1
  <2> QED
    BY <2>7, <2>8
<1>4. [q \in Pairs(ToSet(m)) |-> d.pairs[Positions(m, q)]] = r
  BY <1>2, <1>3
<1>5. DOMAIN d.pairs = Pairs(DOMAIN m)
  BY <1>1
<1>6. DecodeFamily(d) = CreateCanonicalFamily([members |-> m, pairs |-> r], d.actor, d.id)
  BY <1>1, <1>2, <1>4, <1>5 DEF DecodeFamily
<1>7. DecodeFamily(d) = [id |-> f.id, members |-> m,
                         approval |-> [proposal |-> [members |-> m, pairs |-> r], actor |-> f.approval.actor]]
  BY <1>1, <1>6 DEF CreateCanonicalFamily
<1>8. f = [id |-> f.id, members |-> m,
           approval |-> [proposal |-> [members |-> m, pairs |-> r], actor |-> f.approval.actor]]
  BY DEF GoodFamily, r
<1> QED
  BY <1>7, <1>8 DEF d

World(w) == DOMAIN w \subseteq Nat /\ IsFiniteSet(DOMAIN w)

(* A variant that was proposed on a family that the evidence bears out.    *)
GoodVariant(w, v) ==
  /\ v = [id |-> v.id, approval |-> [proposal |-> v.approval.proposal, actor |-> v.approval.actor]]
  /\ v.id \in Nat
  /\ GoodFamily(w, SourceFamily(v))
  /\ \E selected \in SUBSET ToSet(SourceFamily(v).members) :
        /\ v.approval.proposal = CreateVariantProposal(SourceFamily(v), selected)
        /\ v.approval.proposal # Refused

(* Its proposal is that of its members, which are exact throughout.        *)
LEMMA VariantIs ==
  ASSUME NEW w, World(w), NEW v, GoodVariant(w, v)
  PROVE  LET f == SourceFamily(v)
             M == MembersOf(v)
         IN  /\ M # {} /\ M \subseteq ToSet(f.members)
             /\ Pairs(M) \subseteq DirectExact(f)
             /\ v.approval.proposal = CreateVariantProposal(f, M)
             /\ v.approval.proposal # Refused
             /\ v.approval.proposal.family = f
             /\ ToSet(v.approval.proposal.members) = M
             /\ v.approval.proposal.exact = DirectExact(f) /\ v.approval.proposal.gaps = ExactnessGaps(f)
<1> DEFINE f == SourceFamily(v)
           q == v.approval.proposal
<1>1. PICK sel \in SUBSET ToSet(f.members) : q = CreateVariantProposal(f, sel) /\ q # Refused
  BY DEF GoodVariant
<1>2. f.members \in Seq(DOMAIN w) /\ GoodFamily(w, f)
  BY DEF GoodVariant, GoodFamily
<1>3. /\ sel # {} /\ Pairs(sel) \subseteq DirectExact(f)
      /\ q = [family |-> f, members |-> Ascending(sel), exact |-> DirectExact(f), gaps |-> ExactnessGaps(f)]
  BY <1>1 DEF CreateVariantProposal
<1>4. ToSet(f.members) \subseteq DOMAIN w
  BY <1>2 DEF ToSet
<1>5. IsFiniteSet(sel) /\ sel \subseteq Nat
  <2>1. sel \in SUBSET DOMAIN w
    BY <1>4
  <2> QED
    BY <2>1, FS_Subset DEF World
<1>6. ToSet(Ascending(sel)) = sel
  BY <1>5, AscendingLists
<1>7. q.family = f /\ q.members = Ascending(sel) /\ q.exact = DirectExact(f) /\ q.gaps = ExactnessGaps(f)
  BY <1>3
<1>8. MembersOf(v) = sel
  BY <1>6, <1>7 DEF MembersOf
<1> HIDE DEF f, q
<1>9. /\ MembersOf(v) # {} /\ MembersOf(v) \subseteq ToSet(f.members) /\ Pairs(MembersOf(v)) \subseteq DirectExact(f)
      /\ q = CreateVariantProposal(f, MembersOf(v)) /\ q # Refused /\ q.family = f
      /\ ToSet(q.members) = MembersOf(v) /\ q.exact = DirectExact(f) /\ q.gaps = ExactnessGaps(f)
  BY <1>1, <1>3, <1>6, <1>7, <1>8
<1> QED
  BY <1>9 DEF f, q

(* A variant is what its document says, next to the families' list.        *)
LEMMA VariantRoundTrip ==
  ASSUME NEW w, World(w), NEW v, GoodVariant(w, v), NEW fs, SourceFamily(v) \in ToSet(fs)
  PROVE  DecodeVariant(EncodeVariant(v, fs), fs) = v
<1> DEFINE f == SourceFamily(v)
           q == v.approval.proposal
           m == f.members
           d == EncodeVariant(v, fs)
           M == MembersOf(v)
           at(S) == {m[i] : i \in S}
<1>1. /\ M # {} /\ M \subseteq ToSet(m) /\ q = CreateVariantProposal(f, M) /\ q # Refused /\ q.family = f
      /\ ToSet(q.members) = M /\ q.exact = DirectExact(f) /\ q.gaps = ExactnessGaps(f)
  BY VariantIs
<1>2. /\ d.id = v.id /\ d.family = PositionOf(fs, f) /\ d.members = Positions(m, M)
      /\ d.exact = {Positions(m, p) : p \in DirectExact(f)}
      /\ d.gaps = {Positions(m, p) : p \in ExactnessGaps(f)}
      /\ d.actor = v.approval.actor
  BY <1>1 DEF EncodeVariant
<1>3. DOMAIN PairsOf(f) = Pairs(ToSet(m))
  BY DEF GoodVariant, GoodFamily
<1>4. /\ \A p \in DirectExact(f) : p \subseteq ToSet(m)
      /\ \A p \in ExactnessGaps(f) : p \subseteq ToSet(m)
  BY <1>3, PairsAre DEF DirectExact, ExactnessGaps
<1>5. d.family \in DOMAIN fs /\ fs[d.family] = f
  <2>1. {f} \subseteq ToSet(fs)
    OBVIOUS
  <2>2. \A x \in {f} : PositionOf(fs, x) \in DOMAIN fs /\ fs[PositionOf(fs, x)] = x
    BY <2>1, PositionsMean
  <2> QED
    BY <2>2, <1>2
<1> HIDE DEF d, q, f, M
<1>6. at(d.members) = M /\ d.members \subseteq DOMAIN m
  BY <1>1, <1>2, PositionsMean
<1>7. \A p \in DirectExact(f) \cup ExactnessGaps(f) : at(Positions(m, p)) = p
  BY <1>4, PositionsMean
<1>8. {at(p) : p \in d.exact} = DirectExact(f) /\ {at(p) : p \in d.gaps} = ExactnessGaps(f)
  <2> HIDE DEF at
  <2>1. {at(p) : p \in d.exact} = DirectExact(f)
    BY <1>2, <1>7
  <2>2. {at(p) : p \in d.gaps} = ExactnessGaps(f)
    BY <1>2, <1>7
  <2> QED
    BY <2>1, <2>2
<1>9. DecodeVariant(d, fs) = CreateCanonicalVariant(q, d.actor, d.id)
  <2>1. DecodeVariant(d, fs) =
          IF /\ d.family \in DOMAIN fs /\ d.members \subseteq DOMAIN m
             /\ {at(p) : p \in d.exact} = DirectExact(f) /\ {at(p) : p \in d.gaps} = ExactnessGaps(f)
             /\ CreateVariantProposal(f, at(d.members)) # Refused
          THEN CreateCanonicalVariant(CreateVariantProposal(f, at(d.members)), d.actor, d.id)
          ELSE Refused
    BY <1>5 DEF DecodeVariant
  <2>2. CreateVariantProposal(f, at(d.members)) = q
    BY <1>1, <1>6
  <2> HIDE DEF at, m
  <2> QED
    BY <2>1, <2>2, <1>1, <1>5, <1>6, <1>8
<1>10. v = [id |-> v.id, approval |-> [proposal |-> q, actor |-> v.approval.actor]]
  BY DEF GoodVariant, q
<1>11. DecodeVariant(d, fs) = v
  BY <1>2, <1>9, <1>10 DEF CreateCanonicalVariant
<1> QED
  BY <1>11 DEF d

-----------------------------------------------------------------------------
(***************************************************************************)
(* Lists in the order of their ids.                                         *)
(***************************************************************************)
Sorted(s) ==
  /\ s \in Seq(ToSet(s))
  /\ \A i \in DOMAIN s : s[i].id \in Nat
  /\ \A i, j \in DOMAIN s : i < j => s[i].id < s[j].id

(* There is one place where a value belongs.                               *)
LEMMA PlaceOf ==
  ASSUME NEW s, Sorted(s), NEW n \in Nat
  PROVE  \E k \in 1 .. Len(s) + 1 : \A i \in DOMAIN s : s[i].id < n <=> i < k
<1>1. Len(s) \in Nat /\ DOMAIN s = 1 .. Len(s)
  BY DEF Sorted
<1>2. \A i, j \in DOMAIN s : s[i].id \in Nat /\ (i < j => s[i].id < s[j].id)
  BY DEF Sorted
<1> DEFINE T == {k \in 1 .. Len(s) + 1 : \A i \in DOMAIN s : i >= k => ~(s[i].id < n)}
<1>3. Len(s) + 1 \in T /\ T \subseteq Nat
  BY <1>1
<1>4. PICK k \in T : \A x \in T : k <= x
  BY <1>3, LeastOf
<1>5. ASSUME NEW i \in DOMAIN s, i < k PROVE s[i].id < n
  <2> SUFFICES ASSUME ~(s[i].id < n) PROVE FALSE
    OBVIOUS
  <2>1. ASSUME NEW j \in DOMAIN s, j >= i PROVE ~(s[j].id < n)
    BY <2>1, <1>1, <1>2
  <2>2. i \in T
    BY <2>1, <1>1
  <2> QED
    BY <2>2, <1>1, <1>4, <1>5
<1>6. k \in 1 .. Len(s) + 1 /\ \A i \in DOMAIN s : s[i].id < n <=> i < k
  BY <1>1, <1>4, <1>5
<1> QED
  BY <1>6

(* An insertion shifts what comes after.                                   *)
Shifted(s, k, v, t) ==
  /\ t \in Seq(ToSet(s) \cup {v}) /\ Len(t) = Len(s) + 1 /\ t[k] = v
  /\ \A i \in 1 .. k - 1 : t[i] = s[i]
  /\ \A i \in k + 1 .. Len(s) + 1 : t[i] = s[i - 1]

LEMMA InsertedAt ==
  ASSUME NEW s, s \in Seq(ToSet(s)), NEW v, NEW k \in 1 .. Len(s) + 1, NEW t, t = InsertAt(s, k, v)
  PROVE  Shifted(s, k, v, t)
<1> DEFINE U == ToSet(s) \cup {v}
           a == SubSeq(s, 1, k - 1)
           b == SubSeq(s, k, Len(s))
<1>1. s \in Seq(U) /\ v \in U /\ Len(s) \in Nat
  OBVIOUS
<1> HIDE DEF U
<1>2. a \in Seq(U) /\ Len(a) = k - 1 /\ \A i \in 1 .. k - 1 : a[i] = s[i]
  BY <1>1
<1>3. b \in Seq(U) /\ Len(b) = Len(s) - k + 1 /\ \A i \in 1 .. Len(s) - k + 1 : b[i] = s[k + i - 1]
  BY <1>1
<1>4. t = (a \o <<v>>) \o b
  BY DEF InsertAt
<1> HIDE DEF a, b
<1> DEFINE c == a \o <<v>>
<1>5. c \in Seq(U) /\ Len(c) = k /\ c[k] = v /\ \A i \in 1 .. k - 1 : c[i] = s[i]
  BY <1>1, <1>2
<1> HIDE DEF c
<1>6. t = c \o b
  BY <1>4 DEF c
<1>7. t \in Seq(U) /\ Len(t) = Len(s) + 1
  <2>0. c \in Seq(U) /\ b \in Seq(U)
    BY <1>3, <1>5
  <2>1. t \in Seq(U) /\ Len(t) = Len(c) + Len(b)
    BY ONLY <2>0, <1>6
  <2> QED
    BY <2>1, <1>1, <1>3, <1>5
<1>8. \A i \in 1 .. k : t[i] = c[i]
  BY <1>1, <1>3, <1>5, <1>6
<1>9. ASSUME NEW i \in k + 1 .. Len(s) + 1 PROVE t[i] = s[i - 1]
  <2>1. t[i] = b[i - k]
    BY <1>1, <1>3, <1>5, <1>6
  <2>2. i - k \in 1 .. Len(s) - k + 1 /\ k + (i - k) - 1 = i - 1
    BY <1>1
  <2> QED
    BY <2>1, <2>2, <1>3
<1> QED
  BY <1>1, <1>5, <1>7, <1>8, <1>9 DEF U, Shifted

(* A new id keeps the order, and nothing is lost.                          *)
LEMMA InsertedSorted ==
  ASSUME NEW s, Sorted(s), NEW v, v.id \in Nat, \A x \in ToSet(s) : x.id # v.id,
         NEW t, t = InsertById(s, v)
  PROVE  /\ Sorted(t) /\ ToSet(t) = ToSet(s) \cup {v}
         /\ (\A i \in DOMAIN s : s[i].id < v.id) => t = Append(s, v)
<1> DEFINE k == CHOOSE k \in 1 .. Len(s) + 1 : \A i \in DOMAIN s : s[i].id < v.id <=> i < k
<1>1. k \in 1 .. Len(s) + 1 /\ \A i \in DOMAIN s : s[i].id < v.id <=> i < k
  BY PlaceOf
<1>2. t = InsertAt(s, k, v)
  BY DEF InsertById
<1> HIDE DEF k
<1>3. s \in Seq(ToSet(s)) /\ Len(s) \in Nat /\ DOMAIN s = 1 .. Len(s)
  BY DEF Sorted
<1>4. \A i, j \in 1 .. Len(s) : s[i].id \in Nat /\ (i < j => s[i].id < s[j].id) /\ s[i].id # v.id
  BY <1>3 DEF Sorted, ToSet
<1>5. /\ t \in Seq(ToSet(s) \cup {v}) /\ Len(t) = Len(s) + 1 /\ t[k] = v
      /\ \A i \in 1 .. k - 1 : t[i] = s[i]
      /\ \A i \in k + 1 .. Len(s) + 1 : t[i] = s[i - 1]
  <2>1. Shifted(s, k, v, t)
    BY <1>1, <1>2, <1>3, InsertedAt
  <2> QED
    BY <2>1 DEF Shifted
<1>6. DOMAIN t = 1 .. Len(s) + 1
  BY <1>5
<1>7. ToSet(t) = ToSet(s) \cup {v}
  <2>1. ASSUME NEW i \in DOMAIN t PROVE t[i] \in ToSet(s) \cup {v}
    BY <1>5, <1>6
  <2>2. \E i \in DOMAIN t : t[i] = v
    BY <1>1, <1>5, <1>6
  <2>3. ASSUME NEW j \in DOMAIN s PROVE \E i \in DOMAIN t : t[i] = s[j]
    <3>1. CASE j < k
      <4>1. j \in DOMAIN t /\ t[j] = s[j]
        BY <3>1, <1>1, <1>3, <1>5, <1>6
      <4> QED
        BY <4>1
    <3>2. CASE ~(j < k)
      <4>1. j + 1 \in DOMAIN t /\ j + 1 \in k + 1 .. Len(s) + 1 /\ (j + 1) - 1 = j
        BY <3>2, <1>1, <1>3, <1>6
      <4>2. t[j + 1] = s[j]
        BY <4>1, <1>5
      <4> QED
        BY <4>1, <4>2
    <3> QED
      BY <3>1, <3>2
  <2> QED
    BY <2>1, <2>2, <2>3 DEF ToSet
<1>8. \A i \in DOMAIN t : t[i].id \in Nat
  <2> TAKE i \in DOMAIN t
  <2>1. t[i] \in ToSet(s) \cup {v}
    BY <1>5
  <2>2. \A x \in ToSet(s) : x.id \in Nat
    BY <1>3, <1>4 DEF ToSet
  <2> QED
    BY <2>1, <2>2
<1>9. ASSUME NEW i \in DOMAIN t, NEW j \in DOMAIN t, i < j PROVE t[i].id < t[j].id
  <2>1. i \in 1 .. Len(s) + 1 /\ j \in 1 .. Len(s) + 1
    BY <1>6
  <2>2. CASE j < k
    <3>1. t[i] = s[i] /\ t[j] = s[j] /\ i \in 1 .. Len(s) /\ j \in 1 .. Len(s)
      BY <2>1, <2>2, <1>1, <1>3, <1>5, <1>9
    <3> QED
      BY <3>1, <1>4, <1>9
  <2>3. CASE j = k
    <3>1. t[i] = s[i] /\ t[j] = v /\ i \in 1 .. Len(s) /\ i < k
      BY <2>1, <2>3, <1>1, <1>3, <1>5, <1>9
    <3> QED
      BY <3>1, <1>1, <1>3
  <2>4. CASE j > k /\ i > k
    <3>1. /\ t[i] = s[i - 1] /\ t[j] = s[j - 1] /\ i - 1 \in 1 .. Len(s) /\ j - 1 \in 1 .. Len(s)
          /\ i - 1 < j - 1
      BY <2>1, <2>4, <1>1, <1>3, <1>5, <1>9
    <3> QED
      BY <3>1, <1>4
  <2>5. CASE j > k /\ i = k
    <3>1. t[i] = v /\ t[j] = s[j - 1] /\ j - 1 \in 1 .. Len(s) /\ ~(j - 1 < k)
      BY <2>1, <2>5, <1>1, <1>3, <1>5
    <3>2. s[j - 1].id \in Nat /\ ~(s[j - 1].id < v.id) /\ s[j - 1].id # v.id
      BY <3>1, <1>1, <1>3, <1>4
    <3> QED
      BY <3>1, <3>2
  <2>6. CASE j > k /\ i < k
    <3>1. t[i] = s[i] /\ t[j] = s[j - 1] /\ j - 1 \in 1 .. Len(s) /\ i \in 1 .. Len(s) /\ i < j - 1
      BY <2>1, <2>6, <1>1, <1>3, <1>5
    <3> QED
      BY <3>1, <1>4
  <2> QED
    BY <2>1, <2>2, <2>3, <2>4, <2>5, <2>6, <1>1, <1>3
<1>10. t \in Seq(ToSet(t))
  BY <1>5, <1>7
<1>11. ASSUME \A i \in DOMAIN s : s[i].id < v.id PROVE t = Append(s, v)
  <2>1. k = Len(s) + 1
    <3> SUFFICES ASSUME k # Len(s) + 1 PROVE FALSE
      OBVIOUS
    <3>1. k \in DOMAIN s /\ ~(k < k)
      BY <1>1, <1>3
    <3> QED
      BY <3>1, <1>1, <1>11
  <2>2. \A i \in 1 .. Len(s) : t[i] = s[i]
    BY <2>1, <1>3, <1>5
  <2> DEFINE u == Append(s, v)
  <2>3. u \in Seq(ToSet(s) \cup {v}) /\ Len(u) = Len(s) + 1 /\ u[Len(s) + 1] = v /\ \A i \in 1 .. Len(s) : u[i] = s[i]
    <3>1. s \in Seq(ToSet(s) \cup {v})
      BY <1>3
    <3> QED
      BY <3>1
  <2> HIDE DEF u
  <2>4. \A i \in 1 .. Len(s) + 1 : t[i] = u[i]
    BY <2>1, <2>2, <2>3, <1>3, <1>5
  <2>5. t = u
    BY <2>3, <2>4, <1>5
  <2> QED
    BY <2>5 DEF u
<1> QED
  BY <1>7, <1>8, <1>9, <1>10, <1>11 DEF Sorted

-----------------------------------------------------------------------------
(***************************************************************************)
(* Catalogs.                                                                *)
(***************************************************************************)
(* A catalog of sound values in the order of their ids, no observation in  *)
(* two families or in two variants, every variant's family registered.     *)
GoodCatalog(w, c) ==
  /\ c = [families |-> c.families, variants |-> c.variants]
  /\ Sorted(c.families) /\ Sorted(c.variants)
  /\ \A f \in ToSet(c.families) : GoodFamily(w, f)
  /\ \A f, g \in ToSet(c.families) : f # g => ~Overlap(ToSet(f.members), ToSet(g.members))
  /\ \A v \in ToSet(c.variants) : GoodVariant(w, v) /\ SourceFamily(v) \in ToSet(c.families)
  /\ \A v, u \in ToSet(c.variants) : v # u => ~Overlap(MembersOf(v), MembersOf(u))

(* Values of a list have ids of their own.                                 *)
LEMMA OwnIds ==
  ASSUME NEW s, Sorted(s), NEW x \in ToSet(s), NEW y \in ToSet(s), x # y
  PROVE  x.id # y.id
<1>1. PICK i \in DOMAIN s, j \in DOMAIN s : x = s[i] /\ y = s[j]
  BY DEF ToSet
<1>2. i \in Nat /\ j \in Nat /\ i # j
  BY <1>1 DEF Sorted
<1>3. s[i].id \in Nat /\ s[j].id \in Nat
  BY DEF Sorted
<1>4. CASE i < j
  BY <1>1, <1>3, <1>4 DEF Sorted
<1>5. CASE j < i
  BY <1>1, <1>3, <1>5 DEF Sorted
<1> QED
  BY <1>2, <1>4, <1>5

(* The empty catalog is sound.                                             *)
LEMMA EmptyIsGood ==
  ASSUME NEW w
  PROVE  GoodCatalog(w, EmptyCatalog)
<1>1. ToSet(<<>>) = {}
  BY DEF ToSet
<1>2. Sorted(<<>>)
  BY <1>1 DEF Sorted
<1> QED
  BY <1>1, <1>2 DEF GoodCatalog, EmptyCatalog

(* Registering a family that the evidence bears out adds it, or is refused. *)
LEMMA RegisterFamily ==
  ASSUME NEW w, NEW c, GoodCatalog(w, c), NEW f, GoodFamily(w, f),
         NEW r, r = RegisterCanonicalFamily(c, f), r # Refused
  PROVE  /\ GoodCatalog(w, r) /\ ToSet(r.families) = ToSet(c.families) \cup {f}
         /\ r.variants = c.variants
<1> DEFINE known == ToSet(c.families)
<1>1. CASE f \in known
  <2>1. r = c
    BY <1>1 DEF RegisterCanonicalFamily
  <2> QED
    BY <2>1, <1>1
<1>2. CASE f \notin known
  <2>1. /\ \A g \in known : g.id # f.id /\ ~Overlap(ToSet(g.members), ToSet(f.members))
        /\ r = [c EXCEPT !.families = InsertById(c.families, f)]
    BY <1>2 DEF RegisterCanonicalFamily
  <2>2. c = [families |-> c.families, variants |-> c.variants] /\ Sorted(c.families) /\ f.id \in Nat
    BY DEF GoodCatalog, GoodFamily
  <2> DEFINE t == InsertById(c.families, f)
  <2>3. Sorted(t) /\ ToSet(t) = known \cup {f}
    BY <2>1, <2>2, InsertedSorted
  <2> HIDE DEF t
  <2>4. r = [families |-> t, variants |-> c.variants]
    BY <2>1, <2>2 DEF t
  <2>5. r.families = t /\ r.variants = c.variants
    BY <2>4
  <2>6. \A g, h \in known \cup {f} : g # h => ~Overlap(ToSet(g.members), ToSet(h.members))
    BY <2>1 DEF GoodCatalog, Overlap
  <2>7. \A g \in known \cup {f} : GoodFamily(w, g)
    BY DEF GoodCatalog
  <2>8. /\ Sorted(c.variants)
        /\ \A v \in ToSet(c.variants) : GoodVariant(w, v) /\ SourceFamily(v) \in known \cup {f}
        /\ \A v, u \in ToSet(c.variants) : v # u => ~Overlap(MembersOf(v), MembersOf(u))
    BY DEF GoodCatalog
  <2>9. GoodCatalog(w, r)
    BY <2>3, <2>4, <2>5, <2>6, <2>7, <2>8 DEF GoodCatalog
  <2> QED
    BY <2>3, <2>5, <2>9
<1> QED
  BY <1>1, <1>2

(* Registering a variant of a registered family likewise.                  *)
LEMMA RegisterVariant ==
  ASSUME NEW w, NEW c, GoodCatalog(w, c), NEW v, GoodVariant(w, v),
         NEW r, r = RegisterCanonicalVariant(c, v), r # Refused
  PROVE  /\ GoodCatalog(w, r) /\ ToSet(r.variants) = ToSet(c.variants) \cup {v}
         /\ r.families = c.families
<1> DEFINE known == ToSet(c.variants)
<1>0. SourceFamily(v) \in ToSet(c.families)
  BY DEF RegisterCanonicalVariant
<1>1. CASE v \in known
  <2>1. r = c
    BY <1>0, <1>1 DEF RegisterCanonicalVariant
  <2> QED
    BY <2>1, <1>1
<1>2. CASE v \notin known
  <2>1. /\ \A u \in known : u.id # v.id /\ ~Overlap(MembersOf(u), MembersOf(v))
        /\ r = [c EXCEPT !.variants = InsertById(c.variants, v)]
    BY <1>0, <1>2 DEF RegisterCanonicalVariant
  <2>2. c = [families |-> c.families, variants |-> c.variants] /\ Sorted(c.variants) /\ v.id \in Nat
    BY DEF GoodCatalog, GoodVariant
  <2> DEFINE t == InsertById(c.variants, v)
  <2>3. Sorted(t) /\ ToSet(t) = known \cup {v}
    BY <2>1, <2>2, InsertedSorted
  <2> HIDE DEF t
  <2>4. r = [families |-> c.families, variants |-> t]
    BY <2>1, <2>2 DEF t
  <2>5. r.families = c.families /\ r.variants = t
    BY <2>4
  <2>6. \A g, h \in known \cup {v} : g # h => ~Overlap(MembersOf(g), MembersOf(h))
    BY <2>1 DEF GoodCatalog, Overlap
  <2>7. \A g \in known \cup {v} : GoodVariant(w, g) /\ SourceFamily(g) \in ToSet(c.families)
    BY <1>0 DEF GoodCatalog
  <2>8. /\ Sorted(c.families)
        /\ \A f \in ToSet(c.families) : GoodFamily(w, f)
        /\ \A f, g \in ToSet(c.families) : f # g => ~Overlap(ToSet(f.members), ToSet(g.members))
    BY DEF GoodCatalog
  <2>9. GoodCatalog(w, r)
    BY <2>3, <2>4, <2>5, <2>6, <2>7, <2>8 DEF GoodCatalog
  <2> QED
    BY <2>3, <2>5, <2>9
<1> QED
  BY <1>1, <1>2

-----------------------------------------------------------------------------
(***************************************************************************)
(* The document of a catalog.                                               *)
(***************************************************************************)
(* None and Refused, which stand for no value and no answer, are apart     *)
(* from terminals, documents, catalogs, families and variants.             *)
Apart ==
  /\ None \notin Terminals
  /\ \A x, y : [families |-> x, variants |-> y] \notin {None, Refused}
  /\ \A x, y, z : [id |-> x, members |-> y, approval |-> z] # Refused
  /\ \A x, y : [id |-> x, approval |-> y] # Refused

Prefix(s, i) == [j \in 1 .. i |-> s[j]]

(* The beginnings of a list in order: one more value goes to the end.      *)
LEMMA PrefixGrows ==
  ASSUME NEW s, Sorted(s)
  PROVE  /\ Prefix(s, 0) = <<>> /\ Prefix(s, Len(s)) = s
         /\ \A i \in 1 .. Len(s) :
              /\ InsertById(Prefix(s, i - 1), s[i]) = Prefix(s, i)
              /\ s[i] \notin ToSet(Prefix(s, i - 1))
              /\ ToSet(Prefix(s, i - 1)) \subseteq ToSet(s)
              /\ \A x \in ToSet(Prefix(s, i - 1)) : x # s[i] /\ x.id # s[i].id
<1>1. /\ s \in Seq(ToSet(s)) /\ Len(s) \in Nat /\ DOMAIN s = 1 .. Len(s)
      /\ s = [i \in 1 .. Len(s) |-> s[i]]
  BY DEF Sorted
<1>2. \A i, j \in 1 .. Len(s) : s[i].id \in Nat /\ (i < j => s[i].id < s[j].id)
  BY <1>1 DEF Sorted
<1>3. Prefix(s, 0) = <<>>
  <2>1. 1 .. 0 = {}
    OBVIOUS
  <2> QED
    BY <2>1 DEF Prefix
<1>4. Prefix(s, Len(s)) = s
  BY <1>1 DEF Prefix
<1>5. ASSUME NEW i \in 1 .. Len(s)
      PROVE  /\ InsertById(Prefix(s, i - 1), s[i]) = Prefix(s, i)
             /\ s[i] \notin ToSet(Prefix(s, i - 1))
             /\ ToSet(Prefix(s, i - 1)) \subseteq ToSet(s)
             /\ \A x \in ToSet(Prefix(s, i - 1)) : x # s[i] /\ x.id # s[i].id
  <2> DEFINE p == Prefix(s, i - 1)
  <2>1. /\ DOMAIN p = 1 .. i - 1 /\ Len(p) = i - 1 /\ i - 1 \in Nat
        /\ \A j \in 1 .. i - 1 : p[j] = s[j] /\ j \in 1 .. Len(s)
    BY <1>1 DEF Prefix
  <2>2. p = [j \in 1 .. i - 1 |-> p[j]]
    BY DEF Prefix
  <2> HIDE DEF p
  <2>3. ToSet(p) \subseteq ToSet(s)
    BY <2>1, <1>1 DEF ToSet
  <2>4. p \in Seq(ToSet(p))
    <3>1. p \in [1 .. i - 1 -> ToSet(p)]
      BY <2>1, <2>2 DEF ToSet
    <3> QED
      BY <3>1, <2>1
  <2>5. Sorted(p)
    <3>1. \A j, k \in DOMAIN p : p[j].id \in Nat /\ (j < k => p[j].id < p[k].id)
      BY <2>1, <1>2
    <3> QED
      BY <3>1, <2>4 DEF Sorted
  <2>6. \A j \in DOMAIN p : p[j].id < s[i].id
    BY <2>1, <1>1, <1>2
  <2>7. \A x \in ToSet(p) : x.id # s[i].id
    <3>1. \A j \in DOMAIN p : p[j].id # s[i].id
      BY <2>1, <2>6, <1>1, <1>2
    <3> QED
      BY <3>1 DEF ToSet
  <2>8. InsertById(p, s[i]) = Append(p, s[i])
    <3>1. s[i].id \in Nat
      BY <1>2
    <3> QED
      BY <3>1, <2>5, <2>6, <2>7, InsertedSorted
  <2>9. Append(p, s[i]) = Prefix(s, i)
    <3> DEFINE a == Append(p, s[i])
               b == Prefix(s, i)
    <3>1. a = [j \in 1 .. i |-> IF j = i THEN s[i] ELSE p[j]]
      <4>1. p \in Seq(ToSet(s)) /\ s[i] \in ToSet(s)
        BY <2>3, <2>4, <1>1
      <4>2. a \in Seq(ToSet(s)) /\ Len(a) = i /\ a[i] = s[i] /\ \A j \in 1 .. i - 1 : a[j] = p[j]
        BY <4>1, <2>1
      <4> HIDE DEF a
      <4>3. a = [j \in 1 .. i |-> a[j]] /\ \A j \in 1 .. i : j # i => j \in 1 .. i - 1
        BY <4>2, <1>1
      <4> QED
        BY <4>2, <4>3
    <3>2. \A j \in 1 .. i : j # i => p[j] = s[j]
      BY <2>1, <1>1
    <3> QED
      BY <3>1, <3>2 DEF Prefix
  <2> QED
    BY <2>3, <2>7, <2>8, <2>9 DEF p
<1> QED
  BY <1>3, <1>4, <1>5

(* The catalog after the first i values of its document.                   *)
Partial(c, i) ==
  LET n == Len(c.families)
  IN  [families |-> Prefix(c.families, IF i <= n THEN i ELSE n),
       variants |-> Prefix(c.variants, IF i <= n THEN 0 ELSE i - n)]

(* The values of a document are those of the catalog.                      *)
LEMMA ValuesRoundTrip ==
  ASSUME NEW w, World(w), NEW c, GoodCatalog(w, c), NEW d, d = EncodeCatalog(c)
  PROVE  /\ Len(c.families) \in Nat /\ Len(c.variants) \in Nat
         /\ Len(d.families) = Len(c.families) /\ Len(d.variants) = Len(c.variants)
         /\ DecodeFamilies(d) = c.families
         /\ \A i \in 1 .. Len(c.variants) : DecodeVariant(d.variants[i], c.families) = c.variants[i]
<1> DEFINE fs == c.families
           vs == c.variants
<1>1. /\ d.families = [i \in DOMAIN fs |-> EncodeFamily(fs[i])]
      /\ d.variants = [i \in DOMAIN vs |-> EncodeVariant(vs[i], fs)]
  BY DEF EncodeCatalog
<1>2. /\ Len(fs) \in Nat /\ DOMAIN fs = 1 .. Len(fs) /\ fs = [i \in DOMAIN fs |-> fs[i]]
      /\ Len(vs) \in Nat /\ DOMAIN vs = 1 .. Len(vs)
  BY DEF GoodCatalog, Sorted
<1>3. Len(d.families) = Len(fs) /\ Len(d.variants) = Len(vs) /\ DOMAIN d.families = DOMAIN fs
  BY <1>1, <1>2
<1>4. \A i \in DOMAIN fs : DecodeFamily(d.families[i]) = fs[i]
  <2> TAKE i \in DOMAIN fs
  <2>1. GoodFamily(w, fs[i])
    BY DEF GoodCatalog, ToSet
  <2> QED
    BY <2>1, <1>1, FamilyRoundTrip
<1>5. DecodeFamilies(d) = fs
  BY <1>2, <1>3, <1>4 DEF DecodeFamilies
<1>6. \A i \in 1 .. Len(vs) : DecodeVariant(d.variants[i], fs) = vs[i]
  <2> TAKE i \in 1 .. Len(vs)
  <2>1. GoodVariant(w, vs[i]) /\ SourceFamily(vs[i]) \in ToSet(fs)
    <3>1. vs[i] \in ToSet(vs)
      BY <1>2 DEF ToSet
    <3> QED
      BY <3>1 DEF GoodCatalog
  <2>2. d.variants[i] = EncodeVariant(vs[i], fs)
    BY <1>1, <1>2
  <2> QED
    BY <2>1, <2>2, VariantRoundTrip
<1> QED
  BY <1>2, <1>3, <1>5, <1>6

(* Decoding a family registers the next family of the catalog.             *)
LEMMA NextFamily ==
  ASSUME Apart, NEW w, World(w), NEW c, GoodCatalog(w, c), NEW i \in 1 .. Len(c.families)
  PROVE  RegisterNth(EncodeCatalog(c), Partial(c, i - 1), i) = Partial(c, i)
<1> DEFINE fs == c.families
           d == EncodeCatalog(c)
           a == Partial(c, i - 1)
           f == fs[i]
<1>1. Len(fs) \in Nat /\ i <= Len(fs) /\ i - 1 <= Len(fs) /\ DecodeFamilies(d) = fs
  BY ValuesRoundTrip
<1>2. /\ a = [families |-> Prefix(fs, i - 1), variants |-> Prefix(c.variants, 0)]
      /\ Partial(c, i) = [families |-> Prefix(fs, i), variants |-> Prefix(c.variants, 0)]
  BY <1>1 DEF Partial
<1>3. Sorted(fs) /\ f \in ToSet(fs) /\ GoodFamily(w, f)
  <2>1. f \in ToSet(fs)
    BY DEF GoodCatalog, Sorted
  <2> QED
    BY <2>1 DEF GoodCatalog
<1>4. a # Refused /\ f # Refused
  BY <1>2, <1>3 DEF Apart, GoodFamily
<1>5. RegisterNth(d, a, i) = RegisterCanonicalFamily(a, f)
  BY <1>1, <1>4 DEF RegisterNth
<1> HIDE DEF d, a, f
<1>6. /\ InsertById(Prefix(fs, i - 1), f) = Prefix(fs, i)
      /\ ToSet(Prefix(fs, i - 1)) \subseteq ToSet(fs)
      /\ \A x \in ToSet(Prefix(fs, i - 1)) : x # f /\ x.id # f.id
  BY <1>3, PrefixGrows DEF f
<1>7. ASSUME NEW x \in ToSet(Prefix(fs, i - 1))
      PROVE  ~Overlap(ToSet(x.members), ToSet(f.members)) /\ x.members # f.members
  <2>1. ~Overlap(ToSet(x.members), ToSet(f.members))
    BY <1>3, <1>6 DEF GoodCatalog
  <2>2. f.members[1] \in ToSet(f.members)
    <3>1. f.members \in Seq(DOMAIN w) /\ Len(f.members) >= 2
      BY <1>3 DEF GoodFamily
    <3>2. 1 \in DOMAIN f.members
      BY <3>1
    <3> QED
      BY <3>2 DEF ToSet
  <2> QED
    BY <2>1, <2>2 DEF Overlap
<1>8. a.families = Prefix(fs, i - 1)
  BY <1>2
<1>9. RegisterCanonicalFamily(a, f) = [a EXCEPT !.families = InsertById(Prefix(fs, i - 1), f)]
  BY <1>6, <1>7, <1>8 DEF RegisterCanonicalFamily
<1>10. RegisterCanonicalFamily(a, f) = [families |-> Prefix(fs, i), variants |-> Prefix(c.variants, 0)]
  BY <1>2, <1>6, <1>9
<1> QED
  BY <1>2, <1>5, <1>10 DEF d, a

(* Decoding a variant registers the next variant of the catalog.           *)
LEMMA NextVariant ==
  ASSUME Apart, NEW w, World(w), NEW c, GoodCatalog(w, c), NEW k \in 1 .. Len(c.variants),
         NEW i, i = Len(c.families) + k
  PROVE  RegisterNth(EncodeCatalog(c), Partial(c, i - 1), i) = Partial(c, i)
<1> DEFINE fs == c.families
           vs == c.variants
           d == EncodeCatalog(c)
           a == Partial(c, i - 1)
           v == vs[k]
<1>1. /\ Len(fs) \in Nat /\ Len(vs) \in Nat /\ DecodeFamilies(d) = fs
      /\ DecodeVariant(d.variants[k], fs) = v
  BY ValuesRoundTrip
<1>2. ~(i <= Len(fs)) /\ i - Len(fs) = k
  BY <1>1
<1>3. Sorted(fs) /\ Sorted(vs) /\ v \in ToSet(vs) /\ GoodVariant(w, v) /\ SourceFamily(v) \in ToSet(fs)
  <2>1. v \in ToSet(vs)
    BY DEF GoodCatalog, Sorted
  <2> QED
    BY <2>1 DEF GoodCatalog
<1>4. /\ a = [families |-> fs, variants |-> Prefix(vs, k - 1)]
      /\ Partial(c, i) = [families |-> fs, variants |-> Prefix(vs, k)]
  <2>1. Prefix(fs, Len(fs)) = fs
    BY <1>3, PrefixGrows
  <2>2. CASE k = 1
    <3>1. i - 1 = Len(fs) /\ i - 1 <= Len(fs) /\ k - 1 = 0
      BY <1>1, <2>2
    <3> QED
      BY <2>1, <3>1, <1>2 DEF Partial
  <2>3. CASE k # 1
    <3>1. ~(i - 1 <= Len(fs)) /\ (i - 1) - Len(fs) = k - 1
      BY <1>1, <2>3
    <3> QED
      BY <2>1, <3>1, <1>2 DEF Partial
  <2> QED
    BY <2>2, <2>3
<1>5. a # Refused /\ v # Refused
  BY <1>3, <1>4 DEF Apart, GoodVariant
<1>6. RegisterNth(d, a, i) = RegisterCanonicalVariant(a, v)
  BY <1>1, <1>2, <1>5 DEF RegisterNth
<1> HIDE DEF d, a, v
<1>7. /\ InsertById(Prefix(vs, k - 1), v) = Prefix(vs, k)
      /\ ToSet(Prefix(vs, k - 1)) \subseteq ToSet(vs)
      /\ \A x \in ToSet(Prefix(vs, k - 1)) : x # v /\ x.id # v.id
  BY <1>3, PrefixGrows DEF v
<1>8. ASSUME NEW x \in ToSet(Prefix(vs, k - 1))
      PROVE  ~Overlap(MembersOf(x), MembersOf(v)) /\ x.approval # v.approval
  <2>1. ~Overlap(MembersOf(x), MembersOf(v))
    BY <1>3, <1>7 DEF GoodCatalog
  <2>2. MembersOf(v) # {}
    BY <1>3, VariantIs
  <2>3. x.approval = v.approval => MembersOf(x) = MembersOf(v)
    BY DEF MembersOf
  <2> QED
    BY <2>1, <2>2, <2>3 DEF Overlap
<1>9. a.families = fs /\ a.variants = Prefix(vs, k - 1)
  BY <1>4
<1>10. RegisterCanonicalVariant(a, v) = [a EXCEPT !.variants = InsertById(Prefix(vs, k - 1), v)]
  BY <1>3, <1>7, <1>8, <1>9 DEF RegisterCanonicalVariant
<1>11. RegisterCanonicalVariant(a, v) = [families |-> fs, variants |-> Prefix(vs, k)]
  BY <1>4, <1>7, <1>10
<1> QED
  BY <1>4, <1>6, <1>11 DEF d, a

Registering(h, d, n) ==
  h = [i \in 0 .. n |-> IF i = 0 THEN EmptyCatalog ELSE RegisterNth(d, h[i - 1], i)]

(* Registering the values of a document one by one has one outcome.        *)
LEMMA RegisteringIs ==
  ASSUME NEW d, NEW n \in Nat, NEW g, Registering(g, d, n), NEW h, Registering(h, d, n)
  PROVE  g[n] = h[n]
<1>1. \A i \in 0 .. n : /\ g[i] = IF i = 0 THEN EmptyCatalog ELSE RegisterNth(d, g[i - 1], i)
                        /\ h[i] = IF i = 0 THEN EmptyCatalog ELSE RegisterNth(d, h[i - 1], i)
  BY DEF Registering
<1> DEFINE Bad == {i \in 0 .. n : g[i] # h[i]}
<1>2. SUFFICES ASSUME Bad # {} PROVE FALSE
  OBVIOUS
<1>3. PICK i \in Bad : \A j \in Bad : i <= j
  <2>1. Bad \subseteq Nat
    OBVIOUS
  <2> QED
    BY <1>2, <2>1, LeastOf
<1>4. i # 0
  BY <1>1, <1>3
<1>5. i - 1 \in 0 .. n /\ i - 1 \notin Bad
  BY <1>3, <1>4
<1>6. g[i - 1] = h[i - 1]
  BY <1>5
<1> QED
  BY <1>1, <1>3, <1>4, <1>6

(* The beginnings of a catalog are what registering its document's values  *)
(* one after the other gives.                                              *)
LEMMA PartialEnds ==
  ASSUME NEW w, NEW c, GoodCatalog(w, c)
  PROVE  /\ Partial(c, 0) = EmptyCatalog
         /\ Partial(c, Len(c.families) + Len(c.variants)) = c
<1> DEFINE fs == c.families
           vs == c.variants
<1>1. Sorted(fs) /\ Sorted(vs) /\ c = [families |-> fs, variants |-> vs]
  BY DEF GoodCatalog
<1>2. Len(fs) \in Nat /\ Len(vs) \in Nat
  BY <1>1 DEF Sorted
<1>3. /\ Prefix(fs, 0) = <<>> /\ Prefix(vs, 0) = <<>>
      /\ Prefix(fs, Len(fs)) = fs /\ Prefix(vs, Len(vs)) = vs
  BY <1>1, PrefixGrows
<1>4. ASSUME NEW i, NEW m \in Nat, NEW n \in Nat, m = Len(fs), n = Len(vs), i = m + n
      PROVE  Partial(c, i) = [families |-> fs, variants |-> vs]
  <2>1. CASE n = 0
    <3>1. \A a \in Nat : a + 0 = a /\ a <= a
      OBVIOUS
    <3>2. i <= m /\ i = m
      BY <2>1, <1>4, <3>1
    <3> QED
      BY <3>2, <2>1, <1>3, <1>4 DEF Partial
  <2>2. CASE n # 0
    <3>1. \A a, b \in Nat : b # 0 => ~(a + b <= a) /\ (a + b) - a = b
      OBVIOUS
    <3>2. ~(i <= m) /\ i - m = n
      BY <2>2, <1>4, <3>1
    <3> QED
      BY <3>2, <1>3, <1>4 DEF Partial
  <2> QED
    BY <2>1, <2>2
<1>5. Partial(c, 0) = EmptyCatalog
  <2>1. 0 <= Len(fs)
    BY <1>2
  <2> QED
    BY <2>1, <1>3 DEF Partial, EmptyCatalog
<1> QED
  BY <1>1, <1>2, <1>4, <1>5

LEMMA NextValue ==
  ASSUME Apart, NEW w, World(w), NEW c, GoodCatalog(w, c),
         NEW i \in 0 .. Len(c.families) + Len(c.variants), i # 0
  PROVE  RegisterNth(EncodeCatalog(c), Partial(c, i - 1), i) = Partial(c, i)
<1>1. PICK m \in Nat, n \in Nat : m = Len(c.families) /\ n = Len(c.variants)
  BY ValuesRoundTrip
<1>2. i \in Nat /\ i <= m + n
  <2>1. \A a \in Nat : \A b \in 0 .. a : b \in Nat /\ b <= a
    OBVIOUS
  <2>2. \A a, b \in Nat : a + b \in Nat
    OBVIOUS
  <2>3. i \in 0 .. m + n /\ m + n \in Nat
    BY <1>1, <2>2
  <2> QED
    BY <2>1, <2>3
<1>3. CASE i <= m
  <2>1. i \in 1 .. m
    BY <1>2, <1>3
  <2> QED
    BY <2>1, <1>1, NextFamily
<1>4. CASE ~(i <= m)
  <2>1. i - m \in 1 .. n /\ i = m + (i - m)
    BY <1>2, <1>4
  <2>2. PICK k \in 1 .. n : i = m + k
    BY <2>1
  <2> QED
    BY <2>2, <1>1, NextVariant
<1> QED
  BY <1>3, <1>4

(* A catalog is what its document says: decode_canonical_catalog gives     *)
(* back the catalog that encode_canonical_catalog was given, whatever the  *)
(* families, variants and the positions they are stored at.                *)
THEOREM RoundTrip ==
  ASSUME Apart, NEW w, World(w), NEW c, GoodCatalog(w, c)
  PROVE  DecodeCatalog(EncodeCatalog(c)) = c
<1>1. PICK d : d = EncodeCatalog(c)
  OBVIOUS
<1>2. /\ Len(c.families) \in Nat /\ Len(c.variants) \in Nat
      /\ Len(d.families) = Len(c.families) /\ Len(d.variants) = Len(c.variants)
  BY <1>1, ValuesRoundTrip
<1>3. PICK last \in Nat : last = Len(d.families) + Len(d.variants)
  <2>1. \A m, n \in Nat : m + n \in Nat
    OBVIOUS
  <2> QED
    BY <1>2, <2>1
<1>4. last = Len(c.families) + Len(c.variants)
  BY <1>2, <1>3
<1>5. Partial(c, 0) = EmptyCatalog /\ Partial(c, last) = c
  BY <1>4, PartialEnds
<1>6. \A i \in 0 .. last : i # 0 => RegisterNth(d, Partial(c, i - 1), i) = Partial(c, i)
  BY <1>1, <1>4, NextValue
<1>7. PICK g : g = [i \in 0 .. last |-> Partial(c, i)]
  OBVIOUS
<1>8. Registering(g, d, last)
  <2>1. \A i \in 0 .. last : i # 0 => i - 1 \in 0 .. last
    OBVIOUS
  <2>2. \A i \in 0 .. last :
          Partial(c, i) = IF i = 0 THEN EmptyCatalog ELSE RegisterNth(d, g[i - 1], i)
    BY <2>1, <1>5, <1>6, <1>7
  <2> QED
    BY <2>2, <1>7 DEF Registering
<1>9. DecodeDocument(d) = (CHOOSE h : Registering(h, d, last))[last]
  BY <1>3 DEF DecodeDocument, Registering
<1>10. Registering(CHOOSE h : Registering(h, d, last), d, last)
  BY <1>8
<1>11. DecodeDocument(d) = g[last]
  BY <1>8, <1>9, <1>10, RegisteringIs
<1>12. last \in 0 .. last
  OBVIOUS
<1>13. DecodeDocument(d) = c
  BY <1>5, <1>7, <1>11, <1>12
<1>14. c # Refused
  <2>1. c = [families |-> c.families, variants |-> c.variants]
    BY DEF GoodCatalog
  <2> QED
    BY <2>1 DEF Apart
<1> QED
  BY <1>1, <1>13, <1>14 DEF DecodeCatalog

-----------------------------------------------------------------------------
(***************************************************************************)
(* The inductive invariant.                                                *)
(***************************************************************************)
(* A document d that can be read, of a catalog the evidence w bears out.   *)
Holds(w, d) == d # None /\ GoodCatalog(w, DecodeCatalog(d)) /\ d = EncodeCatalog(DecodeCatalog(d))

(* Document e has all that document d has.                                 *)
Keeps(d, e) ==
  /\ ToSet(DecodeCatalog(d).families) \subseteq ToSet(DecodeCatalog(e).families)
  /\ ToSet(DecodeCatalog(d).variants) \subseteq ToSet(DecodeCatalog(e).variants)

(* A decision a = [kind, value, ...] is in document d.                     *)
Listed(d, a) ==
  a.value \in ToSet(IF a.kind = "family" THEN DecodeCatalog(d).families
                                         ELSE DecodeCatalog(d).variants)

(* What a terminal holds in its hand: x = [pc, kind, value, payload].      *)
InHand(x) ==
  /\ x = [pc |-> x.pc, kind |-> x.kind, value |-> x.value, payload |-> x.payload]
  /\ x.pc \in {"idle", "creating", "decided", "registered"}

(* A decision is one the evidence bears out.                               *)
Sound(w, x) ==
  x.pc \in {"decided", "registered"} =>
    \/ x.kind = "family" /\ GoodFamily(w, x.value)
    \/ x.kind = "variant" /\ GoodVariant(w, x.value)

(* A terminal that has registered is the writer, and its document is the   *)
(* stored one with its decision added.                                     *)
Writing(w, d, x) ==
  x.pc = "registered" => Holds(w, d) /\ Holds(w, x.payload) /\ Keeps(d, x.payload) /\ Listed(x.payload, x)

Alone(wr, t, x) == x.pc = "registered" => wr = t

CatalogInv ==
  /\ pack \in Worlds /\ present \subseteq DOMAIN pack
  /\ writer \in Terminals \cup {None}
  /\ DOMAIN term = Terminals /\ term = [t \in Terminals |-> term[t]]
  /\ \A t \in Terminals : InHand(term[t])
  /\ disk # None => Holds(pack, disk)
  /\ \A a \in acked : disk # None /\ Listed(disk, a)
  /\ \A t \in Terminals : Sound(pack, term[t])
  /\ \A t \in Terminals : Writing(pack, disk, term[t])
  /\ \A t \in Terminals : Alone(writer, t, term[t])

(* A terminal without a decision satisfies what is said of decisions.      *)
LEMMA NoDecision ==
  ASSUME NEW x, x.pc \in {"idle", "creating"}, NEW w, NEW d, NEW wr, NEW t
  PROVE  Sound(w, x) /\ Writing(w, d, x) /\ Alone(wr, t, x)
BY DEF Sound, Writing, Alone

LEMMA IdleIs == InHand(Idle) /\ Idle.pc = "idle"
BY DEF InHand, Idle

(* One terminal's state is replaced.                                       *)
LEMMA OneHand ==
  ASSUME CatalogInv, NEW t \in Terminals, NEW x, InHand(x), term' = [term EXCEPT ![t] = x]
  PROVE  /\ DOMAIN term' = Terminals /\ term' = [u \in Terminals |-> term'[u]]
         /\ term'[t] = x /\ \A u \in Terminals : u # t => term'[u] = term[u]
         /\ \A u \in Terminals : InHand(term'[u])
<1>1. DOMAIN term = Terminals /\ \A u \in Terminals : InHand(term[u])
  BY DEF CatalogInv
<1>2. /\ DOMAIN term' = Terminals /\ term' = [u \in Terminals |-> term'[u]]
      /\ term'[t] = x /\ \A u \in Terminals : u # t => term'[u] = term[u]
  BY <1>1
<1> QED
  BY <1>1, <1>2

(* A step that touches neither the stored document nor the registrations,  *)
(* and takes the writer from nobody else, has only its own terminal to     *)
(* account for.                                                            *)
LEMMA Private ==
  ASSUME CatalogInv, NEW t \in Terminals, NEW x, InHand(x), term' = [term EXCEPT ![t] = x],
         UNCHANGED <<pack, present, disk, acked>>,
         writer' \in Terminals \cup {None},
         \A u \in Terminals : u # t /\ writer = u => writer' = u,
         Sound(pack, x), Writing(pack, disk, x), Alone(writer', t, x)
  PROVE  CatalogInv'
<1>1. /\ DOMAIN term' = Terminals /\ term' = [u \in Terminals |-> term'[u]]
      /\ term'[t] = x /\ \A u \in Terminals : u # t => term'[u] = term[u]
      /\ \A u \in Terminals : InHand(term'[u])
  BY OneHand
<1>2. ASSUME NEW u \in Terminals
      PROVE  Sound(pack, term'[u]) /\ Writing(pack, disk, term'[u]) /\ Alone(writer', u, term'[u])
  <2>1. CASE u = t
    BY <1>1, <2>1
  <2>2. CASE u # t
    <3>1. Sound(pack, term[u]) /\ Writing(pack, disk, term[u]) /\ Alone(writer, u, term[u])
      BY DEF CatalogInv
    <3>2. Alone(writer', u, term[u])
      BY <2>2, <3>1 DEF Alone
    <3> QED
      BY <1>1, <2>2, <3>1, <3>2
  <2> QED
    BY <2>1, <2>2
<1> QED
  BY <1>1, <1>2 DEF CatalogInv

LEMMA EvidenceArrivesSafe ==
  ASSUME CatalogInv, NEW o \in DOMAIN pack, EvidenceArrives(o)
  PROVE  CatalogInv'
BY DEF CatalogInv, EvidenceArrives

LEMMA CreateStartSafe ==
  ASSUME CatalogInv, NEW t \in Terminals, CreateStart(t)
  PROVE  CatalogInv'
<1>1. PICK x : x = [term[t] EXCEPT !.pc = "creating"]
  OBVIOUS
<1>2. InHand(term[t])
  BY DEF CatalogInv
<1>3. InHand(x) /\ x.pc = "creating"
  BY <1>1, <1>2 DEF InHand
<1>4. term' = [term EXCEPT ![t] = x] /\ UNCHANGED <<pack, present, disk, acked, writer>>
  BY <1>1 DEF CreateStart
<1>5. writer' \in Terminals \cup {None}
  BY <1>4 DEF CatalogInv
<1>6. Sound(pack, x) /\ Writing(pack, disk, x) /\ Alone(writer', t, x)
  BY <1>3, NoDecision
<1> QED
  BY <1>3, <1>4, <1>5, <1>6, Private

LEMMA GiveUpSafe ==
  ASSUME CatalogInv, NEW t \in Terminals, GiveUp(t)
  PROVE  CatalogInv'
<1>1. /\ term' = [term EXCEPT ![t] = Idle] /\ UNCHANGED <<pack, present, disk, acked>>
      /\ writer' = IF writer = t THEN None ELSE writer
  BY DEF GiveUp
<1>2. writer' \in Terminals \cup {None} /\ \A u \in Terminals : u # t /\ writer = u => writer' = u
  BY <1>1 DEF CatalogInv
<1>3. InHand(Idle) /\ Sound(pack, Idle) /\ Writing(pack, disk, Idle) /\ Alone(writer', t, Idle)
  BY IdleIs, NoDecision
<1> QED
  BY <1>1, <1>2, <1>3, Private

(* A terminal decides.                                                     *)
LEMMA DecidedSafe ==
  ASSUME CatalogInv, NEW t \in Terminals, NEW kind, NEW value, Decided(t, kind, value),
         UNCHANGED <<pack, present, disk, writer, acked>>,
         \/ kind = "family" /\ GoodFamily(pack, value)
         \/ kind = "variant" /\ GoodVariant(pack, value)
  PROVE  CatalogInv'
<1>1. PICK x : x = [term[t] EXCEPT !.pc = "decided", !.kind = kind, !.value = value]
  OBVIOUS
<1>2. InHand(term[t])
  BY DEF CatalogInv
<1>3. InHand(x) /\ x.pc = "decided" /\ x.kind = kind /\ x.value = value
  BY <1>1, <1>2 DEF InHand
<1>4. term' = [term EXCEPT ![t] = x]
  BY <1>1 DEF Decided
<1>5. writer' \in Terminals \cup {None}
  BY DEF CatalogInv
<1>6. Sound(pack, x)
  BY <1>3 DEF Sound
<1>7. Writing(pack, disk, x) /\ Alone(writer', t, x)
  BY <1>3 DEF Writing, Alone
<1> QED
  BY <1>3, <1>4, <1>5, <1>6, <1>7, Private

LEMMA FamilyDecideSafe ==
  ASSUME CatalogInv, NEW t \in Terminals, NEW actor, NEW id \in FamilyIds, FamilyDecide(t, actor, id)
  PROVE  CatalogInv'
<1>1. PICK proposal \in PlanFamilyReview(present, pack) :
        Decided(t, "family", CreateCanonicalFamily(proposal, actor, id))
  BY DEF FamilyDecide
<1>2. UNCHANGED <<pack, present, disk, writer, acked>>
  BY DEF FamilyDecide
<1>3. DOMAIN pack \subseteq Nat /\ IsFiniteSet(DOMAIN pack) /\ present \subseteq DOMAIN pack /\ id \in Nat
  BY OrderAssumption DEF CatalogInv
<1>4. GoodFamily(pack, CreateCanonicalFamily(proposal, actor, id))
  BY <1>3, PlannedIsGood
<1> QED
  BY <1>1, <1>2, <1>4, DecidedSafe

(* A proposal that was not refused names the family it was made on.        *)
LEMMA ProposedIsGood ==
  ASSUME NEW w, NEW f, GoodFamily(w, f), NEW selected \in SUBSET ToSet(f.members),
         CreateVariantProposal(f, selected) # Refused, NEW actor, NEW id \in Nat
  PROVE  GoodVariant(w, CreateCanonicalVariant(CreateVariantProposal(f, selected), actor, id))
<1>1. PICK p : p = CreateVariantProposal(f, selected)
  OBVIOUS
<1>2. p # Refused /\ p.family = f
  BY <1>1 DEF CreateVariantProposal
<1>3. PICK v : v = CreateCanonicalVariant(p, actor, id)
  OBVIOUS
<1>4. v.id = id /\ v.approval.proposal = p /\ SourceFamily(v) = f
      /\ v = [id |-> v.id, approval |-> [proposal |-> v.approval.proposal, actor |-> v.approval.actor]]
  BY <1>2, <1>3 DEF CreateCanonicalVariant, SourceFamily
<1>5. GoodVariant(w, v)
  BY <1>1, <1>2, <1>4 DEF GoodVariant
<1> QED
  BY <1>1, <1>3, <1>5

LEMMA VariantDecideSafe ==
  ASSUME CatalogInv, NEW t \in Terminals, NEW actor, NEW id \in VariantIds, VariantDecide(t, actor, id)
  PROVE  CatalogInv'
<1>1. PICK family \in ToSet(LoadSnapshot.families) :
        \E selected \in SUBSET ToSet(family.members) :
           /\ CreateVariantProposal(family, selected) # Refused
           /\ Decided(t, "variant",
                CreateCanonicalVariant(CreateVariantProposal(family, selected), actor, id))
  BY DEF VariantDecide
<1>2. PICK selected \in SUBSET ToSet(family.members) :
        /\ CreateVariantProposal(family, selected) # Refused
        /\ Decided(t, "variant",
             CreateCanonicalVariant(CreateVariantProposal(family, selected), actor, id))
  BY <1>1
<1>3. disk # None /\ UNCHANGED <<pack, present, disk, writer, acked>>
  BY DEF VariantDecide
<1>4. GoodCatalog(pack, LoadSnapshot) /\ id \in Nat
  BY <1>3, OrderAssumption DEF CatalogInv, Holds, LoadSnapshot
<1>5. GoodFamily(pack, family)
  BY <1>4 DEF GoodCatalog
<1>6. GoodVariant(pack, CreateCanonicalVariant(CreateVariantProposal(family, selected), actor, id))
  BY <1>2, <1>4, <1>5, ProposedIsGood
<1> QED
  BY <1>2, <1>3, <1>6, DecidedSafe

(* The document of a catalog the evidence bears out can be read.           *)
LEMMA EncodedHolds ==
  ASSUME Apart, NEW w, World(w), NEW c, GoodCatalog(w, c)
  PROVE  Holds(w, EncodeCatalog(c)) /\ DecodeCatalog(EncodeCatalog(c)) = c
<1>1. DecodeCatalog(EncodeCatalog(c)) = c
  BY RoundTrip
<1>2. EncodeCatalog(c) # None
  BY DEF Apart, EncodeCatalog
<1> QED
  BY <1>1, <1>2 DEF Holds

LEMMA PackIsWorld ==
  ASSUME CatalogInv
  PROVE  World(pack)
BY OrderAssumption DEF CatalogInv, World

(* Creation finds no registration to lose: with no document there is none. *)
LEMMA CreateLinkSafe ==
  ASSUME Apart, CatalogInv, NEW t \in Terminals, CreateLink(t)
  PROVE  CatalogInv'
<1>1. /\ term[t].pc = "creating" /\ term' = [term EXCEPT ![t] = Idle]
      /\ disk' = IF disk = None THEN EncodeCatalog(EmptyCatalog) ELSE disk
      /\ UNCHANGED <<pack, present, writer, acked>>
  BY DEF CreateLink
<1>2. writer' \in Terminals \cup {None}
  BY <1>1 DEF CatalogInv
<1>3. InHand(Idle) /\ \A d : Sound(pack, Idle) /\ Writing(pack, d, Idle) /\ Alone(writer', t, Idle)
  BY IdleIs, NoDecision
<1>4. CASE disk # None
  <2>1. disk' = disk
    BY <1>1, <1>4
  <2> QED
    BY <1>1, <1>2, <1>3, <2>1, Private
<1>5. CASE disk = None
  <2>1. Holds(pack, disk')
    BY <1>1, <1>5, EmptyIsGood, PackIsWorld, EncodedHolds
  <2>2. acked = {}
    BY <1>5 DEF CatalogInv
  <2>3. /\ DOMAIN term' = Terminals /\ term' = [u \in Terminals |-> term'[u]]
        /\ term'[t] = Idle /\ \A u \in Terminals : u # t => term'[u] = term[u]
        /\ \A u \in Terminals : InHand(term'[u])
    BY <1>1, <1>3, OneHand
  <2>4. ASSUME NEW u \in Terminals
        PROVE  Sound(pack, term'[u]) /\ Writing(pack, disk', term'[u]) /\ Alone(writer', u, term'[u])
    <3>1. CASE u = t
      BY <1>3, <2>3, <3>1, IdleIs, NoDecision
    <3>2. CASE u # t
      <4>1. Sound(pack, term[u]) /\ Writing(pack, disk, term[u]) /\ Alone(writer, u, term[u])
        BY DEF CatalogInv
      <4>2. term[u].pc # "registered"
        BY <4>1, <1>5 DEF Writing, Holds
      <4>3. Writing(pack, disk', term[u]) /\ Alone(writer', u, term[u])
        BY <4>2 DEF Writing, Alone
      <4> QED
        BY <2>3, <3>2, <4>1, <4>3
    <3> QED
      BY <3>1, <3>2
  <2> QED
    BY <1>1, <1>2, <2>1, <2>2, <2>3, <2>4 DEF CatalogInv
<1> QED
  BY <1>4, <1>5

(* What a registration that is not refused makes of the stored catalog.    *)
LEMMA RegisteredGrows ==
  ASSUME CatalogInv, disk # None, NEW t \in Terminals, term[t].pc = "decided",
         NEW r, r = Registered(t, LoadSnapshot), r # Refused
  PROVE  /\ GoodCatalog(pack, r)
         /\ ToSet(LoadSnapshot.families) \subseteq ToSet(r.families)
         /\ ToSet(LoadSnapshot.variants) \subseteq ToSet(r.variants)
         /\ term[t].value \in ToSet(IF term[t].kind = "family" THEN r.families ELSE r.variants)
<1>1. GoodCatalog(pack, LoadSnapshot)
  BY DEF CatalogInv, Holds, LoadSnapshot
<1>2. \/ term[t].kind = "family" /\ GoodFamily(pack, term[t].value)
      \/ term[t].kind = "variant" /\ GoodVariant(pack, term[t].value)
  BY DEF CatalogInv, Sound
<1>3. CASE term[t].kind = "family" /\ GoodFamily(pack, term[t].value)
  <2>1. r = RegisterCanonicalFamily(LoadSnapshot, term[t].value)
    BY <1>3 DEF Registered
  <2>2. /\ GoodCatalog(pack, r) /\ r.variants = LoadSnapshot.variants
        /\ ToSet(r.families) = ToSet(LoadSnapshot.families) \cup {term[t].value}
    BY <1>1, <1>3, <2>1, RegisterFamily
  <2> QED
    BY <1>3, <2>2
<1>4. CASE term[t].kind = "variant" /\ GoodVariant(pack, term[t].value)
  <2>1. r = RegisterCanonicalVariant(LoadSnapshot, term[t].value)
    BY <1>4 DEF Registered
  <2>2. /\ GoodCatalog(pack, r) /\ r.families = LoadSnapshot.families
        /\ ToSet(r.variants) = ToSet(LoadSnapshot.variants) \cup {term[t].value}
    BY <1>1, <1>4, <2>1, RegisterVariant
  <2> QED
    BY <1>4, <2>2
<1> QED
  BY <1>2, <1>3, <1>4

LEMMA BeginAndRegisterSafe ==
  ASSUME Apart, CatalogInv, NEW t \in Terminals, BeginAndRegister(t)
  PROVE  CatalogInv'
<1>1. PICK r : r = Registered(t, LoadSnapshot)
  OBVIOUS
<1>2. /\ term[t].pc = "decided" /\ disk # None /\ writer = None
      /\ writer' = IF r = Refused THEN None ELSE t
      /\ term' = [term EXCEPT ![t] = IF r = Refused THEN Idle
                      ELSE [term[t] EXCEPT !.pc = "registered", !.payload = EncodeCatalog(r)]]
      /\ UNCHANGED <<pack, present, disk, acked>>
  BY <1>1 DEF BeginAndRegister
<1>3. writer' \in Terminals \cup {None} /\ \A u \in Terminals : u # t /\ writer = u => writer' = u
  BY <1>2 DEF Apart
<1>4. CASE r = Refused
  <2>1. term' = [term EXCEPT ![t] = Idle]
    BY <1>2, <1>4
  <2>2. InHand(Idle) /\ Sound(pack, Idle) /\ Writing(pack, disk, Idle) /\ Alone(writer', t, Idle)
    BY IdleIs, NoDecision
  <2> QED
    BY <1>2, <1>3, <2>1, <2>2, Private
<1>5. CASE r # Refused
  <2>1. PICK x : x = [term[t] EXCEPT !.pc = "registered", !.payload = EncodeCatalog(r)]
    OBVIOUS
  <2>2. term' = [term EXCEPT ![t] = x] /\ writer' = t
    BY <1>2, <1>5, <2>1
  <2>3. InHand(term[t]) /\ Sound(pack, term[t]) /\ Holds(pack, disk)
    BY <1>2 DEF CatalogInv
  <2>4. /\ InHand(x) /\ x.pc = "registered" /\ x.payload = EncodeCatalog(r)
        /\ x.kind = term[t].kind /\ x.value = term[t].value
    BY <2>1, <2>3 DEF InHand
  <2>5. Sound(pack, x) /\ Alone(writer', t, x)
    BY <1>2, <2>2, <2>3, <2>4 DEF Sound, Alone
  <2>6. /\ GoodCatalog(pack, r)
        /\ ToSet(LoadSnapshot.families) \subseteq ToSet(r.families)
        /\ ToSet(LoadSnapshot.variants) \subseteq ToSet(r.variants)
        /\ term[t].value \in ToSet(IF term[t].kind = "family" THEN r.families ELSE r.variants)
    BY <1>1, <1>2, <1>5, RegisteredGrows
  <2>7. Holds(pack, x.payload) /\ DecodeCatalog(x.payload) = r
    BY <2>4, <2>6, PackIsWorld, EncodedHolds
  <2>8. Keeps(disk, x.payload) /\ Listed(x.payload, x)
    BY <2>4, <2>6, <2>7 DEF Keeps, Listed, LoadSnapshot
  <2>9. Writing(pack, disk, x)
    BY <2>3, <2>7, <2>8 DEF Writing
  <2> QED
    BY <1>2, <1>3, <2>2, <2>4, <2>5, <2>9, Private
<1> QED
  BY <1>4, <1>5

(* The writer's document has all that the stored one had, and no other     *)
(* terminal has registered against the stored one.                         *)
LEMMA CommitSafe ==
  ASSUME CatalogInv, NEW t \in Terminals, Commit(t)
  PROVE  CatalogInv'
<1>1. /\ term[t].pc = "registered" /\ disk' = term[t].payload /\ writer' = None
      /\ acked' = acked \cup {[kind |-> term[t].kind, value |-> term[t].value]}
      /\ term' = [term EXCEPT ![t] = Idle] /\ UNCHANGED <<pack, present>>
  BY DEF Commit
<1>2. Writing(pack, disk, term[t]) /\ writer = t
  BY <1>1 DEF CatalogInv, Alone
<1>3. Holds(pack, disk) /\ Holds(pack, disk') /\ Keeps(disk, disk') /\ Listed(disk', term[t])
  BY <1>1, <1>2 DEF Writing
<1>4. \A a \in acked' : disk' # None /\ Listed(disk', a)
  <2>1. ASSUME NEW a \in acked
        PROVE  Listed(disk', a)
    <3>1. Listed(disk, a)
      BY DEF CatalogInv
    <3> QED
      BY <1>3, <3>1 DEF Keeps, Listed
  <2>2. Listed(disk', [kind |-> term[t].kind, value |-> term[t].value])
    BY <1>3 DEF Listed
  <2> QED
    BY <1>1, <1>3, <2>1, <2>2 DEF Holds
<1>5. InHand(Idle)
  BY IdleIs
<1>6. /\ DOMAIN term' = Terminals /\ term' = [u \in Terminals |-> term'[u]]
      /\ term'[t] = Idle /\ \A u \in Terminals : u # t => term'[u] = term[u]
      /\ \A u \in Terminals : InHand(term'[u])
  BY <1>1, <1>5, OneHand
<1>7. ASSUME NEW u \in Terminals
      PROVE  Sound(pack, term'[u]) /\ Writing(pack, disk', term'[u]) /\ Alone(writer', u, term'[u])
  <2>1. CASE u = t
    BY <1>6, <2>1, IdleIs, NoDecision
  <2>2. CASE u # t
    <3>1. Sound(pack, term[u]) /\ Alone(writer, u, term[u])
      BY DEF CatalogInv
    <3>2. term[u].pc # "registered"
      BY <1>2, <2>2, <3>1 DEF Alone
    <3>3. Writing(pack, disk', term[u]) /\ Alone(writer', u, term[u])
      BY <3>2 DEF Writing, Alone
    <3> QED
      BY <1>6, <2>2, <3>1, <3>3
  <2> QED
    BY <2>1, <2>2
<1>8. pack' \in Worlds /\ present' \subseteq DOMAIN pack' /\ writer' \in Terminals \cup {None}
  BY <1>1 DEF CatalogInv
<1> QED
  BY <1>1, <1>3, <1>4, <1>6, <1>7, <1>8 DEF CatalogInv

(* The invariant holds at the start and every step keeps it.               *)
THEOREM CatalogInvariance ==
  ASSUME Apart
  PROVE  Spec => []CatalogInv
<1>1. Init => CatalogInv
  <2> SUFFICES ASSUME Init PROVE CatalogInv
    OBVIOUS
  <2>1. /\ pack \in Worlds /\ present = {} /\ disk = None /\ writer = None /\ acked = {}
        /\ term = [t \in Terminals |-> Idle]
    BY DEF Init
  <2>2. \A t \in Terminals : term[t] = Idle
    BY <2>1
  <2>3. \A t \in Terminals : /\ InHand(term[t]) /\ Sound(pack, term[t])
                             /\ Writing(pack, disk, term[t]) /\ Alone(writer, t, term[t])
    BY <2>2, IdleIs, NoDecision
  <2> QED
    BY <2>1, <2>2, <2>3 DEF CatalogInv
<1>2. CatalogInv /\ [Next]_vars => CatalogInv'
  <2> SUFFICES ASSUME CatalogInv, [Next]_vars PROVE CatalogInv'
    OBVIOUS
  <2>1. CASE UNCHANGED vars
    BY <2>1 DEF CatalogInv, vars
  <2>2. CASE \E o \in DOMAIN pack \ present : EvidenceArrives(o)
    BY <2>2, EvidenceArrivesSafe
  <2>3. ASSUME NEW t \in Terminals, CreateStart(t)
        PROVE  CatalogInv'
    BY <2>3, CreateStartSafe
  <2>4. ASSUME NEW t \in Terminals, CreateLink(t)
        PROVE  CatalogInv'
    BY <2>4, CreateLinkSafe
  <2>5. ASSUME NEW t \in Terminals, BeginAndRegister(t)
        PROVE  CatalogInv'
    BY <2>5, BeginAndRegisterSafe
  <2>6. ASSUME NEW t \in Terminals, Commit(t)
        PROVE  CatalogInv'
    BY <2>6, CommitSafe
  <2>7. ASSUME NEW t \in Terminals, GiveUp(t)
        PROVE  CatalogInv'
    BY <2>7, GiveUpSafe
  <2>8. ASSUME NEW t \in Terminals, NEW actor \in Actors, NEW id \in FamilyIds, FamilyDecide(t, actor, id)
        PROVE  CatalogInv'
    BY <2>8, FamilyDecideSafe
  <2>9. ASSUME NEW t \in Terminals, NEW actor \in Actors, NEW id \in VariantIds, VariantDecide(t, actor, id)
        PROVE  CatalogInv'
    BY <2>9, VariantDecideSafe
  <2> QED
    BY <2>1, <2>2, <2>3, <2>4, <2>5, <2>6, <2>7, <2>8, <2>9 DEF Next
<1> QED
  BY <1>1, <1>2, PTL DEF Spec

(* The families of a catalog the evidence bears out hold no two different  *)
(* products, and its variants are exact throughout.                        *)
LEMMA FamilyAgrees ==
  ASSUME NEW w, World(w), NEW f, GoodFamily(w, f), NEW p \in Pairs(ToSet(f.members))
  PROVE  LET s == Ascending(p)
         IN  ResolveProductEntities(w[s[2]], w[s[1]]) # "DIFFERENT_PRODUCT"
<1>1. ToSet(f.members) \subseteq Nat
  BY DEF GoodFamily, World, ToSet
<1>2. PICK x \in Nat, y \in Nat : x # y /\ p = {x, y}
  BY <1>1, PairsAre
<1>3. RelationOf(w, p) # "DIFFERENT_PRODUCT"
  BY DEF GoodFamily
<1>4. RelationOf(w, p) = LET s == Ascending(p) IN ResolveProductEntities(w[s[2]], w[s[1]])
  BY <1>2, RelationOfPair
<1> QED
  BY <1>3, <1>4

LEMMA VariantExact ==
  ASSUME NEW w, World(w), NEW v, GoodVariant(w, v), NEW p \in Pairs(MembersOf(v)),
         NEW a \in p, NEW b \in p, a # b
  PROVE  ResolveProductEntities(w[a], w[b]) = "EXACT_VARIANT_MATCH"
<1>1. PICK f : f = SourceFamily(v)
  OBVIOUS
<1>2. GoodFamily(w, f)
  BY <1>1 DEF GoodVariant
<1>3. MembersOf(v) \subseteq ToSet(f.members) /\ p \in DirectExact(f)
  BY <1>1, VariantIs
<1>4. ToSet(f.members) \subseteq Nat
  BY <1>2 DEF GoodFamily, World, ToSet
<1>5. p \subseteq MembersOf(v) /\ \E x, y \in MembersOf(v) : x # y /\ p = {x, y}
  BY PairsAre
<1>6. a \in Nat /\ b \in Nat /\ p = {a, b}
  BY <1>3, <1>4, <1>5
<1>7. p \in Pairs(ToSet(f.members)) /\ PairsOf(f)[p] = "EXACT_VARIANT_MATCH"
  BY <1>2, <1>3 DEF DirectExact, GoodFamily
<1>8. RelationOf(w, p) = "EXACT_VARIANT_MATCH"
  BY <1>2, <1>7 DEF GoodFamily
<1> QED
  BY <1>6, <1>8, RelationOfPair

(* Whatever the evidence, the terminals and the order of their steps, the  *)
(* stored catalog can be read, no observation is in two families or in two *)
(* variants, no family holds different products, and a variant lies in its *)
(* registered family and is exact throughout (register_canonical_family,   *)
(* register_canonical_variant, decode_canonical_catalog).                  *)
THEOREM CatalogStaysCoherent ==
  ASSUME Apart
  PROVE  Spec => []CatalogCoherent
<1>1. CatalogInv => CatalogCoherent
  <2> SUFFICES ASSUME CatalogInv, disk # None PROVE CatalogCoherent
    BY DEF CatalogCoherent
  <2>1. PICK c : c = LoadSnapshot
    OBVIOUS
  <2>2. GoodCatalog(pack, c) /\ World(pack)
    BY <2>1, PackIsWorld DEF CatalogInv, Holds, LoadSnapshot
  <2>3. c # Refused
    BY <2>2 DEF GoodCatalog, Apart
  <2>4. ASSUME NEW f \in ToSet(c.families), NEW g \in ToSet(c.families), f # g
        PROVE  f.id # g.id /\ ~Overlap(ToSet(f.members), ToSet(g.members))
    BY <2>2, <2>4, OwnIds DEF GoodCatalog
  <2>5. ASSUME NEW f \in ToSet(c.families), NEW p \in Pairs(ToSet(f.members))
        PROVE  LET s == Ascending(p)
               IN  ResolveProductEntities(pack[s[2]], pack[s[1]]) # "DIFFERENT_PRODUCT"
    <3>1. GoodFamily(pack, f)
      BY <2>2 DEF GoodCatalog
    <3> QED
      BY <2>2, <3>1, FamilyAgrees
  <2>6. ASSUME NEW v \in ToSet(c.variants), NEW w \in ToSet(c.variants), v # w
        PROVE  v.id # w.id /\ ~Overlap(MembersOf(v), MembersOf(w))
    BY <2>2, <2>6, OwnIds DEF GoodCatalog
  <2>7. ASSUME NEW v \in ToSet(c.variants)
        PROVE  SourceFamily(v) \in ToSet(c.families) /\ GoodVariant(pack, v)
    BY <2>2 DEF GoodCatalog
  <2>8. ASSUME NEW v \in ToSet(c.variants), NEW p \in Pairs(MembersOf(v)), NEW a \in p, NEW b \in p, a # b
        PROVE  ResolveProductEntities(pack[a], pack[b]) = "EXACT_VARIANT_MATCH"
    BY <2>2, <2>7, <2>8, VariantExact
  <2> QED
    BY <2>1, <2>3, <2>4, <2>5, <2>6, <2>7, <2>8 DEF CatalogCoherent
<1> QED
  BY <1>1, CatalogInvariance, PTL

(* A registration that returned is in the stored catalog ever after, with  *)
(* the lineage it was approved with, whoever else registers, gives up or   *)
(* creates the database (_register_sqlite_value,                           *)
(* create_sqlite_canonical_catalog, encode_canonical_catalog).             *)
THEOREM RegistrationsLast ==
  ASSUME Apart
  PROVE  Spec => []NothingForgotten
<1>1. CatalogInv => NothingForgotten
  BY DEF CatalogInv, NothingForgotten, Listed, LoadSnapshot
<1> QED
  BY <1>1, CatalogInvariance, PTL

(* No step takes a family or a variant out of the stored catalog: a        *)
(* document is only ever replaced by one that has all of its values        *)
(* (_register_sqlite_value, create_sqlite_canonical_catalog).              *)
THEOREM CatalogOnlyGrows ==
  ASSUME Apart
  PROVE  Spec => [][disk # None => disk' # None /\ Keeps(disk, disk')]_vars
<1>1. CatalogInv /\ [Next]_vars => [disk # None => disk' # None /\ Keeps(disk, disk')]_vars
  <2> SUFFICES ASSUME CatalogInv, Next, disk # None PROVE disk' # None /\ Keeps(disk, disk')
    OBVIOUS
  <2>1. CASE disk' = disk
    BY <2>1 DEF Keeps
  <2>2. CASE \E t \in Terminals : Commit(t)
    <3>1. PICK t \in Terminals : term[t].pc = "registered" /\ disk' = term[t].payload
      BY <2>2 DEF Commit
    <3>2. Writing(pack, disk, term[t])
      BY DEF CatalogInv
    <3> QED
      BY <3>1, <3>2 DEF Writing, Holds
  <2>3. disk' = disk \/ \E t \in Terminals : Commit(t)
    BY DEF Next, EvidenceArrives, CreateStart, CreateLink, BeginAndRegister, GiveUp,
           FamilyDecide, VariantDecide
  <2> QED
    BY <2>1, <2>2, <2>3
<1> QED
  BY <1>1, CatalogInvariance, PTL DEF Spec
=============================================================================
