---------------------------- MODULE ProductEntities ----------------------------
(***************************************************************************)
(* From observed product listings to canonical families and sellable       *)
(* variants: the pure half of product_intelligence (entity_resolution.py,  *)
(* entity_resolution_graph.py, entity_grouping.py, family_merge_approval.py*)
(* canonical_family.py, sellable_variant_evidence.py and _approval.py,     *)
(* canonical_variant.py, canonical_catalog.py, canonical_catalog_codec.py).*)
(*                                                                         *)
(* An observation identity is a number, ordered as the canonical keys      *)
(* order identities.  What it says is a pack [comp, global, brand, model,  *)
(* mpn, platform, listing, variants]: comp "single", "multi" or None; the  *)
(* next four sets of normalized values; variants maps attribute names to   *)
(* sets of values.  Titles, media and the other weak evidence only move    *)
(* the confidence of an UNCERTAIN result, and confidence is left out.  A   *)
(* refusal is the answer Refused; the exact-type and object-identity tests *)
(* are left out.                                                           *)
(***************************************************************************)
EXTENDS Integers, Sequences, FiniteSets, SequencesExt, Functions

CONSTANTS None, Refused

-----------------------------------------------------------------------------
(* Pairs of observations.                                                  *)

Overlap(a, b) == a \cap b # {}
Disjoint(a, b) == a # {} /\ b # {} /\ a \cap b = {}

IdentityConflict(l, r) ==
    \/ l.comp # None /\ r.comp # None /\ l.comp # r.comp
    \/ Disjoint(l.global, r.global)
    \/ /\ Disjoint(l.brand, r.brand) \/ Overlap(l.brand, r.brand)
       /\ Disjoint(l.model, r.model) \/ Disjoint(l.mpn, r.mpn)

FamilyMatch(l, r) ==
    \/ Overlap(l.global, r.global)
    \/ Overlap(l.brand, r.brand) /\ (Overlap(l.model, r.model) \/ Overlap(l.mpn, r.mpn))
    \/ l.platform = r.platform /\ l.listing # None /\ l.listing = r.listing

VariantConflict(l, r) ==
    \E k \in DOMAIN l.variants \cap DOMAIN r.variants : l.variants[k] \cap r.variants[k] = {}

ResolveProductEntities(l, r) ==
    CASE IdentityConflict(l, r) -> "DIFFERENT_PRODUCT"
      [] ~IdentityConflict(l, r) /\ ~FamilyMatch(l, r) -> "UNCERTAIN"
      [] OTHER -> IF ~VariantConflict(l, r) /\ DOMAIN l.variants # {} /\ l.variants = r.variants
                  THEN "EXACT_VARIANT_MATCH" ELSE "SAME_PRODUCT_FAMILY"

Positive == {"EXACT_VARIANT_MATCH", "SAME_PRODUCT_FAMILY"}
Pairs(S) == {{x, y} : x, y \in S} \ {{x} : x \in S}
Ascending(S) == [i \in 1..Cardinality(S) |-> CHOOSE x \in S : Cardinality({y \in S : y < x}) = i - 1]

\* resolve_multi_observations: [obs, rel], rel giving each pair its relationship.
ResolutionGraph(obs, pack) ==
    [obs |-> obs,
     rel |-> [pair \in Pairs(obs) |->
                 LET s == Ascending(pair) IN ResolveProductEntities(pack[s[1]], pack[s[2]])]]

Edges(rel, kinds) == {p \in DOMAIN rel : rel[p] \in kinds}
Closed(edges, S) == \A p \in edges : Overlap(p, S) => p \subseteq S

\* The breadth-first searches: what o reaches over pairs of the given kinds is
\* the least set with o that no such pair leaves.
Reached(rel, kinds, o) ==
    LET edges == Edges(rel, kinds)
        all == {o} \cup UNION edges
    IN  {x \in all : \A S \in SUBSET all : o \in S /\ Closed(edges, S) => x \in S}

\* _find_conflicts: pairs that differ, yet a chain of positive pairs joins them.
FindConflicts(graph) ==
    {pair \in DOMAIN graph.rel :
        graph.rel[pair] = "DIFFERENT_PRODUCT" /\ \E o \in pair : pair \subseteq Reached(graph.rel, Positive, o)}

\* group_resolution_graph
GroupOf(graph, o) ==
    LET members == Reached(graph.rel, Positive, o)
        conflicts == {c \in FindConflicts(graph) : Overlap(c, members)}
    IN  [members |-> members, conflicts |-> conflicts,
         status |-> IF Cardinality(members) = 1 THEN "SINGLETON"
                    ELSE IF conflicts # {} THEN "CONFLICTED" ELSE "POSITIVE_CONNECTED"]

GroupResolutionGraph(graph) == {GroupOf(graph, o) : o \in graph.obs}

-----------------------------------------------------------------------------
(* What a person may approve.                                              *)

\* Mutant: a conflicted group may be approved.
ProposeAnyGroup(graph, group) ==
    IF group \in GroupResolutionGraph(graph) /\ group.status # "SINGLETON"
    THEN [members |-> Ascending(group.members), pairs |-> Restrict(graph.rel, Pairs(group.members))]
    ELSE Refused

CreateFamilyMergeProposal(graph, group) ==
    IF /\ group \in GroupResolutionGraph(graph)
       /\ group.status = "POSITIVE_CONNECTED" /\ group.conflicts = {}
       /\ Pairs(group.members) \subseteq DOMAIN graph.rel
    THEN [members |-> Ascending(group.members), pairs |-> Restrict(graph.rel, Pairs(group.members))]
    ELSE Refused

\* plan_family_knowledge_review: needs two observations at least.
PlanFamilyReview(obs, pack) ==
    LET graph == ResolutionGraph(obs, pack)
    IN  IF Cardinality(obs) < 2 THEN {}
        ELSE {CreateFamilyMergeProposal(graph, g) : g \in GroupResolutionGraph(graph)} \ {Refused}

\* The decision is APPROVE; approval: [proposal, actor].
CreateCanonicalFamily(proposal, actor, id) ==
    [id |-> id, members |-> proposal.members, approval |-> [proposal |-> proposal, actor |-> actor]]

PairsOf(family) == family.approval.proposal.pairs

\* project_sellable_variant_evidence: the exact pairs of the family, and the
\* others that a chain of exact pairs joins (the chain itself is left out).
DirectExact(family) == {p \in DOMAIN PairsOf(family) : PairsOf(family)[p] = "EXACT_VARIANT_MATCH"}

ExactnessGaps(family) ==
    {p \in DOMAIN PairsOf(family) \ DirectExact(family) :
        \E o \in p : p \subseteq Reached(PairsOf(family), {"EXACT_VARIANT_MATCH"}, o)}

\* selected must be closed under exact pairs and exact throughout.
CreateVariantProposal(family, selected) ==
    IF /\ selected # {} /\ selected \subseteq ToSet(family.members)
       /\ \A p \in DirectExact(family) : Overlap(p, selected) => p \subseteq selected
       /\ Pairs(selected) \subseteq DirectExact(family)
    THEN [family |-> family, members |-> Ascending(selected),
          exact |-> DirectExact(family), gaps |-> ExactnessGaps(family)]
    ELSE Refused

CreateCanonicalVariant(proposal, actor, id) ==
    [id |-> id, approval |-> [proposal |-> proposal, actor |-> actor]]

SourceFamily(variant) == variant.approval.proposal.family
MembersOf(variant) == ToSet(variant.approval.proposal.members)

-----------------------------------------------------------------------------
(* The catalog: [families, variants], each in the order of its ids.        *)

EmptyCatalog == [families |-> <<>>, variants |-> <<>>]

\* sorted() of the values and one more: it goes before the first larger id.
InsertById(s, v) ==
    LET at == CHOOSE k \in 1 .. Len(s) + 1 : \A i \in DOMAIN s : s[i].id < v.id <=> i < k
    IN  InsertAt(s, at, v)

\* The catalog with the family: unchanged when it is there already.
RegisterCanonicalFamily(catalog, f) ==
    LET known == ToSet(catalog.families)
    IN  IF f \in known THEN catalog
        ELSE IF \E g \in known : \/ g.id = f.id
                                 \/ g.members = f.members /\ g.approval = f.approval
                                 \/ Overlap(ToSet(g.members), ToSet(f.members))
        THEN Refused ELSE [catalog EXCEPT !.families = InsertById(@, f)]

RegisterCanonicalVariant(catalog, v) ==
    LET known == ToSet(catalog.variants)
    IN  IF SourceFamily(v) \notin ToSet(catalog.families) THEN Refused
        ELSE IF v \in known THEN catalog
        ELSE IF \E w \in known : \/ w.id = v.id \/ w.approval = v.approval
                                 \/ Overlap(MembersOf(w), MembersOf(v))
        THEN Refused ELSE [catalog EXCEPT !.variants = InsertById(@, v)]

-----------------------------------------------------------------------------
(* The stored document refers to families, members and pairs by position.  *)

PositionOf(s, x) == CHOOSE i \in DOMAIN s : s[i] = x
Positions(s, S) == {PositionOf(s, x) : x \in S}

EncodeFamily(f) ==
    [id |-> f.id, members |-> f.members, actor |-> f.approval.actor,
     pairs |-> [p \in Pairs(DOMAIN f.members) |-> PairsOf(f)[{f.members[i] : i \in p}]]]

EncodeVariant(v, families) ==
    LET p == v.approval.proposal
    IN  [id |-> v.id, family |-> PositionOf(families, p.family),
         members |-> Positions(p.family.members, ToSet(p.members)),
         exact |-> {Positions(p.family.members, pair) : pair \in p.exact},
         gaps |-> {Positions(p.family.members, pair) : pair \in p.gaps},
         actor |-> v.approval.actor]

EncodeCatalog(c) ==
    [families |-> [i \in DOMAIN c.families |-> EncodeFamily(c.families[i])],
     variants |-> [i \in DOMAIN c.variants |-> EncodeVariant(c.variants[i], c.families)]]

DecodeFamily(d) ==
    IF Len(d.members) >= 2 /\ IsInjective(d.members) /\ DOMAIN d.pairs = Pairs(DOMAIN d.members)
    THEN CreateCanonicalFamily(
            [members |-> d.members,
             pairs |-> [p \in Pairs(ToSet(d.members)) |-> d.pairs[Positions(d.members, p)]]],
            d.actor, d.id)
    ELSE Refused

DecodeVariant(d, families) ==
    LET f == families[d.family]
        at(S) == {f.members[i] : i \in S}
        proposal == CreateVariantProposal(f, at(d.members))
    IN  IF /\ d.family \in DOMAIN families /\ d.members \subseteq DOMAIN f.members
           /\ {at(p) : p \in d.exact} = DirectExact(f) /\ {at(p) : p \in d.gaps} = ExactnessGaps(f)
           /\ proposal # Refused
        THEN CreateCanonicalVariant(proposal, d.actor, d.id) ELSE Refused

DecodeFamilies(payload) == [i \in DOMAIN payload.families |-> DecodeFamily(payload.families[i])]

\* The i-th value of a document goes into the catalog: families first.
RegisterNth(payload, catalog, i) ==
    LET families == DecodeFamilies(payload)
        n == Len(families)
        value == IF i <= n THEN families[i] ELSE DecodeVariant(payload.variants[i - n], families)
    IN  IF Refused \in {catalog, value} THEN Refused
        ELSE IF i <= n THEN RegisterCanonicalFamily(catalog, value)
                       ELSE RegisterCanonicalVariant(catalog, value)

\* _decode_catalog_document: register the values one by one.
DecodeDocument(payload) ==
    LET last == Len(payload.families) + Len(payload.variants)
        catalog[i \in 0 .. last] == IF i = 0 THEN EmptyCatalog
                                   ELSE RegisterNth(payload, catalog[i - 1], i)
    IN  catalog[last]

\* What was decoded must encode to the same document.
DecodeCatalog(payload) ==
    LET catalog == DecodeDocument(payload)
    IN  IF catalog # Refused /\ EncodeCatalog(catalog) = payload THEN catalog ELSE Refused
=============================================================================
