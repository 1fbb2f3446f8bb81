----------------------------- MODULE ProductCatalog -----------------------------
(***************************************************************************)
(* The catalog database and the commands that fill it from several         *)
(* terminals (product_intelligence/canonical_catalog_sqlite.py,            *)
(* family_decision_admission.py, family_review_planning.py,                *)
(* sellable_variant_review_admission.py, cli.py).  A command reads         *)
(* evidence or catalog, waits for a person, and registers the decision     *)
(* later; meanwhile evidence arrives and other terminals register theirs.  *)
(*                                                                         *)
(* SQLite is external: one writer at a time, a transaction becomes visible *)
(* at its commit or not at all.  A rejected decision changes nothing and   *)
(* is left out.                                                            *)
(***************************************************************************)
EXTENDS ProductEntities, TLC

CONSTANTS Terminals, Actors,
          Worlds,         \* possible evidence: observation -> pack
          FamilyIds, VariantIds

\* Observations and ids are ordered; evidence is a finite number of files.
ASSUME OrderAssumption ==
    /\ FamilyIds \subseteq Nat /\ VariantIds \subseteq Nat
    /\ \A w \in Worlds : DOMAIN w \subseteq Nat /\ IsFiniteSet(DOMAIN w)

VARIABLES pack,      \* the evidence of every observation, fixed
          present,   \* the observations whose evidence is on disk
          disk,      \* the stored document, or None
          writer,    \* the terminal inside BEGIN IMMEDIATE, or None
          term,      \* terminal -> [pc, kind, value, payload]
          acked      \* history: registrations that returned

vars == <<pack, present, disk, writer, term, acked>>

Idle == [pc |-> "idle", kind |-> None, value |-> None, payload |-> None]

TypeOK ==
    /\ present \subseteq DOMAIN pack
    /\ writer \in Terminals \cup {None}
    /\ \A t \in Terminals : term[t].pc \in {"idle", "creating", "decided", "registered"}

Init ==
    /\ pack \in Worlds
    /\ present = {} /\ disk = None /\ writer = None
    /\ term = [t \in Terminals |-> Idle]
    /\ acked = {}

EvidenceArrives(o) ==
    /\ present' = present \cup {o}
    /\ UNCHANGED <<pack, disk, writer, term, acked>>

\* create_sqlite_canonical_catalog: the path is free, a temporary file is made
\* and linked into place, which fails when another creator was first.
CreateStart(t) ==
    /\ term[t].pc = "idle" /\ disk = None
    /\ term' = [term EXCEPT ![t].pc = "creating"]
    /\ UNCHANGED <<pack, present, disk, writer, acked>>

CreateLink(t) ==
    /\ term[t].pc = "creating"
    /\ disk' = IF disk = None THEN EncodeCatalog(EmptyCatalog) ELSE disk
    /\ term' = [term EXCEPT ![t] = Idle]
    /\ UNCHANGED <<pack, present, writer, acked>>

LoadSnapshot == DecodeCatalog(disk)

Decided(t, kind, value) ==
    term' = [term EXCEPT ![t] = [@ EXCEPT !.pc = "decided", !.kind = kind, !.value = value]]

\* _family_decide_document: plan from the evidence of now, approve a proposal.
FamilyDecide(t, actor, id) ==
    /\ term[t].pc = "idle"
    /\ \E proposal \in PlanFamilyReview(present, pack) :
          Decided(t, "family", CreateCanonicalFamily(proposal, actor, id))
    /\ UNCHANGED <<pack, present, disk, writer, acked>>

\* _variant_decide_document: a family of the catalog of now, some of its members.
VariantDecide(t, actor, id) ==
    /\ term[t].pc = "idle" /\ disk # None
    /\ \E family \in ToSet(LoadSnapshot.families) :
          \E selected \in SUBSET ToSet(family.members) :
             LET proposal == CreateVariantProposal(family, selected)
             IN  /\ proposal # Refused
                 /\ Decided(t, "variant", CreateCanonicalVariant(proposal, actor, id))
    /\ UNCHANGED <<pack, present, disk, writer, acked>>

Registered(t, catalog) ==
    IF term[t].kind = "family" THEN RegisterCanonicalFamily(catalog, term[t].value)
                               ELSE RegisterCanonicalVariant(catalog, term[t].value)

\* Mutant: the snapshot is read before the writer is reserved.
BeginUnreserved(t) ==
    LET result == Registered(t, LoadSnapshot)
    IN  /\ term[t].pc = "decided" /\ disk # None
        /\ writer' = writer
        /\ term' = [term EXCEPT ![t] = IF result = Refused THEN Idle
                        ELSE [@ EXCEPT !.pc = "registered", !.payload = EncodeCatalog(result)]]
        /\ UNCHANGED <<pack, present, disk, acked>>

\* _register_sqlite_value: reserve the writer, load, register, write.  A refusal
\* rolls back.
BeginAndRegister(t) ==
    LET result == Registered(t, LoadSnapshot)
    IN  /\ term[t].pc = "decided" /\ disk # None
        /\ writer = None
        /\ writer' = IF result = Refused THEN None ELSE t
        /\ term' = [term EXCEPT ![t] = IF result = Refused THEN Idle
                        ELSE [@ EXCEPT !.pc = "registered", !.payload = EncodeCatalog(result)]]
        /\ UNCHANGED <<pack, present, disk, acked>>

Commit(t) ==
    /\ term[t].pc = "registered"
    /\ disk' = term[t].payload
    /\ acked' = acked \cup {[kind |-> term[t].kind, value |-> term[t].value]}
    /\ writer' = None
    /\ term' = [term EXCEPT ![t] = Idle]
    /\ UNCHANGED <<pack, present>>

\* No database, another writer (timeout 0), a failed commit or a killed process:
\* SQLite forgets the transaction.
GiveUp(t) ==
    /\ term[t].pc # "idle"
    /\ writer' = IF writer = t THEN None ELSE writer
    /\ term' = [term EXCEPT ![t] = Idle]
    /\ UNCHANGED <<pack, present, disk, acked>>

Next ==
    \/ \E o \in DOMAIN pack \ present : EvidenceArrives(o)
    \/ \E t \in Terminals :
          \/ CreateStart(t) \/ CreateLink(t) \/ BeginAndRegister(t) \/ Commit(t) \/ GiveUp(t)
          \/ \E actor \in Actors, id \in FamilyIds : FamilyDecide(t, actor, id)
          \/ \E actor \in Actors, id \in VariantIds : VariantDecide(t, actor, id)

Spec == Init /\ [][Next]_vars

-----------------------------------------------------------------------------
(* Whatever terminals decide and from however old a view, the catalog can  *)
(* be read, no observation belongs to two families or to two variants, no  *)
(* family holds two observations known to be different products, and a     *)
(* variant lies in its registered family and is exact throughout           *)
(* (register_canonical_family, register_canonical_variant,                 *)
(* decode_canonical_catalog, group_resolution_graph).                      *)
CatalogCoherent ==
    disk # None =>
        LET c == LoadSnapshot
            families == ToSet(c.families)
            variants == ToSet(c.variants)
        IN  /\ c # Refused
            /\ \A f, g \in families : f # g => f.id # g.id /\ ~Overlap(ToSet(f.members), ToSet(g.members))
            /\ \A f \in families : \A p \in Pairs(ToSet(f.members)) :
                  LET s == Ascending(p)
                  IN  ResolveProductEntities(pack[s[2]], pack[s[1]]) # "DIFFERENT_PRODUCT"
            /\ \A v, w \in variants : v # w => v.id # w.id /\ ~Overlap(MembersOf(v), MembersOf(w))
            /\ \A v \in variants :
                  /\ SourceFamily(v) \in families
                  /\ \A p \in Pairs(MembersOf(v)) : \A a, b \in p :
                        a # b => ResolveProductEntities(pack[a], pack[b]) = "EXACT_VARIANT_MATCH"

(* A registration that returned is in the catalog ever after, with the     *)
(* lineage it was approved with: no other terminal, crash or later         *)
(* insertion drops it or makes the stored positions mean something else    *)
(* (_register_sqlite_value, create_sqlite_canonical_catalog,               *)
(* encode_canonical_catalog).                                              *)
NothingForgotten ==
    \A a \in acked :
        /\ disk # None
        /\ a.value \in ToSet(IF a.kind = "family" THEN LoadSnapshot.families
                                                  ELSE LoadSnapshot.variants)
=============================================================================
