---------------------------- MODULE MCProductCatalog ----------------------------
(* ProductCatalog on four observations.                                    *)
EXTENDS ProductCatalog

Pack(global, brand, model, colour) ==
    [comp |-> None, global |-> global, brand |-> brand, model |-> model, mpn |-> {},
     platform |-> "shop", listing |-> None,
     variants |-> IF colour = None THEN <<>> ELSE "colour" :> {colour}]

Red == Pack({1}, {}, {}, "red")
Red2 == Pack({2}, {}, {}, "red")
Blue2 == Pack({2}, {}, {}, "blue")
Named == Pack({1}, {"b"}, {"m"}, None)
NameOnly == Pack({}, {"b"}, {"m"}, None)
Named2 == Pack({2}, {"b"}, {"m"}, None)

BothRed == Pack({1}, {"b"}, {"m"}, "red")
NameRed == Pack({}, {"b"}, {"m"}, "red")

\* Two families of two; a chain of three whose ends differ; a family that grows
\* with the evidence; one of three beside another product; and a chain of exact
\* pairs whose ends are not exact.
MCWorlds ==
    {<<Red, Red, Red2, Blue2>>, <<Named, NameOnly, Named2, Red>>,
     <<Red, Red, Named, Red2>>, <<Red2, Red2, Red2, Named>>, <<Red, BothRed, NameRed, Blue2>>}

TerminalSymmetry == Permutations(Terminals)
=============================================================================
