\* Two terminals, four observations, two ids of each kind.
CONSTANTS
    None = None
    Refused = Refused
    Terminals = {t1, t2}
    Actors = {a1}
    Worlds <- MCWorlds
    FamilyIds = {1, 2}
    VariantIds = {1, 2}
SPECIFICATION Spec
SYMMETRY TerminalSymmetry
INVARIANTS
    CatalogCoherent
    NothingForgotten
CHECK_DEADLOCK FALSE
