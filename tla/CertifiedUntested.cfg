\* A publication between the preflight of a certification and its identity capture.
CONSTANTS
    None = None
    Refused = Refused
    Certifiers = {c1}
    Mergers = {m1}
    Texts <- MCTexts
    Verdicts <- MCVerdicts
    MaxCommit = 4
    MaxControl = 2
    c1 = c1
    m1 = m1
SPECIFICATION Spec
INVARIANTS
    PassMeansTested
CHECK_DEADLOCK FALSE
