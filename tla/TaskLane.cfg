\* One certifying and one merging terminal.
CONSTANTS
    None = None
    Refused = Refused
    Certifiers = {c1}
    Mergers = {m1}
    Texts <- MCTexts
    Verdicts <- MCVerdicts
    MaxCommit = 4
    MaxControl = 3
    c1 = c1
    m1 = m1
SPECIFICATION Spec
INVARIANTS
    MergedIsCertified
    OneT2PerCandidate
CHECK_DEADLOCK FALSE
