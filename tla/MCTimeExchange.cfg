SPECIFICATION MCSpec
CONSTANTS
    Senders = {s1, s2}
    Values = {v1, v2}
    NotInteger = NotInteger
    MaxReads = 3
    MaxSends = 3
SYMMETRY Symmetry
INVARIANTS
    BlameIsTrue
    SilenceIsNamed
    BlamedOnlyAtTheCut
