SPECIFICATION MCSpec
CONSTANTS
    Inputs <- MCInputs
    NumCases = 5
    Jobs = 2
INVARIANTS
    NoAdapterOutlivesCase
    PassIsEarned
    ReportedReasonLeads
    LaunchDiscipline
    PermitsConserved
    IndexTellsThisRun
PROPERTIES
    KeepsThePromise
    CaseEnds
    MatrixEnds
CHECK_DEADLOCK FALSE
