CONSTANTS
    Ctxs <- MC_Ctxs
    Values <- MC_Values
    BadJson = BadJson
    MaxCases = 3
SPECIFICATION Spec
INVARIANT TypeOK
INVARIANT VerdictsMatchEvaluate
INVARIANT SummaryCounts
