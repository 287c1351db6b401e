\* The linear process with store faults: UpdateToken and the move may fail.
CONSTANTS
    Tokens = {t1}
    Elements <- LinearElements
    ElemType <- LinearType
    Succ <- LinearSucc
    BoundaryTarget <- LinearBoundary
    StartElem = "Start"
    NoElem = NoElem
    NoKey = NoKey
    NoTok = NoTok
    NoMsg = NoMsg
    MaxIds = 5
    MaxFailures = 1
    UseInstanceLock = TRUE
    StoreFaults = TRUE
SPECIFICATION Spec
INVARIANT TypeOK
INVARIANT ResumeInv
INVARIANT ResumedAtMostOnce
PROPERTY CallActivityWaitsForChild
\* A failed UpdateToken or move leaves the token stranded and the engine idle
\* for it: with store faults the system really stops.
CHECK_DEADLOCK FALSE
