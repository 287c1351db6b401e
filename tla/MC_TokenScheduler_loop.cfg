\* The looping process: the call activity is visited again along the back
\* edge of the gateway, under the instance lock, no store faults.
CONSTANTS
    Tokens = {t1, t2}
    Elements <- LoopElements
    ElemType <- LoopType
    Succ <- LoopSucc
    BoundaryTarget <- LoopBoundary
    StartElem = "Start"
    NoElem = NoElem
    NoKey = NoKey
    NoTok = NoTok
    NoMsg = NoMsg
    MaxIds = 4
    MaxFailures = 2
    UseInstanceLock = TRUE
    StoreFaults = FALSE
SPECIFICATION Spec
INVARIANT NoStrandedToken
