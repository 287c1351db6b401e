\* The looping process: does a second visit to the call activity wait for a
\* child of its own?
CONSTANTS
    Tokens = {t1}
    Elements <- LoopElements
    ElemType <- LoopType
    Succ <- LoopSucc
    BoundaryTarget <- LoopBoundary
    StartElem = "Start"
    NoElem = NoElem
    NoKey = NoKey
    NoTok = NoTok
    NoMsg = NoMsg
    MaxIds = 3
    MaxFailures = 1
    UseInstanceLock = TRUE
    StoreFaults = FALSE
SPECIFICATION Spec
PROPERTY CallActivityWaitsForChild
