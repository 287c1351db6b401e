\* Two REST handlers with two requests each, two job keys, a response
\* channel of two messages: every handler, the router, the jobs component,
\* job completions and redelivered callbacks interleave.
CONSTANTS
    Clients = {c1, c2}
    JobKeys = {j1, j2}
    MaxRequests = 2
    ChanCap = 2
    NoKey = NoKey
    NoMsg = NoMsg
SPECIFICATION Spec
SYMMETRY ClientSymmetry
INVARIANT TypeOK
