\* Two REST handlers with two requests each, one process id, a response
\* channel of two messages: parses with and without force, lists, timeouts
\* and late answers interleave.
CONSTANTS
    Clients = {c1, c2}
    ProcIds = {p1}
    MaxRequests = 2
    ChanCap = 2
    NoKey = NoKey
SPECIFICATION Spec
SYMMETRY ClientSymmetry
INVARIANT ResponsesAccounted
