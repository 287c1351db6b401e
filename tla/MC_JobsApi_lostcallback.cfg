\* Does every job callback taken off the response channel reach the process
\* component?
CONSTANTS
    Clients = {c1, c2}
    JobKeys = {j1, j2}
    MaxRequests = 2
    ChanCap = 2
    NoKey = NoKey
    NoMsg = NoMsg
SPECIFICATION Spec
SYMMETRY ClientSymmetry
INVARIANT CallbackForwarded
