\* Does a ParseBPMN answered 201 report a process the parser stored?
CONSTANTS
    Clients = {c1, c2}
    ProcIds = {p1}
    MaxRequests = 2
    ChanCap = 2
    NoKey = NoKey
SPECIFICATION Spec
SYMMETRY ClientSymmetry
INVARIANT CreatedIsStored
