\* Do concurrent requests of one client stay within the limit?
CONSTANTS
    Requests = {r1, r2}
    Keys <- MCKeys
    IPs = {ip1}
    Paths <- MCPaths
    NoKey = NoKey
    NoReq = NoReq
    NilConfig = NilConfig
    Limit = 1
    MaxArrivals = 5
    LimiterAvailable = TRUE
SPECIFICATION Spec
SYMMETRY RequestSymmetry
INVARIANT WithinLimit
