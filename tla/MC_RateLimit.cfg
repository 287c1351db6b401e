\* Two request goroutines, a limit of one request per window, five requests
\* in all, configuration changes while requests run.
CONSTANTS
    Requests = {r1, r2}
    Keys <- MCKeys
    IPs = {ip1}
    Paths <- MCPaths
    NoKey = NoKey
    NoReq = NoReq
    NilConfig = NilConfig
    Limit = 1
    MaxArrivals = 5
    LimiterAvailable = TRUE
SPECIFICATION Spec
SYMMETRY RequestSymmetry
INVARIANT TypeOK
INVARIANT OvershootBounded
INVARIANT OvershootInv
