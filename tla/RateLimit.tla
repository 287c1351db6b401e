----------------------------- MODULE RateLimit -----------------------------
(***************************************************************************)
(* The REST rate-limit middleware (RateLimitMiddleware, part_001).         *)
(*                                                                         *)
(* Every HTTP request runs Handler() in a goroutine of its own: it reads   *)
(* the configuration, skips disabled limiting and skipped paths, names the *)
(* client (api:<key> or ip:<address>) and, with the auth component's       *)
(* limiter, calls CheckLimit(clientID, apiKey) and afterwards              *)
(* RecordRequest(clientID, apiKey): two calls, so the requests of one      *)
(* client interleave between them.  The limiter (auth component, not in    *)
(* this repository) is a per-client count over the current window that     *)
(* CheckLimit compares with the limit and RecordRequest increments.        *)
(* UpdateConfig and AddSkipPath change the configuration while requests    *)
(* run.                                                                    *)
(***************************************************************************)
EXTENDS Naturals, FiniteSets

CONSTANTS
    Requests,          \* request goroutines that may be in the middleware at once
    Keys,              \* API keys
    IPs,               \* client addresses
    Paths,             \* request paths
    NoKey,             \* model value: the request carries no API key
    NoReq,             \* model value: an idle goroutine handles no request
    NilConfig,         \* model value: UpdateConfig(nil)
    Limit,             \* requests a client may make per window
    MaxArrivals,       \* bound on the requests that enter the middleware
    LimiterAvailable   \* the auth component is ready and has a rate limiter

\* What getClientIdentifier returns: the API key if extractAPIKey finds one
\* (Bearer token, X-API-Key header or api_key query), else the address.
ClientIds == ({"api"} \X Keys) \cup ({"ip"} \X IPs)

\* A request's credentials, path and address.
Req == [key : Keys \cup {NoKey}, ip : IPs, path : Paths]

\* The fields of RateLimitConfig that decide a request's fate.
Configs == [enabled : BOOLEAN, useAuth : BOOLEAN, skip : SUBSET Paths]

DefaultRateLimitConfig ==
    [enabled |-> TRUE, useAuth |-> TRUE, skip |-> {"/health", "/metrics"}]

ASSUME RateLimitAssumption ==
    /\ IsFiniteSet(Requests)
    /\ Limit \in Nat \ {0} /\ MaxArrivals \in Nat
    /\ LimiterAvailable \in BOOLEAN
    /\ NoKey \notin Keys /\ NoReq \notin Req /\ NilConfig \notin Configs
    /\ {"/health", "/metrics"} \subseteq Paths

VARIABLES
    config,    \* rlm.config
    pc,        \* request goroutine: "idle", "checked" (between CheckLimit and RecordRequest)
    req,       \* the request a goroutine handles
    count,     \* the limiter's count of recorded requests per client in this window
    admitted,  \* history: requests per client let through by CheckLimit in this window
    arrivals   \* requests that entered the middleware

vars == <<config, pc, req, count, admitted, arrivals>>

TypeOK ==
    /\ config \in Configs
    /\ pc \in [Requests -> {"idle", "checked"}]
    /\ req \in [Requests -> Req \cup {NoReq}]
    /\ count \in [ClientIds -> Nat]
    /\ admitted \in [ClientIds -> Nat]
    /\ arrivals \in 0..MaxArrivals

Init ==
    /\ config = DefaultRateLimitConfig
    /\ pc = [r \in Requests |-> "idle"]
    /\ req = [r \in Requests |-> NoReq]
    /\ count = [id \in ClientIds |-> 0]
    /\ admitted = [id \in ClientIds |-> 0]
    /\ arrivals = 0

-----------------------------------------------------------------------------
\* getClientIdentifier: "api:" + key when extractAPIKey finds one, else
\* "ip:" + ClientIP.
ClientIdentifier(q) == IF q.key # NoKey THEN <<"api", q.key>> ELSE <<"ip", q.ip>>

\* shouldSkipPath: the path is one of the configured skip paths.
ShouldSkipPath(cfg, path) == path \in cfg.skip

\* A request enters Handler(): disabled limiting and skipped paths pass at
\* once (c.Next); with the auth limiter checkAuthRateLimit passes at once
\* when the auth component is not ready or has no limiter, and otherwise
\* asks CheckLimit, which refuses (429, c.Abort) a client whose count has
\* reached the limit; checkBuiltinRateLimit lets every request through.
Handler(r, q) ==
    /\ pc[r] = "idle" /\ arrivals < MaxArrivals
    /\ arrivals' = arrivals + 1
    /\ req' = [req EXCEPT ![r] = q]
    /\ LET id == ClientIdentifier(q)
           limited == /\ config.enabled
                      /\ ~ShouldSkipPath(config, q.path)
                      /\ config.useAuth
                      /\ LimiterAvailable
       IN \/ /\ limited /\ count[id] < Limit
             /\ pc' = [pc EXCEPT ![r] = "checked"]
             /\ admitted' = [admitted EXCEPT ![id] = @ + 1]
          \/ /\ limited /\ count[id] >= Limit
             /\ UNCHANGED <<pc, admitted>>
          \/ /\ ~limited
             /\ UNCHANGED <<pc, admitted>>
    /\ UNCHANGED <<config, count>>

\* Mutant: the request goes on without RecordRequest.
RecordRequestSkipped(r) ==
    /\ pc[r] = "checked"
    /\ pc' = [pc EXCEPT ![r] = "idle"]
    /\ UNCHANGED <<config, req, count, admitted, arrivals>>

\* checkAuthRateLimit after CheckLimit passed: RecordRequest counts the
\* request, the rate-limit headers are set and the request goes on.
RecordRequest(r) ==
    /\ pc[r] = "checked"
    /\ LET id == ClientIdentifier(req[r]) IN
         count' = [count EXCEPT ![id] = @ + 1]
    /\ pc' = [pc EXCEPT ![r] = "idle"]
    /\ UNCHANGED <<config, req, admitted, arrivals>>

\* Mutant: UpdateConfig without the nil check.
UpdateConfigUnchecked(cfg) ==
    /\ config' = cfg
    /\ UNCHANGED <<pc, req, count, admitted, arrivals>>

\* UpdateConfig replaces the configuration; a nil config is ignored.
UpdateConfig(cfg) ==
    /\ cfg # NilConfig
    /\ config' = cfg
    /\ UNCHANGED <<pc, req, count, admitted, arrivals>>

\* AddSkipPath appends a path to the configured skip paths.
AddSkipPath(path) ==
    /\ config' = [config EXCEPT !.skip = @ \cup {path}]
    /\ UNCHANGED <<pc, req, count, admitted, arrivals>>

\* The limiter's window ends: every client starts over.
WindowEnds ==
    /\ count' = [id \in ClientIds |-> 0]
    /\ admitted' = [id \in ClientIds |-> 0]
    /\ UNCHANGED <<config, pc, req, arrivals>>

\* Every request has been handled: the server idles.
Done ==
    /\ arrivals = MaxArrivals /\ \A r \in Requests : pc[r] = "idle"
    /\ UNCHANGED vars

Next ==
    \/ \E r \in Requests, q \in Req : Handler(r, q)
    \/ \E r \in Requests : RecordRequest(r)
    \/ \E cfg \in Configs \cup {NilConfig} : UpdateConfig(cfg)
    \/ \E path \in Paths : AddSkipPath(path)
    \/ WindowEnds
    \/ Done

Spec == Init /\ [][Next]_vars

-----------------------------------------------------------------------------
(***************************************************************************)
(* Properties.                                                             *)
(***************************************************************************)

\* A client is let through CheckLimit at most Limit times in a window, as
\* the configured requests_per_minute promises.
WithinLimit == \A id \in ClientIds : admitted[id] <= Limit

\* The overshoot is bounded by the concurrency: at most one request per
\* goroutine can be between CheckLimit and RecordRequest, so a client gets
\* through at most Limit - 1 + |Requests| times in a window.
OvershootBounded ==
    \A id \in ClientIds : admitted[id] <= Limit - 1 + Cardinality(Requests)

=============================================================================
