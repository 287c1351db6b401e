------------------------------ MODULE JobsApi ------------------------------
(***************************************************************************)
(* The jobs REST API and the jobs response channel.                        *)
(*                                                                         *)
(* A REST handler (JobsHandler, jobs_handler.go) validates its request,    *)
(* sends it to the jobs component (SendMessage) and blocks in              *)
(* WaitForJobsResponse(30000) for the next message on the jobs component's *)
(* response channel.  The same channel carries the job callbacks that the  *)
(* jobs component emits when a worker completes a job, and the core's      *)
(* processJobsResponses goroutine (process_manager.go) reads it too: it    *)
(* forwards what isJobCallback classifies as a callback to the process     *)
(* component and drops everything else as "an API response that           *)
(* WaitForJobsResponse will handle".  Nothing correlates a response with   *)
(* its request: sendJobsRequest is given the request id and never uses it. *)
(*                                                                         *)
(* The jobs component and its workers are modelled from spec 4.5, and its  *)
(* callbacks are delivered at least once (spec 5): a completed job's       *)
(* callback may be written to the channel again.  A message is abstracted  *)
(* to who it answers and the markers that isJobCallback searches its text  *)
(* for.                                                                    *)
(***************************************************************************)
EXTENDS Naturals, Sequences

CONSTANTS
    Clients,      \* concurrent REST handler goroutines (one request at a time each)
    JobKeys,      \* job keys the jobs component can issue
    MaxRequests,  \* bound on the requests each client sends
    ChanCap,      \* buffer of the jobs response channel
    NoKey,        \* model value: a response without job_key
    NoMsg         \* model value: no response received

ASSUME JobsApiAssumption ==
    /\ MaxRequests \in Nat /\ ChanCap \in Nat \ {0}
    /\ NoKey \notin JobKeys

\* The operations that reach the jobs component (CreateJob, ActivateJobs,
\* ListJobs, GetJob); the other endpoints answer 501 without sending.
Ops == {"create", "activate", "list", "get"}

\* The answers a handler gives, by HTTP status class.
Statuses == {"none", "created", "ok", "bad_request", "not_found",
             "error", "not_implemented"}

\* The markers isJobCallback looks for in a message's text.
Markers == {"_response", "job_completed"}

\* A message on the response channel: the answer to request n of client
\* `to`, or a job callback (to = NoMsg).  An API response's type field is
\* "<op>_response"; a callback's is "job_completed" and its variables, set by
\* the worker, may contain any text, "_response" included.
Msg == [type : {"api", "callback"}, op : Ops \cup {"none"},
        to : Clients \cup {NoMsg}, n : 0..MaxRequests,
        key : JobKeys \cup {NoKey}, text : SUBSET Markers]

JobStates == {"none", "ACTIVATABLE", "ACTIVATED", "COMPLETED"}

VARIABLES
    cpc,        \* REST handler: "idle" or "waiting" in WaitForJobsResponse
    cop,        \* the operation of the handler's current request
    cstatus,    \* the answer the handler gave to its last request
    cgot,       \* the message WaitForJobsResponse returned for it
    reqs,       \* requests the client has made
    reqQ,       \* requests sent to the jobs component, in order
    chan,       \* the jobs response channel
    job,        \* job key -> state in the jobs component
    forwarded,  \* job keys whose callback reached HandleJobCallback
    swallowed   \* history: job keys whose callback was taken and not forwarded

vars == <<cpc, cop, cstatus, cgot, reqs, reqQ, chan, job, forwarded, swallowed>>

TypeOK ==
    /\ cpc \in [Clients -> {"idle", "waiting"}]
    /\ cop \in [Clients -> Ops \cup {"none"}]
    /\ cstatus \in [Clients -> Statuses]
    /\ cgot \in [Clients -> Msg \cup {NoMsg}]
    /\ reqs \in [Clients -> 0..MaxRequests]
    /\ reqQ \in Seq([from : Clients, op : Ops, n : 1..MaxRequests])
    /\ chan \in Seq(Msg) /\ Len(chan) <= ChanCap
    /\ job \in [JobKeys -> JobStates]
    /\ forwarded \subseteq JobKeys
    /\ swallowed \subseteq JobKeys

Init ==
    /\ cpc = [c \in Clients |-> "idle"]
    /\ cop = [c \in Clients |-> "none"]
    /\ cstatus = [c \in Clients |-> "none"]
    /\ cgot = [c \in Clients |-> NoMsg]
    /\ reqs = [c \in Clients |-> 0]
    /\ reqQ = <<>>
    /\ chan = <<>>
    /\ job = [j \in JobKeys |-> "none"]
    /\ forwarded = {}
    /\ swallowed = {}

-----------------------------------------------------------------------------
(***************************************************************************)
(* The REST handlers.                                                      *)
(***************************************************************************)

\* Handler c answers its request at once with status s.
Answer(c, s) ==
    /\ cstatus' = [cstatus EXCEPT ![c] = s]
    /\ cgot' = [cgot EXCEPT ![c] = NoMsg]
    /\ UNCHANGED <<reqQ, chan, job, forwarded, swallowed>>

\* sendJobsRequest up to the wait: Marshal cannot fail on these maps;
\* SendMessage("jobs", ...) either queues the request for the jobs component
\* or fails, and the handler answers with the converted error.
SendJobsRequest(c, op) ==
    \/ /\ reqQ' = Append(reqQ, [from |-> c, op |-> op, n |-> reqs'[c]])
       /\ cpc' = [cpc EXCEPT ![c] = "waiting"]
       /\ UNCHANGED <<cstatus, cgot, chan, job, forwarded, swallowed>>
    \/ Answer(c, "error") /\ UNCHANGED cpc

\* The common head of a handler: bind and validate the request (a failure
\* answers 400), then send it.
Begin(c, op) ==
    /\ cpc[c] = "idle" /\ reqs[c] < MaxRequests
    /\ reqs' = [reqs EXCEPT ![c] = @ + 1]
    /\ cop' = [cop EXCEPT ![c] = op]
    /\ \/ Answer(c, "bad_request") /\ UNCHANGED cpc
       \/ SendJobsRequest(c, op)

\* POST /jobs: ShouldBindJSON, the required fields and ranges.
CreateJob(c) == Begin(c, "create")

\* POST /jobs/activate: type, worker, max_jobs (defaulted to 10) in 1..1000.
ActivateJobs(c) == Begin(c, "activate")

\* GET /jobs: pagination and the state filter.
ListJobs(c) == Begin(c, "list")

\* GET /jobs/:key: an empty key.
GetJob(c) == Begin(c, "get")

\* Mutant: CompleteJob sends the "complete" request it builds (the
\* "implementation continues" map) to the jobs component and answers 501
\* without waiting for the answer.
NotImplementedSends(c) ==
    /\ cpc[c] = "idle" /\ reqs[c] < MaxRequests
    /\ reqs' = [reqs EXCEPT ![c] = @ + 1]
    /\ cop' = [cop EXCEPT ![c] = "none"]
    /\ reqQ' = Append(reqQ, [from |-> c, op |-> "complete", n |-> reqs'[c]])
    /\ cstatus' = [cstatus EXCEPT ![c] = "not_implemented"]
    /\ cgot' = [cgot EXCEPT ![c] = NoMsg]
    /\ UNCHANGED <<cpc, chan, job, forwarded, swallowed>>

\* PUT complete, fail, throw-error, retries, timeout; DELETE; GET stats:
\* 501, nothing sent.
NotImplemented(c) ==
    /\ cpc[c] = "idle" /\ reqs[c] < MaxRequests
    /\ reqs' = [reqs EXCEPT ![c] = @ + 1]
    /\ cop' = [cop EXCEPT ![c] = "none"]
    /\ Answer(c, "not_implemented")
    /\ UNCHANGED cpc

\* What each handler makes of the map that sendJobsRequest returned.
\* CreateJob: response["job_key"] as a string, 500 when it is missing.  A
\* callback carries job_id, not job_key.
CreateJobAnswer(m) == IF m.type = "api" /\ m.key # NoKey THEN "created" ELSE "error"

\* ActivateJobs: parseJobsFromResponse always returns an empty list; 200.
ActivateJobsAnswer(m) == "ok"

\* ListJobs: jobs and extractTotalCount; 200.
ListJobsAnswer(m) == "ok"

\* GetJob: parseJobFromResponse always returns nil; 404.
GetJobAnswer(m) == "not_found"

HandlerAnswer(op, m) ==
    CASE op = "create"   -> CreateJobAnswer(m)
      [] op = "activate" -> ActivateJobsAnswer(m)
      [] op = "list"     -> ListJobsAnswer(m)
      [] OTHER           -> GetJobAnswer(m)

\* WaitForJobsResponse returns the next message of the response channel,
\* whatever it is; json.Unmarshal into a map succeeds on every message the
\* jobs component writes; the handler answers from it.  A callback taken
\* here never reaches the process component.
WaitForJobsResponse(c) ==
    /\ cpc[c] = "waiting" /\ chan # <<>>
    /\ LET m == Head(chan) IN
         /\ chan' = Tail(chan)
         /\ cpc' = [cpc EXCEPT ![c] = "idle"]
         /\ cgot' = [cgot EXCEPT ![c] = m]
         /\ cstatus' = [cstatus EXCEPT ![c] = HandlerAnswer(cop[c], m)]
         /\ swallowed' = IF m.type = "callback" THEN swallowed \cup {m.key}
                                                ELSE swallowed
    /\ UNCHANGED <<cop, reqs, reqQ, job, forwarded>>

\* After 30 s WaitForJobsResponse returns an error and the handler answers
\* with it; the request stays queued and its answer comes later.
WaitTimeout(c) ==
    /\ cpc[c] = "waiting"
    /\ cpc' = [cpc EXCEPT ![c] = "idle"]
    /\ Answer(c, "error")
    /\ UNCHANGED <<cop, reqs>>

-----------------------------------------------------------------------------
(***************************************************************************)
(* The core's router of the response channel.                              *)
(***************************************************************************)

\* isJobCallback: non-empty, no "_response", and "job_completed" or
\* "job_failed" somewhere in the text.  Callbacks are modelled as
\* completions, so the "job_failed" alternative never decides.
IsJobCallback(m) ==
    /\ m.text # {}
    /\ "_response" \notin m.text
    /\ "job_completed" \in m.text

\* processJobsResponses takes the next message; handleJobsResponse forwards
\* a callback to HandleJobCallback (its error is only logged); anything else
\* is dropped.
ProcessJobsResponses ==
    /\ chan # <<>>
    /\ LET m == Head(chan) IN
         /\ chan' = Tail(chan)
         /\ forwarded' = IF IsJobCallback(m) THEN forwarded \cup {m.key}
                                             ELSE forwarded
         /\ swallowed' = IF m.type = "callback" /\ ~IsJobCallback(m)
                         THEN swallowed \cup {m.key} ELSE swallowed
    /\ UNCHANGED <<cpc, cop, cstatus, cgot, reqs, reqQ, job>>

-----------------------------------------------------------------------------
(***************************************************************************)
(* The jobs component and its workers (spec 4.5).                          *)
(***************************************************************************)

\* The jobs component serves the oldest request and writes its answer to
\* the response channel, blocking while the channel is full: create makes
\* an ACTIVATABLE job and answers with its key (none when no key is left),
\* activate hands every ACTIVATABLE job to the worker.
JobsServe ==
    /\ reqQ # <<>> /\ Len(chan) < ChanCap
    /\ LET r == Head(reqQ)
           free == {j \in JobKeys : job[j] = "none"}
           k == IF r.op = "create" /\ free # {} THEN CHOOSE j \in free : TRUE
                                                ELSE NoKey
       IN /\ reqQ' = Tail(reqQ)
          /\ job' = CASE k # NoKey -> [job EXCEPT ![k] = "ACTIVATABLE"]
                      [] r.op = "activate" ->
                            [j \in JobKeys |-> IF job[j] = "ACTIVATABLE"
                                               THEN "ACTIVATED" ELSE job[j]]
                      [] OTHER -> job
          /\ chan' = Append(chan, [type |-> "api", op |-> r.op, to |-> r.from,
                                   n |-> r.n, key |-> k, text |-> {"_response"}])
    /\ UNCHANGED <<cpc, cop, cstatus, cgot, reqs, forwarded, swallowed>>

\* A worker completes an activated job; the jobs component emits the
\* callback, whose variables may or may not contain the text "_response".
CompleteActivatedJob(j) ==
    /\ job[j] = "ACTIVATED" /\ Len(chan) < ChanCap
    /\ job' = [job EXCEPT ![j] = "COMPLETED"]
    /\ \E tagged \in BOOLEAN :
         chan' = Append(chan, [type |-> "callback", op |-> "none", to |-> NoMsg,
                               n |-> 0, key |-> j,
                               text |-> IF tagged THEN Markers ELSE {"job_completed"}])
    /\ UNCHANGED <<cpc, cop, cstatus, cgot, reqs, reqQ, forwarded, swallowed>>

\* Delivery is at least once (spec 5): the callback of a completed job is
\* written to the response channel again.
RedeliverCallback(j) ==
    /\ job[j] = "COMPLETED" /\ Len(chan) < ChanCap
    /\ \E tagged \in BOOLEAN :
         chan' = Append(chan, [type |-> "callback", op |-> "none", to |-> NoMsg,
                               n |-> 0, key |-> j,
                               text |-> IF tagged THEN Markers ELSE {"job_completed"}])
    /\ UNCHANGED <<cpc, cop, cstatus, cgot, reqs, reqQ, job, forwarded, swallowed>>

\* Every client has made its requests and got its answers, and nothing is
\* left to deliver: the system idles.
Done ==
    /\ \A c \in Clients : cpc[c] = "idle" /\ reqs[c] = MaxRequests
    /\ reqQ = <<>> /\ chan = <<>>
    /\ \A j \in JobKeys : job[j] # "ACTIVATED"
    /\ UNCHANGED vars

Next ==
    \/ \E c \in Clients :
          \/ CreateJob(c) \/ ActivateJobs(c) \/ ListJobs(c) \/ GetJob(c)
          \/ NotImplemented(c) \/ WaitForJobsResponse(c) \/ WaitTimeout(c)
    \/ ProcessJobsResponses
    \/ JobsServe
    \/ \E j \in JobKeys : CompleteActivatedJob(j) \/ RedeliverCallback(j)
    \/ Done

Spec == Init /\ [][Next]_vars

-----------------------------------------------------------------------------
(***************************************************************************)
(* Properties.                                                             *)
(***************************************************************************)

\* Every job callback taken off the response channel reaches the process
\* component, as processJobsResponses' routing intends: none is consumed by
\* a REST handler waiting for its answer, none is classified away.
CallbackForwarded == swallowed = {}

=============================================================================
