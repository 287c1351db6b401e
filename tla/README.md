# TLA+ verification of the atom-engine: token scheduler, callbacks and REST/gRPC front ends

This directory holds TLA+ models of the workflow engine in `src/`. The TLC
configurations model-check them on small process graphs. The TLAPS proofs
establish the main invariants for every value of the constants.

## The system and its parts

The engine executes BPMN processes. A process instance owns tokens. Each
token sits on an element of the process graph and executes one step per
element. An activity that has to wait suspends its token on a collaborator
record:

- a job for a service task, handed to external workers (`job:<key>`);
- a timer of the timing wheel, for a timer catch event or the interrupting
  boundary timer of an activity (`timer:<id>`);
- a child process instance, for a call activity (`call_activity:<id>`);
- an incident, when an executor fails.

When the collaborator finishes, it delivers a callback on a channel. Three
goroutines read these channels:

- `processJobsResponses` (src/src/core/server/process_manager.go:383) takes job
  callbacks and drops what `isJobCallback` classifies as an API response;
- the timewheel response loop takes timer callbacks;
- the process component takes child completions.

Each of them runs the callback path of `CallbackHelper` (src/unnamed/part_003):

1. `LoadAndValidateToken` (39-64) loads the token. It drops the callback
   unless the token is WAITING for exactly this key.
2. `ProcessCallbackAndContinue` (68-139) clears the wait and cancels the
   token's boundary timers. The cancellation is best effort: a failure is
   logged and ignored. It then writes the token (`UpdateToken`) and calls
   `MoveTokenToNextElements`.
3. A boundary timer takes `ProcessCallbackAndContinueWithFlows` (143-201)
   instead. It cancels the token's boundary timers and its EVENT timers,
   each best effort, and moves the token to the target of the boundary
   event's flow. It does not cancel the activity's own wait (the job or the
   child): that record stays pending, and its late callback is dropped by
   `LoadAndValidateToken` because the token no longer waits for it.

`CallActivityExecutor.Execute` (part_003 260-357) marks the token's execution
context with `call_activity_executed:<element>`. Then it starts the child
instance and suspends on `call_activity:<child>`. When the token comes back
after the child completed, it finds the flag and advances.

## Modules

| Module | Models | Code |
|---|---|---|
| `TokenScheduler` | tokens, collaborator records, the callback goroutines, the instance lock, store faults | part_003 39-357; process_manager.go 383-419; the other executors from spec 4 |
| `MC_TokenScheduler` | two process graphs (Linear, Loop) for TLC | — |
| `TokenScheduler_proofs` | TLAPS proofs of type correctness, `ResumedAtMostOnce`, `ResumeInv` and `NoStrandedToken` | — |
| `MC_TokenSchedulerInv` | the TLC instance with the proofs' inductive invariant (run faults) | — |
| `JobsApi`, `MC_JobsApi` | the jobs REST handlers, the shared jobs response channel and `processJobsResponses` | jobs_handler.go 120-599; process_manager.go 383-512 |
| `JobsApi_proofs` | TLAPS proof of type correctness | — |
| `RateLimit`, `MC_RateLimit` | the rate-limit middleware and the auth limiter's per-client window count | part_001 547-772 |
| `RateLimit_proofs`, `MC_RateLimitInv` | TLAPS proofs of `OvershootBounded`, `OvershootInv` and type correctness; the TLC instance that also checks `OvershootInv` (run ratelimit) | — |
| `ParserApi`, `MC_ParserApi` | the BPMN REST handlers and the parser response channel | part_001 67-440 |
| `ParserApi_proofs` | TLAPS proofs of `ResponsesAccounted` and type correctness | — |
| `ExpressionTest`, `MC_ExpressionTest` | the expression gRPC service's TestExpression loop and EvaluateExpression | part_002 27-119, 308-416 |
| `ExpressionTest_proofs` | TLAPS proofs of `VerdictsMatchEvaluate`, `SummaryCounts` and type correctness | — |
| `ProcessApi`, `MC_ProcessApi` | the process REST handlers over `Core.GetProcessComponent` and `processComponentAdapter`; the instance manager and the token steps it cancels (from the spec) | process_handler.go 86-432; process_manager.go 20-117; core_interface.go 126-174 |
| `ProcessApi_proofs` | TLAPS proofs of `ReadYourCancel` and type correctness | — |

### TokenScheduler

State, with the code it stands for:

- `tstate`, `elem`, `waitingFor`, `btimers`: the fields `State`,
  `CurrentElementID`, `WaitingFor` and the boundary timer ids of the stored
  token.
- `executed`: the elements whose `call_activity_executed` flag is set in the
  token's execution context.
- `driven`: an ACTIVE token is being executed by some goroutine.
- `rec`: the collaborator records (jobs, timers, child instances,
  incidents), with their status.
- `inbox`: the callbacks delivered and not yet consumed. It is a set, so a
  callback delivered twice and consumed once stays possible. Collaborators
  deliver at least once.
- `hpc`, `hmsg`, `hsnap`: each callback goroutine's program counter, the
  callback it handles, and the copy of the token it loaded.
- `lock`: the per-instance lock of spec 5. The constant `UseInstanceLock`
  turns it on or off.
- `resumes` and `visitChild`: history variables, for the properties only.

One action per step of the code:

- `LoadAndValidateToken` and `DropStaleCallback` are the two outcomes of the
  validity check at part_003:49-57.
- `UpdateWaitingToken` is lines 68-106 (and 148-171 for a boundary
  callback): clear, cancel, write. `LeaveRecords` gives the records after
  the cancellations, each of which may fail: boundary timers
  (`CancelBoundaryTimers`), and for a boundary callback also EVENT timers
  (`CancelEventTimers`).
- `MoveTokenOn` and `MoveToBoundaryTarget` are the move and the boundary
  target move.
- `UpdateWaitingTokenFails` and `MoveFails` are store errors. They return
  early, as lines 104 and 122 do.
- `ExecCallActivityDone`, `ExecCallActivityStart` and `ExecCallActivityFail`
  are the three paths of `CallActivityExecutor.Execute`.

The executors whose code is not under `src/` are modelled from spec 4.6 and
marked `spec_modelled` in PROJECT.json: start, end, gateway, service task and
timer catch. So are the collaborators' completions.

Data is abstracted. Variables, element ids and timer expressions are left
out, because no property tells their values apart. A key `kind:<id>` is the
id of a record.

## Runs

| Run | Graph, bounds | Checks | Result |
|---|---|---|---|
| faults | Linear, 1 token, 5 records, 1 failure, lock, store faults | TypeOK, ResumedAtMostOnce, CallActivityWaitsForChild, ResumeInv | pass (775 states) |
| loop | Loop, 2 tokens, 4 records, 2 failures, lock, no faults | NoStrandedToken | pass (4604 states) |
| stranded | as faults | NoStrandedToken | violation |
| reentry | Loop, 1 token | CallActivityWaitsForChild | violation |

The faults run uses the module `MC_TokenSchedulerInv`, which adds the
proofs' inductive invariant `ResumeInv` to the instance. Store faults only
add behaviours, so this run also covers every behaviour without faults.

The Linear graph is Start → Task → Call → Gw → {Wait → End, End}. Task is a
service task whose interrupting boundary timer leads to Timeout. This
exercises every kind of suspension:

- a job that completes while its boundary timer fires;
- a duplicated callback;
- an executor failure that raises an incident, then the retry after it is
  resolved.

Five record ids are enough for one pass through every element, the
boundary timer and one incident included. The Loop graph is
Start → Call → Gw → {Call, End}. It visits the call activity again. Two
tokens let a second instance run after the first has looped, so the later
runs reach the states the flag creates.

The runs assume no fairness. Every property is a safety property. The
goroutines of the engine come with no scheduling guarantee that would
justify one.

### Properties

- `NoStrandedToken`: a WAITING token can still be woken, and an ACTIVE token
  is being executed, unless a callback goroutine is working on it.
- `ResumedAtMostOnce`: the wait on a record is ended at most once. It
  fails when a job completion and its boundary timer both pass
  `LoadAndValidateToken`.
- `CallActivityWaitsForChild` (an action property): a token leaves a call
  activity only after a child started in this visit has completed.

### Findings

- **stranded.** `ProcessCallbackAndContinue` consumes the callback and clears
  the wait. If `UpdateToken` (part_003:104) or the move (122) then fails, it
  returns the error with nothing undone. The token then waits for a callback
  that is gone, or stays ACTIVE with nobody executing it. Spec 7 says a
  failed step is not applied.
- **reentry.** The flag `call_activity_executed:<element>` is never cleared.
  When a loop brings the token back to the call activity, it advances at
  once (part_003:273) without starting a child. Spec 9 says each traversal
  is a fresh step.

## Proofs (TokenScheduler_proofs)

All proofs assume `ConstAssumption`: the shape of the process graph and the
types of the bounds.

- `TypeCorrect`: `Spec => []TypeOK`. `TypeOK` alone is not inductive. The
  proof uses `TypeInv`, which adds the following facts:
  - issued record ids are below `nextId`, and unused records are empty;
  - a record belongs to a token;
  - boundary timer ids point to boundary records;
  - inbox messages name issued records;
  - waits name issued records;
  - a goroutine that is not idle holds a callback and a snapshot.

  The facts about `WithState`, `CancelBoundaryTimers`, `CancelEventTimers`
  and `LeaveRecords` are lemmas; `LeaveRecordsForms` lists the four record
  maps a callback can leave (no cancellation, either one, or both).
- `ResumedAtMostOnceUnderLock`: with `UseInstanceLock`,
  `Spec => []ResumedAtMostOnce`. The inductive invariant `ResumeInv` adds the
  following:
  - `LockHeld`: a goroutine past `LoadAndValidateToken` holds the instance
    lock of the token its callback names.
  - `LoadedWaits`: while it does, the token is the one it loaded, or is no
    longer waiting on anything of that load.
  - `WaitFresh`: a token's wait and its armed boundary timers have not been
    resumed.
  - `UnusedFresh`: records not yet issued were never resumed.

  So a second callback for the same suspension finds the wait gone. The run
  `faults` checks `ResumeInv` with TLC, store faults included, and
  `ResumeInvHolds` proves `Spec => []ResumeInv` under the lock.
- `NoStrandedTokenHolds`: with `UseInstanceLock` and without `StoreFaults`,
  `Spec => []NoStrandedToken`, for every process graph. The inductive
  invariant `StrandInv` is `ResumeInv` plus two facts:
  - `WaitKind`: the record a WAITING token waits on is a job, timer, child
    or incident, never a boundary timer. So its callback is checked with
    `WaitsFor`, and `DropStaleCallback` never drops it.
  - `BoundaryOwned`: the boundary timers a suspension armed belong to the
    token. So their callbacks name it.

  The argument is per token (`Safe(u)`), with one lemma per kind of step:
  - a collaborator that fires a record delivers the callback to the
    record's own token (`WaitFresh`, `BoundaryOwned`);
  - a goroutine that accepts a callback keeps its token in flight until the
    move, because the lock keeps every other step of that token out
    (`LockHeld`, `LoadedWaits`);
  - `LeaveRecords` changes only records of the goroutine's own token.

  TLC checked `StrandInv` on both process graphs, with two tokens, before
  the proof. With `StoreFaults`, `NoStrandedToken` is false (run
  `stranded`).

TLC alone checks the following:

- `CallActivityWaitsForChild`, an action property. Its proof would need
  a further strengthening about the execution-context flag on loops; it is
  not attempted yet.

Every TokenScheduler run sets `UseInstanceLock` to TRUE. No run checks a
property without the lock; what the lock buys is shown only by the mutant
`LoadAndValidateTokenUnlocked`, under which TLC finds `ResumedAtMostOnce`
and `ResumeInv` violated.

TLAPS cannot reach liveness, `ENABLED`, or induction over recursive data, so
those stay with TLC.

## The REST and gRPC front ends

### Shared response channels (JobsApi, ParserApi)

The jobs and BPMN REST handlers talk to their components by message: a
handler calls `SendMessage(component, json)` and then blocks in
`WaitForJobsResponse(30000)` or `WaitForParserResponse(30000)`, which return
the *next* message of the component's response channel. Nothing ties a
response to its request. Each Gin request runs in a goroutine of its own, so
handlers of concurrent requests wait on one channel together.

State: per handler goroutine a program counter (`idle`/`waiting`), the
operation and form of its request and the answer it gave; the component's
request queue and its response channel as sequences; the component's store;
a history count of timeouts. Actions: one per handler (`CreateJob`,
`ActivateJobs`, `ListJobs`, `GetJob`, `ParseBPMN`, `ListProcesses`, the 501
endpoints), each with its early returns (bind or form errors, send errors);
the wait (`WaitForJobsResponse`, `WaitForParserResponse`) and its 30 s
`WaitTimeout`; the component serving a request (an external edge, modelled
from the spec); for jobs also `ProcessJobsResponses`, the goroutine of
process_manager.go:383 that reads the same jobs channel and drops what
`isJobCallback` calls an API response. Callbacks are delivered at least
once (spec 5): `RedeliverCallback` sends a completed job's callback again.
`CreateJob` answers from whatever message it takes: an API response that
carries a job key is a success, and a callback, which carries `job_id` and
no `job_key`, is answered 500.

The component's answer to a request whose handler timed out stays in the
channel and is taken by the next handler that waits. Data is abstracted:
a job or process is a model value, a response a record of its routing
fields.

### Rate limiting (RateLimit)

`Handler` is one request through the middleware: configuration checks, skip
paths (by default `/health` and `/metrics`, part_001:554),
`getClientIdentifier`, and with the auth limiter `CheckLimit`.
`RecordRequest` is the second call, a separate step, so requests of one
client interleave between the two. `UpdateConfig`, `AddSkipPath` and the
end of the limiter's window (`WindowEnds`) happen at any time. The limiter
itself (auth component, not under `src/`) is a per-client count.

### TestExpression (ExpressionTest)

The gRPC `TestExpression` loop: the component lookup, then per test case one
of three failure branches (context JSON, evaluation, marshal; each appends a
failed result, clears `allPassed` and continues) or the comparison of the
result's JSON with the expected text; then the summary. The FEEL evaluator is
the function `eval` from contexts to a JSON text or an error, chosen in
`Init` with the request (up to `MaxCases` cases). `EvaluateExpression`, the
single-evaluation RPC, is an operator of the same evaluator and serves as the
reference each case's verdict is compared with. `countPassedTests` and
`countFailedTests` are the numbers of positions of the results that passed,
or failed: the cardinality of a set of positions, which is what their loops
compute.

### Process instances (ProcessApi)

The process handlers do not use a channel. They call
`h.coreInterface.GetProcessComponent()`. That returns nil while the core
has no process component (answered 500). Otherwise it returns
`processComponentAdapter`, which delegates to the instance manager and
copies its records field by field.

State:

- `compUp`: whether the core has a process component;
- `inst`: per instance id, its state (`NONE` = unused);
- `tok`: per instance, `MaxTokens` token slots;
- `inflight`: the token steps the scheduler has taken up and not finished;
- per client, its request `req` and the answer `ans`;
- `acked`: the ids whose cancel has been answered 200.

Each handler is one action from its first check to its answer, with every
early return:

- `StartProcess`: bind error or Validate (400), nil component (500),
  unknown key (error), or 201 with a fresh ACTIVE instance;
- `ListProcesses`: bad page or status filter (400), 500, or 200 with the
  instances;
- `GetProcessStatus`: empty or malformed id (400), 500, 404, or 200 with
  the state;
- `CancelProcess`: empty id (400), 500, 404, or the cancel;
- `GetProcessTokens` and `GetTokenTrace`: 501.

The instance manager is not under `src/` and is modelled from spec 4.1,
4.7 and 4.9:

- `ComponentStart`: PROCESS_NOT_FOUND for a key with no deployed process,
  else a fresh ACTIVE instance with one ACTIVE token;
- `ComponentCancel`: NOT_FOUND for an unknown id; a cancel of an ACTIVE
  instance makes it and its live tokens CANCELLED (`CancelInstance`);
- the scheduler takes up an ACTIVE token (`StepBegin`);
- the step ends (`StepEnd`), unless the instance was cancelled meanwhile,
  in which case it is discarded (`StepDiscarded`). A step ends by
  advancing, waiting, splitting into a free slot, or completing the token;
  the completion check then makes the instance COMPLETED when no ACTIVE or
  WAITING token is left;
- a callback resumes a WAITING token (`Resume`).

A second cancel of an ended instance changes nothing (spec 8). Whether it
answers an error or success is not specified, so the model allows both.

The adapter operators `StartProcessInstance` and `CancelProcessInstance`
(process_manager.go 35-49, 81-83) call these and copy or return their
results; the handler maps the error to the HTTP answer. No abstract
lifecycle of an instance is claimed: every step that changes an instance's
state is modelled from the spec, so a refinement of it would check the
spec against itself.

`processComponentRESTAdapter` (process_manager.go 280-331) is a mock: its
start answers `mock-instance-id` and its cancel returns nil without effect.
It is not what `GetProcessComponent` returns, and it appears as two mutants:

- `StartProcessInstanceMock` breaks `TypeOK`: the answer carries an id the
  manager never issued;
- `CancelProcessInstanceMock` breaks `ReadYourCancel`.

### Runs of the front ends

| Run | Bounds | Checks | Result |
|---|---|---|---|
| jobs | 2 handlers, 2 job keys, 2 requests each, channel of 2, callbacks redelivered | TypeOK | pass (1,700,960 states) |
| jobs_lostcallback | as jobs, with job callbacks | CallbackForwarded | violation |
| ratelimit | 2 request goroutines, 2 keys, 1 IP, 3 paths, limit 1, 5 arrivals | TypeOK, OvershootBounded, OvershootInv | pass (829,472 states) |
| ratelimit_race | as ratelimit | WithinLimit | violation |
| parser | 2 handlers, 1 process id, 2 requests each, channel of 2 | ResponsesAccounted | pass (92,215 states) |
| parser_created | as parser | CreatedIsStored | violation |
| exprtest | 2 contexts, 2 result texts, up to 3 cases | TypeOK, VerdictsMatchEvaluate, SummaryCounts | pass (32,336 states) |
| process | 2 clients, 2 instance ids, 2 keys (1 deployed), 2 token slots | TypeOK, ReadYourCancel | pass (1,083,194 states) |

Two handlers and two requests each are the smallest instance where one
handler's timeout leaves an answer for the other, and where one handler's
answer is taken by another handler of a different operation. Symmetry over
the handlers is sound: no action tells them apart. For TestExpression,
three cases with two contexts and two texts cover every pair of branches in
sequence and both a match and a mismatch after a failure. For the process
run, two clients let one client's status read follow another client's
cancel. Two ids give a second start after the first instance ended. Two
token slots let a split leave one token live while the other completes, so
the completion check takes both branches. Symmetry over clients and over
ids is sound: no action tells two of them apart.

Properties:

- `TypeOK` (jobs): every variable keeps its type. It is the one property of
  the jobs run: no handler sends a request it has not built, and the
  channel holds only responses and callbacks of known jobs. A 501 endpoint
  that sent its request anyway breaks it. The loss of a callback is the
  finding below, not a property that holds.
- `ResponsesAccounted` (parser): the requests queued and the answers in the
  channel are exactly as many as the waiting handlers plus the timeouts. No
  handler waits for an answer nobody owes it, and every stale answer comes
  from a timeout.
- `OvershootBounded` (ratelimit): a client gets through at most
  `Limit - 1 + |Requests|` times per window.
- `VerdictsMatchEvaluate`: each test case passes exactly when
  `EvaluateExpression` on its context succeeds with the expected result.
- `SummaryCounts`: the summary counts every case once, its passed count is
  the number of passing cases, and `AllPassed` holds exactly when none
  failed. The passed count is computed as
  `len(TestCases) - len(results) + countPassed`, which is right only while
  every branch appends exactly one result.
- `ReadYourCancel` (process): a status request issued after a cancel was
  answered 200 never reports the instance ACTIVE. Breaking it takes the
  cancel handler and a later status read, possibly by another client,
  after a 200 to a cancel that did not reach the instance manager: the
  REST adapter's mock, or a cancel whose error is ignored. No step of the
  scheduler writes ACTIVE back, so a step in flight cannot break it; the
  proof shows this.

No run assumes fairness: every property of the front ends is a safety
property.

### Findings of the front ends

- **jobs_lostcallback** (process_manager.go:397): `WaitForJobsResponse`
  can take a job callback off the shared channel, and the callback never
  reaches the engine.
- **ratelimit_race** (part_001:631): `CheckLimit` and `RecordRequest` are
  two calls, so concurrent requests of one client all pass the check and the
  client exceeds `requests_per_minute`.
- **parser_created** (part_001:200): a `ParseBPMN` that receives a list
  response sees `success: true` and no `process_key`. It reports the form's
  `process_id` as created (lines 253-257), although the parser stored
  nothing.

### Proofs of the front ends

- `RateLimit_proofs`:
  - `OvershootBoundedHolds`: `Spec => []OvershootBounded`.
  - `RateLimitTypeCorrect`: `Spec => []TypeOK`.
  - The inductive invariant `OvershootInv` relates three quantities: the
    requests admitted in the window, the recorded count, and the requests
    between `CheckLimit` and `RecordRequest`. `OvershootBounded` alone is
    not inductive, because it says nothing of the pending requests. The run
    `ratelimit` also checks `OvershootInv` with TLC, and
    `OvershootInvHolds` proves `Spec => []OvershootInv`.
- `ParserApi_proofs`:
  - `ResponsesAccountedHolds` and `ParserApiTypeCorrect`, from
    `AccountInv == TypeOK /\ ResponsesAccounted`.
  - Each action keeps the balance: a send moves a handler into `Waiting` and
    a request into the queue; the parser moves a request to the channel; a
    wait removes one answer and one waiting handler; a timeout removes a
    waiting handler and adds a timeout.
- `ExpressionTest_proofs`:
  - `VerdictsMatchEvaluateHolds`: `Spec => []VerdictsMatchEvaluate`.
  - The loop invariant `VerdictInv` says that in the loop one result is
    recorded per case before `i`, and that each recorded result is its
    case's reference verdict.
  - `SummaryCountsHolds` and `ExpressionTestTypeCorrect`, from
    `SummaryInv`. It adds two facts to `VerdictInv` and `TypeOK`:
    - `allPassed` holds exactly while every recorded result passed
      (`AllPassedInv`);
    - a returned response is the summary built from the results
      (`ResponseInv`).
  - Lemma `CountsSplit`: the passed and failed counts, as cardinalities of
    sets of positions, are natural numbers that add up to the length of the
    results; the failed count is 0 exactly when every result passed. It
    rests on the finite-set lemmas of `FiniteSetTheorems`.
- `JobsApi_proofs`:
  - `JobsApiTypeCorrect`: `Spec => []TypeOK`.
  - `TypeOK` alone is not inductive: the router forwards what
    `isJobCallback` accepts, and only the shape of the channel says that
    this is the callback of a known job. The inductive invariant `JobsInv`
    is `TypeOK /\ ChanShape`: an API response carries the `_response`
    marker, which `isJobCallback` rejects, and a callback names a job key.
  - One lemma per reader (`WaitPreserves`, `RouterPreserves`) and per
    writer (`ServePreserves`, `CallbackPreserves`, which covers completion
    and redelivery); `JobsInvNext` combines them.
- `ProcessApi_proofs`:
  - `ReadYourCancelHolds`, `ProcessApiTypeCorrect`: `Spec => []P`.
  - The inductive invariant is `LifeInv`, the conjunction of:
    - `TypeOK`;
    - `UnusedHasNoTokens`;
    - `InflightIsLive`: a step in flight is on an ACTIVE token unless the
      instance is cancelled;
    - `NeverFailed`;
    - `TokensAgreeWithInstance`: an ended instance has no live token;
    - `AckedEnded`: every acknowledged cancel is of an ended instance, and
      the acknowledgements a request or answer carries were made before it;
    - `ReadYourCancel`.
  - `ReadYourCancel` alone is not inductive: it needs `AckedEnded` to
    show that a status read of an acknowledged id finds it ended, and
    `InflightIsLive` with `TokensAgreeWithInstance` to show that a step
    ending in flight finds its instance ACTIVE, so it never makes an ended
    instance ACTIVE or COMPLETED again.
  - One lemma per handler and one per scheduler step, each under
    `LifeInv`; `LifeNext` combines them.

## Not modelled

- Parallel and inclusive gateways and messages. Instance cancellation is
  modelled in `ProcessApi`, not in `TokenScheduler`.
- Of the process REST handlers:
  - `GetProcessStats`, which no route reaches;
  - pagination: `ListProcesses` passes `Limit*Page` as the component's
    limit, and the model lists every matching instance;
  - the timewheel REST adapters and `GetProcessInfoForREST`;
  - the FAILED state of an instance, which no handler produces;
  - the process key filter.
- The other expression RPCs (`ValidateExpression`, `ParseExpression`,
  `GetSupportedFunctions`, `EvaluateCondition`). Each is a single
  request/response conversion with no loop and no state. `EvaluateBatch` and
  `ExtractVariables` are stubs.
- The CLI message commands, the system utilities of part_001 and the
  connector documentation (part_000). They are argument parsing, formatting
  and I/O.
- The components behind the channels (jobs manager, parser, FEEL evaluator,
  auth limiter) are not under `src/`. They appear only as external edges,
  modelled from the spec.

PROJECT.json lists each with its reason.
