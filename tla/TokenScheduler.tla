--------------------------- MODULE TokenScheduler ---------------------------
(***************************************************************************)
(* The token scheduler of the workflow engine: tokens that execute one     *)
(* element per step, suspend on a collaborator record (a job, a timer, a   *)
(* child instance, an incident), and are resumed by callbacks that the     *)
(* collaborators deliver to the engine's callback goroutines.              *)
(*                                                                         *)
(* A callback is handled the way CallbackHelper does it (part_003):        *)
(*   LoadAndValidateToken       read the token, drop the callback unless   *)
(*                              the token waits for exactly this key;      *)
(*   ProcessCallbackAndContinue clear the wait, cancel boundary timers     *)
(*                              (best effort), UpdateToken, then           *)
(*                              MoveTokenToNextElements;                   *)
(* and a boundary timer interrupts an activity through                     *)
(* ProcessCallbackAndContinueWithFlows.  These are separate steps of the   *)
(* goroutine that runs them, so the callbacks of different collaborators   *)
(* interleave.  Variables carried by tokens and callbacks are left out:    *)
(* no property here is about their values.                                 *)
(***************************************************************************)
EXTENDS Naturals, FiniteSets

CONSTANTS
    Tokens,          \* tokens, one per process instance (no parallel split here)
    Elements,        \* elements of the process definition
    ElemType,        \* element id -> element type
    Succ,            \* element id -> targets of its outgoing sequence flows
    BoundaryTarget,  \* activity -> target of its interrupting boundary timer, or NoElem
    StartElem,       \* the start event chosen by the caller
    NoElem,          \* model value: no element
    NoKey,           \* model value: token.WaitingFor = ""
    NoTok,           \* model value: a record that belongs to no token yet
    NoMsg,           \* model value: a callback goroutine holds no callback
    MaxIds,          \* bound on the collaborator records created (timers, jobs, ...)
    MaxFailures,     \* bound on the executor failures that raise an incident
    UseInstanceLock, \* callbacks and steps of one instance are serialised (spec 5)
    StoreFaults      \* storage.UpdateToken may fail

ElemTypes == {"startEvent", "endEvent", "serviceTask", "callActivity",
              "intermediateCatchEvent", "exclusiveGateway"}

\* Elements whose executor suspends the token.
Activities == {e \in Elements : ElemType[e] \in {"serviceTask", "callActivity",
                                                 "intermediateCatchEvent"}}

ASSUME ConstAssumption ==
    /\ ElemType \in [Elements -> ElemTypes]
    /\ Succ \in [Elements -> SUBSET Elements]
    /\ BoundaryTarget \in [Elements -> Elements \cup {NoElem}]
    /\ StartElem \in Elements /\ ElemType[StartElem] = "startEvent"
    /\ NoElem \notin Elements
    /\ MaxIds \in Nat /\ MaxFailures \in Nat
    /\ UseInstanceLock \in BOOLEAN /\ StoreFaults \in BOOLEAN
    \* only an exclusive gateway has a choice of outgoing flows
    /\ \A e \in Elements : ElemType[e] # "exclusiveGateway" => Cardinality(Succ[e]) <= 1
    \* a boundary timer is attached to a service task; the flow from an
    \* activity that ends a wait leads somewhere
    /\ \A e \in Elements : BoundaryTarget[e] # NoElem => ElemType[e] = "serviceTask"
    /\ \A e \in Elements : ElemType[e] \in {"serviceTask", "intermediateCatchEvent"} => Succ[e] # {}

Ids == 1..MaxIds

\* The kind of a collaborator record; a key "job:<id>", "timer:<id>",
\* "call_activity:<id>" or "incident:<id>" is the id of a record of that kind.
RecKinds == {"job", "timer", "boundary", "call", "incident"}

\* PENDING: ACTIVATABLE job, PENDING timer, ACTIVE child instance, open incident.
\* DONE:    completed job, fired timer, completed child, resolved incident.
RecStates == {"NONE", "PENDING", "DONE", "CANCELLED"}
Rec == [kind : RecKinds \cup {"none"}, st : RecStates, tok : Tokens \cup {NoTok}, at : Elements \cup {NoElem}]

\* A callback message: the record that fired and the token it names.
Msg == [id : Ids, tok : Tokens]

\* The goroutines that consume collaborator callbacks: processJobsResponses,
\* the timewheel response loop and the process component (child completion).
Handlers == {"jobs", "timewheel", "process"}

HandlerOf(kind) == CASE kind = "job"      -> "jobs"
                     [] kind = "timer"    -> "timewheel"
                     [] kind = "boundary" -> "timewheel"
                     [] OTHER             -> "process"

TokenStates == {"ACTIVE", "WAITING", "COMPLETED", "CANCELLED"}
NoHolder == "none"

VARIABLES
    tstate,      \* token.State
    elem,        \* token.CurrentElementID
    waitingFor,  \* token.WaitingFor: a record id or NoKey
    executed,    \* elements e with execution context "call_activity_executed:e" = true
    btimers,     \* token.boundaryTimerIds armed by the current suspension
    driven,      \* an ACTIVE token is being executed by some goroutine
    rec,         \* collaborator records by id
    nextId,      \* the next unused record id
    failures,    \* executor failures so far
    inbox,       \* callbacks delivered and not yet consumed
    hpc,         \* callback goroutine: "idle", "validated" or "updated"
    hmsg,        \* the callback a goroutine is handling
    hsnap,       \* the token it loaded in LoadAndValidateToken
    lock,        \* holder of the instance lock of a token's instance
    resumes,     \* history: how many times the wait on a record was ended
    visitChild   \* history: the child started in the token's current visit to its element

vars == <<tstate, elem, waitingFor, executed, btimers, driven, rec, nextId,
          failures, inbox, hpc, hmsg, hsnap, lock, resumes, visitChild>>

tokVars == <<tstate, elem, waitingFor, executed, btimers, driven, visitChild>>

Snap == [elem : Elements, wf : Ids, executed : SUBSET Elements, btimers : SUBSET Ids]

TypeOK ==
    /\ tstate \in [Tokens -> TokenStates]
    /\ elem \in [Tokens -> Elements]
    /\ waitingFor \in [Tokens -> Ids \cup {NoKey}]
    /\ executed \in [Tokens -> SUBSET Elements]
    /\ btimers \in [Tokens -> SUBSET Ids]
    /\ driven \in [Tokens -> BOOLEAN]
    /\ rec \in [Ids -> Rec]
    /\ nextId \in 1..(MaxIds + 1)
    /\ failures \in 0..MaxFailures
    /\ inbox \subseteq Msg
    /\ hpc \in [Handlers -> {"idle", "validated", "updated"}]
    /\ hmsg \in [Handlers -> Msg \cup {NoMsg}]
    /\ hsnap \in [Handlers -> Snap \cup {NoMsg}]
    /\ lock \in [Tokens -> Handlers \cup {NoHolder}]
    /\ resumes \in [Ids -> Nat]
    /\ visitChild \in [Tokens -> Ids \cup {NoKey}]

-----------------------------------------------------------------------------
\* StartProcessInstance: the instance record and one token at the start
\* event, executed at once by the caller.
Init ==
    /\ tstate = [t \in Tokens |-> "ACTIVE"]
    /\ elem = [t \in Tokens |-> StartElem]
    /\ waitingFor = [t \in Tokens |-> NoKey]
    /\ executed = [t \in Tokens |-> {}]
    /\ btimers = [t \in Tokens |-> {}]
    /\ driven = [t \in Tokens |-> TRUE]
    /\ rec = [i \in Ids |-> [kind |-> "none", st |-> "NONE", tok |-> NoTok, at |-> NoElem]]
    /\ nextId = 1
    /\ failures = 0
    /\ inbox = {}
    /\ hpc = [h \in Handlers |-> "idle"]
    /\ hmsg = [h \in Handlers |-> NoMsg]
    /\ hsnap = [h \in Handlers |-> NoMsg]
    /\ lock = [t \in Tokens |-> NoHolder]
    /\ resumes = [i \in Ids |-> 0]
    /\ visitChild = [t \in Tokens |-> NoKey]

\* The instance lock is free for a step of token t (spec 5).
Free(t) == UseInstanceLock => lock[t] = NoHolder

NewRec(kind, t, e) == [kind |-> kind, st |-> "PENDING", tok |-> t, at |-> e]

\* Record i of r moved to state s (a status update of the stored record).
WithState(r, i, s) ==
    [r EXCEPT ![i] = [kind |-> r[i].kind, st |-> s, tok |-> r[i].tok, at |-> r[i].at]]

\* A step of the executor loop may run on token t.
Runnable(t) == tstate[t] = "ACTIVE" /\ driven[t] /\ Free(t)

\* Suspend(waitingFor, boundaryTimerIds): the token waits on record id.
Suspend(t, id, bts) ==
    /\ tstate' = [tstate EXCEPT ![t] = "WAITING"]
    /\ waitingFor' = [waitingFor EXCEPT ![t] = id]
    /\ btimers' = [btimers EXCEPT ![t] = bts]
    /\ driven' = [driven EXCEPT ![t] = FALSE]

\* Advance along the outgoing flow of the token's element (or complete the
\* token when there is none).
Advance(t, e) ==
    IF Succ[e] = {}
    THEN /\ tstate' = [tstate EXCEPT ![t] = "COMPLETED"]
         /\ driven' = [driven EXCEPT ![t] = FALSE]
         /\ UNCHANGED <<elem, visitChild>>
    ELSE \E s \in Succ[e] : /\ elem' = [elem EXCEPT ![t] = s]
                            /\ visitChild' = [visitChild EXCEPT ![t] = NoKey]
                            /\ UNCHANGED <<tstate, driven>>

-----------------------------------------------------------------------------
(***************************************************************************)
(* Executor steps (spec 4.1, 4.6): one element of token t, run by the      *)
(* goroutine that drives it, under the instance lock.                     *)
(***************************************************************************)

\* Start event and exclusive gateway: take an outgoing flow (the gateway's
\* conditions are not modelled, so any of its flows).
ExecPassThrough(t) ==
    /\ Runnable(t)
    /\ ElemType[elem[t]] \in {"startEvent", "exclusiveGateway"}
    /\ Advance(t, elem[t])
    /\ UNCHANGED <<waitingFor, executed, btimers, rec, nextId, failures,
                   inbox, hpc, hmsg, hsnap, lock, resumes>>

\* End event: the token completes.
ExecEnd(t) ==
    /\ Runnable(t)
    /\ ElemType[elem[t]] = "endEvent"
    /\ tstate' = [tstate EXCEPT ![t] = "COMPLETED"]
    /\ driven' = [driven EXCEPT ![t] = FALSE]
    /\ UNCHANGED <<elem, waitingFor, executed, btimers, rec, nextId, failures,
                   inbox, hpc, hmsg, hsnap, lock, resumes, visitChild>>

\* Service task without an in-process connector: create a job and suspend
\* on job:<id>, arming the activity's boundary timer if it has one.
ExecServiceTask(t) ==
    LET e == elem[t]
        hasB == BoundaryTarget[e] # NoElem
        bts == IF hasB THEN {nextId + 1} ELSE {}
        used == IF hasB THEN 2 ELSE 1
    IN /\ Runnable(t)
       /\ ElemType[e] = "serviceTask"
       /\ nextId + used <= MaxIds + 1
       /\ rec' = [i \in Ids |-> IF i = nextId THEN NewRec("job", t, e)
                                ELSE IF i \in bts THEN NewRec("boundary", t, e)
                                ELSE rec[i]]
       /\ nextId' = nextId + used
       /\ Suspend(t, nextId, bts)
       /\ UNCHANGED <<elem, executed, failures, inbox, hpc, hmsg, hsnap, lock, resumes, visitChild>>

\* Timer intermediate catch event: schedule a timer, suspend on timer:<id>.
ExecTimerCatch(t) ==
    /\ Runnable(t)
    /\ ElemType[elem[t]] = "intermediateCatchEvent"
    /\ nextId <= MaxIds
    /\ rec' = [rec EXCEPT ![nextId] = NewRec("timer", t, elem[t])]
    /\ nextId' = nextId + 1
    /\ Suspend(t, nextId, {})
    /\ UNCHANGED <<elem, executed, failures, inbox, hpc, hmsg, hsnap, lock, resumes, visitChild>>

\* CallActivityExecutor.Execute when the execution context already holds
\* call_activity_executed:<element>: continue along the outgoing flows, or
\* complete when there are none.
ExecCallActivityDone(t) ==
    /\ Runnable(t)
    /\ ElemType[elem[t]] = "callActivity"
    /\ elem[t] \in executed[t]
    /\ Advance(t, elem[t])
    /\ UNCHANGED <<waitingFor, executed, btimers, rec, nextId, failures,
                   inbox, hpc, hmsg, hsnap, lock, resumes>>

\* CallActivityExecutor.Execute on first entry: start the child instance,
\* then mark the context and suspend on call_activity:<childInstanceId>.
ExecCallActivityStart(t) ==
    /\ Runnable(t)
    /\ ElemType[elem[t]] = "callActivity"
    /\ elem[t] \notin executed[t]
    /\ nextId <= MaxIds
    /\ rec' = [rec EXCEPT ![nextId] = NewRec("call", t, elem[t])]
    /\ nextId' = nextId + 1
    /\ executed' = [executed EXCEPT ![t] = @ \cup {elem[t]}]
    /\ visitChild' = [visitChild EXCEPT ![t] = nextId]
    /\ Suspend(t, nextId, {})
    /\ UNCHANGED <<elem, failures, inbox, hpc, hmsg, hsnap, lock, resumes>>

\* Mutant: the context flag is set before the child is started, so a failed
\* start is retried as if the child had been started.
ExecCallActivityFailMarked(t) ==
    /\ Runnable(t)
    /\ ElemType[elem[t]] = "callActivity"
    /\ elem[t] \notin executed[t]
    /\ failures < MaxFailures
    /\ nextId <= MaxIds
    /\ rec' = [rec EXCEPT ![nextId] = NewRec("incident", t, elem[t])]
    /\ nextId' = nextId + 1
    /\ failures' = failures + 1
    /\ executed' = [executed EXCEPT ![t] = @ \cup {elem[t]}]
    /\ Suspend(t, nextId, {})
    /\ UNCHANGED <<elem, inbox, hpc, hmsg, hsnap, lock, resumes, visitChild>>

\* CallActivityExecutor.Execute when extractCalledProcessID or
\* StartProcessInstance fails: Success = false and the context is not marked.
\* The scheduler raises an incident and the token waits on incident:<id>
\* (spec 7).
ExecCallActivityFail(t) ==
    /\ Runnable(t)
    /\ ElemType[elem[t]] = "callActivity"
    /\ elem[t] \notin executed[t]
    /\ failures < MaxFailures
    /\ nextId <= MaxIds
    /\ rec' = [rec EXCEPT ![nextId] = NewRec("incident", t, elem[t])]
    /\ nextId' = nextId + 1
    /\ failures' = failures + 1
    /\ Suspend(t, nextId, {})
    /\ UNCHANGED <<elem, executed, inbox, hpc, hmsg, hsnap, lock, resumes, visitChild>>

-----------------------------------------------------------------------------
(***************************************************************************)
(* Collaborators.  Each fires a PENDING record and delivers a callback.    *)
(***************************************************************************)

\* A worker completes an activated job (spec 4.5): callback job:<key>.
CompleteJob(id) ==
    /\ rec[id].kind = "job" /\ rec[id].st = "PENDING"
    /\ rec' = WithState(rec, id, "DONE")
    /\ inbox' = inbox \cup {[id |-> id, tok |-> rec[id].tok]}
    /\ UNCHANGED <<tokVars, nextId, failures, hpc, hmsg, hsnap, lock, resumes>>

\* The timing wheel fires a pending timer (spec 4.3).
FireTimer(id) ==
    /\ rec[id].kind \in {"timer", "boundary"} /\ rec[id].st = "PENDING"
    /\ rec' = WithState(rec, id, "DONE")
    /\ inbox' = inbox \cup {[id |-> id, tok |-> rec[id].tok]}
    /\ UNCHANGED <<tokVars, nextId, failures, hpc, hmsg, hsnap, lock, resumes>>

\* The child instance completes and calls back call_activity:<id> (spec 4.7).
CompleteChild(id) ==
    /\ rec[id].kind = "call" /\ rec[id].st = "PENDING"
    /\ rec' = WithState(rec, id, "DONE")
    /\ inbox' = inbox \cup {[id |-> id, tok |-> rec[id].tok]}
    /\ UNCHANGED <<tokVars, nextId, failures, hpc, hmsg, hsnap, lock, resumes>>

\* An operator resolves the incident; the step of the token is retried (spec 7).
ResolveIncident(id) ==
    LET t == rec[id].tok
    IN /\ rec[id].kind = "incident" /\ rec[id].st = "PENDING"
       /\ tstate[t] = "WAITING" /\ waitingFor[t] = id
       /\ Free(t)
       /\ rec' = WithState(rec, id, "DONE")
       /\ tstate' = [tstate EXCEPT ![t] = "ACTIVE"]
       /\ waitingFor' = [waitingFor EXCEPT ![t] = NoKey]
       /\ driven' = [driven EXCEPT ![t] = TRUE]
       /\ resumes' = [resumes EXCEPT ![id] = @ + 1]
       /\ UNCHANGED <<elem, executed, btimers, nextId, failures, inbox, hpc, hmsg, hsnap, lock, visitChild>>

-----------------------------------------------------------------------------
(***************************************************************************)
(* Callback goroutines.                                                    *)
(***************************************************************************)

\* Goroutine h may take callback m: it is idle, m is of its collaborator,
\* and it can take the instance lock.
Loadable(h, m) ==
    /\ hpc[h] = "idle"
    /\ m \in inbox
    /\ HandlerOf(rec[m.id].kind) = h
    /\ Free(m.tok)

\* token.IsWaiting() && token.WaitingFor == expectedWaitingFor
WaitsFor(t, id) == tstate[t] = "WAITING" /\ waitingFor[t] = id

\* A boundary timer may interrupt the activity whose suspension armed it.
ArmedBoundary(t, id) == tstate[t] = "WAITING" /\ id \in btimers[t]

ValidCallback(m) ==
    IF rec[m.id].kind = "boundary" THEN ArmedBoundary(m.tok, m.id)
                                   ELSE WaitsFor(m.tok, m.id)

\* The goroutine keeps the token it loaded and the instance lock.  Delivery
\* is at least once: the callback may stay in the inbox to be delivered again.
Accept(h, m) ==
    /\ \E keep \in BOOLEAN : inbox' = IF keep THEN inbox ELSE inbox \ {m}
    /\ hpc' = [hpc EXCEPT ![h] = "validated"]
    /\ hmsg' = [hmsg EXCEPT ![h] = m]
    /\ hsnap' = [hsnap EXCEPT ![h] = [elem |-> elem[m.tok], wf |-> waitingFor[m.tok],
                                      executed |-> executed[m.tok], btimers |-> btimers[m.tok]]]
    /\ lock' = IF UseInstanceLock THEN [lock EXCEPT ![m.tok] = h] ELSE lock
    /\ UNCHANGED <<tokVars, rec, nextId, failures, resumes>>

\* Mutant: the token is loaded without checking that it is waiting.
LoadAndValidateTokenUnchecked(h, m) ==
    /\ Loadable(h, m)
    /\ rec[m.id].kind \in {"job", "timer", "call"}
    /\ Accept(h, m)

\* Mutant: the callback is handled without taking the instance lock.
LoadAndValidateTokenUnlocked(h, m) ==
    /\ hpc[h] = "idle"
    /\ m \in inbox
    /\ HandlerOf(rec[m.id].kind) = h
    /\ rec[m.id].kind \in {"job", "timer", "call"}
    /\ WaitsFor(m.tok, m.id)
    /\ \E keep \in BOOLEAN : inbox' = IF keep THEN inbox ELSE inbox \ {m}
    /\ hpc' = [hpc EXCEPT ![h] = "validated"]
    /\ hmsg' = [hmsg EXCEPT ![h] = m]
    /\ hsnap' = [hsnap EXCEPT ![h] = [elem |-> elem[m.tok], wf |-> waitingFor[m.tok],
                                      executed |-> executed[m.tok], btimers |-> btimers[m.tok]]]
    /\ UNCHANGED <<tokVars, rec, nextId, failures, resumes, lock>>

\* LoadAndValidateToken: load the token and keep the callback only if the
\* token waits for exactly this key.
LoadAndValidateToken(h, m) ==
    /\ Loadable(h, m)
    /\ rec[m.id].kind \in {"job", "timer", "call"}
    /\ WaitsFor(m.tok, m.id)
    /\ Accept(h, m)

\* The timer callback of a boundary timer: the token must still be waiting
\* in the suspension that armed the timer (spec 4.3 b, 4.6).
LoadBoundaryTimerToken(h, m) ==
    /\ Loadable(h, m)
    /\ rec[m.id].kind = "boundary"
    /\ ArmedBoundary(m.tok, m.id)
    /\ Accept(h, m)

\* A callback for a token that no longer waits for it is dropped
\* (CALLBACK_STALE) and nothing else changes.
DropStaleCallback(h, m) ==
    /\ Loadable(h, m)
    /\ ~ValidCallback(m)
    /\ inbox' = inbox \ {m}
    /\ UNCHANGED <<tokVars, rec, nextId, failures, hpc, hmsg, hsnap, lock, resumes>>

\* Goroutine h releases the instance lock of token t and goes idle.
Finish(h, t) ==
    /\ hpc' = [hpc EXCEPT ![h] = "idle"]
    /\ hmsg' = [hmsg EXCEPT ![h] = NoMsg]
    /\ hsnap' = [hsnap EXCEPT ![h] = NoMsg]
    /\ lock' = IF UseInstanceLock THEN [lock EXCEPT ![t] = NoHolder] ELSE lock

\* CancelBoundaryTimersForToken: every pending boundary timer of token t.
CancelBoundaryTimers(r, t) ==
    [i \in Ids |-> IF r[i].kind = "boundary" /\ r[i].tok = t /\ r[i].st = "PENDING"
                   THEN WithState(r, i, "CANCELLED")[i] ELSE r[i]]

\* CancelEventTimersForToken: every pending timer of token t.
CancelEventTimers(r, t) ==
    [i \in Ids |-> IF r[i].kind = "timer" /\ r[i].tok = t /\ r[i].st = "PENDING"
                   THEN WithState(r, i, "CANCELLED")[i] ELSE r[i]]

\* The records after the cancellations that precede UpdateToken.  Every
\* callback cancels the token's boundary timers; a boundary callback, which
\* continues along the boundary's flows, also cancels its EVENT timers.
\* Either cancellation may fail; the error is only logged.
LeaveRecords(h) ==
    LET t == hmsg[h].tok
        afterB == {rec, CancelBoundaryTimers(rec, t)}
    IN IF rec[hmsg[h].id].kind = "boundary"
       THEN afterB \cup {CancelEventTimers(r, t) : r \in afterB}
       ELSE afterB

\* Mutant: a failed boundary-timer cancellation aborts the callback.
UpdateWaitingTokenStrict(h) ==
    LET t == hmsg[h].tok
        s == hsnap[h]
    IN /\ hpc[h] = "validated"
       /\ \/ /\ rec' = CancelBoundaryTimers(rec, t)
             /\ tstate' = [tstate EXCEPT ![t] = "ACTIVE"]
             /\ waitingFor' = [waitingFor EXCEPT ![t] = NoKey]
             /\ elem' = [elem EXCEPT ![t] = s.elem]
             /\ executed' = [executed EXCEPT ![t] = s.executed]
             /\ btimers' = [btimers EXCEPT ![t] = s.btimers]
             /\ driven' = [driven EXCEPT ![t] = FALSE]
             /\ hpc' = [hpc EXCEPT ![h] = "updated"]
             /\ resumes' = [resumes EXCEPT ![s.wf] = @ + 1]
             /\ UNCHANGED <<nextId, failures, inbox, hmsg, hsnap, lock, visitChild>>
          \/ /\ Finish(h, t)
             /\ UNCHANGED <<tokVars, rec, nextId, failures, inbox, resumes>>

\* ClearWaitingFor, cancel boundary timers, UpdateToken: the loaded token is
\* written back ACTIVE and no longer waiting (ProcessCallbackAndContinue
\* lines 73-106; ProcessCallbackAndContinueWithFlows lines 148-171).
UpdateWaitingToken(h) ==
    LET t == hmsg[h].tok
        s == hsnap[h]
    IN /\ hpc[h] = "validated"
       /\ rec' \in LeaveRecords(h)
       /\ tstate' = [tstate EXCEPT ![t] = "ACTIVE"]
       /\ waitingFor' = [waitingFor EXCEPT ![t] = NoKey]
       /\ elem' = [elem EXCEPT ![t] = s.elem]
       /\ executed' = [executed EXCEPT ![t] = s.executed]
       /\ btimers' = [btimers EXCEPT ![t] = s.btimers]
       /\ driven' = [driven EXCEPT ![t] = FALSE]
       /\ hpc' = [hpc EXCEPT ![h] = "updated"]
       /\ resumes' = [resumes EXCEPT ![s.wf] = @ + 1]
       /\ UNCHANGED <<nextId, failures, inbox, hmsg, hsnap, lock, visitChild>>

\* UpdateToken returns an error: the callback is abandoned after the
\* cancellations; the stored token is unchanged.
UpdateWaitingTokenFails(h) ==
    /\ StoreFaults
    /\ hpc[h] = "validated"
    /\ rec' \in LeaveRecords(h)
    /\ Finish(h, hmsg[h].tok)
    /\ UNCHANGED <<tokVars, nextId, failures, inbox, resumes>>

\* The token as the goroutine holds it, moved to element n and executed on.
MoveLoadedToken(h, n) ==
    LET t == hmsg[h].tok
        s == hsnap[h]
    IN /\ tstate' = [tstate EXCEPT ![t] = "ACTIVE"]
       /\ waitingFor' = [waitingFor EXCEPT ![t] = NoKey]
       /\ elem' = [elem EXCEPT ![t] = n]
       /\ executed' = [executed EXCEPT ![t] = s.executed]
       /\ btimers' = [btimers EXCEPT ![t] = s.btimers]
       /\ driven' = [driven EXCEPT ![t] = TRUE]
       /\ visitChild' = IF n = s.elem THEN visitChild
                        ELSE [visitChild EXCEPT ![t] = NoKey]

\* Mutant: the token is moved and stored but not executed further.
MoveTokenOnNoExecute(h) ==
    LET t == hmsg[h].tok
    IN /\ hpc[h] = "updated"
       /\ rec[hmsg[h].id].kind # "boundary"
       /\ \E n \in Succ[hsnap[h].elem] :
             /\ elem' = [elem EXCEPT ![t] = n]
             /\ visitChild' = IF n = hsnap[h].elem THEN visitChild
                              ELSE [visitChild EXCEPT ![t] = NoKey]
       /\ Finish(h, t)
       /\ UNCHANGED <<tstate, waitingFor, executed, btimers, driven, rec, nextId,
                      failures, inbox, resumes>>

\* MoveTokenToNextElements from the token's element (lines 108-138).
MoveTokenOn(h) ==
    /\ hpc[h] = "updated"
    /\ rec[hmsg[h].id].kind # "boundary"
    /\ \E n \in Succ[hsnap[h].elem] : MoveLoadedToken(h, n)
    /\ Finish(h, hmsg[h].tok)
    /\ UNCHANGED <<rec, nextId, failures, inbox, resumes>>

\* token.MoveTo(target of the boundary's outgoing flow), UpdateToken,
\* ExecuteToken (lines 173-201).
MoveToBoundaryTarget(h) ==
    /\ hpc[h] = "updated"
    /\ rec[hmsg[h].id].kind = "boundary"
    /\ MoveLoadedToken(h, BoundaryTarget[hsnap[h].elem])
    /\ Finish(h, hmsg[h].tok)
    /\ UNCHANGED <<rec, nextId, failures, inbox, resumes>>

\* The move returns an error after the first UpdateToken: the stored token
\* is ACTIVE, waits for nothing, and no goroutine executes it.
MoveFails(h) ==
    /\ StoreFaults
    /\ hpc[h] = "updated"
    /\ Finish(h, hmsg[h].tok)
    /\ UNCHANGED <<tokVars, rec, nextId, failures, inbox, resumes>>

\* Every token has finished; the engine idles.
Quiescent ==
    /\ \A t \in Tokens : tstate[t] \in {"COMPLETED", "CANCELLED"}
    /\ inbox = {}
    /\ UNCHANGED vars

Next ==
    \/ \E t \in Tokens :
          \/ ExecPassThrough(t) \/ ExecEnd(t) \/ ExecServiceTask(t)
          \/ ExecTimerCatch(t) \/ ExecCallActivityDone(t)
          \/ ExecCallActivityStart(t) \/ ExecCallActivityFail(t)
    \/ \E id \in Ids : CompleteJob(id) \/ FireTimer(id) \/ CompleteChild(id)
                       \/ ResolveIncident(id)
    \/ \E h \in Handlers, m \in Msg :
          LoadAndValidateToken(h, m) \/ LoadBoundaryTimerToken(h, m)
          \/ DropStaleCallback(h, m)
    \/ \E h \in Handlers :
          \/ UpdateWaitingToken(h) \/ UpdateWaitingTokenFails(h)
          \/ MoveTokenOn(h) \/ MoveToBoundaryTarget(h) \/ MoveFails(h)
    \/ Quiescent

Spec == Init /\ [][Next]_vars

-----------------------------------------------------------------------------
(***************************************************************************)
(* Properties.                                                             *)
(***************************************************************************)

\* Goroutine h is between LoadAndValidateToken and the end of the move for t.
InFlight(t) == \E h \in Handlers : hpc[h] # "idle" /\ hmsg[h].tok = t

\* Something can still end the wait of token t: its record is pending, its
\* callback is undelivered, or a boundary timer its suspension armed is
\* pending or undelivered.
CanWake(t) ==
    \/ rec[waitingFor[t]].st = "PENDING"
    \/ [id |-> waitingFor[t], tok |-> t] \in inbox
    \/ \E b \in btimers[t] : rec[b].st = "PENDING" \/ [id |-> b, tok |-> t] \in inbox

\* No token is stranded: a WAITING token can still be woken, and an ACTIVE
\* token is being executed, unless a callback goroutine is working on it.
\* This is what the callback path (LoadAndValidateToken, UpdateToken,
\* MoveTokenToNextElements) must preserve across its separate writes.
NoStrandedToken ==
    \A t \in Tokens :
        /\ tstate[t] = "WAITING" => CanWake(t) \/ InFlight(t)
        /\ tstate[t] = "ACTIVE" => driven[t] \/ InFlight(t)

\* The wait of a token on a record is ended at most once, whichever of the
\* callbacks (the record's own, a boundary timer, a duplicate delivery)
\* reaches the token: two goroutines never both resume the same suspension.
ResumedAtMostOnce == \A id \in Ids : resumes[id] <= 1

\* A token leaves a call activity along its flow only after a child instance
\* started in this visit to the activity has completed
\* (CallActivityExecutor's call_activity_executed:<element> context flag).
LeavesCallActivity(t) == ElemType[elem[t]] = "callActivity" /\ elem'[t] # elem[t]

CallActivityWaitsForChild ==
    [][\A t \in Tokens : LeavesCallActivity(t) =>
            visitChild[t] # NoKey /\ rec[visitChild[t]].st = "DONE"]_vars

=============================================================================
