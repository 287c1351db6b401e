------------------------------ MODULE ProcessApi ------------------------------
(***************************************************************************)
(* The process REST API (ProcessHandler, process_handler.go) over the      *)
(* core's gRPC process adapter (processComponentAdapter, process_manager.go)*)
(* and the instance manager behind it.                                     *)
(*                                                                         *)
(* Each REST client is a gin goroutine with one request at a time: the     *)
(* request is issued, then the handler runs its checks and early returns  *)
(* and makes one call to the process component, which serialises on the   *)
(* store, and answers.  The instance manager (process.Component, not in    *)
(* the repository) is modelled from spec 4.1, 4.7 and 4.9: a start makes a *)
(* fresh instance with one ACTIVE token; the scheduler runs token steps    *)
(* that advance, suspend, split or complete; a completing token triggers   *)
(* the completion check; a cancel cancels the live tokens and the          *)
(* instance, and a step in flight when the cancel happens is discarded.    *)
(* Variables, names, pagination windows, timestamps and texts are left out.*)
(***************************************************************************)
EXTENDS Naturals, FiniteSets

CONSTANTS
    Clients,    \* concurrent REST clients
    Ids,        \* instance ids the process component can hand out
    Keys,       \* process keys a start request may name
    Deployed,   \* the keys of deployed process definitions
    MaxTokens   \* bound on the tokens of one instance

\* The id of an answer that names no instance.
NoId == "none"

ASSUME ProcessApiAssumption ==
    /\ Deployed \subseteq Keys
    /\ MaxTokens \in Nat \ {0}
    /\ Ids \cap (Keys \cup {"", "badformat", NoId}) = {}

Slots == 1..MaxTokens
InstStates == {"NONE", "ACTIVE", "COMPLETED", "CANCELLED", "FAILED"}
TokStates == {"NONE", "ACTIVE", "WAITING", "COMPLETED", "CANCELLED"}
Live == {"ACTIVE", "WAITING"}

\* The ?status= values ListProcesses may be given, and the instance state
\* each of the accepted ones selects.
Filters == {"", "active", "completed", "cancelled", "failed"}
ValidStatuses == {"active", "completed", "cancelled"}
StateOfFilter == [active |-> "ACTIVE", completed |-> "COMPLETED",
                  cancelled |-> "CANCELLED"]

\* Requests by route, with the inputs that decide the handler's path:
\* POST /processes (a body that does not bind, one that fails Validate, or a
\* process key), GET /processes/:id, DELETE /processes/:id, GET /processes
\* (a bad page or a status filter), and the token routes.
Requests ==
    [op : {"start"}, arg : Keys \cup {"badjson", "invalid"}]
    \cup [op : {"status"}, arg : Ids \cup {"", "badformat"}]
    \cup [op : {"cancel"}, arg : Ids \cup {""}]
    \cup [op : {"list"}, arg : Filters \cup {"badpage"}]
    \cup [op : {"tokens", "trace"}, arg : {""}]

\* The HTTP answers, by status class.
Codes == {"created", "ok", "bad_request", "not_found", "error",
          "unavailable", "not_implemented"}

\* A request in flight: its route, its input, and the cancels answered 200
\* before it was issued.
Ops == {"start", "status", "cancel", "list", "tokens", "trace"}
Args == Keys \cup Ids \cup Filters \cup {"badjson", "invalid", "badformat", "badpage"}
ReqRecs == [op : Ops \cup {"none"}, arg : Args, acked : SUBSET Ids]

\* An answer: the route, the status, the instance id (start, status,
\* cancel), the state reported (status), the ids listed (list), and the
\* cancels answered 200 before the request was issued.
Answers == [op : Ops \cup {"none"}, code : Codes \cup {"none"},
            id : Ids \cup {NoId}, state : InstStates,
            ids : SUBSET Ids, acked : SUBSET Ids]

VARIABLES
    compUp,    \* Core.processComp is set: GetProcessComponent is not nil
    inst,      \* instance id -> state in the instance manager
    tok,       \* instance id -> token slot -> token state
    inflight,  \* the token steps the scheduler is executing
    req,       \* client -> its pending request, or NoReq
    ans,       \* client -> the answer to its last request, or NoAns
    acked      \* history: the ids a cancel was answered 200 for

vars == <<compUp, inst, tok, inflight, req, ans, acked>>

NoReq == [op |-> "none", arg |-> "", acked |-> {}]
NoAns == [op |-> "none", code |-> "none", id |-> NoId, state |-> "NONE",
          ids |-> {}, acked |-> {}]

TypeOK ==
    /\ compUp \in BOOLEAN
    /\ inst \in [Ids -> InstStates]
    /\ tok \in [Ids -> [Slots -> TokStates]]
    /\ inflight \subseteq Ids \X Slots
    /\ req \in [Clients -> ReqRecs]
    /\ ans \in [Clients -> Answers]
    /\ acked \subseteq Ids

Init ==
    /\ compUp \in BOOLEAN
    /\ inst = [i \in Ids |-> "NONE"]
    /\ tok = [i \in Ids |-> [k \in Slots |-> "NONE"]]
    /\ inflight = {}
    /\ req = [c \in Clients |-> NoReq]
    /\ ans = [c \in Clients |-> NoAns]
    /\ acked = {}

-----------------------------------------------------------------------------
(***************************************************************************)
(* Clients.                                                                *)
(***************************************************************************)

\* A client issues a request; it records which cancels had been answered
\* 200 by then.  Starts are issued while an id is left (Ids bounds the
\* instances of a run).
Issue(c) ==
    /\ req[c] = NoReq
    /\ \E r \in Requests :
         /\ r.op = "start" /\ r.arg \in Deployed => \E i \in Ids : inst[i] = "NONE"
         /\ req' = [req EXCEPT ![c] = [op |-> r.op, arg |-> r.arg, acked |-> acked]]
    /\ ans' = [ans EXCEPT ![c] = NoAns]
    /\ UNCHANGED <<compUp, inst, tok, inflight, acked>>

\* The handler answers client c's request and the request is done.
Reply(c, code, id, state, ids) ==
    /\ ans' = [ans EXCEPT ![c] = [op |-> req[c].op, code |-> code, id |-> id,
                                  state |-> state, ids |-> ids,
                                  acked |-> req[c].acked]]
    /\ req' = [req EXCEPT ![c] = NoReq]

\* An answer with no instance in it.
ReplyCode(c, code) == Reply(c, code, NoId, "NONE", {})

-----------------------------------------------------------------------------
(***************************************************************************)
(* The process component as the handlers see it: Core.GetProcessComponent *)
(* and the calls of processComponentAdapter, which delegate to the         *)
(* instance manager and convert its records field by field.                *)
(***************************************************************************)

\* GetProcessComponent returns nil while the core has no process component.
ProcessComponentNil == ~compUp

\* Mutant: processComponentRESTAdapter's StartProcessInstance, which
\* answers "mock-instance-id" for any key and creates nothing.
StartProcessInstanceMock(c, key) ==
    /\ Reply(c, "created", "mock-instance-id", "ACTIVE", {})
    /\ UNCHANGED <<inst, tok>>

\* process.Component.StartProcessInstance (spec 4.1, 6): PROCESS_NOT_FOUND
\* (i = NoId) for a key with no deployed definition; otherwise the fresh id
\* i becomes an ACTIVE instance with one ACTIVE token.
ComponentStart(key, i) ==
    \/ /\ key \notin Deployed /\ i = NoId
       /\ UNCHANGED <<inst, tok>>
    \/ /\ key \in Deployed /\ i \in Ids /\ inst[i] = "NONE"
       /\ inst' = [inst EXCEPT ![i] = "ACTIVE"]
       /\ tok' = [tok EXCEPT ![i] = [k \in Slots |-> IF k = 1 THEN "ACTIVE" ELSE "NONE"]]

\* StartProcessInstance returns the component's error, which the handler
\* converts, or copies the instance's InstanceID and State into the result
\* that the handler answers 201 with.
StartProcessInstance(c, key) ==
    \E i \in Ids \cup {NoId} :
        /\ ComponentStart(key, i)
        /\ IF i = NoId THEN ReplyCode(c, "error") ELSE Reply(c, "created", i, inst'[i], {})

\* GetProcessInstanceStatus: NOT_FOUND for an id the manager does not
\* know, which the handler maps to ProcessNotFoundError (404); otherwise
\* 200 with the instance's state.
GetProcessInstanceStatus(c, id) ==
    \/ /\ inst[id] = "NONE"
       /\ Reply(c, "not_found", id, "NONE", {})
    \/ /\ inst[id] # "NONE"
       /\ Reply(c, "ok", id, inst[id], {})

\* The instance manager's cancel of an instance: the live tokens are
\* cancelled and the instance is CANCELLED.
CancelInstance(i) ==
    /\ inst' = [inst EXCEPT ![i] = "CANCELLED"]
    /\ tok' = [tok EXCEPT ![i] = [k \in Slots |->
                 IF tok[i][k] \in Live THEN "CANCELLED" ELSE tok[i][k]]]

\* Mutant: processComponentRESTAdapter's CancelProcessInstance, which
\* returns nil without calling the component.
CancelProcessInstanceMock(c, id) ==
    /\ Reply(c, "ok", id, "NONE", {})
    /\ acked' = acked \cup {id}
    /\ UNCHANGED <<inst, tok>>

\* process.Component.CancelProcessInstance: NOT_FOUND for an unknown id; an
\* ACTIVE instance is cancelled and nil returned.  Spec 8 asks a second
\* cancel to change nothing; whether it then returns an error or nil is not
\* specified, so a cancel of an ended instance does either.
ComponentCancel(id, err) ==
    \/ /\ inst[id] = "NONE" /\ err = "not_found"
       /\ UNCHANGED <<inst, tok>>
    \/ /\ inst[id] = "ACTIVE" /\ err = "nil"
       /\ CancelInstance(id)
    \/ /\ inst[id] \notin {"NONE", "ACTIVE"} /\ err \in {"error", "nil"}
       /\ UNCHANGED <<inst, tok>>

\* The adapter returns the component's error; CancelProcess maps NOT_FOUND
\* to ProcessNotFoundError (404), converts any other error, and answers 200
\* on nil.
CancelProcessInstance(c, id) ==
    \E err \in {"not_found", "error", "nil"} :
        /\ ComponentCancel(id, err)
        /\ Reply(c, IF err = "nil" THEN "ok" ELSE err, id, "NONE", {})
        /\ acked' = IF err = "nil" THEN acked \cup {id} ELSE acked

\* ListProcessInstances: the instances in the state the filter names, or
\* all of them for no filter.  Which state a lower-case filter selects is
\* the instance manager's business; it is taken to be the same name in
\* upper case.
ListProcessInstances(f) ==
    {i \in Ids : inst[i] # "NONE" /\ (f = "" \/ inst[i] = StateOfFilter[f])}

-----------------------------------------------------------------------------
(***************************************************************************)
(* REST handlers.  Each runs from its first check to its answer in one     *)
(* step, with its one call of the process component.                       *)
(***************************************************************************)

\* StartProcess: a body that does not bind or fails Validate is answered
\* 400, a nil component 500; otherwise StartProcessInstance.
StartProcess(c) ==
    /\ req[c].op = "start"
    /\ LET key == req[c].arg IN
       \/ /\ key \in {"badjson", "invalid"}
          /\ ReplyCode(c, "bad_request")
          /\ UNCHANGED <<inst, tok>>
       \/ /\ key \in Keys /\ ProcessComponentNil
          /\ ReplyCode(c, "unavailable")
          /\ UNCHANGED <<inst, tok>>
       \/ /\ key \in Keys /\ ~ProcessComponentNil
          /\ StartProcessInstance(c, key)
    /\ UNCHANGED <<compUp, inflight, acked>>

\* ListProcesses: a page or limit ParseAndValidate rejects is answered 400,
\* as is a status filter outside active, completed, cancelled; a nil
\* component 500; otherwise 200 with what ListProcessInstances returns.
ListProcesses(c) ==
    /\ req[c].op = "list"
    /\ LET f == req[c].arg IN
       \/ /\ f = "badpage" \/ f \in Filters \ ({""} \cup ValidStatuses)
          /\ ReplyCode(c, "bad_request")
       \/ /\ f \in {""} \cup ValidStatuses /\ ProcessComponentNil
          /\ ReplyCode(c, "unavailable")
       \/ /\ f \in {""} \cup ValidStatuses /\ ~ProcessComponentNil
          /\ Reply(c, "ok", NoId, "NONE", ListProcessInstances(f))
    /\ UNCHANGED <<compUp, inst, tok, inflight, acked>>

\* GetProcessStatus: an empty or malformed id is answered 400, a nil
\* component 500; otherwise GetProcessInstanceStatus.
GetProcessStatus(c) ==
    /\ req[c].op = "status"
    /\ LET id == req[c].arg IN
       \/ /\ id \in {"", "badformat"}
          /\ ReplyCode(c, "bad_request")
       \/ /\ id \in Ids /\ ProcessComponentNil
          /\ ReplyCode(c, "unavailable")
       \/ /\ id \in Ids /\ ~ProcessComponentNil
          /\ GetProcessInstanceStatus(c, id)
    /\ UNCHANGED <<compUp, inst, tok, inflight, acked>>

\* CancelProcess: an empty id is answered 400 (a body that does not bind is
\* only logged), a nil component 500; otherwise CancelProcessInstance.
CancelProcess(c) ==
    /\ req[c].op = "cancel"
    /\ LET id == req[c].arg IN
       \/ /\ id = ""
          /\ ReplyCode(c, "bad_request")
          /\ UNCHANGED <<inst, tok, acked>>
       \/ /\ id \in Ids /\ ProcessComponentNil
          /\ ReplyCode(c, "unavailable")
          /\ UNCHANGED <<inst, tok, acked>>
       \/ /\ id \in Ids /\ ~ProcessComponentNil
          /\ CancelProcessInstance(c, id)
    /\ UNCHANGED <<compUp, inflight>>

\* GetProcessTokens and GetTokenTrace answer 501.
NotImplemented(c) ==
    /\ req[c].op \in {"tokens", "trace"}
    /\ ReplyCode(c, "not_implemented")
    /\ UNCHANGED <<compUp, inst, tok, inflight, acked>>

-----------------------------------------------------------------------------
(***************************************************************************)
(* The scheduler (spec 4.1, 4.7, 4.9).                                     *)
(***************************************************************************)

\* The scheduler takes up an ACTIVE token of an instance for one step.
StepBegin(i, k) ==
    /\ tok[i][k] = "ACTIVE"
    /\ <<i, k>> \notin inflight
    /\ inflight' = inflight \cup {<<i, k>>}
    /\ UNCHANGED <<compUp, inst, tok, req, ans, acked>>

\* The step of a token of a cancelled instance ends: its result is
\* discarded and the token stays CANCELLED.
StepDiscarded(i, k) ==
    /\ <<i, k>> \in inflight
    /\ inst[i] = "CANCELLED"
    /\ inflight' = inflight \ {<<i, k>>}
    /\ UNCHANGED <<compUp, inst, tok, req, ans, acked>>

\* Complete check: with no ACTIVE or WAITING token left the instance is
\* COMPLETED.
CompleteCheck(i, t) ==
    IF \A j \in Slots : t[j] \notin Live THEN "COMPLETED" ELSE inst[i]

\* The step ends: the token advances and is run again, suspends on a wait,
\* splits into a free slot, or completes (then the completion check).
StepEnd(i, k) ==
    /\ <<i, k>> \in inflight
    /\ inst[i] # "CANCELLED"
    /\ inflight' = inflight \ {<<i, k>>}
    /\ \/ UNCHANGED <<inst, tok>>
       \/ /\ tok' = [tok EXCEPT ![i][k] = "WAITING"]
          /\ UNCHANGED inst
       \/ \E j \in Slots :
            /\ tok[i][j] = "NONE"
            /\ tok' = [tok EXCEPT ![i][j] = "ACTIVE"]
            /\ UNCHANGED inst
       \/ LET t == [tok[i] EXCEPT ![k] = "COMPLETED"] IN
            /\ tok' = [tok EXCEPT ![i] = t]
            /\ inst' = [inst EXCEPT ![i] = CompleteCheck(i, t)]
    /\ UNCHANGED <<compUp, req, ans, acked>>

\* A callback resumes a WAITING token of an ACTIVE instance.
Resume(i, k) ==
    /\ tok[i][k] = "WAITING"
    /\ inst[i] = "ACTIVE"
    /\ tok' = [tok EXCEPT ![i][k] = "ACTIVE"]
    /\ UNCHANGED <<compUp, inst, inflight, req, ans, acked>>

Next ==
    \/ \E c \in Clients :
         \/ Issue(c) \/ StartProcess(c) \/ ListProcesses(c)
         \/ GetProcessStatus(c) \/ CancelProcess(c) \/ NotImplemented(c)
    \/ \E i \in Ids, k \in Slots :
         StepBegin(i, k) \/ StepDiscarded(i, k) \/ StepEnd(i, k) \/ Resume(i, k)

Spec == Init /\ [][Next]_vars

-----------------------------------------------------------------------------
(***************************************************************************)
(* Properties.                                                             *)
(***************************************************************************)

\* Read your cancel: a status request issued after a cancel of the instance
\* was answered 200 never reports it ACTIVE.  It takes the cancel handler
\* and a later status handler, possibly of another client, to break: a 200
\* to a cancel that did not cancel (the REST adapter's mock, or an ignored
\* error of CancelProcessInstance) is followed by a status read.
ReadYourCancel ==
    \A c \in Clients :
        ans[c].op = "status" /\ ans[c].code = "ok"
            /\ ans[c].id \in ans[c].acked
        => ans[c].state # "ACTIVE"

=============================================================================
