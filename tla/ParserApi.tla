------------------------------ MODULE ParserApi ------------------------------
(***************************************************************************)
(* The BPMN REST API (ParserHandler, part_001) and the parser response     *)
(* channel.                                                                *)
(*                                                                         *)
(* ParseBPMN and ListProcesses send their request to the parser component  *)
(* (SendMessage("parser", ...)) and block in WaitForParserResponse(30000)  *)
(* for the next message of the parser's response channel.  Nothing ties a  *)
(* response to its request: concurrent handlers take each other's answers, *)
(* and the answer to a request whose handler timed out is left for the     *)
(* next handler.  The parser component is an external edge (spec, scope): *)
(* it answers requests in order, a parse either storing the file's process *)
(* or failing.                                                             *)
(***************************************************************************)
EXTENDS Naturals, Sequences, FiniteSets

CONSTANTS
    Clients,      \* concurrent REST handler goroutines (one request at a time each)
    ProcIds,      \* process ids that BPMN files define
    MaxRequests,  \* bound on the requests each client sends
    ChanCap,      \* buffer of the parser response channel
    NoKey         \* model value: no process id (form field or response field absent)

ASSUME ParserApiAssumption ==
    /\ IsFiniteSet(Clients)
    /\ MaxRequests \in Nat /\ ChanCap \in Nat \ {0}
    /\ ProcIds # {} /\ NoKey \notin ProcIds

\* The operations that reach the parser component.
Ops == {"parse", "list"}

\* The answers a handler gives: 201, 200, 400, 409, the BPMN validation and
\* parse errors, 500, 501.
Statuses == {"none", "created", "ok", "bad_request", "conflict", "invalid",
             "parse_error", "error", "not_implemented"}

\* What the parser reports in "error" when "success" is false.
Errs == {"none", "exists", "invalid"}

\* A request to the parser: the process the file defines and the force flag.
Request == [from : Clients, op : Ops, pid : ProcIds, force : BOOLEAN]

\* A message on the parser response channel: the answer to request n of
\* client `to`, with "success", "error" and "process_key".
Msg == [to : Clients, op : Ops, ok : BOOLEAN, err : Errs, key : ProcIds \cup {NoKey}]

VARIABLES
    cpc,        \* REST handler: "idle" or "waiting" in WaitForParserResponse
    cop,        \* the operation of the handler's current request
    cform,      \* the process_id form value of its current parse, or NoKey
    cstatus,    \* the answer the handler gave to its last request
    creported,  \* the process id a 201 answer reported
    reqs,       \* requests the client has made
    reqQ,       \* requests sent to the parser, in order
    chan,       \* the parser response channel
    stored,     \* process ids in the parser's storage
    timeouts    \* history: waits that ended in the 30 s timeout

vars == <<cpc, cop, cform, cstatus, creported, reqs, reqQ, chan, stored, timeouts>>

TypeOK ==
    /\ cpc \in [Clients -> {"idle", "waiting"}]
    /\ cop \in [Clients -> Ops \cup {"none"}]
    /\ cform \in [Clients -> ProcIds \cup {NoKey}]
    /\ cstatus \in [Clients -> Statuses]
    /\ creported \in [Clients -> ProcIds \cup {NoKey}]
    /\ reqs \in [Clients -> 0..MaxRequests]
    /\ reqQ \in Seq(Request)
    /\ chan \in Seq(Msg) /\ Len(chan) <= ChanCap
    /\ stored \subseteq ProcIds
    /\ timeouts \in Nat

Init ==
    /\ cpc = [c \in Clients |-> "idle"]
    /\ cop = [c \in Clients |-> "none"]
    /\ cform = [c \in Clients |-> NoKey]
    /\ cstatus = [c \in Clients |-> "none"]
    /\ creported = [c \in Clients |-> NoKey]
    /\ reqs = [c \in Clients |-> 0]
    /\ reqQ = <<>>
    /\ chan = <<>>
    /\ stored = {}
    /\ timeouts = 0

-----------------------------------------------------------------------------
(***************************************************************************)
(* The REST handlers.                                                      *)
(***************************************************************************)

\* Handler c answers at once with status s.
Answer(c, s) ==
    /\ cstatus' = [cstatus EXCEPT ![c] = s]
    /\ creported' = [creported EXCEPT ![c] = NoKey]
    /\ UNCHANGED <<cpc, reqQ, chan, stored, timeouts>>

\* Mutant: a failed SendMessage is not answered and the handler waits.
SendParserRequestLost(c, r) ==
    /\ cpc' = [cpc EXCEPT ![c] = "waiting"]
    /\ UNCHANGED <<cstatus, creported, reqQ, chan, stored, timeouts>>

\* SendMessage("parser", ...) queues the request, and the handler waits; a
\* send error is answered 500.
SendParserRequest(c, r) ==
    \/ /\ reqQ' = Append(reqQ, r)
       /\ cpc' = [cpc EXCEPT ![c] = "waiting"]
       /\ UNCHANGED <<cstatus, creported, chan, stored, timeouts>>
    \/ Answer(c, "error")

\* A new request of an idle handler.
Begin(c, op, form) ==
    /\ cpc[c] = "idle" /\ reqs[c] < MaxRequests
    /\ reqs' = [reqs EXCEPT ![c] = @ + 1]
    /\ cop' = [cop EXCEPT ![c] = op]
    /\ cform' = [cform EXCEPT ![c] = form]

\* POST /bpmn/parse: a bad multipart form, a missing file or a file that is
\* not .bpmn/.xml is answered 400; a read or marshal error 500; otherwise
\* the file of process pid is sent with the force flag.  The process_id form
\* field is optional.
ParseBPMN(c, pid, force, form) ==
    /\ Begin(c, "parse", form)
    /\ \/ Answer(c, "bad_request")
       \/ Answer(c, "error")
       \/ SendParserRequest(c, [from |-> c, op |-> "parse", pid |-> pid, force |-> force])

\* GET /bpmn/processes: invalid pagination is answered 400.
ListProcesses(c) ==
    /\ Begin(c, "list", NoKey)
    /\ \/ Answer(c, "bad_request")
       \/ SendParserRequest(c, [from |-> c, op |-> "list", pid |-> CHOOSE p \in ProcIds : TRUE,
                               force |-> FALSE])

\* GET /processes/:key, DELETE /processes/:id, GET /processes/:key/json,
\* GET /stats: 501.
NotImplemented(c) ==
    /\ Begin(c, "none", NoKey)
    /\ Answer(c, "not_implemented")

\* ParseBPMN's answer to a response: a failure is 409 when the error says
\* "already exists", a validation error when it says "invalid", a parse
\* error otherwise; a success is 201.
ParseAnswer(m) ==
    IF m.ok THEN "created"
    ELSE CASE m.err = "exists"  -> "conflict"
           [] m.err = "invalid" -> "invalid"
           [] OTHER             -> "parse_error"

\* The process id a 201 reports: process_key, or the form's process_id when
\* the response has none.
ReportedKey(m, form) == IF m.key # NoKey THEN m.key ELSE form

\* WaitForParserResponse returns the next message of the channel, whatever
\* request it answers.  ParseBPMN answers from it; ListProcesses answers 200
\* (parseProcessList returns an empty list, extractTotalCount reads
\* total_count).
WaitForParserResponse(c) ==
    /\ cpc[c] = "waiting" /\ chan # <<>>
    /\ LET m == Head(chan)
           parse == cop[c] = "parse"
       IN /\ chan' = Tail(chan)
          /\ cpc' = [cpc EXCEPT ![c] = "idle"]
          /\ cstatus' = [cstatus EXCEPT ![c] = IF parse THEN ParseAnswer(m) ELSE "ok"]
          /\ creported' = [creported EXCEPT ![c] =
                              IF parse /\ m.ok THEN ReportedKey(m, cform[c]) ELSE NoKey]
    /\ UNCHANGED <<cop, cform, reqs, reqQ, stored, timeouts>>

\* After 30 s the wait fails and the handler answers 500; its request stays
\* with the parser.
WaitTimeout(c) ==
    /\ cpc[c] = "waiting"
    /\ cpc' = [cpc EXCEPT ![c] = "idle"]
    /\ cstatus' = [cstatus EXCEPT ![c] = "error"]
    /\ creported' = [creported EXCEPT ![c] = NoKey]
    /\ timeouts' = timeouts + 1
    /\ UNCHANGED <<cop, cform, reqs, reqQ, chan, stored>>

-----------------------------------------------------------------------------
(***************************************************************************)
(* The parser component (external edge).                                   *)
(***************************************************************************)

\* The parser serves the oldest request and writes one answer: a parse of a
\* stored process without force fails with "already exists"; otherwise the
\* file is valid and its process is stored, or it is invalid; a list
\* succeeds.
ParserServe ==
    /\ reqQ # <<>> /\ Len(chan) < ChanCap
    /\ LET r == Head(reqQ) IN
         /\ reqQ' = Tail(reqQ)
         /\ \/ /\ r.op = "list"
               /\ chan' = Append(chan, [to |-> r.from, op |-> "list", ok |-> TRUE,
                                        err |-> "none", key |-> NoKey])
               /\ UNCHANGED stored
            \/ /\ r.op = "parse" /\ r.pid \in stored /\ ~r.force
               /\ chan' = Append(chan, [to |-> r.from, op |-> "parse", ok |-> FALSE,
                                        err |-> "exists", key |-> NoKey])
               /\ UNCHANGED stored
            \/ /\ r.op = "parse" /\ (r.pid \notin stored \/ r.force)
               /\ \E valid \in BOOLEAN :
                    /\ chan' = Append(chan, [to |-> r.from, op |-> "parse", ok |-> valid,
                                             err |-> IF valid THEN "none" ELSE "invalid",
                                             key |-> IF valid THEN r.pid ELSE NoKey])
                    /\ stored' = IF valid THEN stored \cup {r.pid} ELSE stored
    /\ UNCHANGED <<cpc, cop, cform, cstatus, creported, reqs, timeouts>>

\* Every client has made its requests and has its answer: what the parser
\* still owes to handlers that timed out stays with it.
Done ==
    /\ \A c \in Clients : cpc[c] = "idle" /\ reqs[c] = MaxRequests
    /\ UNCHANGED vars

Next ==
    \/ \E c \in Clients :
          \/ \E pid \in ProcIds, force \in BOOLEAN, form \in {NoKey} \cup ProcIds :
                ParseBPMN(c, pid, force, form)
          \/ ListProcesses(c) \/ NotImplemented(c)
          \/ WaitForParserResponse(c) \/ WaitTimeout(c)
    \/ ParserServe
    \/ Done

Spec == Init /\ [][Next]_vars

-----------------------------------------------------------------------------
(***************************************************************************)
(* Properties.                                                             *)
(***************************************************************************)

\* The handlers that wait in WaitForParserResponse.
Waiting == {c \in Clients : cpc[c] = "waiting"}

\* Every request queued for the parser or answered on the channel is owed
\* to a handler that still waits or to one that gave up after 30 s: no
\* handler waits for an answer that will never be written, and the stale
\* answers left in the channel are exactly as many as the timeouts.
ResponsesAccounted == Len(reqQ) + Len(chan) = Cardinality(Waiting) + timeouts

\* A ParseBPMN answered 201 reports a process that the parser has stored,
\* as the answer "BPMN process parsed successfully" says.
CreatedIsStored ==
    \A c \in Clients : cstatus[c] = "created" => creported[c] \in stored

=============================================================================
