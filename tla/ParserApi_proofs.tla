-------------------------- MODULE ParserApi_proofs --------------------------
(***************************************************************************)
(* Proofs about the BPMN REST API and the parser response channel, for     *)
(* every number of handlers, process ids, requests and channel sizes.      *)
(*                                                                         *)
(* ResponsesAccounted is inductive together with TypeOK: each step moves a *)
(* request from a handler to the parser's queue, from the queue to the     *)
(* channel, or from the channel to a handler, or turns a waiting handler   *)
(* into a timeout, and keeps both sides of the equation equal.             *)
(***************************************************************************)
EXTENDS ParserApi, FiniteSetTheorems, SequenceTheorems, TLAPS

USE ParserApiAssumption

AccountInv == TypeOK /\ ResponsesAccounted

\* The waiting handlers form a finite set, now and in the next state.
LEMMA WaitingFinite ==
    /\ IsFiniteSet(Waiting) /\ Cardinality(Waiting) \in Nat
    /\ IsFiniteSet(Waiting') /\ Cardinality(Waiting') \in Nat
<1>1. Waiting \subseteq Clients /\ Waiting' \subseteq Clients
  BY DEF Waiting
<1> QED  BY <1>1, FS_Subset, FS_CardinalityType

\* A step that leaves the handlers' program counters, the queue, the channel
\* and the timeouts alone keeps the account.
LEMMA AccountUnchanged ==
    ASSUME ResponsesAccounted, UNCHANGED <<cpc, reqQ, chan, timeouts>>
    PROVE  ResponsesAccounted'
<1>1. Waiting' = Waiting
  BY DEF Waiting
<1> QED  BY <1>1 DEF ResponsesAccounted

-----------------------------------------------------------------------------
\* Initially nothing is queued, answered, waited for or timed out.
THEOREM AccountInit == Init => AccountInv
<1> SUFFICES ASSUME Init PROVE AccountInv
  OBVIOUS
<1>1. TypeOK
  BY DEF Init, TypeOK, Statuses, Ops
<1>2. Waiting = {}
  BY DEF Init, Waiting
<1>3. Cardinality(Waiting) = 0
  BY <1>2, FS_EmptySet
<1>4. ResponsesAccounted
  BY <1>3 DEF Init, ResponsesAccounted
<1> QED  BY <1>1, <1>4 DEF AccountInv

\* A handler that starts a request either answers at once or queues the
\* request and waits: the queue and the waiting handlers grow together.
LEMMA BeginPreserves ==
    ASSUME AccountInv, NEW c \in Clients, NEW op \in Ops \cup {"none"},
           NEW form \in ProcIds \cup {NoKey}, NEW s \in Statuses, NEW r \in Request,
           Begin(c, op, form), Answer(c, s) \/ SendParserRequest(c, r)
    PROVE  AccountInv'
<1>1. TypeOK /\ ResponsesAccounted
  BY DEF AccountInv
<1>2. cpc[c] = "idle" /\ reqs[c] < MaxRequests
      /\ reqs' = [reqs EXCEPT ![c] = @ + 1] /\ cop' = [cop EXCEPT ![c] = op]
      /\ cform' = [cform EXCEPT ![c] = form]
  BY DEF Begin
<1>3. CASE Answer(c, s)
  <2>1. TypeOK'
    BY <1>1, <1>2, <1>3 DEF Answer, TypeOK
  <2>2. ResponsesAccounted'
    BY <1>1, <1>3, AccountUnchanged DEF Answer
  <2> QED  BY <2>1, <2>2 DEF AccountInv
<1>4. CASE /\ reqQ' = Append(reqQ, r)
           /\ cpc' = [cpc EXCEPT ![c] = "waiting"]
           /\ UNCHANGED <<cstatus, creported, chan, stored, timeouts>>
  <2>1. TypeOK'
    BY <1>1, <1>2, <1>4 DEF TypeOK
  <2>2. Waiting' = Waiting \cup {c} /\ c \notin Waiting
    <3>1. c \notin Waiting
      BY <1>2 DEF Waiting
    <3>2. \A x \in Clients : cpc'[x] = IF x = c THEN "waiting" ELSE cpc[x]
      BY <1>1, <1>4 DEF TypeOK
    <3>3. Waiting' = Waiting \cup {c}
      BY <3>2 DEF Waiting
    <3> QED  BY <3>1, <3>3
  <2>3. Cardinality(Waiting') = Cardinality(Waiting) + 1
    BY <2>2, WaitingFinite, FS_AddElement
  <2>4. Len(reqQ') = Len(reqQ) + 1
    BY <1>1, <1>4 DEF TypeOK
  <2>5. Len(reqQ) \in Nat /\ Len(chan) \in Nat /\ timeouts \in Nat
    BY <1>1 DEF TypeOK
  <2>6. ResponsesAccounted'
    <3>1. Len(reqQ) + Len(chan) = Cardinality(Waiting) + timeouts
      BY <1>1 DEF ResponsesAccounted
    <3>2. chan' = chan /\ timeouts' = timeouts
      BY <1>4
    <3>3. Cardinality(Waiting) \in Nat
      BY WaitingFinite
    <3>4. Len(reqQ') + Len(chan') = Cardinality(Waiting') + timeouts'
      BY <2>3, <2>4, <2>5, <3>1, <3>2, <3>3
    <3> QED  BY <3>4 DEF ResponsesAccounted
  <2> QED  BY <2>1, <2>6 DEF AccountInv
<1>5. CASE Answer(c, "error")
  <2>1. TypeOK'
    BY <1>1, <1>2, <1>5 DEF Answer, TypeOK, Statuses
  <2>2. ResponsesAccounted'
    BY <1>1, <1>5, AccountUnchanged DEF Answer
  <2> QED  BY <2>1, <2>2 DEF AccountInv
<1> QED  BY <1>3, <1>4, <1>5 DEF SendParserRequest

\* A waiting handler that returns to idle leaves the set of waiting
\* handlers.
LEMMA LeaveWaiting ==
    ASSUME TypeOK, NEW c \in Clients, cpc[c] = "waiting",
           cpc' = [cpc EXCEPT ![c] = "idle"]
    PROVE  Cardinality(Waiting') = Cardinality(Waiting) - 1
<1>1. c \in Waiting
  BY DEF Waiting
<1>2. \A x \in Clients : cpc'[x] = IF x = c THEN "idle" ELSE cpc[x]
  BY DEF TypeOK
<1>3. Waiting' = Waiting \ {c}
  BY <1>2 DEF Waiting
<1> QED  BY <1>1, <1>3, WaitingFinite, FS_RemoveElement

\* Each endpoint of the handler starts a request.
LEMMA HandlerPreserves ==
    ASSUME AccountInv, NEW c \in Clients,
           \/ \E pid \in ProcIds, force \in BOOLEAN, form \in {NoKey} \cup ProcIds :
                 ParseBPMN(c, pid, force, form)
           \/ ListProcesses(c) \/ NotImplemented(c)
    PROVE  AccountInv'
<1>1. CASE \E pid \in ProcIds, force \in BOOLEAN, form \in {NoKey} \cup ProcIds :
              ParseBPMN(c, pid, force, form)
  <2>1. PICK pid \in ProcIds, force \in BOOLEAN, form \in {NoKey} \cup ProcIds :
              ParseBPMN(c, pid, force, form)
    BY <1>1
  <2> DEFINE r == [from |-> c, op |-> "parse", pid |-> pid, force |-> force]
  <2>2. r \in Request
    BY DEF Request, Ops
  <2>3. "bad_request" \in Statuses /\ "error" \in Statuses /\ "parse" \in Ops \cup {"none"}
    BY DEF Statuses, Ops
  <2>4. Begin(c, "parse", form)
    BY <2>1 DEF ParseBPMN
  <2>5. \/ Answer(c, "bad_request") \/ SendParserRequest(c, r)
        \/ Answer(c, "error") \/ SendParserRequest(c, r)
    BY <2>1 DEF ParseBPMN
  <2> QED  BY <2>2, <2>3, <2>4, <2>5, BeginPreserves
<1>2. CASE ListProcesses(c)
  <2> DEFINE r == [from |-> c, op |-> "list", pid |-> CHOOSE p \in ProcIds : TRUE,
                   force |-> FALSE]
  <2>1. r \in Request
    BY DEF Request, Ops
  <2>2. "bad_request" \in Statuses /\ "list" \in Ops \cup {"none"}
    BY DEF Statuses, Ops
  <2>3. Begin(c, "list", NoKey) /\ (Answer(c, "bad_request") \/ SendParserRequest(c, r))
    BY <1>2 DEF ListProcesses
  <2> QED  BY <2>1, <2>2, <2>3, BeginPreserves
<1>3. CASE NotImplemented(c)
  <2>1. "not_implemented" \in Statuses /\ "none" \in Ops \cup {"none"}
    BY DEF Statuses
  <2>2. Begin(c, "none", NoKey) /\ Answer(c, "not_implemented")
    BY <1>3 DEF NotImplemented
  <2>3. [from |-> c, op |-> "list", pid |-> CHOOSE p \in ProcIds : TRUE, force |-> FALSE]
          \in Request
    BY DEF Request, Ops
  <2> QED  BY <2>1, <2>2, <2>3, BeginPreserves
<1> QED  BY <1>1, <1>2, <1>3

\* A waiting handler takes the head of the channel: one answer and one
\* waiting handler fewer.
LEMMA WaitForParserResponsePreserves ==
    ASSUME AccountInv, NEW c \in Clients, WaitForParserResponse(c)
    PROVE  AccountInv'
<1>1. TypeOK /\ ResponsesAccounted
  BY DEF AccountInv
<1>2. cpc[c] = "waiting" /\ chan # <<>> /\ chan' = Tail(chan)
      /\ cpc' = [cpc EXCEPT ![c] = "idle"]
      /\ UNCHANGED <<reqQ, timeouts>>
  BY DEF WaitForParserResponse
<1>3. Head(chan) \in Msg /\ Tail(chan) \in Seq(Msg) /\ Len(Tail(chan)) = Len(chan) - 1
  BY <1>1, <1>2, HeadTailProperties DEF TypeOK
<1>4. \A m \in Msg : /\ ParseAnswer(m) \in Statuses
                     /\ \A f \in ProcIds \cup {NoKey} : ReportedKey(m, f) \in ProcIds \cup {NoKey}
  BY DEF ParseAnswer, ReportedKey, Msg, Statuses
<1>5. TypeOK'
  BY <1>1, <1>2, <1>3, <1>4 DEF WaitForParserResponse, TypeOK, Statuses
<1>6. Cardinality(Waiting') = Cardinality(Waiting) - 1
  BY <1>1, <1>2, LeaveWaiting
<1>7. ResponsesAccounted'
  <2>1. Len(reqQ) \in Nat /\ Len(chan) \in Nat /\ timeouts \in Nat
        /\ Cardinality(Waiting) \in Nat
    BY <1>1, WaitingFinite DEF TypeOK
  <2>2. Len(reqQ) + Len(chan) = Cardinality(Waiting) + timeouts
    BY <1>1 DEF ResponsesAccounted
  <2>3. reqQ' = reqQ /\ timeouts' = timeouts /\ Len(chan') = Len(chan) - 1
    BY <1>2, <1>3
  <2>4. Len(reqQ') + Len(chan') = Cardinality(Waiting') + timeouts'
    BY <1>6, <2>1, <2>2, <2>3
  <2> QED  BY <2>4 DEF ResponsesAccounted
<1> QED  BY <1>5, <1>7 DEF AccountInv

\* A timeout turns a waiting handler into a stale answer owed.
LEMMA WaitTimeoutPreserves ==
    ASSUME AccountInv, NEW c \in Clients, WaitTimeout(c)
    PROVE  AccountInv'
<1>1. TypeOK /\ ResponsesAccounted
  BY DEF AccountInv
<1>2. cpc[c] = "waiting" /\ cpc' = [cpc EXCEPT ![c] = "idle"]
      /\ timeouts' = timeouts + 1 /\ UNCHANGED <<reqQ, chan>>
  BY DEF WaitTimeout
<1>3. TypeOK'
  BY <1>1, <1>2 DEF WaitTimeout, TypeOK, Statuses
<1>4. Cardinality(Waiting') = Cardinality(Waiting) - 1
  BY <1>1, <1>2, LeaveWaiting
<1>5. ResponsesAccounted'
  <2>1. Len(reqQ) \in Nat /\ Len(chan) \in Nat /\ timeouts \in Nat
        /\ Cardinality(Waiting) \in Nat
    BY <1>1, WaitingFinite DEF TypeOK
  <2>2. Len(reqQ) + Len(chan) = Cardinality(Waiting) + timeouts
    BY <1>1 DEF ResponsesAccounted
  <2>3. Len(reqQ') + Len(chan') = Cardinality(Waiting') + timeouts'
    BY <1>2, <1>4, <2>1, <2>2
  <2> QED  BY <2>3 DEF ResponsesAccounted
<1> QED  BY <1>3, <1>5 DEF AccountInv

\* The parser moves the oldest request from its queue to one answer on the
\* channel.
LEMMA ParserServePreserves ==
    ASSUME AccountInv, ParserServe
    PROVE  AccountInv'
<1>1. TypeOK /\ ResponsesAccounted
  BY DEF AccountInv
<1> DEFINE r == Head(reqQ)
<1>2. reqQ # <<>> /\ Len(chan) < ChanCap /\ reqQ' = Tail(reqQ)
      /\ UNCHANGED <<cpc, cop, cform, cstatus, creported, reqs, timeouts>>
  BY DEF ParserServe
<1>3. r \in Request /\ Tail(reqQ) \in Seq(Request) /\ Len(Tail(reqQ)) = Len(reqQ) - 1
  BY <1>1, <1>2, HeadTailProperties DEF TypeOK
<1>4. \E m \in Msg : chan' = Append(chan, m) /\ stored' \subseteq ProcIds
  <2>1. CASE r.op = "list" /\ chan' = Append(chan, [to |-> r.from, op |-> "list", ok |-> TRUE,
                                        err |-> "none", key |-> NoKey])
             /\ UNCHANGED stored
    BY <1>1, <1>3, <2>1 DEF Msg, Request, Errs, Ops, TypeOK
  <2>2. CASE /\ chan' = Append(chan, [to |-> r.from, op |-> "parse", ok |-> FALSE,
                                        err |-> "exists", key |-> NoKey])
             /\ UNCHANGED stored
    BY <1>1, <1>3, <2>2 DEF Msg, Request, Errs, Ops, TypeOK
  <2>3. CASE \E valid \in BOOLEAN :
                    /\ chan' = Append(chan, [to |-> r.from, op |-> "parse", ok |-> valid,
                                             err |-> IF valid THEN "none" ELSE "invalid",
                                             key |-> IF valid THEN r.pid ELSE NoKey])
                    /\ stored' = IF valid THEN stored \cup {r.pid} ELSE stored
    BY <1>1, <1>3, <2>3 DEF Msg, Request, Errs, Ops, TypeOK
  <2> QED  BY <2>1, <2>2, <2>3 DEF ParserServe
<1>5. PICK m \in Msg : chan' = Append(chan, m) /\ stored' \subseteq ProcIds
  BY <1>4
<1>6. chan' \in Seq(Msg) /\ Len(chan') = Len(chan) + 1
  BY <1>1, <1>5 DEF TypeOK
<1>7. TypeOK'
  BY <1>1, <1>2, <1>3, <1>5, <1>6 DEF TypeOK
<1>8. ResponsesAccounted'
  <2>1. Waiting' = Waiting
    BY <1>2 DEF Waiting
  <2>2. Len(reqQ) \in Nat /\ Len(chan) \in Nat /\ timeouts \in Nat
        /\ Cardinality(Waiting) \in Nat
    BY <1>1, WaitingFinite DEF TypeOK
  <2>3. Len(reqQ) + Len(chan) = Cardinality(Waiting) + timeouts
    BY <1>1 DEF ResponsesAccounted
  <2>4. Len(reqQ') = Len(reqQ) - 1 /\ timeouts' = timeouts
    BY <1>2, <1>3
  <2>5. Len(reqQ') + Len(chan') = Cardinality(Waiting') + timeouts'
    BY <1>6, <2>1, <2>2, <2>3, <2>4
  <2> QED  BY <2>5 DEF ResponsesAccounted
<1> QED  BY <1>7, <1>8 DEF AccountInv

\* Every step keeps the account.
THEOREM AccountNext == AccountInv /\ [Next]_vars => AccountInv'
<1> SUFFICES ASSUME AccountInv, [Next]_vars PROVE AccountInv'
  OBVIOUS
<1>1. CASE \E c \in Clients :
          \/ \E pid \in ProcIds, force \in BOOLEAN, form \in {NoKey} \cup ProcIds :
                ParseBPMN(c, pid, force, form)
          \/ ListProcesses(c) \/ NotImplemented(c)
  BY <1>1, HandlerPreserves
<1>2. CASE \E c \in Clients : WaitForParserResponse(c)
  BY <1>2, WaitForParserResponsePreserves
<1>3. CASE \E c \in Clients : WaitTimeout(c)
  BY <1>3, WaitTimeoutPreserves
<1>4. CASE ParserServe
  BY <1>4, ParserServePreserves
<1>5. CASE Done \/ UNCHANGED vars
  <2>1. UNCHANGED vars
    BY <1>5 DEF Done
  <2>2. TypeOK'
    BY <2>1 DEF AccountInv, TypeOK, vars
  <2>3. ResponsesAccounted'
    BY <2>1, AccountUnchanged DEF AccountInv, vars
  <2> QED  BY <2>2, <2>3 DEF AccountInv
<1> QED  BY <1>1, <1>2, <1>3, <1>4, <1>5 DEF Next

\* The REST handlers and the parser channel are well typed in every
\* reachable state.
THEOREM ParserApiTypeCorrect == Spec => []TypeOK
<1>1. AccountInv => TypeOK
  BY DEF AccountInv
<1> QED  BY <1>1, AccountInit, AccountNext, PTL DEF Spec

\* Whatever the number of handlers, requests and channel size, and however
\* requests, answers and timeouts of WaitForParserResponse interleave, the
\* requests queued for the parser and the answers in its channel are
\* exactly one per waiting handler plus one per timeout.
THEOREM ResponsesAccountedHolds == Spec => []ResponsesAccounted
<1>1. AccountInv => ResponsesAccounted
  BY DEF AccountInv
<1> QED  BY <1>1, AccountInit, AccountNext, PTL DEF Spec

=============================================================================
