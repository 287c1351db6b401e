---------------------------- MODULE JobsApi_proofs ----------------------------
(***************************************************************************)
(* Type correctness of the jobs REST API and its shared response channel,  *)
(* for every number of handlers, job keys, requests and every channel      *)
(* buffer.                                                                 *)
(*                                                                         *)
(* TypeOK is not inductive as it stands: processJobsResponses adds the key *)
(* of every message that isJobCallback accepts to the forwarded job keys,  *)
(* and an API response's key may be NoKey.  The invariant needs to know    *)
(* the shape of the messages in the channel: an API response carries the   *)
(* "_response" marker, so isJobCallback rejects it, and a callback names a *)
(* job key.                                                                *)
(***************************************************************************)
EXTENDS JobsApi, SequenceTheorems, TLAPS

USE JobsApiAssumption

\* The shape of the messages in the channel.
ChanShape ==
    \A p \in 1..Len(chan) :
        /\ chan[p].type = "api" => "_response" \in chan[p].text
        /\ chan[p].type = "callback" => chan[p].key \in JobKeys

JobsInv == TypeOK /\ ChanShape

\* The initial state satisfies it.
THEOREM JobsInvInit == Init => JobsInv
<1> SUFFICES ASSUME Init PROVE JobsInv
  OBVIOUS
<1>1. /\ <<>> \in Seq(Msg) /\ Len(<<>>) = 0
      /\ <<>> \in Seq([from : Clients, op : Ops, n : 1..MaxRequests])
  BY EmptySeq
<1>2. TypeOK
  BY <1>1 DEF Init, TypeOK, Statuses, Ops, JobStates
<1>3. ChanShape
  BY <1>1 DEF Init, ChanShape
<1> QED  BY <1>2, <1>3 DEF JobsInv

\* A handler that answers at once keeps the types.
LEMMA AnswerTyped ==
    ASSUME TypeOK, NEW c \in Clients, NEW st \in Statuses, Answer(c, st),
           cpc' \in [Clients -> {"idle", "waiting"}], cop' \in [Clients -> Ops \cup {"none"}],
           reqs' \in [Clients -> 0..MaxRequests]
    PROVE  TypeOK'
BY DEF Answer, TypeOK

\* The head of a handler: the request is counted, then answered 400,
\* answered with a send error, or queued for the jobs component.
LEMMA BeginTyped ==
    ASSUME TypeOK, NEW c \in Clients, NEW op \in Ops, Begin(c, op)
    PROVE  TypeOK'
<1>1. reqs' \in [Clients -> 0..MaxRequests] /\ reqs'[c] \in 1..MaxRequests
  BY DEF Begin, TypeOK
<1>2. cop' \in [Clients -> Ops \cup {"none"}]
  BY DEF Begin, TypeOK
<1>3. CASE (Answer(c, "bad_request") \/ Answer(c, "error")) /\ UNCHANGED cpc
  BY <1>1, <1>2, <1>3, AnswerTyped DEF Statuses, TypeOK
<1>4. CASE /\ reqQ' = Append(reqQ, [from |-> c, op |-> op, n |-> reqs'[c]])
           /\ cpc' = [cpc EXCEPT ![c] = "waiting"]
           /\ UNCHANGED <<cstatus, cgot, chan, job, forwarded, swallowed>>
  <2>1. [from |-> c, op |-> op, n |-> reqs'[c]] \in [from : Clients, op : Ops, n : 1..MaxRequests]
    BY <1>1
  <2>2. reqQ' \in Seq([from : Clients, op : Ops, n : 1..MaxRequests])
    BY <1>4, <2>1, AppendProperties DEF TypeOK
  <2> QED  BY <1>1, <1>2, <1>4, <2>2 DEF TypeOK
<1> QED  BY <1>3, <1>4 DEF Begin, SendJobsRequest

\* The handler's answer to a message is one of the statuses.
LEMMA HandlerAnswerType ==
    ASSUME NEW op, NEW m
    PROVE  HandlerAnswer(op, m) \in Statuses
BY DEF HandlerAnswer, CreateJobAnswer, ActivateJobsAnswer, ListJobsAnswer,
       GetJobAnswer, Statuses


\* A step that leaves the channel alone keeps its shape.
LEMMA ChannelUntouched ==
    ASSUME JobsInv, TypeOK', UNCHANGED chan
    PROVE  JobsInv'
BY DEF JobsInv, ChanShape

(***************************************************************************)
(* The REST handlers.                                                      *)
(***************************************************************************)

\* The head of a handler, the 501 endpoints and the timeout.
LEMMA HandlerPreserves ==
    ASSUME JobsInv, NEW c \in Clients,
           \/ \E op \in Ops : Begin(c, op)
           \/ NotImplemented(c) \/ WaitTimeout(c)
    PROVE  JobsInv'
<1>0. TypeOK
  BY DEF JobsInv
<1>1. CASE \E op \in Ops : Begin(c, op)
  <2>1. PICK op \in Ops : Begin(c, op)
    BY <1>1
  <2>2. TypeOK'
    BY <1>0, <2>1, BeginTyped
  <2>3. UNCHANGED chan
    BY <2>1 DEF Begin, SendJobsRequest, Answer
  <2> QED  BY <2>2, <2>3, ChannelUntouched
<1>2. CASE NotImplemented(c)
  <2>0. /\ reqs' \in [Clients -> 0..MaxRequests]
        /\ cop' \in [Clients -> Ops \cup {"none"}]
        /\ cpc' \in [Clients -> {"idle", "waiting"}]
    BY <1>0, <1>2 DEF NotImplemented, TypeOK
  <2>1. TypeOK'
    BY <1>0, <1>2, <2>0, AnswerTyped DEF NotImplemented, Statuses
  <2> QED  BY <1>2, <2>1, ChannelUntouched DEF NotImplemented, Answer
<1>3. CASE WaitTimeout(c)
  <2>1. TypeOK'
    BY <1>0, <1>3, AnswerTyped DEF WaitTimeout, TypeOK, Statuses
  <2> QED  BY <1>3, <2>1, ChannelUntouched DEF WaitTimeout, Answer
<1> QED  BY <1>1, <1>2, <1>3

(***************************************************************************)
(* A reader takes the head of the channel.                                 *)
(***************************************************************************)

\* The head is a message of the channel's shape, and the tail is a channel.
LEMMA HeadFacts ==
    ASSUME JobsInv, chan # <<>>
    PROVE  /\ Head(chan) \in Msg
           /\ Tail(chan) \in Seq(Msg) /\ Len(Tail(chan)) <= ChanCap
           /\ Head(chan).type = "api" => "_response" \in Head(chan).text
           /\ Head(chan).type = "callback" => Head(chan).key \in JobKeys
<1>1. chan \in Seq(Msg) /\ Len(chan) <= ChanCap
  BY DEF JobsInv, TypeOK
<1>2. Head(chan) \in Msg /\ Tail(chan) \in Seq(Msg) /\ Len(Tail(chan)) = Len(chan) - 1
  BY <1>1, HeadTailProperties
<1>3. 1 \in 1..Len(chan) /\ Head(chan) = chan[1]
  BY <1>1, EmptySeq
<1> QED  BY <1>1, <1>2, <1>3 DEF JobsInv, ChanShape

\* Taking the head keeps the shape of the rest.
LEMMA TailShape ==
    ASSUME JobsInv, chan # <<>>, chan' = Tail(chan)
    PROVE  ChanShape'
<1>1. chan \in Seq(Msg)
  BY DEF JobsInv, TypeOK
<1>2. Len(Tail(chan)) = Len(chan) - 1 /\ \A k \in 1..Len(Tail(chan)) : Tail(chan)[k] = chan[k + 1]
  BY <1>1, HeadTailProperties
<1>3. Len(chan) \in Nat
  BY <1>1, LenProperties
<1> QED  BY <1>2, <1>3 DEF JobsInv, ChanShape

\* WaitForJobsResponse takes the head, whatever it is.
LEMMA WaitPreserves ==
    ASSUME JobsInv, NEW c \in Clients, WaitForJobsResponse(c)
    PROVE  JobsInv'
<1>0. TypeOK /\ chan # <<>>
  BY DEF JobsInv, WaitForJobsResponse
<1>1. /\ Head(chan) \in Msg
      /\ Tail(chan) \in Seq(Msg) /\ Len(Tail(chan)) <= ChanCap
      /\ Head(chan).type = "callback" => Head(chan).key \in JobKeys
  BY <1>0, HeadFacts
<1>2. TypeOK'
  <2>1. cstatus' \in [Clients -> Statuses]
    BY <1>0, HandlerAnswerType DEF WaitForJobsResponse, TypeOK
  <2>2. swallowed' \subseteq JobKeys
    BY <1>0, <1>1 DEF WaitForJobsResponse, TypeOK
  <2>3. cgot' \in [Clients -> Msg \cup {NoMsg}] /\ cpc' \in [Clients -> {"idle", "waiting"}]
    BY <1>0, <1>1 DEF WaitForJobsResponse, TypeOK
  <2> QED  BY <1>0, <1>1, <2>1, <2>2, <2>3 DEF WaitForJobsResponse, TypeOK
<1>3. ChanShape'
  BY <1>0, TailShape DEF WaitForJobsResponse
<1> QED  BY <1>2, <1>3 DEF JobsInv

\* processJobsResponses takes the head: isJobCallback accepts no API
\* response, so the key it forwards is a job key.
LEMMA RouterPreserves ==
    ASSUME JobsInv, ProcessJobsResponses
    PROVE  JobsInv'
<1>0. TypeOK /\ chan # <<>>
  BY DEF JobsInv, ProcessJobsResponses
<1>1. /\ Head(chan) \in Msg
      /\ Tail(chan) \in Seq(Msg) /\ Len(Tail(chan)) <= ChanCap
      /\ Head(chan).type = "api" => "_response" \in Head(chan).text
      /\ Head(chan).type = "callback" => Head(chan).key \in JobKeys
  BY <1>0, HeadFacts
<1>2. IsJobCallback(Head(chan)) => Head(chan).key \in JobKeys
  BY <1>1 DEF IsJobCallback, Msg
<1>3. forwarded' \subseteq JobKeys /\ swallowed' \subseteq JobKeys
  BY <1>0, <1>1, <1>2 DEF ProcessJobsResponses, TypeOK
<1>4. TypeOK'
  BY <1>0, <1>1, <1>3 DEF ProcessJobsResponses, TypeOK
<1>5. ChanShape'
  BY <1>0, TailShape DEF ProcessJobsResponses
<1> QED  BY <1>4, <1>5 DEF JobsInv

(***************************************************************************)
(* A writer appends to the channel.                                        *)
(***************************************************************************)

\* Appending a message of the channel's shape to a channel with room keeps
\* the channel typed and shaped.
LEMMA AppendShape ==
    ASSUME JobsInv, Len(chan) < ChanCap, NEW m \in Msg, chan' = Append(chan, m),
           m.type = "api" => "_response" \in m.text,
           m.type = "callback" => m.key \in JobKeys
    PROVE  /\ chan' \in Seq(Msg) /\ Len(chan') <= ChanCap
           /\ ChanShape'
<1>1. chan \in Seq(Msg)
  BY DEF JobsInv, TypeOK
<1>2. /\ chan' \in Seq(Msg) /\ Len(chan') = Len(chan) + 1
      /\ \A p \in 1..Len(chan) : chan'[p] = chan[p]
      /\ chan'[Len(chan) + 1] = m
  BY <1>1, AppendProperties
<1>3. Len(chan) \in Nat
  BY <1>1, LenProperties
<1>4. ChanShape'
  BY <1>2, <1>3 DEF JobsInv, ChanShape
<1> QED  BY <1>2, <1>3, <1>4

\* A callback of job j, with or without the "_response" text.
CallbackOf(j, tagged) ==
    [type |-> "callback", op |-> "none", to |-> NoMsg, n |-> 0, key |-> j,
     text |-> IF tagged THEN Markers ELSE {"job_completed"}]

\* A worker completes a job, or the jobs component redelivers a callback.
LEMMA CallbackPreserves ==
    ASSUME JobsInv, NEW j \in JobKeys, CompleteActivatedJob(j) \/ RedeliverCallback(j)
    PROVE  JobsInv'
<1>0. TypeOK /\ Len(chan) < ChanCap
  BY DEF JobsInv, CompleteActivatedJob, RedeliverCallback
<1>1. PICK tagged \in BOOLEAN : chan' = Append(chan, CallbackOf(j, tagged))
  BY DEF CompleteActivatedJob, RedeliverCallback, CallbackOf
<1>2. CallbackOf(j, tagged) \in Msg /\ CallbackOf(j, tagged).type = "callback"
      /\ CallbackOf(j, tagged).key = j
  BY DEF CallbackOf, Msg, Markers
<1>3. chan' \in Seq(Msg) /\ Len(chan') <= ChanCap /\ ChanShape'
  BY <1>0, <1>1, <1>2, AppendShape
<1>4. job' \in [JobKeys -> JobStates]
  BY <1>0 DEF CompleteActivatedJob, RedeliverCallback, TypeOK, JobStates
<1>5. TypeOK'
  BY <1>0, <1>3, <1>4 DEF CompleteActivatedJob, RedeliverCallback, TypeOK
<1> QED  BY <1>3, <1>5 DEF JobsInv

\* The parts of JobsServe: the request it serves, the key create takes, the
\* jobs after the request and the answer it appends.
ServeReq == Head(reqQ)
ServeFree == {j \in JobKeys : job[j] = "none"}
ServeKey == IF ServeReq.op = "create" /\ ServeFree # {} THEN CHOOSE j \in ServeFree : TRUE
                                                       ELSE NoKey
ServeJob == CASE ServeKey # NoKey -> [job EXCEPT ![ServeKey] = "ACTIVATABLE"]
              [] ServeReq.op = "activate" ->
                    [j \in JobKeys |-> IF job[j] = "ACTIVATABLE" THEN "ACTIVATED" ELSE job[j]]
              [] OTHER -> job
ServeMsg == [type |-> "api", op |-> ServeReq.op, to |-> ServeReq.from,
             n |-> ServeReq.n, key |-> ServeKey, text |-> {"_response"}]

\* The jobs component serves the oldest request and appends an API response.
LEMMA ServePreserves ==
    ASSUME JobsInv, JobsServe
    PROVE  JobsInv'
<1>0. TypeOK /\ reqQ # <<>> /\ Len(chan) < ChanCap
  BY DEF JobsInv, JobsServe
<1>1. /\ ServeReq \in [from : Clients, op : Ops, n : 1..MaxRequests]
      /\ Tail(reqQ) \in Seq([from : Clients, op : Ops, n : 1..MaxRequests])
  BY <1>0, HeadTailProperties DEF TypeOK, ServeReq
<1>2. ServeKey \in JobKeys \cup {NoKey}
  BY DEF ServeKey, ServeFree
<1>3. chan' = Append(chan, ServeMsg) /\ reqQ' = Tail(reqQ) /\ job' = ServeJob
  BY DEF JobsServe, ServeMsg, ServeKey, ServeReq, ServeJob, ServeFree
<1>4. ServeMsg \in Msg /\ ServeMsg.type = "api" /\ "_response" \in ServeMsg.text
  BY <1>1, <1>2 DEF ServeMsg, Msg, Markers
<1>5. ServeJob \in [JobKeys -> JobStates]
  BY <1>0, <1>2 DEF ServeJob, TypeOK, JobStates
<1>6. chan' \in Seq(Msg) /\ Len(chan') <= ChanCap /\ ChanShape'
  BY <1>0, <1>3, <1>4, AppendShape
<1>7. TypeOK'
  BY <1>0, <1>1, <1>3, <1>5, <1>6 DEF JobsServe, TypeOK
<1> QED  BY <1>6, <1>7 DEF JobsInv

-----------------------------------------------------------------------------
\* Every step of the system keeps the invariant.
THEOREM JobsInvNext == JobsInv /\ [Next]_vars => JobsInv'
<1> SUFFICES ASSUME JobsInv, [Next]_vars PROVE JobsInv'
  OBVIOUS
<1>1. ASSUME NEW c \in Clients,
             \/ CreateJob(c) \/ ActivateJobs(c) \/ ListJobs(c) \/ GetJob(c)
             \/ NotImplemented(c) \/ WaitTimeout(c)
      PROVE  JobsInv'
  BY <1>1, HandlerPreserves DEF CreateJob, ActivateJobs, ListJobs, GetJob, Ops
<1>2. ASSUME NEW c \in Clients, WaitForJobsResponse(c) PROVE JobsInv'
  BY <1>2, WaitPreserves
<1>3. CASE ProcessJobsResponses
  BY <1>3, RouterPreserves
<1>4. CASE JobsServe
  BY <1>4, ServePreserves
<1>5. ASSUME NEW j \in JobKeys, CompleteActivatedJob(j) \/ RedeliverCallback(j)
      PROVE  JobsInv'
  BY <1>5, CallbackPreserves
<1>6. CASE Done \/ UNCHANGED vars
  <2>1. UNCHANGED vars
    BY <1>6 DEF Done
  <2>2. TypeOK'
    BY <2>1 DEF vars, JobsInv, TypeOK
  <2> QED  BY <2>1, <2>2, ChannelUntouched DEF vars
<1> QED  BY <1>1, <1>2, <1>3, <1>4, <1>5, <1>6 DEF Next

\* The handlers' types: every handler, request queue, channel, job table
\* and record of forwarded callbacks stays within its declared domain; in
\* particular processJobsResponses hands HandleJobCallback only job keys,
\* because isJobCallback rejects every API response.
THEOREM JobsApiTypeCorrect == Spec => []TypeOK
<1>1. JobsInv => TypeOK
  BY DEF JobsInv
<1> QED  BY JobsInvInit, JobsInvNext, <1>1, PTL DEF Spec

=============================================================================
