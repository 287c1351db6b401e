------------------------- MODULE ProcessApi_proofs -------------------------
(***************************************************************************)
(* Proofs about the process REST API and the instance manager, for every  *)
(* number of clients, instance ids, process keys and token slots.         *)
(*                                                                         *)
(* ReadYourCancel does not hold step by step on its own.  The inductive   *)
(* invariant LifeInv adds: an unused id has no tokens; a step in flight   *)
(* is on an ACTIVE token or of a cancelled instance; no instance is       *)
(* FAILED; an ended instance has no live token; an id whose cancel was    *)
(* answered 200 is ended; and the cancels a request or an answer carries  *)
(* were all answered before.  A status read of an acked id then sees an   *)
(* ended instance, and no step of the scheduler makes it ACTIVE again.    *)
(***************************************************************************)
EXTENDS ProcessApi, TLAPS

USE ProcessApiAssumption

\* An unused id has no tokens.
UnusedHasNoTokens ==
    \A i \in Ids : inst[i] = "NONE" => \A k \in Slots : tok[i][k] = "NONE"

\* A token step in flight is on an ACTIVE token, or on one of an instance
\* cancelled meanwhile.
InflightIsLive ==
    \A i \in Ids, k \in Slots :
        <<i, k>> \in inflight => tok[i][k] = "ACTIVE" \/ inst[i] = "CANCELLED"

\* No instance is FAILED (incidents are not escalated in this model).
NeverFailed == \A i \in Ids : inst[i] # "FAILED"

\* The ids whose cancel was answered 200 are ended, and the cancels a
\* request or an answer carries were answered before.
AckedEnded ==
    /\ \A i \in acked : inst[i] \in {"COMPLETED", "CANCELLED"}
    /\ \A c \in Clients : req[c].acked \subseteq acked /\ ans[c].acked \subseteq acked

\* Spec 2 and 8: a COMPLETED instance has no ACTIVE or WAITING token and
\* one that completed; a CANCELLED one has no ACTIVE or WAITING token.
TokensAgreeWithInstance ==
    \A i \in Ids :
        /\ inst[i] = "COMPLETED" =>
              /\ \A k \in Slots : tok[i][k] \notin Live
              /\ \E k \in Slots : tok[i][k] = "COMPLETED"
        /\ inst[i] = "CANCELLED" => \A k \in Slots : tok[i][k] \notin Live

LifeInv ==
    /\ TypeOK
    /\ UnusedHasNoTokens
    /\ InflightIsLive
    /\ NeverFailed
    /\ TokensAgreeWithInstance
    /\ AckedEnded
    /\ ReadYourCancel

-----------------------------------------------------------------------------
\* Initially no id is used, nothing is in flight and nothing was cancelled.
THEOREM LifeInit == Init => LifeInv
<1> SUFFICES ASSUME Init PROVE LifeInv
  OBVIOUS
<1>1. TypeOK
  <2>1. NoReq \in ReqRecs
    BY DEF NoReq, ReqRecs, Args, Filters
  <2>2. NoAns \in Answers
    BY DEF NoAns, Answers, InstStates
  <2> QED  BY <2>1, <2>2 DEF Init, TypeOK, InstStates, TokStates
<1>2. UnusedHasNoTokens /\ InflightIsLive /\ NeverFailed /\ TokensAgreeWithInstance
  BY DEF Init, UnusedHasNoTokens, InflightIsLive, NeverFailed, TokensAgreeWithInstance
<1>3. AckedEnded /\ ReadYourCancel
  BY DEF Init, AckedEnded, ReadYourCancel, NoReq, NoAns
<1> QED  BY <1>1, <1>2, <1>3 DEF LifeInv

\* A handler that answers without changing the instance manager keeps the
\* invariant, provided a 200 status answer for an id whose cancel its
\* request carries does not say ACTIVE.
LEMMA ReplyPreserves ==
    ASSUME LifeInv, NEW c \in Clients, NEW code \in Codes, NEW id \in Ids \cup {NoId},
           NEW st \in InstStates, NEW ids \in SUBSET Ids,
           Reply(c, code, id, st, ids),
           UNCHANGED <<compUp, inst, tok, inflight, acked>>,
           req[c].op = "status" /\ code = "ok" /\ id \in req[c].acked => st # "ACTIVE"
    PROVE  LifeInv'
<1>0. TypeOK
  BY DEF LifeInv
<1>1. req[c] \in ReqRecs /\ req[c].acked \subseteq acked
  BY <1>0 DEF LifeInv, TypeOK, AckedEnded
<1>2. TypeOK'
  <2>1. ans'[c] \in Answers
    BY <1>0, <1>1 DEF Reply, Answers, ReqRecs, TypeOK
  <2>2. req'[c] \in ReqRecs
    BY <1>0 DEF Reply, NoReq, ReqRecs, Args, Filters, TypeOK
  <2> QED  BY <1>0, <2>1, <2>2 DEF TypeOK, Reply
<1>3. (UnusedHasNoTokens /\ InflightIsLive /\ NeverFailed /\ TokensAgreeWithInstance)'
  BY DEF LifeInv, UnusedHasNoTokens, InflightIsLive, NeverFailed, TokensAgreeWithInstance
<1>4. AckedEnded'
  BY <1>1 DEF LifeInv, AckedEnded, Reply, NoReq, TypeOK
<1>5. ReadYourCancel'
  BY <1>1 DEF LifeInv, ReadYourCancel, Reply, TypeOK
<1> QED  BY <1>2, <1>3, <1>4, <1>5 DEF LifeInv

\* A client issuing a request carries the cancels answered so far.
LEMMA IssuePreserves ==
    ASSUME LifeInv, NEW c \in Clients, Issue(c)
    PROVE  LifeInv'
<1>0. TypeOK
  BY DEF LifeInv
<1>1. PICK r \in Requests :
        req' = [req EXCEPT ![c] = [op |-> r.op, arg |-> r.arg, acked |-> acked]]
  BY DEF Issue
<1>2. r.op \in Ops /\ r.arg \in Args
  BY DEF Requests, Ops, Args, Filters
<1>a. UNCHANGED <<compUp, inst, tok, inflight, acked>> /\ ans' = [ans EXCEPT ![c] = NoAns]
  BY DEF Issue
<1>3. TypeOK'
  <2>1. req'[c] \in ReqRecs
    BY <1>0, <1>1, <1>2 DEF TypeOK, ReqRecs
  <2>2. ans'[c] \in Answers
    BY <1>0, <1>a DEF TypeOK, NoAns, Answers, InstStates
  <2> QED  BY <1>0, <1>1, <1>a, <2>1, <2>2 DEF TypeOK
<1>4. (UnusedHasNoTokens /\ InflightIsLive /\ NeverFailed /\ TokensAgreeWithInstance)'
  BY <1>a DEF LifeInv, UnusedHasNoTokens, InflightIsLive, NeverFailed, TokensAgreeWithInstance
<1>5. AckedEnded'
  BY <1>0, <1>1, <1>a DEF LifeInv, AckedEnded, NoAns, TypeOK
<1>6. ReadYourCancel'
  BY <1>0, <1>a DEF LifeInv, ReadYourCancel, NoAns, TypeOK
<1> QED  BY <1>3, <1>4, <1>5, <1>6 DEF LifeInv

\* ListProcesses and the token routes answer without changing anything.
LEMMA ListPreserves ==
    ASSUME LifeInv, NEW c \in Clients, ListProcesses(c) \/ NotImplemented(c)
    PROVE  LifeInv'
<1>1. CASE NotImplemented(c)
  BY <1>1, ReplyPreserves DEF NotImplemented, ReplyCode, Codes, InstStates
<1>2. CASE ListProcesses(c)
  <2>1. req[c].op = "list"
    BY <1>2 DEF ListProcesses
  <2>2. \A f \in {""} \cup ValidStatuses : ListProcessInstances(f) \in SUBSET Ids
    BY DEF ListProcessInstances
  <2> QED  BY <1>2, <2>1, <2>2, ReplyPreserves DEF ListProcesses, ReplyCode, Codes, InstStates
<1> QED  BY <1>1, <1>2

\* GetProcessStatus reports the state of the instance, which is ended for
\* an id whose cancel its request carries.
LEMMA StatusPreserves ==
    ASSUME LifeInv, NEW c \in Clients, GetProcessStatus(c)
    PROVE  LifeInv'
<1>0. TypeOK /\ req[c].op = "status"
  BY DEF LifeInv, GetProcessStatus
<1>1. CASE req[c].arg \in {"", "badformat"} \/ ProcessComponentNil
  BY <1>0, <1>1, ReplyPreserves DEF GetProcessStatus, ReplyCode, Codes, InstStates
<1>2. CASE req[c].arg \in Ids /\ ~ProcessComponentNil
  <2> DEFINE id == req[c].arg
  <2>1. GetProcessInstanceStatus(c, id) /\ UNCHANGED <<compUp, inst, tok, inflight, acked>>
    BY <1>2 DEF GetProcessStatus, ProcessApiAssumption
  <2>2. id \in req[c].acked => inst[id] # "ACTIVE"
    BY DEF LifeInv, AckedEnded
  <2>3. inst[id] \in InstStates
    BY <1>0, <1>2 DEF TypeOK
  <2> QED  BY <1>2, <2>1, <2>2, <2>3, ReplyPreserves DEF GetProcessInstanceStatus, Codes, InstStates
<1> QED  BY <1>1, <1>2 DEF GetProcessStatus

\* StartProcessInstance makes an unused id ACTIVE with one ACTIVE token;
\* nothing was in flight on it and no cancel of it was answered.
LEMMA StartCreatedPreserves ==
    ASSUME LifeInv, NEW c \in Clients, NEW i \in Ids, inst[i] = "NONE",
           inst' = [inst EXCEPT ![i] = "ACTIVE"],
           tok' = [tok EXCEPT ![i] = [k \in Slots |-> IF k = 1 THEN "ACTIVE" ELSE "NONE"]],
           Reply(c, "created", i, "ACTIVE", {}),
           UNCHANGED <<compUp, inflight, acked>>
    PROVE  LifeInv'
<1>0. TypeOK
  BY DEF LifeInv
<1>1. req[c] \in ReqRecs /\ req[c].acked \subseteq acked /\ req[c].op = req[c].op
  BY <1>0 DEF LifeInv, TypeOK, AckedEnded
<1>2. TypeOK'
  <2>1. ans'[c] \in Answers
    BY <1>0, <1>1 DEF Reply, Answers, ReqRecs, TypeOK, Codes, InstStates
  <2>2. req'[c] \in ReqRecs
    BY <1>0 DEF Reply, NoReq, ReqRecs, Args, Filters, TypeOK
  <2>3. inst' \in [Ids -> InstStates] /\ tok' \in [Ids -> [Slots -> TokStates]]
    BY <1>0 DEF TypeOK, InstStates, TokStates
  <2> QED  BY <1>0, <2>1, <2>2, <2>3 DEF TypeOK, Reply
<1>3. \A k \in Slots : <<i, k>> \notin inflight
  BY DEF LifeInv, UnusedHasNoTokens, InflightIsLive
<1>4. UnusedHasNoTokens' /\ NeverFailed'
  BY <1>0 DEF LifeInv, UnusedHasNoTokens, NeverFailed, TypeOK
<1>5. InflightIsLive'
  BY <1>0, <1>3 DEF LifeInv, InflightIsLive, TypeOK
<1>6. TokensAgreeWithInstance'
  BY <1>0 DEF LifeInv, TokensAgreeWithInstance, TypeOK
<1>7. i \notin acked
  BY DEF LifeInv, AckedEnded
<1>8. AckedEnded'
  BY <1>0, <1>1, <1>7 DEF LifeInv, AckedEnded, Reply, NoReq, TypeOK
<1>9. ReadYourCancel'
  BY <1>0 DEF LifeInv, ReadYourCancel, Reply, TypeOK
<1> QED  BY <1>2, <1>4, <1>5, <1>6, <1>8, <1>9 DEF LifeInv

\* StartProcess: an early return answers and changes nothing, as does the
\* component's error; otherwise StartCreatedPreserves.
LEMMA StartPreserves ==
    ASSUME LifeInv, NEW c \in Clients, StartProcess(c)
    PROVE  LifeInv'
<1> DEFINE key == req[c].arg
<1>0. req[c].op = "start" /\ UNCHANGED <<compUp, inflight, acked>>
  BY DEF StartProcess
<1>1. CASE /\ ReplyCode(c, "bad_request") \/ ReplyCode(c, "unavailable")
           /\ UNCHANGED <<inst, tok>>
  BY <1>0, <1>1, ReplyPreserves DEF ReplyCode, Codes, InstStates
<1>2. CASE StartProcessInstance(c, key)
  <2>1. PICK i \in Ids \cup {NoId} :
            /\ ComponentStart(key, i)
            /\ IF i = NoId THEN ReplyCode(c, "error") ELSE Reply(c, "created", i, inst'[i], {})
    BY <1>2 DEF StartProcessInstance
  <2>2. CASE i = NoId
    <3>1. UNCHANGED <<inst, tok>> /\ ReplyCode(c, "error")
      BY <2>1, <2>2, ProcessApiAssumption DEF ComponentStart
    <3> QED  BY <1>0, <3>1, ReplyPreserves DEF ReplyCode, Codes, InstStates
  <2>3. CASE i # NoId
    <3>1. /\ i \in Ids /\ inst[i] = "NONE"
          /\ inst' = [inst EXCEPT ![i] = "ACTIVE"]
          /\ tok' = [tok EXCEPT ![i] = [k \in Slots |-> IF k = 1 THEN "ACTIVE" ELSE "NONE"]]
          /\ Reply(c, "created", i, inst'[i], {})
      BY <2>1, <2>3 DEF ComponentStart
    <3>2. inst'[i] = "ACTIVE"
      BY <3>1 DEF LifeInv, TypeOK
    <3> QED  BY <1>0, <3>1, <3>2, StartCreatedPreserves
  <2> QED  BY <2>2, <2>3
<1> QED  BY <1>1, <1>2 DEF StartProcess

\* A cancel of an ACTIVE instance ends it with no live token and records
\* the id as answered.
LEMMA CancelActivePreserves ==
    ASSUME LifeInv, NEW c \in Clients, NEW id \in Ids, inst[id] = "ACTIVE",
           CancelInstance(id), Reply(c, "ok", id, "NONE", {}),
           acked' = acked \cup {id}, req[c].op = "cancel",
           UNCHANGED <<compUp, inflight>>
    PROVE  LifeInv'
<1>0. TypeOK
  BY DEF LifeInv
<1>1. req[c] \in ReqRecs /\ req[c].acked \subseteq acked
  BY <1>0 DEF LifeInv, TypeOK, AckedEnded
<1>c. /\ inst' = [inst EXCEPT ![id] = "CANCELLED"]
      /\ tok' = [tok EXCEPT ![id] = [k \in Slots |->
                   IF tok[id][k] \in Live THEN "CANCELLED" ELSE tok[id][k]]]
  BY DEF CancelInstance
<1>2. TypeOK'
  <2>1. ans'[c] \in Answers
    BY <1>0, <1>1 DEF Reply, Answers, ReqRecs, TypeOK, Codes, InstStates
  <2>2. req'[c] \in ReqRecs
    BY <1>0 DEF Reply, NoReq, ReqRecs, Args, Filters, TypeOK
  <2>3. inst' \in [Ids -> InstStates] /\ tok' \in [Ids -> [Slots -> TokStates]]
    BY <1>0, <1>c DEF TypeOK, InstStates, TokStates
  <2> QED  BY <1>0, <2>1, <2>2, <2>3 DEF TypeOK, Reply
<1>4. UnusedHasNoTokens' /\ NeverFailed'
  BY <1>0, <1>c DEF LifeInv, UnusedHasNoTokens, NeverFailed, TypeOK
<1>5. InflightIsLive'
  BY <1>0, <1>c DEF LifeInv, InflightIsLive, TypeOK
<1>6. TokensAgreeWithInstance'
  BY <1>0, <1>c DEF LifeInv, TokensAgreeWithInstance, TypeOK, Live
<1>8. AckedEnded'
  BY <1>0, <1>1, <1>c DEF LifeInv, AckedEnded, Reply, NoReq, TypeOK
<1>9. ReadYourCancel'
  BY <1>0 DEF LifeInv, ReadYourCancel, Reply, TypeOK
<1> QED  BY <1>2, <1>4, <1>5, <1>6, <1>8, <1>9 DEF LifeInv

\* A cancel of an ended instance answered 200 changes nothing but the
\* record of answered cancels: the instance is COMPLETED or CANCELLED.
LEMMA CancelEndedPreserves ==
    ASSUME LifeInv, NEW c \in Clients, NEW id \in Ids, inst[id] \notin {"NONE", "ACTIVE"},
           Reply(c, "ok", id, "NONE", {}), acked' = acked \cup {id},
           req[c].op = "cancel", UNCHANGED <<compUp, inst, tok, inflight>>
    PROVE  LifeInv'
<1>0. TypeOK
  BY DEF LifeInv
<1>1. req[c] \in ReqRecs /\ req[c].acked \subseteq acked
  BY <1>0 DEF LifeInv, TypeOK, AckedEnded
<1>2. TypeOK'
  <2>1. ans'[c] \in Answers
    BY <1>0, <1>1 DEF Reply, Answers, ReqRecs, TypeOK, Codes, InstStates
  <2>2. req'[c] \in ReqRecs
    BY <1>0 DEF Reply, NoReq, ReqRecs, Args, Filters, TypeOK
  <2> QED  BY <1>0, <2>1, <2>2 DEF TypeOK, Reply
<1>3. (UnusedHasNoTokens /\ InflightIsLive /\ NeverFailed /\ TokensAgreeWithInstance)'
  BY DEF LifeInv, UnusedHasNoTokens, InflightIsLive, NeverFailed, TokensAgreeWithInstance
<1>4. inst[id] \in {"COMPLETED", "CANCELLED"}
  BY <1>0 DEF LifeInv, NeverFailed, TypeOK, InstStates
<1>5. AckedEnded'
  BY <1>0, <1>1, <1>4 DEF LifeInv, AckedEnded, Reply, NoReq, TypeOK
<1>6. ReadYourCancel'
  BY <1>0 DEF LifeInv, ReadYourCancel, Reply, TypeOK
<1> QED  BY <1>2, <1>3, <1>5, <1>6 DEF LifeInv

\* CancelProcess: the early returns and the errors change nothing.
LEMMA CancelPreserves ==
    ASSUME LifeInv, NEW c \in Clients, CancelProcess(c)
    PROVE  LifeInv'
<1>0. req[c].op = "cancel" /\ UNCHANGED <<compUp, inflight>>
  BY DEF CancelProcess
<1>1. CASE /\ ReplyCode(c, "bad_request") \/ ReplyCode(c, "unavailable")
           /\ UNCHANGED <<inst, tok, acked>>
  BY <1>0, <1>1, ReplyPreserves DEF ReplyCode, Codes, InstStates
<1>2. CASE req[c].arg \in Ids /\ CancelProcessInstance(c, req[c].arg)
  <2>1. PICK err \in {"not_found", "error", "nil"} :
            /\ ComponentCancel(req[c].arg, err)
            /\ Reply(c, IF err = "nil" THEN "ok" ELSE err, req[c].arg, "NONE", {})
            /\ acked' = IF err = "nil" THEN acked \cup {req[c].arg} ELSE acked
    BY <1>2 DEF CancelProcessInstance
  <2>2. CASE err # "nil"
    <3>1. UNCHANGED <<inst, tok, acked>> /\ Reply(c, err, req[c].arg, "NONE", {})
      BY <2>1, <2>2 DEF ComponentCancel
    <3>2. err \in Codes /\ "NONE" \in InstStates /\ req[c].op # "status"
      BY <1>0, <2>2 DEF Codes, InstStates
    <3>3. UNCHANGED <<compUp, inst, tok, inflight, acked>>
      BY <1>0, <3>1
    <3>4. req[c].arg \in Ids \cup {NoId} /\ {} \in SUBSET Ids
      BY <1>2
    <3>5. req[c].op = "status" /\ err = "ok" /\ req[c].arg \in req[c].acked => "NONE" # "ACTIVE"
      OBVIOUS
    <3> QED  BY <3>1, <3>2, <3>3, <3>4, <3>5, ReplyPreserves
  <2>3. CASE err = "nil" /\ inst[req[c].arg] = "ACTIVE"
    <3>1. CancelInstance(req[c].arg) /\ Reply(c, "ok", req[c].arg, "NONE", {}) /\ acked' = acked \cup {req[c].arg}
      BY <2>1, <2>3 DEF ComponentCancel
    <3> QED  BY <1>0, <1>2, <2>3, <3>1, CancelActivePreserves
  <2>4. CASE err = "nil" /\ inst[req[c].arg] # "ACTIVE"
    <3>1. /\ inst[req[c].arg] \notin {"NONE", "ACTIVE"} /\ UNCHANGED <<inst, tok>>
          /\ Reply(c, "ok", req[c].arg, "NONE", {}) /\ acked' = acked \cup {req[c].arg}
      BY <2>1, <2>4 DEF ComponentCancel
    <3> QED  BY <1>0, <1>2, <3>1, CancelEndedPreserves
  <2> QED  BY <2>2, <2>3, <2>4
<1> QED  BY <1>1, <1>2 DEF CancelProcess

-----------------------------------------------------------------------------
\* A step in flight of an instance that is not cancelled is on an ACTIVE
\* token of an ACTIVE instance.
LEMMA InflightOfActive ==
    ASSUME LifeInv, NEW i \in Ids, NEW k \in Slots, <<i, k>> \in inflight,
           inst[i] # "CANCELLED"
    PROVE  tok[i][k] = "ACTIVE" /\ inst[i] = "ACTIVE"
<1>1. tok[i][k] = "ACTIVE"
  BY DEF LifeInv, InflightIsLive
<1>2. inst[i] \notin {"NONE", "COMPLETED", "FAILED"}
  BY <1>1 DEF LifeInv, UnusedHasNoTokens, TokensAgreeWithInstance, NeverFailed, Live
<1> QED  BY <1>1, <1>2 DEF LifeInv, TypeOK, InstStates

\* The scheduler's steps other than StepEnd: taking up an ACTIVE token,
\* discarding a step of a cancelled instance, resuming a WAITING token.
LEMMA SchedulerPreserves ==
    ASSUME LifeInv, NEW i \in Ids, NEW k \in Slots,
           StepBegin(i, k) \/ StepDiscarded(i, k) \/ Resume(i, k)
    PROVE  LifeInv'
<1>0. TypeOK
  BY DEF LifeInv
<1>1. CASE StepBegin(i, k)
  <2>0. <<i, k>> \in Ids \X Slots
    OBVIOUS
  <2>1. TypeOK'
    BY <1>0, <1>1, <2>0 DEF StepBegin, TypeOK
  <2> QED  BY <1>1, <2>1 DEF StepBegin, LifeInv, UnusedHasNoTokens, InflightIsLive,
                             NeverFailed, TokensAgreeWithInstance, AckedEnded, ReadYourCancel
<1>2. CASE StepDiscarded(i, k)
  <2>1. TypeOK'
    BY <1>0, <1>2 DEF StepDiscarded, TypeOK
  <2> QED  BY <1>2, <2>1 DEF StepDiscarded, LifeInv, UnusedHasNoTokens, InflightIsLive,
                             NeverFailed, TokensAgreeWithInstance, AckedEnded, ReadYourCancel
<1>3. CASE Resume(i, k)
  <2>1. TypeOK'
    BY <1>0, <1>3 DEF Resume, TypeOK, TokStates
  <2>2. (UnusedHasNoTokens /\ InflightIsLive /\ TokensAgreeWithInstance)'
    BY <1>0, <1>3 DEF Resume, LifeInv, UnusedHasNoTokens, InflightIsLive,
                      TokensAgreeWithInstance, TypeOK
  <2> QED  BY <1>3, <2>1, <2>2 DEF Resume, LifeInv, NeverFailed, AckedEnded, ReadYourCancel
<1> QED  BY <1>1, <1>2, <1>3

\* The token slots of instance i once token k has completed.
TokenCompleted(i, k) == [tok[i] EXCEPT ![k] = "COMPLETED"]

\* The end of a step of an ACTIVE instance: the token advances, suspends,
\* splits or completes; a completion check that finds a live token leaves
\* the instance ACTIVE, one that finds none makes it COMPLETED with the
\* token just completed.
LEMMA StepEndPreserves ==
    ASSUME LifeInv, NEW i \in Ids, NEW k \in Slots, StepEnd(i, k)
    PROVE  LifeInv'
<1>0. TypeOK /\ inst[i] = "ACTIVE" /\ tok[i][k] = "ACTIVE"
      /\ inflight' = inflight \ {<<i, k>>} /\ UNCHANGED <<compUp, req, ans, acked>>
  BY InflightOfActive DEF LifeInv, StepEnd
<1>1. i \notin acked
  BY <1>0 DEF LifeInv, AckedEnded
<1>2. CASE UNCHANGED <<inst, tok>>
  BY <1>0, <1>2 DEF LifeInv, TypeOK, UnusedHasNoTokens, InflightIsLive,
                    NeverFailed, TokensAgreeWithInstance, AckedEnded, ReadYourCancel
<1>3. CASE tok' = [tok EXCEPT ![i][k] = "WAITING"] /\ UNCHANGED inst
  <2>1. TypeOK'
    BY <1>0, <1>3 DEF TypeOK, TokStates
  <2>2. (UnusedHasNoTokens /\ InflightIsLive /\ TokensAgreeWithInstance)'
    BY <1>0, <1>3 DEF LifeInv, UnusedHasNoTokens, InflightIsLive,
                      TokensAgreeWithInstance, TypeOK
  <2> QED  BY <1>0, <1>3, <2>1, <2>2 DEF LifeInv, NeverFailed, AckedEnded, ReadYourCancel
<1>4. CASE \E j \in Slots : tok[i][j] = "NONE" /\ tok' = [tok EXCEPT ![i][j] = "ACTIVE"]
                             /\ UNCHANGED inst
  <2>1. PICK j \in Slots : tok[i][j] = "NONE" /\ tok' = [tok EXCEPT ![i][j] = "ACTIVE"]
                           /\ UNCHANGED inst
    BY <1>4
  <2>2. TypeOK'
    BY <1>0, <2>1 DEF TypeOK, TokStates
  <2>3. (UnusedHasNoTokens /\ InflightIsLive /\ TokensAgreeWithInstance)'
    BY <1>0, <2>1 DEF LifeInv, UnusedHasNoTokens, InflightIsLive,
                      TokensAgreeWithInstance, TypeOK
  <2> QED  BY <1>0, <2>1, <2>2, <2>3 DEF LifeInv, NeverFailed, AckedEnded, ReadYourCancel
<1>5. CASE /\ tok' = [tok EXCEPT ![i] = TokenCompleted(i, k)]
           /\ inst' = [inst EXCEPT ![i] = CompleteCheck(i, TokenCompleted(i, k))]
  <2>1. /\ tok' = [tok EXCEPT ![i] = TokenCompleted(i, k)]
        /\ inst' = [inst EXCEPT ![i] = CompleteCheck(i, TokenCompleted(i, k))]
    BY <1>5
  <2>2. TokenCompleted(i, k) \in [Slots -> TokStates] /\ TokenCompleted(i, k)[k] = "COMPLETED"
        /\ \A j \in Slots \ {k} : TokenCompleted(i, k)[j] = tok[i][j]
    BY <1>0 DEF TypeOK, TokStates, TokenCompleted
  <2>3. CASE \A j \in Slots : TokenCompleted(i, k)[j] \notin Live
    <3>1. inst'[i] = "COMPLETED"
      BY <1>0, <2>1, <2>3 DEF CompleteCheck, TypeOK
    <3>2. \A j \in Slots : <<i, j>> \notin inflight \ {<<i, k>>}
      BY <1>0, <2>2, <2>3, InflightOfActive DEF Live
    <3>3. TypeOK'
      BY <1>0, <2>1, <2>2, <3>1 DEF TypeOK, InstStates
    <3>4. (UnusedHasNoTokens /\ InflightIsLive /\ NeverFailed /\ TokensAgreeWithInstance)'
      BY <1>0, <2>1, <2>2, <2>3, <3>1, <3>2 DEF LifeInv, UnusedHasNoTokens,
         InflightIsLive, NeverFailed, TokensAgreeWithInstance, TypeOK
    <3>5. (AckedEnded /\ ReadYourCancel)'
      BY <1>0, <1>1, <2>1 DEF LifeInv, AckedEnded, ReadYourCancel, TypeOK
    <3> QED  BY <3>3, <3>4, <3>5 DEF LifeInv
  <2>4. CASE ~\A j \in Slots : TokenCompleted(i, k)[j] \notin Live
    <3>1. inst' = inst
      BY <1>0, <2>1, <2>4 DEF CompleteCheck, TypeOK
    <3>2. TypeOK'
      <4>1. tok' \in [Ids -> [Slots -> TokStates]]
        BY <1>0, <2>1, <2>2 DEF TypeOK
      <4> QED  BY <1>0, <3>1, <4>1 DEF TypeOK
    <3>3. \A j \in Slots : tok'[i][j] = TokenCompleted(i, k)[j] /\ \A x \in Ids \ {i} : tok'[x] = tok[x]
      BY <1>0, <2>1 DEF TypeOK
    <3>4. (UnusedHasNoTokens /\ NeverFailed)'
      <4>1. NeverFailed'
        BY <3>1 DEF LifeInv, NeverFailed
      <4>2. UnusedHasNoTokens'
        <5> SUFFICES ASSUME NEW x \in Ids, inst'[x] = "NONE", NEW j \in Slots
                     PROVE  tok'[x][j] = "NONE"
          BY DEF UnusedHasNoTokens
        <5>1. x # i
          BY <1>0, <3>1
        <5> QED  BY <3>3, <3>1, <5>1 DEF LifeInv, UnusedHasNoTokens
      <4> QED  BY <4>1, <4>2
    <3>5. InflightIsLive'
      BY <1>0, <2>2, <3>1, <3>3 DEF LifeInv, InflightIsLive
    <3>6. TokensAgreeWithInstance'
      BY <1>0, <3>1, <3>3 DEF LifeInv, TokensAgreeWithInstance
    <3>7. (AckedEnded /\ ReadYourCancel)'
      BY <1>0, <3>1 DEF LifeInv, AckedEnded, ReadYourCancel
    <3> QED  BY <3>2, <3>4, <3>5, <3>6, <3>7 DEF LifeInv
  <2> QED  BY <2>3, <2>4
<1> QED  BY <1>2, <1>3, <1>4, <1>5 DEF StepEnd, TokenCompleted

-----------------------------------------------------------------------------
\* Every step of the handlers and of the scheduler keeps the invariant.
THEOREM LifeNext == LifeInv /\ [Next]_vars => LifeInv'
<1> SUFFICES ASSUME LifeInv, [Next]_vars PROVE LifeInv'
    OBVIOUS
<1>1. CASE \E c \in Clients : Issue(c)
  BY <1>1, IssuePreserves
<1>2. CASE \E c \in Clients : StartProcess(c)
  BY <1>2, StartPreserves
<1>3. CASE \E c \in Clients : ListProcesses(c) \/ NotImplemented(c)
  BY <1>3, ListPreserves
<1>4. CASE \E c \in Clients : GetProcessStatus(c)
  BY <1>4, StatusPreserves
<1>5. CASE \E c \in Clients : CancelProcess(c)
  BY <1>5, CancelPreserves
<1>6. CASE \E i \in Ids, k \in Slots : StepBegin(i, k) \/ StepDiscarded(i, k) \/ Resume(i, k)
  BY <1>6, SchedulerPreserves
<1>7. CASE \E i \in Ids, k \in Slots : StepEnd(i, k)
  BY <1>7, StepEndPreserves
<1>8. CASE UNCHANGED vars
  BY <1>8 DEF vars, LifeInv, TypeOK, UnusedHasNoTokens, InflightIsLive, NeverFailed,
              TokensAgreeWithInstance, AckedEnded, ReadYourCancel
<1> QED  BY <1>1, <1>2, <1>3, <1>4, <1>5, <1>6, <1>7, <1>8 DEF Next

\* A status request issued after a 200 to a cancel never reports the
\* instance ACTIVE, whatever step of the scheduler was in flight when the
\* cancel was handled, provided the cancel really went to the instance
\* manager (ReadYourCancel).
THEOREM ReadYourCancelHolds == Spec => []ReadYourCancel
<1>1. LifeInv => ReadYourCancel
  BY DEF LifeInv
<1> QED  BY <1>1, LifeInit, LifeNext, PTL DEF Spec

\* The handlers, the instance manager and the scheduler keep every
\* variable in its type: in particular every 201 of StartProcess carries an
\* id the instance manager issued (TypeOK).
THEOREM ProcessApiTypeCorrect == Spec => []TypeOK
<1>1. LifeInv => TypeOK
  BY DEF LifeInv
<1> QED  BY <1>1, LifeInit, LifeNext, PTL DEF Spec

=============================================================================
