-------------------------- MODULE RateLimit_proofs --------------------------
(***************************************************************************)
(* Proofs about the rate-limit middleware, for every limit, every number   *)
(* of request goroutines and every set of clients and paths.               *)
(*                                                                         *)
(* OvershootBounded is not inductive: the admissions of a client must be   *)
(* related to what the limiter has recorded and to the requests that are   *)
(* between CheckLimit and RecordRequest.  Those pending requests are       *)
(* counted with Cardinality, hence the finite-set lemmas.                  *)
(***************************************************************************)
EXTENDS RateLimit, FiniteSetTheorems, TLAPS

USE RateLimitAssumption

\* The goroutines of client id that CheckLimit let through and that have
\* not called RecordRequest yet.
Pending(id) == {r \in Requests : pc[r] = "checked" /\ ClientIdentifier(req[r]) = id}

\* A goroutine between the two calls holds a request.
CheckedHaveRequests == \A r \in Requests : pc[r] = "checked" => req[r] \in Req

\* Every admission of a client in this window is recorded or pending.
AdmittedCovered ==
    \A id \in ClientIds : admitted[id] <= count[id] + Cardinality(Pending(id))

\* What is recorded or pending stays within Limit - 1 plus one request per
\* goroutine: a request is admitted only while the count is below Limit.
RecordedBounded ==
    \A id \in ClientIds :
        count[id] + Cardinality(Pending(id)) <= Limit - 1 + Cardinality(Requests)

OvershootInv == TypeOK /\ CheckedHaveRequests /\ AdmittedCovered /\ RecordedBounded

-----------------------------------------------------------------------------
\* The pending goroutines of a client are a finite set no larger than the
\* pool of goroutines.
LEMMA PendingFinite ==
    ASSUME NEW id
    PROVE  /\ IsFiniteSet(Pending(id))
           /\ Cardinality(Pending(id)) \in Nat
           /\ Cardinality(Pending(id)) <= Cardinality(Requests)
<1>1. Pending(id) \subseteq Requests
  BY DEF Pending
<1>2. IsFiniteSet(Pending(id)) /\ Cardinality(Pending(id)) <= Cardinality(Requests)
  BY <1>1, FS_Subset
<1>3. Cardinality(Pending(id)) \in Nat
  BY <1>2, FS_CardinalityType
<1> QED  BY <1>2, <1>3

\* The same, in the next state.
LEMMA PendingFinitePrimed ==
    ASSUME NEW id
    PROVE  /\ IsFiniteSet(Pending(id)')
           /\ Cardinality(Pending(id)') \in Nat
           /\ Cardinality(Pending(id)') <= Cardinality(Requests)
<1>1. Pending(id)' \subseteq Requests
  BY DEF Pending
<1>2. IsFiniteSet(Pending(id)') /\ Cardinality(Pending(id)') <= Cardinality(Requests)
  BY <1>1, FS_Subset
<1>3. Cardinality(Pending(id)') \in Nat
  BY <1>2, FS_CardinalityType
<1> QED  BY <1>2, <1>3

\* The pool of goroutines has a size.
LEMMA RequestsSize == Cardinality(Requests) \in Nat
BY FS_CardinalityType

-----------------------------------------------------------------------------
\* The strengthened invariant holds initially: nothing is admitted,
\* recorded or pending.
THEOREM OvershootInvInit == Init => OvershootInv
<1> SUFFICES ASSUME Init PROVE OvershootInv
  OBVIOUS
<1>1. TypeOK
  BY DEF Init, TypeOK, DefaultRateLimitConfig, Configs
<1>2. \A id : Cardinality(Pending(id)) = 0
  <2> TAKE id
  <2>1. Pending(id) = {}
    BY DEF Init, Pending
  <2> QED  BY <2>1, FS_EmptySet
<1>3. CheckedHaveRequests
  BY DEF Init, CheckedHaveRequests
<1>4. AdmittedCovered
  BY <1>2 DEF Init, AdmittedCovered
<1>5. RecordedBounded
  BY <1>2, RequestsSize DEF Init, RecordedBounded
<1> QED  BY <1>1, <1>3, <1>4, <1>5 DEF OvershootInv

-----------------------------------------------------------------------------
\* Handler: a goroutine that CheckLimit lets through becomes pending for its
\* client, and is admitted once; one that is refused or not limited changes
\* neither the pending goroutines nor the admissions.
LEMMA HandlerPreserves ==
    ASSUME OvershootInv, NEW r \in Requests, NEW q \in Req, Handler(r, q)
    PROVE  OvershootInv'
<1> DEFINE cid == ClientIdentifier(q)
<1>1. cid \in ClientIds
  BY DEF ClientIdentifier, ClientIds, Req
<1>2. pc[r] = "idle" /\ arrivals < MaxArrivals /\ arrivals' = arrivals + 1
      /\ req' = [req EXCEPT ![r] = q] /\ count' = count /\ config' = config
  BY DEF Handler
<1>3. TypeOK
  BY DEF OvershootInv
<1>4. \/ /\ count[cid] < Limit
         /\ pc' = [pc EXCEPT ![r] = "checked"]
         /\ admitted' = [admitted EXCEPT ![cid] = @ + 1]
      \/ pc' = pc /\ admitted' = admitted
  BY DEF Handler
<1>5. TypeOK'
  BY <1>1, <1>2, <1>3, <1>4 DEF TypeOK
<1>6. CheckedHaveRequests'
  BY <1>2, <1>3, <1>4 DEF OvershootInv, CheckedHaveRequests, TypeOK
<1>7. \A r2 \in Requests \ {r} : pc'[r2] = pc[r2] /\ req'[r2] = req[r2]
  BY <1>2, <1>3, <1>4 DEF TypeOK
<1>8. CASE pc' = pc /\ admitted' = admitted
  <2>1. \A id : Pending(id)' = Pending(id)
    BY <1>2, <1>7, <1>8 DEF Pending
  <2>2. AdmittedCovered'
    BY <1>2, <1>8, <2>1 DEF OvershootInv, AdmittedCovered
  <2>3. RecordedBounded'
    BY <1>2, <2>1 DEF OvershootInv, RecordedBounded
  <2> QED  BY <1>5, <1>6, <2>2, <2>3 DEF OvershootInv
<1>9. CASE /\ count[cid] < Limit
           /\ pc' = [pc EXCEPT ![r] = "checked"]
           /\ admitted' = [admitted EXCEPT ![cid] = @ + 1]
  <2>1. Pending(cid)' = Pending(cid) \cup {r}
    BY <1>2, <1>3, <1>7, <1>9 DEF Pending, TypeOK
  <2>2. r \notin Pending(cid)
    BY <1>2 DEF Pending
  <2>3. Cardinality(Pending(cid)') = Cardinality(Pending(cid)) + 1
    BY <2>1, <2>2, PendingFinite, FS_AddElement
  <2>4. ASSUME NEW id, id # cid PROVE Pending(id)' = Pending(id)
    BY <1>2, <1>3, <1>7, <1>9, <2>4 DEF Pending, TypeOK
  <2>5. AdmittedCovered'
    <3> SUFFICES ASSUME NEW id \in ClientIds
                 PROVE  admitted'[id] <= count'[id] + Cardinality(Pending(id)')
      BY DEF AdmittedCovered
    <3>1. CASE id = cid
      BY <1>2, <1>3, <1>9, <2>3, <3>1, PendingFinite DEF OvershootInv, AdmittedCovered, TypeOK
    <3>2. CASE id # cid
      BY <1>2, <1>3, <1>9, <2>4, <3>2 DEF OvershootInv, AdmittedCovered, TypeOK
    <3> QED  BY <3>1, <3>2
  <2>6. RecordedBounded'
    <3> SUFFICES ASSUME NEW id \in ClientIds
                 PROVE  count'[id] + Cardinality(Pending(id)')
                          <= Limit - 1 + Cardinality(Requests)
      BY DEF RecordedBounded
    <3>1. CASE id = cid
      \* the goroutines pending for cid before this one are the others
      <4>1. Cardinality(Pending(cid)') <= Cardinality(Requests)
        BY PendingFinitePrimed
      <4>2. count[cid] \in Nat /\ count[cid] <= Limit - 1
        BY <1>1, <1>3, <1>9 DEF TypeOK
      <4>3. count'[cid] + Cardinality(Pending(cid)') <= Limit - 1 + Cardinality(Requests)
        BY <1>2, <4>1, <4>2, PendingFinitePrimed, RequestsSize
      <4> QED  BY <3>1, <4>3
    <3>2. CASE id # cid
      BY <1>2, <2>4, <3>2 DEF OvershootInv, RecordedBounded
    <3> QED  BY <3>1, <3>2
  <2> QED  BY <1>5, <1>6, <2>5, <2>6 DEF OvershootInv
<1> QED  BY <1>4, <1>8, <1>9

\* RecordRequest: the goroutine stops being pending and its request is
\* counted, so what is recorded or pending for its client is unchanged.
LEMMA RecordRequestPreserves ==
    ASSUME OvershootInv, NEW r \in Requests, RecordRequest(r)
    PROVE  OvershootInv'
<1> DEFINE cid == ClientIdentifier(req[r])
<1>1. TypeOK /\ CheckedHaveRequests
  BY DEF OvershootInv
<1>2. pc[r] = "checked" /\ req[r] \in Req
  BY <1>1 DEF RecordRequest, CheckedHaveRequests
<1>3. cid \in ClientIds
  BY <1>2 DEF ClientIdentifier, ClientIds, Req
<1>4. /\ count' = [count EXCEPT ![cid] = @ + 1]
      /\ pc' = [pc EXCEPT ![r] = "idle"]
      /\ UNCHANGED <<config, req, admitted, arrivals>>
  BY DEF RecordRequest
<1>5. TypeOK'
  BY <1>1, <1>3, <1>4 DEF TypeOK
<1>6. CheckedHaveRequests'
  BY <1>1, <1>4 DEF CheckedHaveRequests, TypeOK
<1>7. r \in Pending(cid) /\ Pending(cid)' = Pending(cid) \ {r}
  BY <1>1, <1>2, <1>4 DEF Pending, TypeOK
<1>8. Cardinality(Pending(cid)') = Cardinality(Pending(cid)) - 1
  <2>1. IsFiniteSet(Pending(cid))
    BY PendingFinite
  <2> QED  BY <1>7, <2>1, FS_RemoveElement
<1>9. ASSUME NEW id, id # cid PROVE Pending(id)' = Pending(id)
  BY <1>1, <1>4, <1>9 DEF Pending, TypeOK
<1>10. ASSUME NEW id \in ClientIds
       PROVE  count'[id] + Cardinality(Pending(id)') = count[id] + Cardinality(Pending(id))
  <2>1. CASE id = cid
    BY <1>1, <1>3, <1>4, <1>8, <2>1, PendingFinite DEF TypeOK
  <2>2. CASE id # cid
    BY <1>1, <1>4, <1>9, <2>2 DEF TypeOK
  <2> QED  BY <2>1, <2>2
<1>11. AdmittedCovered' /\ RecordedBounded'
  BY <1>4, <1>10 DEF OvershootInv, AdmittedCovered, RecordedBounded
<1> QED  BY <1>5, <1>6, <1>11 DEF OvershootInv

\* The end of the limiter's window clears counts and admissions; what is
\* pending is bounded by the pool of goroutines, and Limit is at least 1.
LEMMA WindowEndsPreserves ==
    ASSUME OvershootInv, WindowEnds
    PROVE  OvershootInv'
<1>1. TypeOK' /\ CheckedHaveRequests'
  BY DEF OvershootInv, WindowEnds, TypeOK, CheckedHaveRequests
<1>2. \A id : Pending(id)' = Pending(id)
  BY DEF WindowEnds, Pending
<1>3. AdmittedCovered'
  BY <1>2, PendingFinite DEF WindowEnds, AdmittedCovered
<1>4. RecordedBounded'
  BY <1>2, PendingFinite, RequestsSize DEF WindowEnds, RecordedBounded
<1> QED  BY <1>1, <1>3, <1>4 DEF OvershootInv

\* A configuration change touches no goroutine, count or admission.
LEMMA ConfigPreserves ==
    ASSUME OvershootInv,
           \/ \E cfg \in Configs \cup {NilConfig} : UpdateConfig(cfg)
           \/ \E path \in Paths : AddSkipPath(path)
           \/ Done \/ UNCHANGED vars
    PROVE  OvershootInv'
<1>1. UNCHANGED <<pc, req, count, admitted, arrivals>>
  BY DEF UpdateConfig, AddSkipPath, Done, vars
<1>2. config' \in Configs
  BY DEF OvershootInv, TypeOK, UpdateConfig, AddSkipPath, Done, vars, Configs
<1>3. \A id : Pending(id)' = Pending(id)
  BY <1>1 DEF Pending
<1> QED  BY <1>1, <1>2, <1>3 DEF OvershootInv, TypeOK, CheckedHaveRequests,
                                 AdmittedCovered, RecordedBounded

\* The strengthened invariant is preserved by every step.
THEOREM OvershootInvNext == OvershootInv /\ [Next]_vars => OvershootInv'
<1> SUFFICES ASSUME OvershootInv, [Next]_vars PROVE OvershootInv'
  OBVIOUS
<1>1. CASE \E r \in Requests, q \in Req : Handler(r, q)
  BY <1>1, HandlerPreserves
<1>2. CASE \E r \in Requests : RecordRequest(r)
  BY <1>2, RecordRequestPreserves
<1>3. CASE WindowEnds
  BY <1>3, WindowEndsPreserves
<1>4. CASE \/ \E cfg \in Configs \cup {NilConfig} : UpdateConfig(cfg)
           \/ \E path \in Paths : AddSkipPath(path)
           \/ Done \/ UNCHANGED vars
  BY <1>4, ConfigPreserves
<1> QED  BY <1>1, <1>2, <1>3, <1>4 DEF Next

\* The middleware is well typed in every reachable state.
THEOREM RateLimitTypeCorrect == Spec => []TypeOK
<1>1. OvershootInv => TypeOK
  BY DEF OvershootInv
<1> QED  BY <1>1, OvershootInvInit, OvershootInvNext, PTL DEF Spec

\* However the request goroutines of a client interleave between CheckLimit
\* and RecordRequest in checkAuthRateLimit, the client gets through at most
\* Limit - 1 plus one request per goroutine in a window.
THEOREM OvershootBoundedHolds == Spec => []OvershootBounded
<1>1. OvershootInv => OvershootBounded
  <2> SUFFICES ASSUME OvershootInv, NEW id \in ClientIds
               PROVE  admitted[id] <= Limit - 1 + Cardinality(Requests)
    BY DEF OvershootBounded
  <2>1. Cardinality(Pending(id)) \in Nat
    BY PendingFinite
  <2>2. admitted[id] <= count[id] + Cardinality(Pending(id))
        /\ count[id] + Cardinality(Pending(id)) <= Limit - 1 + Cardinality(Requests)
    BY DEF OvershootInv, AdmittedCovered, RecordedBounded
  <2> QED  BY <2>1, <2>2, RequestsSize DEF OvershootInv, TypeOK
<1> QED  BY <1>1, OvershootInvInit, OvershootInvNext, PTL DEF Spec


\* The strengthening itself holds in every reachable state: each admission
\* of the window is recorded or pending between CheckLimit and
\* RecordRequest, and what is recorded or pending stays within Limit - 1
\* plus one request per goroutine (OvershootInv).
THEOREM OvershootInvHolds == Spec => []OvershootInv
<1> QED  BY OvershootInvInit, OvershootInvNext, PTL DEF Spec

=============================================================================
