------------------------ MODULE TokenScheduler_proofs ------------------------
(***************************************************************************)
(* Proofs about the token scheduler, for every value of the constants that *)
(* satisfies ConstAssumption: type correctness; under the instance lock    *)
(* the wait of a token on a record is ended at most once; and under the    *)
(* lock and without store faults no token is stranded.                     *)
(***************************************************************************)
EXTENDS TokenScheduler, TLAPS

USE ConstAssumption

(***************************************************************************)
(* TypeOK is not inductive by itself: a boundary-timer callback snapshots  *)
(* waitingFor and moves the token to BoundaryTarget of the snapshot's      *)
(* element, so the proof needs to know that a WAITING token waits on an    *)
(* issued id, that the boundary timers it armed belong to its element, and *)
(* that record ids below nextId keep their kind, token and element.        *)
(***************************************************************************)
IdsIssued == \A i \in Ids : rec[i].kind = "none" <=> i >= nextId

RecsOwned == \A i \in Ids : rec[i].kind # "none" => rec[i].tok \in Tokens /\ rec[i].at \in Elements

BoundariesTargeted == \A i \in Ids : rec[i].kind = "boundary" => BoundaryTarget[rec[i].at] # NoElem

InboxIssued == \A m \in inbox : m.id < nextId

WaitsIssued ==
    \A t \in Tokens : tstate[t] = "WAITING" =>
        /\ waitingFor[t] \in Ids
        /\ \A b \in btimers[t] : b < nextId /\ rec[b].kind = "boundary" /\ rec[b].at = elem[t]

HandlersLoaded ==
    \A h \in Handlers : hpc[h] # "idle" =>
        /\ hmsg[h] \in Msg /\ hsnap[h] \in Snap /\ hmsg[h].id < nextId
        /\ rec[hmsg[h].id].kind = "boundary" => hsnap[h].elem = rec[hmsg[h].id].at

TypeInv ==
    /\ TypeOK
    /\ IdsIssued
    /\ RecsOwned
    /\ BoundariesTargeted
    /\ InboxIssued
    /\ WaitsIssued
    /\ HandlersLoaded

\* The records keep their kind, token and element from one state to the next.
SameShape ==
    \A j \in Ids : rec'[j].kind = rec[j].kind /\ rec'[j].tok = rec[j].tok /\ rec'[j].at = rec[j].at

-----------------------------------------------------------------------------
\* A status update keeps the type of the records, and the kind, token and
\* element of every record.
LEMMA WithStateType ==
    ASSUME NEW r \in [Ids -> Rec], NEW i \in Ids, NEW s \in RecStates
    PROVE  /\ WithState(r, i, s) \in [Ids -> Rec]
           /\ \A j \in Ids : /\ WithState(r, i, s)[j].kind = r[j].kind
                             /\ WithState(r, i, s)[j].tok = r[j].tok
                             /\ WithState(r, i, s)[j].at = r[j].at
BY DEF WithState, Rec

\* So does cancelling the boundary timers of a token.
LEMMA CancelBoundaryTimersType ==
    ASSUME NEW r \in [Ids -> Rec], NEW t
    PROVE  /\ CancelBoundaryTimers(r, t) \in [Ids -> Rec]
           /\ \A i \in Ids : /\ CancelBoundaryTimers(r, t)[i].kind = r[i].kind
                             /\ CancelBoundaryTimers(r, t)[i].tok = r[i].tok
                             /\ CancelBoundaryTimers(r, t)[i].at = r[i].at
BY DEF CancelBoundaryTimers, WithState, Rec, RecStates

\* So does cancelling the EVENT timers of a token.
LEMMA CancelEventTimersType ==
    ASSUME NEW r \in [Ids -> Rec], NEW t
    PROVE  /\ CancelEventTimers(r, t) \in [Ids -> Rec]
           /\ \A i \in Ids : /\ CancelEventTimers(r, t)[i].kind = r[i].kind
                             /\ CancelEventTimers(r, t)[i].tok = r[i].tok
                             /\ CancelEventTimers(r, t)[i].at = r[i].at
BY DEF CancelEventTimers, WithState, Rec, RecStates

\* The records a callback leaves behind are rec after none, one or both of
\* the two cancellations.
LEMMA LeaveRecordsForms ==
    ASSUME NEW h \in Handlers, NEW r \in LeaveRecords(h)
    PROVE  LET t == hmsg[h].tok
               b == CancelBoundaryTimers(rec, t)
           IN  r \in {rec, b, CancelEventTimers(rec, t), CancelEventTimers(b, t)}
BY DEF LeaveRecords

\* The records a callback leaves behind differ from rec only in states.
LEMMA LeaveRecordsType ==
    ASSUME TypeInv, NEW h \in Handlers, hpc[h] # "idle",
           NEW r \in LeaveRecords(h)
    PROVE  /\ r \in [Ids -> Rec]
           /\ \A i \in Ids : /\ r[i].kind = rec[i].kind
                             /\ r[i].tok = rec[i].tok
                             /\ r[i].at = rec[i].at
<1>1. rec \in [Ids -> Rec]
  BY DEF TypeInv, TypeOK
<1> DEFINE t == hmsg[h].tok
           b == CancelBoundaryTimers(rec, t)
<1>2. /\ b \in [Ids -> Rec]
      /\ \A i \in Ids : b[i].kind = rec[i].kind /\ b[i].tok = rec[i].tok /\ b[i].at = rec[i].at
  BY <1>1, CancelBoundaryTimersType
<1>3. r \in {rec, b, CancelEventTimers(rec, t), CancelEventTimers(b, t)}
  BY LeaveRecordsForms
<1> HIDE DEF b
<1>4. CASE r = rec
  BY <1>1, <1>4
<1>5. CASE r = b
  BY <1>2, <1>5
<1>6. CASE r = CancelEventTimers(rec, t)
  BY <1>1, <1>6, CancelEventTimersType
<1>7. CASE r = CancelEventTimers(b, t)
  BY <1>2, <1>7, CancelEventTimersType
<1>8. QED
  BY <1>3, <1>4, <1>5, <1>6, <1>7

\* A step that changes records only in their states and issues no id keeps
\* the conjuncts about the records.
LEMMA ShapeKept ==
    ASSUME TypeInv, SameShape, UNCHANGED nextId
    PROVE  IdsIssued' /\ RecsOwned' /\ BoundariesTargeted'
<1>1. IdsIssued'
  BY DEF TypeInv, IdsIssued, SameShape
<1>2. RecsOwned'
  BY DEF TypeInv, RecsOwned, SameShape
<1>3. BoundariesTargeted'
  BY DEF TypeInv, BoundariesTargeted, SameShape
<1>4. QED
  BY <1>1, <1>2, <1>3

\* A step along the outgoing flow of an ACTIVE token, which changes nothing
\* but the token's state, element and visit, preserves the invariant.
LEMMA AdvanceTypeInv ==
    ASSUME TypeInv, NEW t \in Tokens, tstate[t] = "ACTIVE", Advance(t, elem[t]),
           UNCHANGED <<waitingFor, executed, btimers, rec, nextId, failures,
                       inbox, hpc, hmsg, hsnap, lock, resumes>>
    PROVE  TypeInv'
<1>1. CASE Succ[elem[t]] = {}
  <2>1. /\ tstate' = [tstate EXCEPT ![t] = "COMPLETED"]
        /\ driven' = [driven EXCEPT ![t] = FALSE]
        /\ UNCHANGED <<elem, visitChild>>
    BY <1>1 DEF Advance
  <2>2. QED
    BY <2>1 DEF TypeInv, TypeOK, TokenStates, IdsIssued, RecsOwned, BoundariesTargeted, InboxIssued, WaitsIssued, HandlersLoaded
<1>2. CASE Succ[elem[t]] # {}
  <2>1. PICK n \in Succ[elem[t]] : /\ elem' = [elem EXCEPT ![t] = n]
                                    /\ visitChild' = [visitChild EXCEPT ![t] = NoKey]
                                    /\ UNCHANGED <<tstate, driven>>
    BY <1>2 DEF Advance
  <2>2. n \in Elements
    BY DEF TypeInv, TypeOK
  <2>3. QED
    BY <2>1, <2>2 DEF TypeInv, TypeOK, TokenStates, IdsIssued, RecsOwned, BoundariesTargeted, InboxIssued, WaitsIssued, HandlersLoaded
<1>3. QED
  BY <1>1, <1>2

-----------------------------------------------------------------------------
\* The initial state satisfies the strengthened type invariant.
THEOREM TypeInvInit == Init => TypeInv
BY DEF Init, TypeInv, TypeOK, IdsIssued, RecsOwned, BoundariesTargeted, InboxIssued, WaitsIssued, HandlersLoaded, Ids, Rec, RecStates, RecKinds, TokenStates

\* Every step of the scheduler preserves the strengthened type invariant.
THEOREM TypeInvNext == TypeInv /\ [Next]_vars => TypeInv'
<1> SUFFICES ASSUME TypeInv, [Next]_vars PROVE TypeInv'
  OBVIOUS
<1> USE DEF TypeInv, TypeOK, TokenStates, Msg, IdsIssued, RecsOwned, BoundariesTargeted, InboxIssued, WaitsIssued, HandlersLoaded
<1>1. ASSUME NEW t \in Tokens, ExecPassThrough(t) PROVE TypeInv'
  BY <1>1, AdvanceTypeInv DEF ExecPassThrough, Runnable
<1>2. ASSUME NEW t \in Tokens, ExecEnd(t) PROVE TypeInv'
  BY <1>2 DEF ExecEnd, Runnable, Free
<1>3. ASSUME NEW t \in Tokens, ExecServiceTask(t) PROVE TypeInv'
  BY <1>3 DEF ExecServiceTask, Runnable, Free, Suspend, NewRec, Ids, Rec, RecKinds, RecStates
<1>4. ASSUME NEW t \in Tokens, ExecTimerCatch(t) PROVE TypeInv'
  BY <1>4 DEF ExecTimerCatch, Runnable, Free, Suspend, NewRec, Ids, Rec, RecKinds, RecStates
<1>5. ASSUME NEW t \in Tokens, ExecCallActivityDone(t) PROVE TypeInv'
  BY <1>5, AdvanceTypeInv DEF ExecCallActivityDone, Runnable
<1>6. ASSUME NEW t \in Tokens, ExecCallActivityStart(t) PROVE TypeInv'
  BY <1>6 DEF ExecCallActivityStart, Runnable, Free, Suspend, NewRec, Ids, Rec, RecKinds, RecStates
<1>7. ASSUME NEW t \in Tokens, ExecCallActivityFail(t) PROVE TypeInv'
  BY <1>7 DEF ExecCallActivityFail, Runnable, Free, Suspend, NewRec, Ids, Rec, RecKinds, RecStates
<1>8. ASSUME NEW id \in Ids, CompleteJob(id) \/ FireTimer(id) \/ CompleteChild(id)
      PROVE TypeInv'
  <2>1. /\ rec' = WithState(rec, id, "DONE")
        /\ inbox' = inbox \cup {[id |-> id, tok |-> rec[id].tok]}
        /\ rec[id].kind # "none"
        /\ UNCHANGED <<tokVars, nextId, failures, hpc, hmsg, hsnap, lock, resumes>>
    BY <1>8 DEF CompleteJob, FireTimer, CompleteChild
  <2>2. /\ WithState(rec, id, "DONE") \in [Ids -> Rec]
        /\ \A j \in Ids : /\ WithState(rec, id, "DONE")[j].kind = rec[j].kind
                          /\ WithState(rec, id, "DONE")[j].tok = rec[j].tok
                          /\ WithState(rec, id, "DONE")[j].at = rec[j].at
    BY WithStateType DEF RecStates
  <2> HIDE DEF WithState
  <2>3. IdsIssued' /\ RecsOwned' /\ BoundariesTargeted' /\ WaitsIssued' /\ HandlersLoaded'
    BY <2>1, <2>2, ShapeKept DEF SameShape, tokVars
  <2>4. TypeOK'
    BY <2>1, <2>2 DEF tokVars, RecsOwned, IdsIssued, Ids
  <2>5. InboxIssued'
    BY <2>1, <2>2 DEF InboxIssued, IdsIssued, Ids
  <2>6. QED
    BY <2>3, <2>4, <2>5
<1>9. ASSUME NEW id \in Ids, ResolveIncident(id) PROVE TypeInv'
  <2> DEFINE t == rec[id].tok
  <2>1. /\ rec[id].kind = "incident" /\ t \in Tokens
        /\ rec' = WithState(rec, id, "DONE")
        /\ tstate' = [tstate EXCEPT ![t] = "ACTIVE"]
        /\ waitingFor' = [waitingFor EXCEPT ![t] = NoKey]
        /\ driven' = [driven EXCEPT ![t] = TRUE]
        /\ resumes' = [resumes EXCEPT ![id] = @ + 1]
        /\ UNCHANGED <<elem, executed, btimers, nextId, failures, inbox, hpc, hmsg, hsnap, lock, visitChild>>
    BY <1>9 DEF ResolveIncident
  <2>2. /\ WithState(rec, id, "DONE") \in [Ids -> Rec]
        /\ \A j \in Ids : /\ WithState(rec, id, "DONE")[j].kind = rec[j].kind
                          /\ WithState(rec, id, "DONE")[j].tok = rec[j].tok
                          /\ WithState(rec, id, "DONE")[j].at = rec[j].at
    BY WithStateType DEF RecStates
  <2> HIDE DEF WithState
  <2>3. IdsIssued' /\ RecsOwned' /\ BoundariesTargeted'
    BY <2>1, <2>2, ShapeKept DEF SameShape
  <2>4. TypeOK'
    BY <2>1, <2>2
  <2>5. WaitsIssued'
    BY <2>1, <2>2
  <2>6. HandlersLoaded'
    BY <2>1, <2>2
  <2>7. QED
    BY <2>1, <2>3, <2>4, <2>5, <2>6
<1>10. ASSUME NEW h \in Handlers, NEW m \in Msg,
              LoadAndValidateToken(h, m) \/ LoadBoundaryTimerToken(h, m)
       PROVE TypeInv'
  <2>1. /\ Accept(h, m)
        /\ hpc[h] = "idle" /\ m \in inbox
        /\ tstate[m.tok] = "WAITING"
        /\ rec[m.id].kind = "boundary" => m.id \in btimers[m.tok]
    BY <1>10 DEF LoadAndValidateToken, LoadBoundaryTimerToken, Loadable, WaitsFor, ArmedBoundary
  <2>2. waitingFor[m.tok] \in Ids
    BY <2>1
  <2>3. /\ hsnap' = [hsnap EXCEPT ![h] = [elem |-> elem[m.tok], wf |-> waitingFor[m.tok],
                                         executed |-> executed[m.tok], btimers |-> btimers[m.tok]]]
        /\ hsnap'[h] \in Snap
        /\ hmsg' = [hmsg EXCEPT ![h] = m]
        /\ hpc' = [hpc EXCEPT ![h] = "validated"]
        /\ inbox' \subseteq inbox
        /\ lock' \in [Tokens -> Handlers \cup {NoHolder}]
        /\ UNCHANGED <<tokVars, rec, nextId, failures, resumes>>
    BY <2>1, <2>2 DEF Accept, Snap
  <2>4. rec[m.id].kind = "boundary" => hsnap'[h].elem = rec[m.id].at
    BY <2>1, <2>3
  <2>5. QED
    BY <2>1, <2>3, <2>4 DEF tokVars
<1>11. ASSUME NEW h \in Handlers, NEW m \in Msg, DropStaleCallback(h, m) PROVE TypeInv'
  BY <1>11 DEF DropStaleCallback, tokVars
<1>12. ASSUME NEW h \in Handlers, UpdateWaitingToken(h) PROVE TypeInv'
  <2> DEFINE t == hmsg[h].tok
             sn == hsnap[h]
  <2>1. /\ hpc[h] = "validated"
        /\ rec' \in LeaveRecords(h)
        /\ tstate' = [tstate EXCEPT ![t] = "ACTIVE"]
        /\ waitingFor' = [waitingFor EXCEPT ![t] = NoKey]
        /\ elem' = [elem EXCEPT ![t] = sn.elem]
        /\ executed' = [executed EXCEPT ![t] = sn.executed]
        /\ btimers' = [btimers EXCEPT ![t] = sn.btimers]
        /\ driven' = [driven EXCEPT ![t] = FALSE]
        /\ hpc' = [hpc EXCEPT ![h] = "updated"]
        /\ resumes' = [resumes EXCEPT ![sn.wf] = @ + 1]
        /\ UNCHANGED <<nextId, failures, inbox, hmsg, hsnap, lock, visitChild>>
    BY <1>12 DEF UpdateWaitingToken
  <2>2. t \in Tokens /\ sn \in Snap
    BY <2>1
  <2>3. rec' \in [Ids -> Rec] /\ SameShape
    BY <2>1, LeaveRecordsType DEF SameShape
  <2>4. IdsIssued' /\ RecsOwned' /\ BoundariesTargeted'
    BY <2>1, <2>3, ShapeKept
  <2>5. TypeOK'
    <3>1. /\ tstate' \in [Tokens -> TokenStates]
          /\ waitingFor' \in [Tokens -> Ids \cup {NoKey}]
          /\ driven' \in [Tokens -> BOOLEAN]
      BY <2>1, <2>2
    <3>2. /\ elem' \in [Tokens -> Elements]
          /\ executed' \in [Tokens -> SUBSET Elements]
          /\ btimers' \in [Tokens -> SUBSET Ids]
      BY <2>1, <2>2 DEF Snap
    <3>3. /\ hpc' \in [Handlers -> {"idle", "validated", "updated"}]
          /\ resumes' \in [Ids -> Nat]
      BY <2>1, <2>2 DEF Snap
    <3>4. QED
      BY <2>1, <2>3, <3>1, <3>2, <3>3
  <2>6. WaitsIssued'
    BY <2>1, <2>2, <2>3 DEF SameShape
  <2>7. HandlersLoaded'
    BY <2>1, <2>3 DEF SameShape
  <2>8. QED
    BY <2>1, <2>4, <2>5, <2>6, <2>7
<1>13. ASSUME NEW h \in Handlers, UpdateWaitingTokenFails(h) PROVE TypeInv'
  <2>1. /\ hpc[h] = "validated"
        /\ rec' \in LeaveRecords(h)
        /\ Finish(h, hmsg[h].tok)
        /\ UNCHANGED <<tokVars, nextId, failures, inbox, resumes>>
    BY <1>13 DEF UpdateWaitingTokenFails
  <2>2. rec' \in [Ids -> Rec] /\ SameShape
    BY <2>1, LeaveRecordsType DEF SameShape
  <2>3. IdsIssued' /\ RecsOwned' /\ BoundariesTargeted'
    BY <2>1, <2>2, ShapeKept
  <2>4. /\ hpc' = [hpc EXCEPT ![h] = "idle"]
        /\ hmsg' = [hmsg EXCEPT ![h] = NoMsg]
        /\ hsnap' = [hsnap EXCEPT ![h] = NoMsg]
        /\ lock' \in [Tokens -> Handlers \cup {NoHolder}]
    BY <2>1 DEF Finish
  <2>5. TypeOK'
    BY <2>1, <2>2, <2>4 DEF tokVars
  <2>6. WaitsIssued'
    BY <2>1, <2>2 DEF SameShape, tokVars
  <2>7. HandlersLoaded'
    BY <2>1, <2>2, <2>4 DEF SameShape
  <2>8. QED
    BY <2>1, <2>3, <2>5, <2>6, <2>7 DEF tokVars
<1>14. ASSUME NEW h \in Handlers, MoveTokenOn(h) PROVE TypeInv'
  BY <1>14 DEF MoveTokenOn, MoveLoadedToken, Finish, Snap
<1>15. ASSUME NEW h \in Handlers, MoveToBoundaryTarget(h) PROVE TypeInv'
  BY <1>15 DEF MoveToBoundaryTarget, MoveLoadedToken, Finish, Snap
<1>16. ASSUME NEW h \in Handlers, MoveFails(h) PROVE TypeInv'
  BY <1>16 DEF MoveFails, Finish, tokVars
<1>17. CASE Quiescent \/ UNCHANGED vars
  BY <1>17 DEF Quiescent, vars
<1>18. QED
  BY <1>1, <1>2, <1>3, <1>4, <1>5, <1>6, <1>7, <1>8, <1>9, <1>10, <1>11, <1>12,
     <1>13, <1>14, <1>15, <1>16, <1>17 DEF Next


\* Type correctness: in every reachable state every variable of the
\* scheduler, the records and the callback goroutines has its type.
THEOREM TypeCorrect == Spec => []TypeOK
<1>1. TypeInv => TypeOK
  BY DEF TypeInv
<1>2. QED
  BY <1>1, TypeInvInit, TypeInvNext, PTL DEF Spec

-----------------------------------------------------------------------------
(***************************************************************************)
(* Under the instance lock a suspension is ended at most once.  The        *)
(* argument: a goroutine between LoadAndValidateToken and the end of the   *)
(* move holds the lock of its token; while it holds it, the token it       *)
(* validated stays WAITING on the key it loaded, because every other step  *)
(* of that token needs the lock; a WAITING token waits on a key whose wait *)
(* has not been ended, and a key is never issued twice because nextId only *)
(* grows.                                                                  *)
(***************************************************************************)
LockHeld == \A h \in Handlers : hpc[h] # "idle" => lock[hmsg[h].tok] = h

LoadedWaits == \A h \in Handlers : hpc[h] = "validated" => WaitsFor(hmsg[h].tok, hsnap[h].wf)

WaitFresh ==
    \A t \in Tokens : tstate[t] = "WAITING" =>
        /\ resumes[waitingFor[t]] = 0
        /\ waitingFor[t] < nextId
        /\ rec[waitingFor[t]].tok = t

UnusedFresh == \A i \in Ids : i >= nextId => resumes[i] = 0

ResumeInv ==
    /\ TypeInv
    /\ LockHeld
    /\ LoadedWaits
    /\ WaitFresh
    /\ UnusedFresh
    /\ ResumedAtMostOnce

\* The initial state satisfies it.
THEOREM ResumeInvInit == Init => ResumeInv
<1>1. Init => TypeInv
  BY TypeInvInit
<1>2. QED
  BY <1>1 DEF Init, ResumeInv, LockHeld, LoadedWaits, WaitFresh, UnusedFresh,
             ResumedAtMostOnce, Ids

\* A step that suspends an unlocked ACTIVE token t on the fresh id nextId,
\* issuing at least that id and leaving the issued records alone, keeps the
\* conjuncts of ResumeInv that are about waits.
LEMMA SuspendFresh ==
    ASSUME ResumeInv, NEW t \in Tokens, lock[t] = NoHolder, tstate[t] = "ACTIVE",
           nextId \in Ids, nextId' \in Nat, nextId' > nextId, rec'[nextId].tok = t,
           \A i \in Ids : i < nextId => rec'[i] = rec[i],
           tstate' = [tstate EXCEPT ![t] = "WAITING"],
           waitingFor' = [waitingFor EXCEPT ![t] = nextId],
           UNCHANGED <<hpc, hmsg, hsnap, lock, resumes>>
    PROVE  LockHeld' /\ LoadedWaits' /\ WaitFresh' /\ UnusedFresh' /\ ResumedAtMostOnce'
<1> USE DEF ResumeInv, TypeInv, TypeOK
<1>1. LockHeld' /\ ResumedAtMostOnce'
  BY DEF LockHeld, ResumedAtMostOnce
<1>2. LoadedWaits'
  <2> SUFFICES ASSUME NEW h \in Handlers, hpc[h] = "validated"
               PROVE  WaitsFor(hmsg[h].tok, hsnap[h].wf)'
    BY DEF LoadedWaits
  <2>1. hmsg[h].tok # t
    BY DEF LockHeld, HandlersLoaded, Msg, NoHolder, Handlers
  <2>2. hmsg[h].tok \in Tokens
    BY DEF HandlersLoaded, Msg
  <2>3. QED
    BY <2>1, <2>2 DEF LoadedWaits, WaitsFor
<1>3. WaitFresh'
  <2> SUFFICES ASSUME NEW u \in Tokens, tstate'[u] = "WAITING"
               PROVE  /\ resumes'[waitingFor'[u]] = 0
                      /\ waitingFor'[u] < nextId'
                      /\ rec'[waitingFor'[u]].tok = u
    BY DEF WaitFresh
  <2>1. CASE u = t
    BY <2>1 DEF UnusedFresh, Ids
  <2>2. CASE u # t
    <3>1. tstate[u] = "WAITING" /\ waitingFor'[u] = waitingFor[u]
      BY <2>2
    <3>2. waitingFor[u] \in Ids /\ waitingFor[u] < nextId
      BY <3>1 DEF WaitFresh, WaitsIssued
    <3>3. QED
      BY <3>1, <3>2 DEF WaitFresh, Ids
  <2>3. QED
    BY <2>1, <2>2
<1>4. UnusedFresh'
  BY DEF UnusedFresh, Ids
<1>5. QED
  BY <1>1, <1>2, <1>3, <1>4

\* Under the instance lock every step preserves it.
THEOREM ResumeInvNext ==
    ASSUME UseInstanceLock
    PROVE  ResumeInv /\ [Next]_vars => ResumeInv'
<1> SUFFICES ASSUME ResumeInv, [Next]_vars PROVE ResumeInv'
  OBVIOUS
<1>0. TypeInv'
  BY TypeInvNext DEF ResumeInv
<1> DEFINE Rest == LockHeld /\ LoadedWaits /\ WaitFresh /\ UnusedFresh /\ ResumedAtMostOnce
<1> SUFFICES Rest'
  BY <1>0 DEF ResumeInv
<1> USE DEF ResumeInv, TypeInv, TypeOK, Msg, LockHeld, LoadedWaits, WaitFresh,
            UnusedFresh, ResumedAtMostOnce, WaitsFor, IdsIssued, HandlersLoaded
<1>1. ASSUME NEW t \in Tokens, ExecPassThrough(t) PROVE Rest'
  BY <1>1 DEF ExecPassThrough, Runnable, Free, Advance
<1>2. ASSUME NEW t \in Tokens, ExecEnd(t) PROVE Rest'
  BY <1>2 DEF ExecEnd, Runnable, Free
<1>3. ASSUME NEW t \in Tokens, ExecServiceTask(t) PROVE Rest'
  <2>1. /\ lock[t] = NoHolder /\ tstate[t] = "ACTIVE" /\ nextId \in Ids
        /\ nextId' \in Nat /\ nextId' > nextId /\ rec'[nextId].tok = t
        /\ \A i \in Ids : i < nextId => rec'[i] = rec[i]
        /\ tstate' = [tstate EXCEPT ![t] = "WAITING"]
        /\ waitingFor' = [waitingFor EXCEPT ![t] = nextId]
        /\ UNCHANGED <<hpc, hmsg, hsnap, lock, resumes>>
    BY <1>3 DEF ExecServiceTask, Runnable, Free, Suspend, NewRec, Ids
  <2>2. QED
    BY <2>1, SuspendFresh
<1>4. ASSUME NEW t \in Tokens, ExecTimerCatch(t) PROVE Rest'
  <2>1. /\ lock[t] = NoHolder /\ tstate[t] = "ACTIVE" /\ nextId \in Ids
        /\ nextId' \in Nat /\ nextId' > nextId /\ rec'[nextId].tok = t
        /\ \A i \in Ids : i < nextId => rec'[i] = rec[i]
        /\ tstate' = [tstate EXCEPT ![t] = "WAITING"]
        /\ waitingFor' = [waitingFor EXCEPT ![t] = nextId]
        /\ UNCHANGED <<hpc, hmsg, hsnap, lock, resumes>>
    BY <1>4 DEF ExecTimerCatch, Runnable, Free, Suspend, NewRec, Ids
  <2>2. QED
    BY <2>1, SuspendFresh
<1>5. ASSUME NEW t \in Tokens, ExecCallActivityDone(t) PROVE Rest'
  BY <1>5 DEF ExecCallActivityDone, Runnable, Free, Advance
<1>6. ASSUME NEW t \in Tokens, ExecCallActivityStart(t) PROVE Rest'
  <2>1. /\ lock[t] = NoHolder /\ tstate[t] = "ACTIVE" /\ nextId \in Ids
        /\ nextId' \in Nat /\ nextId' > nextId /\ rec'[nextId].tok = t
        /\ \A i \in Ids : i < nextId => rec'[i] = rec[i]
        /\ tstate' = [tstate EXCEPT ![t] = "WAITING"]
        /\ waitingFor' = [waitingFor EXCEPT ![t] = nextId]
        /\ UNCHANGED <<hpc, hmsg, hsnap, lock, resumes>>
    BY <1>6 DEF ExecCallActivityStart, Runnable, Free, Suspend, NewRec, Ids
  <2>2. QED
    BY <2>1, SuspendFresh
<1>7. ASSUME NEW t \in Tokens, ExecCallActivityFail(t) PROVE Rest'
  <2>1. /\ lock[t] = NoHolder /\ tstate[t] = "ACTIVE" /\ nextId \in Ids
        /\ nextId' \in Nat /\ nextId' > nextId /\ rec'[nextId].tok = t
        /\ \A i \in Ids : i < nextId => rec'[i] = rec[i]
        /\ tstate' = [tstate EXCEPT ![t] = "WAITING"]
        /\ waitingFor' = [waitingFor EXCEPT ![t] = nextId]
        /\ UNCHANGED <<hpc, hmsg, hsnap, lock, resumes>>
    BY <1>7 DEF ExecCallActivityFail, Runnable, Free, Suspend, NewRec, Ids
  <2>2. QED
    BY <2>1, SuspendFresh
<1>8. ASSUME NEW id \in Ids, CompleteJob(id) \/ FireTimer(id) \/ CompleteChild(id)
      PROVE Rest'
  <2>1. /\ rec' = WithState(rec, id, "DONE")
        /\ UNCHANGED <<tokVars, nextId, hpc, hmsg, hsnap, lock, resumes>>
    BY <1>8 DEF CompleteJob, FireTimer, CompleteChild
  <2>2. \A j \in Ids : WithState(rec, id, "DONE")[j].tok = rec[j].tok
    BY WithStateType DEF RecStates
  <2> HIDE DEF WithState
  <2>3. QED
    BY <2>1, <2>2 DEF tokVars, WaitsIssued
<1>9. ASSUME NEW id \in Ids, ResolveIncident(id) PROVE Rest'
  <2> DEFINE t == rec[id].tok
  <2>1. /\ rec[id].kind = "incident" /\ t \in Tokens
        /\ tstate[t] = "WAITING" /\ waitingFor[t] = id /\ lock[t] = NoHolder
        /\ rec' = WithState(rec, id, "DONE")
        /\ tstate' = [tstate EXCEPT ![t] = "ACTIVE"]
        /\ waitingFor' = [waitingFor EXCEPT ![t] = NoKey]
        /\ resumes' = [resumes EXCEPT ![id] = @ + 1]
        /\ UNCHANGED <<elem, executed, btimers, nextId, failures, inbox, hpc, hmsg, hsnap, lock, visitChild>>
    BY <1>9 DEF ResolveIncident, Free, RecsOwned
  <2>2. \A j \in Ids : WithState(rec, id, "DONE")[j].tok = rec[j].tok
    BY WithStateType DEF RecStates
  <2> HIDE DEF WithState
  <2>3. resumes[id] = 0 /\ id < nextId
    BY <2>1
  <2>4. \A u \in Tokens : tstate[u] = "WAITING" /\ u # t => waitingFor[u] # id
    BY <2>1
  <2>5. \A h \in Handlers : hpc[h] # "idle" => hmsg[h].tok # t
    BY <2>1 DEF NoHolder, Handlers
  <2>6. LockHeld' /\ ResumedAtMostOnce' /\ UnusedFresh'
    BY <2>1, <2>3 DEF Ids
  <2>7. LoadedWaits'
    BY <2>1, <2>5
  <2>8. WaitFresh'
    <3> SUFFICES ASSUME NEW u \in Tokens, tstate'[u] = "WAITING"
                 PROVE  /\ resumes'[waitingFor'[u]] = 0
                        /\ waitingFor'[u] < nextId'
                        /\ rec'[waitingFor'[u]].tok = u
      BY DEF WaitFresh
    <3>1. u # t
      BY <2>1
    <3>2. /\ tstate[u] = "WAITING" /\ waitingFor'[u] = waitingFor[u]
          /\ waitingFor[u] \in Ids /\ waitingFor[u] # id
      BY <2>1, <2>4, <3>1 DEF WaitsIssued
    <3>3. QED
      BY <2>1, <2>2, <3>2
  <2>9. QED
    BY <2>6, <2>7, <2>8
<1>10. ASSUME NEW h \in Handlers, NEW m \in Msg,
              LoadAndValidateToken(h, m) \/ LoadBoundaryTimerToken(h, m)
       PROVE Rest'
  <2> DEFINE t == m.tok
  <2>1. /\ hpc[h] = "idle" /\ lock[t] = NoHolder /\ tstate[t] = "WAITING"
        /\ hpc' = [hpc EXCEPT ![h] = "validated"]
        /\ hmsg' = [hmsg EXCEPT ![h] = m]
        /\ hsnap'[h].wf = waitingFor[t]
        /\ \A g \in Handlers \ {h} : hsnap'[g] = hsnap[g]
        /\ lock' = [lock EXCEPT ![t] = h]
        /\ UNCHANGED <<tokVars, rec, nextId, resumes>>
    BY <1>10 DEF LoadAndValidateToken, LoadBoundaryTimerToken, Loadable, Accept,
                 WaitsFor, ArmedBoundary, Free
  <2>2. \A g \in Handlers : hpc[g] # "idle" => hmsg[g].tok # t
    BY <2>1 DEF NoHolder, Handlers
  <2>3. LockHeld'
    BY <2>1, <2>2
  <2>4. LoadedWaits'
    BY <2>1 DEF tokVars
  <2>5. QED
    BY <2>1, <2>3, <2>4 DEF tokVars
<1>11. ASSUME NEW h \in Handlers, NEW m \in Msg, DropStaleCallback(h, m) PROVE Rest'
  BY <1>11 DEF DropStaleCallback, tokVars
<1>12. ASSUME NEW h \in Handlers, UpdateWaitingToken(h) PROVE Rest'
  <2> DEFINE t == hmsg[h].tok
             sn == hsnap[h]
  <2>1. /\ hpc[h] = "validated"
        /\ rec' \in LeaveRecords(h)
        /\ tstate' = [tstate EXCEPT ![t] = "ACTIVE"]
        /\ waitingFor' = [waitingFor EXCEPT ![t] = NoKey]
        /\ hpc' = [hpc EXCEPT ![h] = "updated"]
        /\ resumes' = [resumes EXCEPT ![sn.wf] = @ + 1]
        /\ UNCHANGED <<nextId, hmsg, hsnap, lock>>
    BY <1>12 DEF UpdateWaitingToken
  <2>2. /\ t \in Tokens /\ tstate[t] = "WAITING" /\ waitingFor[t] = sn.wf
        /\ sn.wf \in Ids /\ resumes[sn.wf] = 0 /\ sn.wf < nextId /\ rec[sn.wf].tok = t
        /\ lock[t] = h
    BY <2>1 DEF WaitsIssued
  <2>3. rec' \in [Ids -> Rec] /\ \A j \in Ids : rec'[j].tok = rec[j].tok
    BY <2>1, LeaveRecordsType
  <2>4. \A g \in Handlers : hpc[g] # "idle" /\ g # h => hmsg[g].tok # t
    BY <2>2
  <2>5. LockHeld' /\ ResumedAtMostOnce' /\ UnusedFresh'
    BY <2>1, <2>2 DEF Ids
  <2>6. LoadedWaits'
    BY <2>1, <2>4
  <2>7. WaitFresh'
    <3> SUFFICES ASSUME NEW u \in Tokens, tstate'[u] = "WAITING"
                 PROVE  /\ resumes'[waitingFor'[u]] = 0
                        /\ waitingFor'[u] < nextId'
                        /\ rec'[waitingFor'[u]].tok = u
      BY DEF WaitFresh
    <3>1. u # t
      BY <2>1, <2>2
    <3>2. /\ tstate[u] = "WAITING" /\ waitingFor'[u] = waitingFor[u]
          /\ waitingFor[u] \in Ids /\ waitingFor[u] # sn.wf
      BY <2>1, <2>2, <3>1 DEF WaitsIssued
    <3>3. QED
      BY <2>1, <2>3, <3>2
  <2>8. QED
    BY <2>5, <2>6, <2>7
<1>13. ASSUME NEW h \in Handlers, UpdateWaitingTokenFails(h) PROVE Rest'
  <2> DEFINE t == hmsg[h].tok
  <2>1. /\ hpc[h] = "validated"
        /\ rec' \in LeaveRecords(h)
        /\ hpc' = [hpc EXCEPT ![h] = "idle"]
        /\ hmsg' = [hmsg EXCEPT ![h] = NoMsg]
        /\ hsnap' = [hsnap EXCEPT ![h] = NoMsg]
        /\ lock' = [lock EXCEPT ![t] = NoHolder]
        /\ UNCHANGED <<tokVars, nextId, resumes>>
    BY <1>13 DEF UpdateWaitingTokenFails, Finish
  <2>2. t \in Tokens /\ lock[t] = h
    BY <2>1
  <2>3. rec' \in [Ids -> Rec] /\ \A j \in Ids : rec'[j].tok = rec[j].tok
    BY <2>1, LeaveRecordsType
  <2>4. \A g \in Handlers : hpc[g] # "idle" /\ g # h => hmsg[g].tok # t
    BY <2>2
  <2>5. LockHeld' /\ LoadedWaits'
    BY <2>1, <2>4 DEF tokVars
  <2>6. WaitFresh'
    BY <2>1, <2>3 DEF tokVars, WaitsIssued
  <2>7. QED
    BY <2>1, <2>5, <2>6 DEF tokVars
<1>14. ASSUME NEW h \in Handlers, MoveTokenOn(h) PROVE Rest'
  BY <1>14 DEF MoveTokenOn, MoveLoadedToken, Finish, NoHolder
<1>15. ASSUME NEW h \in Handlers, MoveToBoundaryTarget(h) PROVE Rest'
  BY <1>15 DEF MoveToBoundaryTarget, MoveLoadedToken, Finish, NoHolder
<1>16. ASSUME NEW h \in Handlers, MoveFails(h) PROVE Rest'
  BY <1>16 DEF MoveFails, Finish, tokVars, NoHolder
<1>17. CASE Quiescent \/ UNCHANGED vars
  BY <1>17 DEF Quiescent, vars
<1>18. QED
  BY <1>1, <1>2, <1>3, <1>4, <1>5, <1>6, <1>7, <1>8, <1>9, <1>10, <1>11, <1>12,
     <1>13, <1>14, <1>15, <1>16, <1>17 DEF Next

\* With the per-instance lock of spec 5, the wait of a token on a record is
\* ended at most once: the record's callback, a boundary timer and a
\* duplicated delivery never both resume the same suspension of the token
\* (LoadAndValidateToken / ProcessCallbackAndContinue, part_003).
THEOREM ResumedAtMostOnceUnderLock ==
    ASSUME UseInstanceLock
    PROVE  Spec => []ResumedAtMostOnce
<1>1. ResumeInv => ResumedAtMostOnce
  BY DEF ResumeInv
<1>2. QED
  BY <1>1, ResumeInvInit, ResumeInvNext, PTL DEF Spec

\* Under the instance lock the strengthening holds in every reachable
\* state: a goroutine between LoadAndValidateToken and the end of its move
\* holds its token's lock and the token still waits on the key it loaded,
\* and a WAITING token waits on a fresh key whose wait was never ended
\* (ResumeInv).
THEOREM ResumeInvHolds ==
    ASSUME UseInstanceLock
    PROVE  Spec => []ResumeInv
<1> QED  BY ResumeInvInit, ResumeInvNext, PTL DEF Spec


-----------------------------------------------------------------------------
(***************************************************************************)
(* No token is stranded, under the instance lock and without store faults. *)
(*                                                                         *)
(* NoStrandedToken is not inductive by itself.  A collaborator's callback  *)
(* keeps a WAITING token wakeable only if it names that token: the record  *)
(* a token waits on is its own (WaitFresh), and so are the boundary timers *)
(* its suspension armed (BoundaryOwned).  A duplicate or late callback is  *)
(* dropped as stale only when it is not valid, so the callback of the      *)
(* record a token waits on must be checked with WaitsFor, not as a         *)
(* boundary timer (WaitKind).  A goroutine that accepted a callback keeps  *)
(* its token in flight until the move, because its token's lock keeps      *)
(* every other step of that token out (LockHeld, LoadedWaits).             *)
(***************************************************************************)
WaitKind ==
    \A t \in Tokens : tstate[t] = "WAITING" => rec[waitingFor[t]].kind \in {"job", "timer", "call", "incident"}

BoundaryOwned ==
    \A t \in Tokens : tstate[t] = "WAITING" => \A b \in btimers[t] : rec[b].tok = t

StrandInv ==
    /\ ResumeInv
    /\ WaitKind
    /\ BoundaryOwned
    /\ NoStrandedToken


\* The kinds of record a suspension waits on.
WaitKinds == {"job", "timer", "call", "incident"}

\* The part of StrandInv about one token u.
Safe(u) ==
    /\ tstate[u] = "WAITING" =>
          /\ rec[waitingFor[u]].kind \in WaitKinds
          /\ \A b \in btimers[u] : rec[b].tok = u
          /\ CanWake(u) \/ InFlight(u)
    /\ tstate[u] = "ACTIVE" => driven[u] \/ InFlight(u)

\* StrandInv is ResumeInv and Safe for every token.
LEMMA StrandInvSafe ==
    StrandInv <=> ResumeInv /\ \A u \in Tokens : Safe(u)
BY DEF StrandInv, WaitKind, BoundaryOwned, NoStrandedToken, Safe, WaitKinds

\* A token can still be woken after a step that keeps its wait and its
\* armed timers, keeps every record of them pending or delivers its
\* callback, and loses none of their callbacks.
LEMMA CanWakeFrame ==
    ASSUME NEW u, waitingFor'[u] = waitingFor[u], btimers'[u] = btimers[u],
           \A i \in {waitingFor[u]} \cup btimers[u] :
               /\ rec[i].st = "PENDING" => rec'[i].st = "PENDING" \/ [id |-> i, tok |-> u] \in inbox'
               /\ [id |-> i, tok |-> u] \in inbox => [id |-> i, tok |-> u] \in inbox'
    PROVE  CanWake(u) => CanWake(u)'
BY DEF CanWake

\* A step that leaves token u as it was, keeps it in flight if it was, and
\* keeps its records' kinds, owners and wakeability keeps Safe(u).
LEMMA SafeKept ==
    ASSUME NEW u, Safe(u),
           tstate'[u] = tstate[u], waitingFor'[u] = waitingFor[u],
           btimers'[u] = btimers[u], driven'[u] = driven[u],
           InFlight(u) => InFlight(u)',
           tstate[u] = "WAITING" =>
               /\ rec'[waitingFor[u]].kind = rec[waitingFor[u]].kind
               /\ \A b \in btimers[u] : rec'[b].tok = rec[b].tok
               /\ CanWake(u) => CanWake(u)'
    PROVE  Safe(u)'
BY DEF Safe

\* The initial state satisfies StrandInv: every token is ACTIVE and driven.
THEOREM StrandInvInit == Init => StrandInv
<1> SUFFICES ASSUME Init PROVE StrandInv
  OBVIOUS
<1>1. ResumeInv
  BY ResumeInvInit
<1>2. \A u \in Tokens : Safe(u)
  BY DEF Init, Safe
<1> QED  BY <1>1, <1>2, StrandInvSafe

\* An executor step of token t issues records from nextId on and touches no
\* other token, no callback and no goroutine: every other token stays safe.
LEMMA ExecOthers ==
    ASSUME StrandInv, NEW t \in Tokens, Runnable(t),
           \A i \in Ids : i < nextId => rec'[i] = rec[i],
           UNCHANGED <<inbox, hpc, hmsg>>,
           \A v \in Tokens \ {t} : /\ tstate'[v] = tstate[v] /\ waitingFor'[v] = waitingFor[v]
                                   /\ btimers'[v] = btimers[v] /\ driven'[v] = driven[v],
           NEW u \in Tokens \ {t}
    PROVE  Safe(u)'
<1>1. Safe(u)
  BY StrandInvSafe
<1>2. InFlight(u) <=> InFlight(u)'
  BY DEF InFlight
<1>3. ASSUME tstate[u] = "WAITING"
      PROVE  \A i \in {waitingFor[u]} \cup btimers[u] : i \in Ids /\ i < nextId
  BY <1>3 DEF StrandInv, ResumeInv, WaitFresh, TypeInv, WaitsIssued, TypeOK
<1>4. ASSUME tstate[u] = "WAITING"
      PROVE  /\ rec'[waitingFor[u]].kind = rec[waitingFor[u]].kind
             /\ \A b \in btimers[u] : rec'[b].tok = rec[b].tok
             /\ CanWake(u) => CanWake(u)'
  <2>1. \A i \in {waitingFor[u]} \cup btimers[u] : rec'[i] = rec[i]
    BY <1>3, <1>4
  <2>2. CanWake(u) => CanWake(u)'
    BY <2>1, CanWakeFrame
  <2> QED  BY <2>1, <2>2
<1> QED  BY <1>1, <1>2, <1>4, SafeKept


\* An executor step that leaves token t ACTIVE and driven, or completes it,
\* keeps every token safe.
LEMMA DrivenStep ==
    ASSUME StrandInv, NEW t \in Tokens, Runnable(t),
           \/ tstate' = [tstate EXCEPT ![t] = "COMPLETED"]
           \/ UNCHANGED <<tstate, driven>>,
           \A v \in Tokens \ {t} : driven'[v] = driven[v],
           UNCHANGED <<waitingFor, btimers, rec, inbox, hpc, hmsg>>
    PROVE  \A u \in Tokens : Safe(u)'
<1>0. TypeOK
  BY DEF StrandInv, ResumeInv, TypeInv
<1>1. \A v \in Tokens \ {t} : tstate'[v] = tstate[v]
  BY <1>0 DEF TypeOK
<1>2. Safe(t)'
  BY <1>0 DEF Runnable, Safe, TypeOK
<1>3. ASSUME NEW u \in Tokens \ {t} PROVE Safe(u)'
  BY <1>1, ExecOthers
<1> QED  BY <1>2, <1>3

\* An executor step that suspends token t on the fresh record nextId, of a
\* kind a suspension waits on, arming timers of its own, keeps every token
\* safe.
LEMMA SuspendStep ==
    ASSUME StrandInv, NEW t \in Tokens, Runnable(t), NEW bts \in SUBSET Ids,
           Suspend(t, nextId, bts), nextId \in Ids,
           rec'[nextId].kind \in WaitKinds, rec'[nextId].st = "PENDING",
           \A b \in bts : rec'[b].tok = t,
           \A i \in Ids : i < nextId => rec'[i] = rec[i],
           UNCHANGED <<inbox, hpc, hmsg>>
    PROVE  \A u \in Tokens : Safe(u)'
<1>0. TypeOK
  BY DEF StrandInv, ResumeInv, TypeInv
<1>1. /\ tstate'[t] = "WAITING" /\ waitingFor'[t] = nextId /\ btimers'[t] = bts
      /\ \A v \in Tokens \ {t} : /\ tstate'[v] = tstate[v] /\ waitingFor'[v] = waitingFor[v]
                                 /\ btimers'[v] = btimers[v] /\ driven'[v] = driven[v]
  BY <1>0 DEF Suspend, TypeOK
<1>2. CanWake(t)'
  BY <1>1 DEF CanWake
<1>3. Safe(t)'
  BY <1>1, <1>2 DEF Safe
<1>4. ASSUME NEW u \in Tokens \ {t} PROVE Safe(u)'
  BY <1>1, ExecOthers
<1> QED  BY <1>3, <1>4


\* The record a WAITING token waits on and the timers it armed are issued
\* records of that token.
LEMMA WaitOwned ==
    ASSUME StrandInv, NEW u \in Tokens, tstate[u] = "WAITING"
    PROVE  \A i \in {waitingFor[u]} \cup btimers[u] : i \in Ids /\ rec[i].tok = u
<1>1. waitingFor[u] \in Ids /\ rec[waitingFor[u]].tok = u
  BY DEF StrandInv, ResumeInv, WaitFresh, TypeInv, WaitsIssued
<1>2. btimers[u] \subseteq Ids
  BY DEF StrandInv, ResumeInv, TypeInv, TypeOK
<1>3. \A b \in btimers[u] : rec[b].tok = u
  BY StrandInvSafe DEF Safe
<1> QED  BY <1>1, <1>2, <1>3

\* A collaborator fires a pending record and delivers its callback to the
\* record's token: every token stays safe, the record's own token because
\* the callback now wakes it.
LEMMA FireStep ==
    ASSUME StrandInv, NEW id \in Ids, rec[id].st = "PENDING",
           rec' = WithState(rec, id, "DONE"),
           inbox' = inbox \cup {[id |-> id, tok |-> rec[id].tok]},
           UNCHANGED <<tokVars, hpc, hmsg>>
    PROVE  \A u \in Tokens : Safe(u)'
<1> SUFFICES ASSUME NEW u \in Tokens PROVE Safe(u)'
  OBVIOUS
<1>0. TypeOK /\ Safe(u)
  BY StrandInvSafe DEF StrandInv, ResumeInv, TypeInv
<1>1. /\ \A j \in Ids : rec'[j].kind = rec[j].kind /\ rec'[j].tok = rec[j].tok
      /\ \A j \in Ids \ {id} : rec'[j] = rec[j]
  BY <1>0, WithStateType DEF TypeOK, RecStates, WithState
<1>2. InFlight(u) <=> InFlight(u)'
  BY DEF InFlight, tokVars
<1>3. ASSUME tstate[u] = "WAITING"
      PROVE  \A i \in {waitingFor[u]} \cup btimers[u] : i \in Ids /\ rec[i].tok = u
  BY <1>3, WaitOwned
<1>4. ASSUME tstate[u] = "WAITING" PROVE CanWake(u) => CanWake(u)'
  <2>1. \A i \in {waitingFor[u]} \cup btimers[u] :
            /\ rec[i].st = "PENDING" => rec'[i].st = "PENDING" \/ [id |-> i, tok |-> u] \in inbox'
            /\ [id |-> i, tok |-> u] \in inbox => [id |-> i, tok |-> u] \in inbox'
    BY <1>1, <1>3, <1>4
  <2> QED  BY <2>1, CanWakeFrame DEF tokVars
<1>5. tstate[u] = "WAITING" => \A b \in btimers[u] : rec'[b].tok = rec[b].tok
  BY <1>1, <1>3
<1>6. tstate[u] = "WAITING" => rec'[waitingFor[u]].kind = rec[waitingFor[u]].kind
  BY <1>1, <1>3
<1> QED  BY <1>0, <1>2, <1>4, <1>5, <1>6, SafeKept DEF tokVars

\* An operator resolves the incident token t waits on: t is ACTIVE and
\* driven again, and no other token's records or callbacks change.
LEMMA ResolveStep ==
    ASSUME StrandInv, NEW id \in Ids, ResolveIncident(id)
    PROVE  \A u \in Tokens : Safe(u)'
<1> SUFFICES ASSUME NEW u \in Tokens PROVE Safe(u)'
  OBVIOUS
<1>0. TypeOK /\ Safe(u) /\ RecsOwned /\ WaitFresh
  BY StrandInvSafe DEF StrandInv, ResumeInv, TypeInv
<1>1. /\ rec[id].kind = "incident" /\ rec[id].tok \in Tokens
      /\ rec' = WithState(rec, id, "DONE")
      /\ tstate' = [tstate EXCEPT ![rec[id].tok] = "ACTIVE"]
      /\ driven' = [driven EXCEPT ![rec[id].tok] = TRUE]
      /\ waitingFor' = [waitingFor EXCEPT ![rec[id].tok] = NoKey]
      /\ UNCHANGED <<btimers, inbox, hpc, hmsg>>
  BY <1>0 DEF ResolveIncident, RecsOwned
<1>2. CASE u = rec[id].tok
  BY <1>0, <1>1, <1>2 DEF Safe, TypeOK
<1>3. CASE u # rec[id].tok
  <2>1. /\ \A j \in Ids : rec'[j].kind = rec[j].kind /\ rec'[j].tok = rec[j].tok
        /\ \A j \in Ids \ {id} : rec'[j] = rec[j]
    BY <1>0, <1>1, WithStateType DEF TypeOK, RecStates, WithState
  <2>2. /\ tstate'[u] = tstate[u] /\ waitingFor'[u] = waitingFor[u]
        /\ btimers'[u] = btimers[u] /\ driven'[u] = driven[u]
    BY <1>0, <1>1, <1>3 DEF TypeOK
  <2>3. InFlight(u) <=> InFlight(u)'
    BY <1>1 DEF InFlight
  <2>4. ASSUME tstate[u] = "WAITING"
        PROVE  \A i \in {waitingFor[u]} \cup btimers[u] : i \in Ids \ {id}
    BY <1>3, <2>4, WaitOwned
  <2>5. ASSUME tstate[u] = "WAITING" PROVE CanWake(u) => CanWake(u)'
    <3>1. \A i \in {waitingFor[u]} \cup btimers[u] : rec'[i] = rec[i]
      BY <2>1, <2>4, <2>5
    <3> QED  BY <1>1, <2>2, <3>1, CanWakeFrame
  <2>6. tstate[u] = "WAITING" =>
            /\ rec'[waitingFor[u]].kind = rec[waitingFor[u]].kind
            /\ \A b \in btimers[u] : rec'[b].tok = rec[b].tok
    BY <2>1, <2>4
  <2> QED  BY <1>0, <2>2, <2>3, <2>5, <2>6, SafeKept
<1> QED  BY <1>2, <1>3


\* A goroutine accepts callback m: m's token is in flight from now on, and
\* the callbacks of every other token stay in the inbox.
LEMMA AcceptStep ==
    ASSUME StrandInv, NEW h \in Handlers, NEW m \in Msg,
           LoadAndValidateToken(h, m) \/ LoadBoundaryTimerToken(h, m)
    PROVE  \A u \in Tokens : Safe(u)'
<1> SUFFICES ASSUME NEW u \in Tokens PROVE Safe(u)'
  OBVIOUS
<1>0. TypeOK /\ Safe(u)
  BY StrandInvSafe DEF StrandInv, ResumeInv, TypeInv
<1>1. /\ hpc[h] = "idle"
      /\ inbox' \in {inbox, inbox \ {m}}
      /\ hpc' = [hpc EXCEPT ![h] = "validated"]
      /\ hmsg' = [hmsg EXCEPT ![h] = m]
      /\ UNCHANGED <<tokVars, rec>>
  BY DEF LoadAndValidateToken, LoadBoundaryTimerToken, Loadable, Accept
<1>2. CASE u = m.tok
  <2>1. InFlight(u)'
    BY <1>0, <1>1, <1>2 DEF InFlight, TypeOK
  <2> QED  BY <1>0, <1>1, <2>1 DEF Safe, tokVars
<1>3. CASE u # m.tok
  <2>1. InFlight(u) => InFlight(u)'
    BY <1>0, <1>1 DEF InFlight, TypeOK
  <2>2. ASSUME tstate[u] = "WAITING" PROVE CanWake(u) => CanWake(u)'
    <3>1. \A i \in {waitingFor[u]} \cup btimers[u] :
              [id |-> i, tok |-> u] \in inbox => [id |-> i, tok |-> u] \in inbox'
      BY <1>1, <1>3
    <3> QED  BY <1>1, <3>1, CanWakeFrame DEF tokVars
  <2> QED  BY <1>0, <1>1, <2>1, <2>2, SafeKept DEF tokVars
<1> QED  BY <1>2, <1>3

\* A callback dropped as stale is none that could still wake its token: the
\* callback of the record a token waits on passes WaitsFor, that of a timer
\* its suspension armed passes ArmedBoundary.
LEMMA DropStep ==
    ASSUME StrandInv, NEW h \in Handlers, NEW m \in Msg, DropStaleCallback(h, m)
    PROVE  \A u \in Tokens : Safe(u)'
<1> SUFFICES ASSUME NEW u \in Tokens PROVE Safe(u)'
  OBVIOUS
<1>0. TypeOK /\ Safe(u)
  BY StrandInvSafe DEF StrandInv, ResumeInv, TypeInv
<1>1. /\ ~ValidCallback(m) /\ inbox' = inbox \ {m}
      /\ UNCHANGED <<tokVars, rec, hpc, hmsg>>
  BY DEF DropStaleCallback
<1>2. ASSUME tstate[u] = "WAITING" PROVE CanWake(u) => CanWake(u)'
  <2>1. rec[waitingFor[u]].kind # "boundary"
    BY <1>0, <1>2 DEF Safe, WaitKinds
  <2>2. \A b \in btimers[u] : rec[b].kind = "boundary"
    BY <1>2 DEF StrandInv, ResumeInv, TypeInv, WaitsIssued
  <2>3. m # [id |-> waitingFor[u], tok |-> u]
    BY <1>1, <1>2, <2>1 DEF ValidCallback, WaitsFor
  <2>4. \A b \in btimers[u] : m # [id |-> b, tok |-> u]
    BY <1>1, <1>2, <2>2 DEF ValidCallback, ArmedBoundary
  <2>5. \A i \in {waitingFor[u]} \cup btimers[u] :
            [id |-> i, tok |-> u] \in inbox => [id |-> i, tok |-> u] \in inbox'
    BY <1>1, <2>3, <2>4
  <2> QED  BY <1>1, <2>5, CanWakeFrame DEF tokVars
<1>3. InFlight(u) => InFlight(u)'
  BY <1>1 DEF InFlight
<1> QED  BY <1>0, <1>1, <1>2, <1>3, SafeKept DEF tokVars

\* The records a goroutine leaves behind for token t differ from rec only
\* in records of t.
LEMMA LeaveOthers ==
    ASSUME StrandInv, NEW h \in Handlers, NEW r \in LeaveRecords(h), NEW i \in Ids,
           rec[i].tok # hmsg[h].tok
    PROVE  r[i] = rec[i]
<1>1. rec \in [Ids -> Rec]
  BY DEF StrandInv, ResumeInv, TypeInv, TypeOK
<1> DEFINE t == hmsg[h].tok
           b == CancelBoundaryTimers(rec, t)
<1>2. b[i] = rec[i] /\ b \in [Ids -> Rec]
  BY <1>1, CancelBoundaryTimersType DEF CancelBoundaryTimers
<1>3. CancelEventTimers(rec, t)[i] = rec[i]
  BY <1>1 DEF CancelEventTimers
<1>4. CancelEventTimers(b, t)[i] = b[i]
  BY <1>2 DEF CancelEventTimers
<1>5. r \in {rec, b, CancelEventTimers(rec, t), CancelEventTimers(b, t)}
  BY LeaveRecordsForms
<1> QED  BY <1>2, <1>3, <1>4, <1>5


\* UpdateToken writes the loaded token back ACTIVE; the goroutine keeps it
\* in flight until the move, and only records of that token change.
LEMMA UpdateStep ==
    ASSUME StrandInv, NEW h \in Handlers, UpdateWaitingToken(h)
    PROVE  \A u \in Tokens : Safe(u)'
<1> SUFFICES ASSUME NEW u \in Tokens PROVE Safe(u)'
  OBVIOUS
<1>0. TypeOK /\ Safe(u) /\ hmsg[h].tok \in Tokens
  BY StrandInvSafe DEF StrandInv, ResumeInv, TypeInv, HandlersLoaded, UpdateWaitingToken, Msg
<1>1. /\ hpc[h] = "validated"
      /\ rec' \in LeaveRecords(h)
      /\ tstate' = [tstate EXCEPT ![hmsg[h].tok] = "ACTIVE"]
      /\ waitingFor' = [waitingFor EXCEPT ![hmsg[h].tok] = NoKey]
      /\ btimers' = [btimers EXCEPT ![hmsg[h].tok] = hsnap[h].btimers]
      /\ driven' = [driven EXCEPT ![hmsg[h].tok] = FALSE]
      /\ hpc' = [hpc EXCEPT ![h] = "updated"]
      /\ UNCHANGED <<inbox, hmsg>>
  BY DEF UpdateWaitingToken
<1>2. InFlight(u) <=> InFlight(u)'
  BY <1>0, <1>1 DEF InFlight, TypeOK
<1>3. CASE u = hmsg[h].tok
  <2>1. InFlight(u)'
    BY <1>0, <1>1, <1>3 DEF InFlight, TypeOK
  <2> QED  BY <1>0, <1>1, <1>3, <2>1 DEF Safe, TypeOK
<1>4. CASE u # hmsg[h].tok
  <2>1. /\ tstate'[u] = tstate[u] /\ waitingFor'[u] = waitingFor[u]
        /\ btimers'[u] = btimers[u] /\ driven'[u] = driven[u]
    BY <1>0, <1>1, <1>4 DEF TypeOK
  <2>2. ASSUME tstate[u] = "WAITING"
        PROVE  \A i \in {waitingFor[u]} \cup btimers[u] : rec'[i] = rec[i]
    <3>1. \A i \in {waitingFor[u]} \cup btimers[u] : i \in Ids /\ rec[i].tok = u
      BY <2>2, WaitOwned
    <3> QED  BY <1>1, <1>4, <3>1, LeaveOthers
  <2>3. ASSUME tstate[u] = "WAITING" PROVE CanWake(u) => CanWake(u)'
    BY <1>1, <2>1, <2>2, <2>3, CanWakeFrame
  <2> QED  BY <1>0, <1>2, <2>1, <2>2, <2>3, SafeKept
<1> QED  BY <1>3, <1>4

\* The move of the loaded token: it is ACTIVE and executed on, and the
\* goroutine lets it go.
LEMMA MoveStep ==
    ASSUME StrandInv, NEW h \in Handlers, hpc[h] = "updated", NEW n,
           MoveLoadedToken(h, n), Finish(h, hmsg[h].tok), UNCHANGED <<rec, inbox>>
    PROVE  \A u \in Tokens : Safe(u)'
<1> SUFFICES ASSUME NEW u \in Tokens PROVE Safe(u)'
  OBVIOUS
<1>0. TypeOK /\ Safe(u) /\ hmsg[h].tok \in Tokens
  BY StrandInvSafe DEF StrandInv, ResumeInv, TypeInv, HandlersLoaded, Msg
<1>1. /\ tstate' = [tstate EXCEPT ![hmsg[h].tok] = "ACTIVE"]
      /\ waitingFor' = [waitingFor EXCEPT ![hmsg[h].tok] = NoKey]
      /\ btimers' = [btimers EXCEPT ![hmsg[h].tok] = hsnap[h].btimers]
      /\ driven' = [driven EXCEPT ![hmsg[h].tok] = TRUE]
      /\ hpc' = [hpc EXCEPT ![h] = "idle"]
      /\ hmsg' = [hmsg EXCEPT ![h] = NoMsg]
  BY DEF MoveLoadedToken, Finish
<1>2. CASE u = hmsg[h].tok
  BY <1>0, <1>1, <1>2 DEF Safe, TypeOK
<1>3. CASE u # hmsg[h].tok
  <2>1. /\ tstate'[u] = tstate[u] /\ waitingFor'[u] = waitingFor[u]
        /\ btimers'[u] = btimers[u] /\ driven'[u] = driven[u]
    BY <1>0, <1>1, <1>3 DEF TypeOK
  <2>2. InFlight(u) => InFlight(u)'
    BY <1>0, <1>1, <1>3 DEF InFlight, TypeOK
  <2>3. CanWake(u) => CanWake(u)'
    BY <2>1, CanWakeFrame
  <2> QED  BY <1>0, <2>1, <2>2, <2>3, SafeKept
<1> QED  BY <1>2, <1>3


\* The boundary timers ExecServiceTask arms for token t.
ServiceTimers(t) == IF BoundaryTarget[elem[t]] # NoElem THEN {nextId + 1} ELSE {}

\* Under the instance lock and without store faults every step keeps
\* StrandInv.
THEOREM StrandInvNext ==
    ASSUME UseInstanceLock, ~StoreFaults
    PROVE  StrandInv /\ [Next]_vars => StrandInv'
<1> SUFFICES ASSUME StrandInv, [Next]_vars PROVE StrandInv'
  OBVIOUS
<1>0. ResumeInv' /\ TypeOK
  BY ResumeInvNext DEF StrandInv, ResumeInv, TypeInv
<1> SUFFICES \A u \in Tokens : Safe(u)'
  BY <1>0 DEF StrandInv, WaitKind, BoundaryOwned, NoStrandedToken, Safe, WaitKinds
<1>1. ASSUME NEW t \in Tokens, ExecPassThrough(t) \/ ExecCallActivityDone(t)
      PROVE  \A u \in Tokens : Safe(u)'
  <2>1. /\ Runnable(t)
        /\ \/ tstate' = [tstate EXCEPT ![t] = "COMPLETED"]
           \/ UNCHANGED <<tstate, driven>>
        /\ \A v \in Tokens \ {t} : driven'[v] = driven[v]
        /\ UNCHANGED <<waitingFor, btimers, rec, inbox, hpc, hmsg>>
    BY <1>0, <1>1 DEF ExecPassThrough, ExecCallActivityDone, Advance, TypeOK
  <2> QED  BY <2>1, DrivenStep
<1>2. ASSUME NEW t \in Tokens, ExecEnd(t) PROVE \A u \in Tokens : Safe(u)'
  <2>1. /\ Runnable(t)
        /\ tstate' = [tstate EXCEPT ![t] = "COMPLETED"]
        /\ \A v \in Tokens \ {t} : driven'[v] = driven[v]
        /\ UNCHANGED <<waitingFor, btimers, rec, inbox, hpc, hmsg>>
    BY <1>0, <1>2 DEF ExecEnd, TypeOK
  <2>2. \/ tstate' = [tstate EXCEPT ![t] = "COMPLETED"]
        \/ UNCHANGED <<tstate, driven>>
    BY <2>1
  <2> QED  BY <2>1, <2>2, DrivenStep, ZenonT(60)
<1>3. ASSUME NEW t \in Tokens, ExecServiceTask(t) PROVE \A u \in Tokens : Safe(u)'
  <2>1. /\ Runnable(t) /\ nextId \in Ids /\ ServiceTimers(t) \in SUBSET Ids
        /\ Suspend(t, nextId, ServiceTimers(t))
        /\ rec'[nextId] = NewRec("job", t, elem[t])
        /\ \A b \in ServiceTimers(t) : rec'[b] = NewRec("boundary", t, elem[t])
        /\ \A i \in Ids : i < nextId => rec'[i] = rec[i]
        /\ UNCHANGED <<inbox, hpc, hmsg>>
    BY <1>0, <1>3 DEF ExecServiceTask, ServiceTimers, TypeOK, Ids
  <2>2. rec'[nextId].kind \in WaitKinds /\ rec'[nextId].st = "PENDING"
    BY <2>1 DEF NewRec, WaitKinds
  <2>3. \A b \in ServiceTimers(t) : rec'[b].tok = t
    BY <2>1 DEF NewRec
  <2> QED  BY <2>1, <2>2, <2>3, SuspendStep, ZenonT(60)
<1>4. ASSUME NEW t \in Tokens,
             \/ ExecTimerCatch(t) \/ ExecCallActivityStart(t) \/ ExecCallActivityFail(t)
      PROVE  \A u \in Tokens : Safe(u)'
  <2>1. /\ Runnable(t) /\ nextId \in Ids
        /\ Suspend(t, nextId, {})
        /\ rec' = [rec EXCEPT ![nextId] = NewRec(rec'[nextId].kind, t, elem[t])]
        /\ rec'[nextId].kind \in WaitKinds
        /\ UNCHANGED <<inbox, hpc, hmsg>>
    BY <1>0, <1>4 DEF ExecTimerCatch, ExecCallActivityStart, ExecCallActivityFail,
                      TypeOK, Ids, NewRec, WaitKinds
  <2>2. /\ rec'[nextId].st = "PENDING"
        /\ \A i \in Ids : i < nextId => rec'[i] = rec[i]
    BY <1>0, <2>1 DEF TypeOK, NewRec, Ids
  <2>3. {} \in SUBSET Ids /\ \A b \in {} : rec'[b].tok = t
    OBVIOUS
  <2> QED  BY <2>1, <2>2, <2>3, SuspendStep, ZenonT(60)
<1>5. ASSUME NEW id \in Ids, CompleteJob(id) \/ FireTimer(id) \/ CompleteChild(id)
      PROVE  \A u \in Tokens : Safe(u)'
  <2>1. /\ rec[id].st = "PENDING"
        /\ rec' = WithState(rec, id, "DONE")
        /\ inbox' = inbox \cup {[id |-> id, tok |-> rec[id].tok]}
        /\ UNCHANGED <<tokVars, hpc, hmsg>>
    BY <1>5 DEF CompleteJob, FireTimer, CompleteChild
  <2> QED  BY <2>1, FireStep
<1>6. ASSUME NEW id \in Ids, ResolveIncident(id) PROVE \A u \in Tokens : Safe(u)'
  BY <1>6, ResolveStep
<1>7. ASSUME NEW h \in Handlers, NEW m \in Msg,
             LoadAndValidateToken(h, m) \/ LoadBoundaryTimerToken(h, m)
      PROVE  \A u \in Tokens : Safe(u)'
  BY <1>7, AcceptStep
<1>8. ASSUME NEW h \in Handlers, NEW m \in Msg, DropStaleCallback(h, m)
      PROVE  \A u \in Tokens : Safe(u)'
  BY <1>8, DropStep
<1>9. ASSUME NEW h \in Handlers, UpdateWaitingToken(h) PROVE \A u \in Tokens : Safe(u)'
  BY <1>9, UpdateStep
<1>10. ASSUME NEW h \in Handlers, MoveTokenOn(h) \/ MoveToBoundaryTarget(h)
       PROVE  \A u \in Tokens : Safe(u)'
  <2>1. /\ hpc[h] = "updated"
        /\ \E n : MoveLoadedToken(h, n)
        /\ Finish(h, hmsg[h].tok)
        /\ UNCHANGED <<rec, inbox>>
    BY <1>10 DEF MoveTokenOn, MoveToBoundaryTarget
  <2> QED  BY <2>1, MoveStep
<1>11. ASSUME NEW h \in Handlers, UpdateWaitingTokenFails(h) \/ MoveFails(h) PROVE FALSE
  BY <1>11 DEF UpdateWaitingTokenFails, MoveFails
<1>12. CASE Quiescent \/ UNCHANGED vars
  <2>1. UNCHANGED vars
    BY <1>12 DEF Quiescent
  <2>2. \A u \in Tokens : Safe(u)
    BY StrandInvSafe
  <2>3. \A u \in Tokens : InFlight(u) <=> InFlight(u)'
    BY <2>1 DEF vars, InFlight
  <2>4. \A u \in Tokens : CanWake(u) <=> CanWake(u)'
    BY <2>1 DEF vars, CanWake
  <2> QED  BY <2>1, <2>2, <2>3, <2>4 DEF vars, Safe
<1> QED  BY <1>1, <1>2, <1>3, <1>4, <1>5, <1>6, <1>7, <1>8, <1>9, <1>10, <1>11, <1>12 DEF Next

\* Under the instance lock, and when storage.UpdateToken and the move do
\* not fail, no token is stranded by the callback path
\* (LoadAndValidateToken, UpdateToken, MoveTokenToNextElements): a WAITING
\* token can always still be woken and an ACTIVE one is executed, for every
\* process graph, number of tokens and bound on records.
THEOREM NoStrandedTokenHolds ==
    ASSUME UseInstanceLock, ~StoreFaults
    PROVE  Spec => []NoStrandedToken
<1>1. StrandInv => NoStrandedToken
  BY DEF StrandInv
<1> QED  BY <1>1, StrandInvInit, StrandInvNext, PTL DEF Spec

====
