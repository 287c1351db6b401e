------------------------- MODULE MC_TokenScheduler -------------------------
(***************************************************************************)
(* Model-checking instances of TokenScheduler.                             *)
(*                                                                         *)
(* Linear: Start -> Task (service task, interrupting boundary timer to     *)
(*         Timeout) -> Call (call activity) -> Gw -> {Wait (timer) -> End, *)
(*         End}: every kind of suspension and both ways out of a service  *)
(*         task.                                                           *)
(* Loop:   Start -> Call -> Gw -> {Call, End}: a call activity visited     *)
(*         again along a back edge (spec 9 allows cyclic graphs).          *)
(***************************************************************************)
EXTENDS TokenScheduler

LinearElements == {"Start", "Task", "Timeout", "Call", "Gw", "Wait", "End"}

LinearType ==
    [e \in LinearElements |->
        CASE e = "Start" -> "startEvent"
          [] e = "Task" -> "serviceTask"
          [] e = "Call" -> "callActivity"
          [] e = "Gw" -> "exclusiveGateway"
          [] e = "Wait" -> "intermediateCatchEvent"
          [] OTHER -> "endEvent"]

LinearSucc ==
    [e \in LinearElements |->
        CASE e = "Start" -> {"Task"}
          [] e = "Task" -> {"Call"}
          [] e = "Call" -> {"Gw"}
          [] e = "Gw" -> {"Wait", "End"}
          [] e = "Wait" -> {"End"}
          [] OTHER -> {}]

LinearBoundary ==
    [e \in LinearElements |-> IF e = "Task" THEN "Timeout" ELSE NoElem]

LoopElements == {"Start", "Call", "Gw", "End"}

LoopType ==
    [e \in LoopElements |->
        CASE e = "Start" -> "startEvent"
          [] e = "Call" -> "callActivity"
          [] e = "Gw" -> "exclusiveGateway"
          [] OTHER -> "endEvent"]

LoopSucc ==
    [e \in LoopElements |->
        CASE e = "Start" -> {"Call"}
          [] e = "Call" -> {"Gw"}
          [] e = "Gw" -> {"Call", "End"}
          [] OTHER -> {}]

LoopBoundary == [e \in LoopElements |-> NoElem]

=============================================================================
