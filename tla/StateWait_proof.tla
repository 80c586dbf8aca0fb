-------------------------- MODULE StateWait_proof --------------------------
(***************************************************************************)
(* Proofs about StateWait, for any number of nodes, any values and any     *)
(* timeout.                                                                *)
(***************************************************************************)
EXTENDS StateWait, TLAPS

LEMMA InitInv == Init => IndInv
<1>. HAVE Init
<1>1. AnyValue \in Value
  BY WaitAssumption DEF AnyValue
<1>. QED  BY <1>1, WaitAssumption
          DEF Init, IndInv, TypeOK, Want, Outcomes, Polling, Node,
              SteadyNodeNeverTimesOut, TimeoutIsShared

LEMMA CallsInv ==
  ASSUME IndInv, NEW w \in Want, NEW k \in 0..NumNodes,
         NEW timeout \in 0..MaxTimeout, Call(w, k, timeout)
  PROVE  IndInv'
BY WaitAssumption
   DEF IndInv, TypeOK, Call, StartWait, envVars, Outcomes, Polling, Node,
       SteadyNodeNeverTimesOut, TimeoutIsShared, Matches

LEMMA DeviceChangesInv ==
  ASSUME IndInv, NEW n \in Node, NEW v \in Value, DeviceChanges(n, v)
  PROVE  IndInv'
<1>. USE WaitAssumption DEF IndInv, TypeOK
<1>1. \A m \in Node : held[m] \subseteq held'[m] /\ held'[m] \subseteq Value
  BY DEF DeviceChanges
<1>2. TypeOK'
  BY <1>1 DEF DeviceChanges
<1>3. Polling => turn \in Node
  BY DEF Node
<1>4. actual[turn] \in held[turn] /\ turn \in Node => actual'[turn] \in held'[turn]
  BY <1>1 DEF DeviceChanges
<1>5. SteadyNodeNeverTimesOut'
  <2>1. ASSUME outcome \in {"TimeoutError", "AttributeError"},
               NEW x \in held[turn]
        PROVE  turn \in Node => x \in held'[turn]
    BY <1>1, <2>1
  <2>2. turn \notin Node => held'[turn] = held[turn]
    BY DEF DeviceChanges
  <2>. QED  BY <2>1, <2>2 DEF SteadyNodeNeverTimesOut, DeviceChanges, Matches
<1>6. TimeoutIsShared'
  BY DEF TimeoutIsShared, DeviceChanges
<1>7. ASSUME pc # "idle" \/ outcome = "returned", NEW m \in Node, m < turn
      PROVE  \E x \in held'[m] : Matches(x)
  BY <1>1, <1>7
<1>8. pc \in {"check", "expired", "get"} =>
        {actual'[turn], copy[turn], curr} \subseteq held'[turn]
  BY <1>1, <1>3, <1>4 DEF Polling
<1>. QED  BY <1>2, <1>3, <1>5, <1>6, <1>7, <1>8
          DEF DeviceChanges, Polling, Matches

LEMMA CopyFollowsInv ==
  ASSUME IndInv, NEW n \in Node, CopyFollows(n)
  PROVE  IndInv'
BY WaitAssumption
   DEF IndInv, TypeOK, CopyFollows, Polling, Node,
       SteadyNodeNeverTimesOut, TimeoutIsShared, Matches

LEMMA TickInv ==
  ASSUME IndInv, Tick
  PROVE  IndInv'
BY WaitAssumption
   DEF IndInv, TypeOK, Tick, envVars, callVars, Polling, Node,
       SteadyNodeNeverTimesOut, TimeoutIsShared, Matches

LEMMA NextNodeInv ==
  ASSUME IndInv, NextNode
  PROVE  IndInv'
<1>. USE WaitAssumption DEF IndInv, TypeOK
<1>1. CASE turn > targets
  BY <1>1 DEF NextNode, Finish, envVars, callVars, Polling, Node, Outcomes,
              SteadyNodeNeverTimesOut, TimeoutIsShared, Matches
<1>2. CASE turn <= targets
  BY <1>2 DEF NextNode, Finish, envVars, callVars, Polling, Node, Outcomes,
              SteadyNodeNeverTimesOut, TimeoutIsShared, Matches
<1>. QED  BY <1>1, <1>2

LEMMA DeepGetInv ==
  ASSUME IndInv, DeepGet
  PROVE  IndInv'
<1>. USE WaitAssumption DEF IndInv, TypeOK
<1>1. /\ turn \in Node /\ turn <= targets /\ pc = "deep" /\ pc' = "check"
      /\ curr' = actual[turn] /\ copy' = [copy EXCEPT ![turn] = actual[turn]]
      /\ held' = [held EXCEPT ![turn] = {actual[turn]}]
      /\ UNCHANGED <<actual, want, targets, turn, budget, left, outcome>>
      /\ outcome = "none"
  BY DEF DeepGet, callVars, Polling, Node
<1>2. \A m \in Node : m # turn => held'[m] = held[m]
  BY <1>1
<1>3. held'[turn] = {actual[turn]} /\ held' \in [Node -> SUBSET Value]
  BY <1>1
<1>4. \A m \in Node : m < turn => \E v \in held'[m] : Matches(v)
  BY <1>1, <1>2
<1>5. TypeOK' /\ copy'[turn] = actual[turn]
  BY <1>1, <1>3
<1>. QED  BY <1>1, <1>3, <1>4, <1>5
          DEF Polling, SteadyNodeNeverTimesOut, TimeoutIsShared, Matches

LEMMA CheckValueInv ==
  ASSUME IndInv, CheckValue
  PROVE  IndInv'
<1>. USE WaitAssumption DEF IndInv, TypeOK
<1>1. CASE Matches(curr)
  <2>0. pc = "check" /\ turn \in Node
    BY DEF CheckValue, Polling, Node
  <2>1. ASSUME NEW n \in Node, n < turn + 1
        PROVE  \E v \in held[n] : Matches(v)
    <3>1. CASE n < turn
      BY <3>1 DEF CheckValue
    <3>2. CASE n = turn
      BY <1>1, <3>2 DEF CheckValue
    <3>. QED  BY <2>1, <3>1, <3>2 DEF Node
  <2>. QED  BY <1>1, <2>1
            DEF CheckValue, envVars, callVars, Polling, Node,
                SteadyNodeNeverTimesOut, TimeoutIsShared, Matches
<1>2. CASE ~Matches(curr)
  BY <1>2 DEF CheckValue, envVars, callVars, Polling, Node,
              SteadyNodeNeverTimesOut, TimeoutIsShared, Matches
<1>. QED  BY <1>1, <1>2

LEMMA CheckTimeInv ==
  ASSUME IndInv, CheckTime
  PROVE  IndInv'
<1>. USE WaitAssumption DEF IndInv, TypeOK
<1>1. CASE left < 0
  <2>1. outcome' \in {"TimeoutError", "AttributeError"} /\ pc' = "idle"
    BY <1>1 DEF CheckTime, Finish, Failure
  <2>2. budget = 0 /\ ~Matches(curr) /\ curr \in held[turn]
    BY <1>1 DEF CheckTime, Polling
  <2>. QED  BY <1>1, <2>1, <2>2
            DEF CheckTime, envVars, callVars, Polling, Node, Outcomes,
                SteadyNodeNeverTimesOut, TimeoutIsShared, Matches
<1>2. CASE ~(left < 0)
  BY <1>2 DEF CheckTime, envVars, callVars, Polling, Node, Outcomes,
              SteadyNodeNeverTimesOut, TimeoutIsShared, Matches
<1>. QED  BY <1>1, <1>2

LEMMA SleepAndGetInv ==
  ASSUME IndInv, SleepAndGet
  PROVE  IndInv'
BY WaitAssumption
   DEF IndInv, TypeOK, SleepAndGet, envVars, callVars, Polling, Node,
       SteadyNodeNeverTimesOut, TimeoutIsShared, Matches

LEMMA StepInv == IndInv /\ [Next]_vars => IndInv'
<1>. SUFFICES ASSUME IndInv, [Next]_vars PROVE IndInv'
  OBVIOUS
<1>1. CASE Calls
  BY <1>1, CallsInv DEF Calls
<1>2. CASE Poll
  BY <1>2, NextNodeInv, DeepGetInv, CheckValueInv, CheckTimeInv, SleepAndGetInv
     DEF Poll
<1>3. CASE Environment
  BY <1>3, DeviceChangesInv, CopyFollowsInv DEF Environment
<1>4. CASE Tick
  BY <1>4, TickInv
<1>5. CASE UNCHANGED vars
  BY <1>5 DEF vars, IndInv, TypeOK, Polling, SteadyNodeNeverTimesOut,
              TimeoutIsShared, Matches
<1>. QED  BY <1>1, <1>2, <1>3, <1>4, <1>5 DEF Next

(* What the thread knows while it polls wait_for_state_change: the value   *)
(* read last, and the copy of the data server, are values the node has had *)
(* since its deep get; what is left of the time of a node is what is left   *)
(* of the time of the call.                                                *)
THEOREM IndInvHolds == Spec => []IndInv
  BY InitInv, StepInv, PTL DEF Spec

(* wait_for_state_change only returns when each node had the state after   *)
(* its deep get, whatever the data server remembered before.               *)
THEOREM ReturnIsFreshHolds == Spec => []ReturnIsFresh
<1>1. IndInv => ReturnIsFresh
  BY WaitAssumption DEF IndInv, ReturnIsFresh, TypeOK, Node
<1>. QED  BY <1>1, IndInvHolds, PTL

(* A node that has the state from its deep get on is never reported as     *)
(* timed out, not even with no time left.                                  *)
THEOREM SteadyNodeHolds == Spec => []SteadyNodeNeverTimesOut
<1>1. IndInv => SteadyNodeNeverTimesOut
  BY DEF IndInv
<1>. QED  BY <1>1, IndInvHolds, PTL

(* The nodes of a wildcard share one timeout, which is used up before the  *)
(* call gives up.                                                          *)
THEOREM TimeoutIsSharedHolds == Spec => []TimeoutIsShared
<1>1. IndInv => TimeoutIsShared
  BY DEF IndInv
<1>. QED  BY <1>1, IndInvHolds, PTL

-----------------------------------------------------------------------------
(* The loop is one wait of WaitPromise: each of its steps is a step of     *)
(* that wait or changes nothing that the caller sees.                      *)

LEMMA InitPromised == Init => Promise!PromiseInit
<1>. HAVE Init
<1>1. want \in [value : Value, invert : {FALSE}, named : {FALSE}]
  BY WaitAssumption DEF Init, AnyValue
<1>2. Phase = "none"
  BY DEF Init, Phase
<1>. QED BY <1>1, <1>2 DEF Init, Node, Promise!PromiseInit

LEMMA CallPromised ==
  ASSUME IndInv, NEW w \in Want, NEW k \in 0..NumNodes,
         NEW timeout \in 0..MaxTimeout, Call(w, k, timeout)
  PROVE  Promise!Requests
<1>1. Phase = "none" /\ UNCHANGED <<actual, held>>
      /\ want' = w /\ targets' = k /\ turn' = 1 /\ budget' = timeout
  BY DEF Call, StartWait, Phase, envVars
<1>2. \/ k = 0 /\ Phase' = "none" /\ outcome' = "KeyError"
      \/ k > 0 /\ Phase' = "between" /\ outcome' = "none"
  BY WaitAssumption DEF Call, StartWait, Phase
<1>3. Promise!Ask(w, k, timeout)
  BY <1>1, <1>2 DEF Promise!Ask
<1>. QED BY <1>3 DEF Promise!Requests, Want

LEMMA TickPromised ==
  ASSUME IndInv, Tick
  PROVE  Promise!TimePasses \/ UNCHANGED Promise!promiseVars
<1>1. /\ Phase # "none" /\ Phase' = Phase
      /\ UNCHANGED <<actual, want, targets, turn, outcome, held>>
  BY DEF Tick, Phase, envVars, callVars, IndInv, TypeOK
<1>2. (budget > 0 /\ budget' = budget - 1) \/ UNCHANGED budget
  BY WaitAssumption DEF Tick, IndInv, TypeOK
<1>. QED BY <1>1, <1>2 DEF Promise!TimePasses, Promise!promiseVars

LEMMA PollPromised ==
  ASSUME IndInv, Poll
  PROVE  Promise!Progress \/ UNCHANGED Promise!promiseVars
<1>1. UNCHANGED <<actual, want, targets, budget>>
  BY DEF Poll, NextNode, DeepGet, CheckValue, CheckTime, SleepAndGet, envVars,
         callVars
<1>2. CASE NextNode /\ turn > targets
  <2>1. /\ Phase = "between" /\ Phase' = "none" /\ outcome' = "returned"
        /\ UNCHANGED <<turn, held>>
    BY <1>2 DEF NextNode, Finish, Phase
  <2>. QED BY <1>1, <1>2, <2>1 DEF Promise!AllReached, Promise!Progress
<1>3. CASE DeepGet
  <2>1. /\ Phase = "between" /\ Phase' = "waiting" /\ UNCHANGED <<turn, outcome>>
        /\ held' = [held EXCEPT ![turn] = {actual[turn]}]
    BY <1>3 DEF DeepGet, Phase
  <2>2. turn <= targets
    BY <1>3 DEF DeepGet, IndInv, Polling
  <2>. QED BY <1>1, <2>1, <2>2 DEF Promise!WaitForCurrent, Promise!Progress
<1>4. CASE CheckValue /\ Matches(curr)
  <2>1. /\ Phase = "waiting" /\ Phase' = "between" /\ turn' = turn + 1
        /\ UNCHANGED <<outcome, held>>
    BY <1>4 DEF CheckValue, Phase
  <2>2. curr \in held[turn] /\ Promise!InState(curr)
    BY <1>4 DEF CheckValue, IndInv, Matches, Promise!InState
  <2>. QED BY <1>1, <2>1, <2>2 DEF Promise!Reached, Promise!Progress
<1>5. CASE CheckTime /\ left < 0
  <2>1. /\ Phase = "waiting" /\ Phase' = "none" /\ outcome' = Failure
        /\ UNCHANGED <<turn, held>>
    BY <1>5 DEF CheckTime, Finish, Phase
  <2>2. budget = 0 /\ curr \in held[turn] /\ ~Promise!InState(curr)
    BY <1>5, WaitAssumption
    DEF CheckTime, IndInv, TypeOK, Polling, Matches, Promise!InState
  <2>. QED BY <1>1, <2>1, <2>2 DEF Failure, Promise!GiveUp, Promise!Progress
<1>6. CASE \/ SleepAndGet \/ (NextNode /\ ~(turn > targets))
           \/ (CheckValue /\ ~Matches(curr)) \/ (CheckTime /\ ~(left < 0))
  <2>1. Phase' = Phase /\ UNCHANGED <<turn, outcome, held>>
    BY <1>6 DEF NextNode, SleepAndGet, CheckValue, CheckTime, Phase
  <2>. QED BY <1>1, <2>1 DEF Promise!promiseVars
<1>7. CASE NextNode
  BY <1>2, <1>6, <1>7
<1>8. CASE CheckValue
  BY <1>4, <1>6, <1>8
<1>9. CASE CheckTime
  BY <1>5, <1>6, <1>9
<1>. QED BY <1>3, <1>6, <1>7, <1>8, <1>9 DEF Poll

LEMMA EnvironmentPromised ==
  ASSUME IndInv, Environment
  PROVE  Promise!PromiseNext \/ UNCHANGED Promise!promiseVars
<1>1. ASSUME NEW n \in Node, CopyFollows(n)
      PROVE  UNCHANGED Promise!promiseVars
  BY <1>1 DEF CopyFollows, Phase, Promise!promiseVars
<1>2. ASSUME NEW n \in Node, NEW v \in Value, DeviceChanges(n, v)
      PROVE  Promise!Change(n, v)
  BY <1>2 DEF DeviceChanges, Phase, Promise!Change
<1>. QED BY <1>1, <1>2 DEF Environment, Node, Promise!PromiseNext

LEMMA StepPromised ==
  IndInv /\ [Next]_vars => [Promise!PromiseNext]_(Promise!promiseVars)
<1>. SUFFICES ASSUME IndInv, [Next]_vars
              PROVE  Promise!PromiseNext \/ UNCHANGED Promise!promiseVars
  OBVIOUS
<1>1. CASE Calls
  BY <1>1, CallPromised DEF Calls, Promise!PromiseNext
<1>2. CASE Poll
  BY <1>2, PollPromised DEF Promise!PromiseNext
<1>3. CASE Environment
  BY <1>3, EnvironmentPromised
<1>4. CASE Tick
  BY <1>4, TickPromised DEF Promise!PromiseNext
<1>5. CASE UNCHANGED vars
  BY <1>5 DEF vars, Phase, Promise!promiseVars
<1>. QED BY <1>1, <1>2, <1>3, <1>4, <1>5 DEF Next

(* The polling loop of wait_for_state_change implements the wait that its  *)
(* callers, and the models of them, rely on.                               *)
THEOREM ImplementsWaitPromiseHolds == Spec => ImplementsWaitPromise
<1>. QED BY InitPromised, StepPromised, IndInvHolds, PTL
         DEF Spec, ImplementsWaitPromise, Promise!PromiseSpec

=============================================================================
