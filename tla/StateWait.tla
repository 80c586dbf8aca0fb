----------------------------- MODULE StateWait -----------------------------
(***************************************************************************)
(* Node.wait_for_state_change (nodetree/node.py): a thread polls the       *)
(* leaf nodes a path resolves to, one after the other, until each has (or, *)
(* inverted, no longer has) a value, or until the timeout.  Every wait of  *)
(* the device drivers (wait_done, stop, run, check_ref_clock, the ZSync    *)
(* checks) is a call of it.                                                *)
(*                                                                         *)
(* The device changes its nodes at any time; the data server keeps a copy  *)
(* that follows later.  A deep get asks the device and refreshes the copy, *)
(* a plain get returns the copy.                                           *)
(*                                                                         *)
(* Time is kept as what is left of it: budget of the timeout of the call,  *)
(* left of the timeout of the node in turn, where -1 means that it is      *)
(* exceeded.  A tick takes one off both, at any point of the polling.      *)
(* Evaluating the timeout argument of a node and reading its start_time    *)
(* are one step.                                                           *)
(***************************************************************************)
EXTENDS Integers

CONSTANTS
  NumNodes,   \* bound: leaf nodes a path can resolve to
  Value,      \* values a node can have
  Named,      \* the values that are options of the enumeration of the node
  MaxTimeout  \* bound: the longest timeout, in ticks

ASSUME WaitAssumption ==
  /\ NumNodes \in Nat
  /\ Value # {} /\ Named \subseteq Value
  /\ MaxTimeout \in Nat

Node == 1..NumNodes

VARIABLES
  actual,   \* the node values in the device
  copy,     \* the node values in the data server
  pc,       \* where the thread is
  want,     \* the arguments: expected value, invert, given by name or not
  targets,  \* number of nodes the path resolves to
  turn,     \* the node waited for (1..targets)
  budget,   \* what is left of the timeout of the call
  left,     \* what is left of the timeout of the node in turn
  curr,     \* the value read last
  outcome,  \* how the last call ended
  held      \* the values each node has had since the deep get of its wait

vars == <<actual, copy, pc, want, targets, turn, budget, left, curr, outcome,
          held>>
envVars  == <<actual, copy>>
callVars == <<want, targets>>

Want == [value : Value, invert : BOOLEAN, named : BOOLEAN]

Outcomes == {"none", "returned", "TimeoutError", "AttributeError", "KeyError"}

TypeOK ==
  /\ actual \in [Node -> Value] /\ copy \in [Node -> Value]
  /\ pc \in {"idle", "next", "deep", "check", "expired", "get"}
  /\ want \in Want
  /\ targets \in 0..NumNodes /\ turn \in 1..NumNodes + 1
  /\ budget \in 0..MaxTimeout /\ left \in -1..MaxTimeout
  /\ curr \in Value
  /\ outcome \in Outcomes
  /\ held \in [Node -> SUBSET Value]

Matches(v) == (v = want.value) # want.invert

\* (want and curr mean nothing before the first call.)
AnyValue == CHOOSE v \in Value : TRUE

Init ==
  /\ actual \in [Node -> Value] /\ copy \in [Node -> Value]
  /\ want = [value |-> AnyValue, invert |-> FALSE, named |-> FALSE]
  /\ pc = "idle" /\ targets = 0 /\ turn = 1
  /\ budget = 0 /\ left = 0
  /\ curr = AnyValue /\ outcome = "none"
  /\ held = [n \in Node |-> {}]

-----------------------------------------------------------------------------
(* The device and the data server *)

DeviceChanges(n, v) ==
  /\ v # actual[n]
  /\ actual' = [actual EXCEPT ![n] = v]
  /\ held' = [held EXCEPT ![n] = @ \cup {v}]
  /\ UNCHANGED <<copy, pc, want, targets, turn, budget, left, curr, outcome>>

CopyFollows(n) ==
  /\ copy[n] # actual[n]
  /\ copy' = [copy EXCEPT ![n] = actual[n]]
  /\ UNCHANGED <<actual, pc, want, targets, turn, budget, left, curr, outcome,
                 held>>

Tick ==
  /\ pc # "idle"
  /\ budget' = IF budget = 0 THEN 0 ELSE budget - 1
  /\ left' = IF left = -1 THEN -1 ELSE left - 1
  /\ UNCHANGED <<envVars, pc, callVars, turn, curr, outcome, held>>

-----------------------------------------------------------------------------
(* The call *)

\* The path resolves to the first k nodes; a wildcard may match nothing.
StartWait(w, k, timeout) ==
  /\ want' = w /\ targets' = k /\ turn' = 1
  /\ budget' = timeout
  /\ IF k = 0 THEN pc' = "idle" /\ outcome' = "KeyError"
              ELSE pc' = "next" /\ outcome' = "none"
  /\ UNCHANGED <<envVars, left, curr, held>>

Call(w, k, timeout) == pc = "idle" /\ StartWait(w, k, timeout)

Finish(how) == pc' = "idle" /\ outcome' = how

\* Mutant of NextNode: the wait begins with a plain get.
NextNodeShallow ==
  /\ pc = "next"
  /\ IF turn > targets
       THEN Finish("returned") /\ UNCHANGED left
       ELSE /\ left' = budget
            /\ pc' = "get" /\ UNCHANGED outcome
  /\ UNCHANGED <<envVars, callVars, turn, budget, curr, held>>

\* Mutant of NextNode: every node has a timeout of its own.
NextNodeOwnTimeout ==
  /\ pc = "next"
  /\ IF turn > targets
       THEN Finish("returned") /\ UNCHANGED left
       ELSE /\ left' = MaxTimeout
            /\ pc' = "deep" /\ UNCHANGED outcome
  /\ UNCHANGED <<envVars, callVars, turn, budget, curr, held>>

\* The remaining time is handed to the wait for the next node, if any.
NextNode ==
  /\ pc = "next"
  /\ IF turn > targets
       THEN Finish("returned") /\ UNCHANGED left
       ELSE /\ left' = budget
            /\ pc' = "deep" /\ UNCHANGED outcome
  /\ UNCHANGED <<envVars, callVars, turn, budget, curr, held>>

\* Mutant of DeepGet: the clock is read before the value is compared.
DeepGetTimeFirst ==
  /\ pc = "deep"
  /\ curr' = actual[turn]
  /\ copy' = [copy EXCEPT ![turn] = actual[turn]]
  /\ held' = [held EXCEPT ![turn] = {actual[turn]}]
  /\ pc' = "expired"
  /\ UNCHANGED <<actual, callVars, turn, budget, left, outcome>>

DeepGet ==
  /\ pc = "deep"
  /\ curr' = actual[turn]
  /\ copy' = [copy EXCEPT ![turn] = actual[turn]]
  /\ held' = [held EXCEPT ![turn] = {actual[turn]}]
  /\ pc' = "check"
  /\ UNCHANGED <<actual, callVars, turn, budget, left, outcome>>

\* Mutant of CheckValue: the first node that has the state ends the call.
CheckValueAny ==
  /\ pc = "check"
  /\ IF Matches(curr) THEN Finish("returned")
                      ELSE pc' = "expired" /\ UNCHANGED outcome
  /\ UNCHANGED <<envVars, callVars, turn, budget, left, curr, held>>

CheckValue ==
  /\ pc = "check"
  /\ IF Matches(curr) THEN pc' = "next" /\ turn' = turn + 1
                      ELSE pc' = "expired" /\ UNCHANGED turn
  /\ UNCHANGED <<envVars, callVars, budget, left, curr, outcome, held>>

\* What is raised on a timeout: the message takes the names of the expected
\* and of the current value when the value was given by name.
Failure == IF want.named /\ {want.value, curr} \ Named # {}
             THEN "AttributeError" ELSE "TimeoutError"

\* Mutant of CheckTime: no timeout.
CheckTimeNever ==
  /\ pc = "expired"
  /\ pc' = "get"
  /\ UNCHANGED <<envVars, callVars, turn, budget, left, curr, outcome, held>>

CheckTime ==
  /\ pc = "expired"
  /\ IF left < 0 THEN Finish(Failure)
                 ELSE pc' = "get" /\ UNCHANGED outcome
  /\ UNCHANGED <<envVars, callVars, turn, budget, left, curr, held>>

\* time.sleep takes whatever ticks pass before this step.
SleepAndGet ==
  /\ pc = "get"
  /\ curr' = copy[turn]
  /\ pc' = "check"
  /\ UNCHANGED <<envVars, callVars, turn, budget, left, outcome, held>>

Poll == NextNode \/ DeepGet \/ CheckValue \/ CheckTime \/ SleepAndGet

\* By-name arguments name an option of the enumeration.
Calls ==
  \E w \in Want, k \in 0..NumNodes, timeout \in 0..MaxTimeout :
    /\ w.named => w.value \in Named
    /\ Call(w, k, timeout)

Environment ==
  \E n \in Node : CopyFollows(n) \/ \E v \in Value : DeviceChanges(n, v)

Next == Calls \/ Poll \/ Environment \/ Tick

\* The thread runs and time passes; the device owes nobody anything.
Spec == Init /\ [][Next]_vars

FairSpec == Spec /\ WF_vars(Poll) /\ WF_vars(Tick)

-----------------------------------------------------------------------------
(* Properties *)

\* The wait only returns when every node had the state after the deep get its
\* wait begins with, not on the strength of what the data server remembers
\* from before.
ReturnIsFresh ==
  outcome = "returned" =>
    \A n \in 1..targets : \E v \in held[n] : Matches(v)

\* A node that is in the state from the deep get of its wait on is never
\* reported as timed out, however little time the nodes before it have left
\* (the value is compared before the clock is read).
SteadyNodeNeverTimesOut ==
  outcome \in {"TimeoutError", "AttributeError"} =>
    \E v \in held[turn] : ~Matches(v)

\* The wait does not give up before the timeout of the whole call is over,
\* and no node of a wildcard is waited for beyond it.
TimeoutIsShared ==
  /\ outcome \in {"TimeoutError", "AttributeError"} => budget = 0
  /\ pc \in {"deep", "check", "expired", "get"} => left <= budget

\* Every call ends, whatever the nodes do.
CallEnds == pc # "idle" ~> pc = "idle"

Phase == CASE pc = "idle" -> "none"
           [] pc \in {"next", "deep"} -> "between"
           [] pc \in {"check", "expired", "get"} -> "waiting"

Promise ==
  INSTANCE WaitPromise WITH
    Nodes <- NumNodes, Values <- Value, Options <- Named,
    Timeouts <- 0..MaxTimeout, node <- actual, phase <- Phase, asked <- want,
    number <- targets, current <- turn, time <- budget, result <- outcome,
    had <- held

\* The polling loop, with its deep get, the gets of a copy that lags behind,
\* and the clock that is read after the comparison, is one wait as its
\* callers see it: a node was in the state since the deep get of its wait, or
\* it was out of it and the time of the whole call is over.
ImplementsWaitPromise == Promise!PromiseSpec

-----------------------------------------------------------------------------
(* What makes the first three inductive (see StateWait_proof).             *)

Polling == pc \in {"deep", "check", "expired", "get"}

IndInv ==
  /\ TypeOK
  /\ pc # "idle" => outcome = "none" /\ turn <= targets + 1
  /\ Polling => turn <= targets
  /\ Polling => left = budget \/ (left = -1 /\ budget = 0)
  /\ pc \in {"check", "expired", "get"} =>
       {actual[turn], copy[turn], curr} \subseteq held[turn]
  /\ pc \in {"expired", "get"} => ~Matches(curr)
  /\ (pc # "idle" \/ outcome = "returned") =>
       \A n \in Node : n < turn => \E v \in held[n] : Matches(v)
  /\ outcome = "returned" => turn = targets + 1
  /\ SteadyNodeNeverTimesOut
  /\ TimeoutIsShared

=============================================================================
