---------------------------- MODULE WaitPromise ----------------------------
(***************************************************************************)
(* What Node.wait_for_state_change promises its callers, for all the nodes *)
(* a path resolves to (its docstring, and what the waits of the drivers    *)
(* rely on): the nodes are waited for one after the other, each until it   *)
(* has been in the state asked for since the wait for it began, which it   *)
(* does by asking the device, and all of them within one timeout.          *)
(*                                                                         *)
(* A state that lasts need be seen, one that does not may be: once the     *)
(* time is over, a node that has been both in the state and out of it may  *)
(* be taken for either.                                                    *)
(***************************************************************************)
EXTENDS Integers

CONSTANTS
  Nodes,    \* number of nodes a path may resolve to
  Values,   \* the values a node may have
  Options,  \* those that have a name
  Timeouts  \* the timeouts that may be asked for

VARIABLES
  node,     \* the values of the nodes
  phase,    \* no call, between two nodes, or waiting for one
  asked,    \* the value asked for, inverted or not, by its name or not
  number,   \* how many nodes are waited for
  current,  \* the one waited for now
  time,     \* what is left of the timeout
  result,   \* how the last call ended
  had       \* the values each node has had since its wait began

promiseVars == <<node, phase, asked, number, current, time, result, had>>

InState(v) == (v = asked.value) # asked.invert

PromiseInit ==
  /\ node \in [1..Nodes -> Values]
  /\ phase = "none" /\ number = 0 /\ current = 1 /\ time = 0
  /\ asked \in [value : Values, invert : {FALSE}, named : {FALSE}]
  /\ result = "none" /\ had = [n \in 1..Nodes |-> {}]

Change(n, v) ==
  /\ node' = [node EXCEPT ![n] = v]
  /\ had' = [had EXCEPT ![n] = @ \cup {v}]
  /\ UNCHANGED <<phase, asked, number, current, time, result>>

TimePasses ==
  /\ phase # "none" /\ time > 0 /\ time' = time - 1
  /\ UNCHANGED <<node, phase, asked, number, current, result, had>>

\* A path that resolves to no node is refused.
Ask(w, k, timeout) ==
  /\ phase = "none"
  /\ asked' = w /\ number' = k /\ current' = 1 /\ time' = timeout
  /\ \/ k = 0 /\ phase' = "none" /\ result' = "KeyError"
     \/ k > 0 /\ phase' = "between" /\ result' = "none"
  /\ UNCHANGED <<node, had>>

\* The device is asked for the current node.
WaitForCurrent ==
  /\ phase = "between" /\ current <= number /\ phase' = "waiting"
  /\ had' = [had EXCEPT ![current] = {node[current]}]
  /\ UNCHANGED <<node, asked, number, current, time, result>>

\* The current node has been in the state.
Reached ==
  /\ phase = "waiting" /\ \E v \in had[current] : InState(v)
  /\ phase' = "between" /\ current' = current + 1
  /\ UNCHANGED <<node, asked, number, time, result, had>>

AllReached ==
  /\ phase = "between" /\ current > number
  /\ phase' = "none" /\ result' = "returned"
  /\ UNCHANGED <<node, asked, number, current, time, had>>

\* The error names the value asked for and one that is not in the state, if
\* the former was given by name; it is another error when one has no name.
GiveUp ==
  /\ phase = "waiting" /\ time = 0
  /\ \E v \in had[current] :
       /\ ~InState(v)
       /\ result' = IF asked.named /\ {asked.value, v} \ Options # {}
                      THEN "AttributeError" ELSE "TimeoutError"
  /\ phase' = "none"
  /\ UNCHANGED <<node, asked, number, current, time, had>>

Requests ==
  \E w \in [value : Values, invert : BOOLEAN, named : BOOLEAN],
     k \in 0..Nodes, timeout \in Timeouts : Ask(w, k, timeout)

Progress == WaitForCurrent \/ Reached \/ AllReached \/ GiveUp

PromiseNext ==
  \/ \E n \in 1..Nodes, v \in Values : Change(n, v)
  \/ TimePasses \/ Requests \/ Progress

PromiseSpec == PromiseInit /\ [][PromiseNext]_promiseVars

=============================================================================
