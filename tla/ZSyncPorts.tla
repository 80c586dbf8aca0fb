----------------------------- MODULE ZSyncPorts -----------------------------
(***************************************************************************)
(* QuantumSystemHub.check_zsync_connection and find_zsync_worker_port      *)
(* (quantum_system_hub.py): a program waits until the ZSync ports it names *)
(* are connected.  An input is a port, or an instrument whose port is      *)
(* looked up first in the list of serials the ports report.                *)
(*                                                                         *)
(* Cables are plugged, and links come up and fail, at any time.  The wait  *)
(* for the status of one port is the one of WaitPromise, for one node: it  *)
(* may return once the port has been connected, may raise once its time is *)
(* over if the port has been anything else, and may do either if both.     *)
(***************************************************************************)
EXTENDS Integers, Sequences, FiniteSets

CONSTANTS
  Port,           \* ZSync ports of the PQSC or QHub
  Instrument,     \* instruments that may be cabled to them
  MaxInputs,      \* bound: inputs of a call
  MaxBudget,      \* bound: the longest timeout, in ticks
  MaxLinkChanges  \* bound: changes of cables and links

ASSUME ZSyncAssumption ==
  /\ Port \cap Instrument = {} /\ "none" \notin Port \cup Instrument
  /\ MaxInputs \in Nat /\ MaxBudget \in Nat /\ MaxLinkChanges \in Nat

\* connection/status: 0 no connection, 1 in progress, 2 connected, 3 error
Status    == 0..3
Connected == 2

VARIABLES
  status,      \* status of each port
  cabled,      \* the instrument each port reports the serial of, or "none"
  linkChanges, \* number of changes of the two
  stage,       \* where the program is
  inputs,      \* the inputs of the call
  results,     \* one entry for each input that was checked
  port,        \* the port looked at
  budget,      \* what is left of the timeout of the call
  stepLeft,    \* what is left of the timeout handed to the step in progress
  verdict,     \* how the last call ended
  up,          \* ports that have been connected since the call began
  listed,      \* the instruments each port has reported since the call began
  shown        \* the status the port has had since the wait for it began

portsVars == <<status, cabled, linkChanges, stage, inputs, results, port,
               budget, stepLeft, verdict, up, listed, shown>>
linkVars == <<status, cabled, linkChanges>>

PortsTypeOK ==
  /\ status \in [Port -> Status]
  /\ cabled \in [Port -> Instrument \cup {"none"}]
  /\ linkChanges \in 0..MaxLinkChanges
  /\ stage \in {"idle", "next", "find", "asleep", "convert", "wait"}
  /\ inputs \in Seq(Port \cup Instrument)
  /\ results \in Seq({TRUE})
  /\ port \in Port
  /\ budget \in 0..MaxBudget /\ stepLeft \in 0..MaxBudget
  /\ verdict \in {"none", "returned", "TimeoutError", "ToolkitError"}
  /\ up \subseteq Port /\ listed \in [Port -> SUBSET Instrument]
  /\ shown \subseteq Status

Reports(p) == {cabled[p]} \ {"none"}
Seen(i)    == {p \in Port : cabled[p] = i}

PortsInit ==
  /\ status \in [Port -> {0, Connected}]
  /\ cabled \in [Port -> Instrument \cup {"none"}]
  /\ \A i \in Instrument : Cardinality(Seen(i)) <= 1
  /\ linkChanges = 0
  /\ stage = "idle" /\ inputs = <<>> /\ results = <<>>
  /\ port \in Port /\ budget = 0 /\ stepLeft = 0
  /\ verdict = "none" /\ up = {} /\ listed = [p \in Port |-> {}]
  /\ shown = {}

-----------------------------------------------------------------------------
(* Cables, links and the clock *)

LinkChanges(p, s) ==
  /\ linkChanges < MaxLinkChanges /\ s # status[p]
  /\ linkChanges' = linkChanges + 1
  /\ status' = [status EXCEPT ![p] = s]
  /\ up' = IF s = Connected THEN up \cup {p} ELSE up
  /\ shown' = IF stage = "wait" /\ p = port THEN shown \cup {s} ELSE shown
  /\ UNCHANGED <<cabled, stage, inputs, results, port, budget, stepLeft,
                 verdict, listed>>

\* One instrument is unplugged from a port, or plugged into a free one.
CableChanges(p, i) ==
  /\ linkChanges < MaxLinkChanges
  /\ \/ cabled[p] = "none" /\ i \in Instrument /\ Seen(i) = {}
     \/ cabled[p] # "none" /\ i = "none"
  /\ linkChanges' = linkChanges + 1
  /\ cabled' = [cabled EXCEPT ![p] = i]
  /\ listed' = [listed EXCEPT ![p] = @ \cup ({i} \ {"none"})]
  /\ UNCHANGED <<status, stage, inputs, results, port, budget, stepLeft,
                 verdict, up, shown>>

Less(n) == IF n = 0 THEN 0 ELSE n - 1

PortsTick ==
  /\ stage # "idle"
  /\ budget' = Less(budget) /\ stepLeft' = Less(stepLeft)
  /\ UNCHANGED <<linkVars, stage, inputs, results, port, verdict, up, listed,
                 shown>>

-----------------------------------------------------------------------------
(* The call *)

Position == Len(results) + 1

CheckConnection(list, timeout) ==
  /\ stage = "idle" /\ list # <<>>
  /\ inputs' = list /\ results' = <<>> /\ budget' = timeout
  /\ up' = {p \in Port : status[p] = Connected}
  /\ listed' = [p \in Port |-> Reports(p)]
  /\ stage' = "next" /\ verdict' = "none"
  /\ UNCHANGED <<linkVars, port, stepLeft, shown>>

\* The wait for the status of port p begins.
AwaitLink(p) == stage' = "wait" /\ port' = p /\ shown' = {status[p]}

Finish(how) == stage' = "idle" /\ verdict' = how

\* Mutant of NextInput: the port of the input before is waited for again.
NextInputStalePort ==
  /\ stage = "next"
  /\ IF Position > Len(inputs)
       THEN Finish("returned") /\ UNCHANGED <<port, stepLeft, shown>>
       ELSE /\ stepLeft' = budget
            /\ UNCHANGED verdict
            /\ IF inputs[Position] \in Instrument
                 THEN stage' = "find" /\ UNCHANGED <<port, shown>>
                 ELSE AwaitLink(port)
  /\ UNCHANGED <<linkVars, inputs, results, budget, up, listed>>

\* What is left of the timeout is handed to the lookup or to the wait.
NextInput ==
  /\ stage = "next"
  /\ IF Position > Len(inputs)
       THEN Finish("returned") /\ UNCHANGED <<port, stepLeft, shown>>
       ELSE /\ stepLeft' = budget
            /\ UNCHANGED verdict
            /\ IF inputs[Position] \in Instrument
                 THEN stage' = "find" /\ UNCHANGED <<port, shown>>
                 ELSE AwaitLink(inputs[Position])
  /\ UNCHANGED <<linkVars, inputs, results, budget, up, listed>>

\* Mutant of Find: it goes on looking for ever.
FindForever ==
  /\ stage = "find"
  /\ LET found == Seen(inputs[Position])
     IN  \/ found # {} /\ stage' = "convert" /\ port' \in found
         \/ found = {} /\ stage' = "asleep" /\ UNCHANGED port
  /\ UNCHANGED <<linkVars, inputs, results, budget, stepLeft, verdict, up,
                 listed, shown>>

\* find_zsync_worker_port: the clock is read before the list of serials is,
\* which as a get with a wildcard is a deep one.
Find ==
  /\ stage = "find"
  /\ LET found == Seen(inputs[Position])
     IN  \/ /\ stepLeft = 0
            /\ Finish("ToolkitError") /\ UNCHANGED port
         \/ /\ stepLeft > 0 /\ found # {}
            /\ stage' = "convert" /\ port' \in found /\ UNCHANGED verdict
         \/ /\ stepLeft > 0 /\ found = {}
            /\ stage' = "asleep" /\ UNCHANGED <<port, verdict>>
  /\ UNCHANGED <<linkVars, inputs, results, budget, stepLeft, up, listed, shown>>

\* time.sleep takes whatever ticks pass before this step.
Wake ==
  /\ stage = "asleep" /\ stage' = "find"
  /\ UNCHANGED <<linkVars, inputs, results, port, budget, stepLeft, verdict,
                 up, listed, shown>>

\* Mutant of StartWait: the whole timeout is granted again.
StartWaitAnew ==
  /\ stage = "convert"
  /\ stepLeft' = MaxBudget /\ AwaitLink(port)
  /\ UNCHANGED <<linkVars, inputs, results, budget, verdict, up, listed>>

\* The port found is waited for with what is left by then.
StartWait ==
  /\ stage = "convert"
  /\ stepLeft' = budget /\ AwaitLink(port)
  /\ UNCHANGED <<linkVars, inputs, results, budget, verdict, up, listed>>

\* _check_zsync_connection, as far as wait_for_state_change promises: a link
\* that was up may go unseen while the copy in the data server lags behind.
WaitForLink ==
  /\ stage = "wait" /\ shown' = {}
  /\ \/ /\ Connected \in shown
        /\ results' = Append(results, TRUE) /\ stage' = "next"
        /\ UNCHANGED verdict
     \/ /\ stepLeft = 0 /\ shown # {Connected}
        /\ Finish("TimeoutError") /\ UNCHANGED results
  /\ UNCHANGED <<linkVars, inputs, port, budget, stepLeft, up, listed>>

InputList == UNION {[1..n -> Port \cup Instrument] : n \in 1..MaxInputs}

Checks ==
  \E list \in InputList, timeout \in 0..MaxBudget : CheckConnection(list, timeout)

Checking == NextInput \/ Find \/ Wake \/ StartWait \/ WaitForLink

Environment ==
  \E p \in Port : \/ \E s \in Status : LinkChanges(p, s)
                  \/ \E i \in Instrument \cup {"none"} : CableChanges(p, i)

PortsNext == Checks \/ Checking \/ Environment \/ PortsTick

PortsSpec == PortsInit /\ [][PortsNext]_portsVars

\* The thread runs and time passes.
PortsFairSpec == PortsSpec /\ WF_portsVars(Checking) /\ WF_portsVars(PortsTick)

-----------------------------------------------------------------------------
(* Properties *)

\* When the call returns, every port it was asked about has been connected
\* at some time since the call began, and so has, for every instrument, a
\* port that the instrument has been cabled to since the call began.
ConnectedMeansSeen ==
  verdict = "returned" =>
    \A n \in DOMAIN inputs :
      IF inputs[n] \in Port THEN inputs[n] \in up
      ELSE \E p \in up : inputs[n] \in listed[p]

\* The timeout is shared by all inputs: the call gives up neither before it
\* is over, nor does a step get more time than is left of it.
TimeoutIsShared ==
  /\ verdict \in {"TimeoutError", "ToolkitError"} => budget = 0
  /\ stage \in {"find", "asleep", "wait"} => stepLeft <= budget

\* Every call ends: within the timeout of the call plus one answer per input.
CallEnds == stage # "idle" ~> stage = "idle"

=============================================================================
