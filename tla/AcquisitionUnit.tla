--------------------------- MODULE AcquisitionUnit ---------------------------
(***************************************************************************)
(* A unit of a device that records or plays until it is done: the scope    *)
(* (shfqa_scope.py), the result loggers of readout and spectroscopy, an    *)
(* AWG core (awg.py), and the trigger generation of a PQSC or QHub         *)
(* (quantum_system_hub.py).  Each has an enable node, which is node 1 of   *)
(* StateWait: operations set nodes and then wait for a state of it.        *)
(*                                                                         *)
(* An operation is a list of set commands followed, maybe, by a call of    *)
(* wait_for_state_change.  Sets are asynchronous: they reach the device in *)
(* the order in which they were issued, some time later.  A deep set and a *)
(* deep get are answered by the device, so after all that was issued       *)
(* before.  Within a transaction of the device sets are only buffered.     *)
(*                                                                         *)
(* The unit may refuse an enable (no sequencer program), and disables      *)
(* itself when it is done, which in continuous mode (single off) it never  *)
(* is before it is told to stop.  A disable it obeys at once or when it is *)
(* done, be it never: the tests let stop time out.  Only of a PQSC or QHub *)
(* does the code expect that it stops at once, for arm changes settings    *)
(* right after the disable.                                                *)
(***************************************************************************)
EXTENDS StateWait, Sequences

CONSTANTS
  MaxCalls  \* bound: operations called in one behaviour

ASSUME UnitAssumption ==
  /\ NumNodes = 1 /\ Value = {0, 1}
  /\ MaxCalls \in Nat

Off == 0
On  == 1

VARIABLES
  kind,        \* the unit, one of Kinds
  single,      \* its single node (scope and AWG) in the device
  singleCopy,  \* the same in the data server
  cmds,        \* set commands on their way to the device
  inBlock,     \* the device has a set transaction in progress
  buffered,    \* what is in it
  op,          \* the operation called last
  todo,        \* the set commands it has not issued yet
  ack,         \* the value of the enable node acknowledged last
  told,        \* what the last enable or disable told the unit to be
  seen,        \* values of the enable node since the commands of op arrived
  calls        \* number of operations called

waitVars == vars
unitVars == <<kind, single, singleCopy, cmds, inBlock, buffered, op, todo, ack,
              told, seen, calls>>
allVars  == <<waitVars, unitVars>>

\* What a set command is for: "config" stands for repetitions, holdoff and
\* the reset of the register bank.
Command == [node : {"single", "enable", "config"}, value : Value,
            deep : BOOLEAN]

Set(n, v)     == [node |-> n, value |-> v, deep |-> FALSE]
DeepSet(n, v) == [node |-> n, value |-> v, deep |-> TRUE]
SetHub(v, deep) == [node |-> "enable", value |-> v, deep |-> deep]

Kinds == {"scope", "readout", "spectroscopy", "awg", "pqsc", "qhub"}
Hubs  == {"pqsc", "qhub"}
Ops   == {"none", "run", "stop", "wait_done", "enable_sequencer", "start",
          "halt", "arm", "arm_and_run"}

\* Of the state StateWait declares, what this module gives more values to.
UnitTypeOK ==
  /\ pc \in {"idle", "set", "ack", "next", "deep", "check", "expired", "get"}
  /\ outcome \in {"none", "returned", "TimeoutError", "RuntimeError"}
  /\ actual \in [Node -> Value] /\ copy \in [Node -> Value]
  /\ kind \in Kinds /\ op \in Ops
  /\ single \in BOOLEAN /\ singleCopy \in BOOLEAN /\ inBlock \in BOOLEAN
  /\ cmds \in Seq(Command) /\ buffered \in Seq(Command)
  /\ todo \in Seq(Command)
  /\ ack \in Value /\ told \in Value /\ seen \subseteq Value /\ calls \in 0..MaxCalls

UnitInit ==
  /\ Init
  /\ kind \in Kinds
  /\ single \in BOOLEAN /\ singleCopy = single
  /\ cmds = <<>> /\ inBlock = FALSE /\ buffered = <<>>
  /\ op = "none" /\ todo = <<>> /\ ack = Off /\ told = actual[1]
  /\ seen = {} /\ calls = 0

-----------------------------------------------------------------------------
(* The device *)

\* seen gains the value of the enable node once nothing of op is under way.
Observe ==
  seen' = IF pc' # "idle" /\ cmds' = <<>> /\ todo' = <<>>
            THEN seen \cup {actual'[1]} ELSE seen

SwitchTo(v) == IF v = actual[1] THEN UNCHANGED waitVars ELSE DeviceChanges(1, v)

\* What the code counts on: a hub that is switched off is off.
Obeys(v) == v = Off /\ kind \in Hubs

TakesSingle(c) ==
  /\ c.node = "single"
  /\ single' = (c.value = On)
  /\ UNCHANGED <<waitVars, ack, told>>

TakesEnable(c) ==
  /\ c.node = "enable"
  /\ told' = c.value
  /\ \E v \in {c.value} \cup (IF Obeys(c.value) THEN {} ELSE {actual[1]}) :
       ack' = v /\ SwitchTo(v)
  /\ UNCHANGED single

TakesConfig(c) ==
  /\ c.node = "config"
  /\ UNCHANGED <<waitVars, single, ack, told>>

Take ==
  /\ cmds # <<>>
  /\ TakesSingle(Head(cmds)) \/ TakesEnable(Head(cmds)) \/ TakesConfig(Head(cmds))
  /\ cmds' = Tail(cmds)
  /\ UNCHANGED <<kind, singleCopy, inBlock, buffered, op, todo, calls>>
  /\ Observe

Done ==
  /\ actual[1] = On
  /\ kind \in {"scope", "awg"} => single \/ told = Off
  /\ SwitchTo(Off)
  /\ UNCHANGED <<kind, single, singleCopy, cmds, inBlock, buffered, op, todo,
                 ack, told, calls>>
  /\ Observe

CopiesFollow ==
  /\ \/ CopyFollows(1) /\ UNCHANGED singleCopy
     \/ singleCopy # single /\ singleCopy' = single /\ UNCHANGED waitVars
  /\ UNCHANGED <<kind, single, cmds, inBlock, buffered, op, todo, ack, told,
                 seen, calls>>

-----------------------------------------------------------------------------
(* Issuing the commands of an operation *)

Begin(name, commands) ==
  /\ pc = "idle" /\ calls < MaxCalls
  /\ calls' = calls + 1
  /\ op' = name /\ todo' = commands
  /\ pc' = "set" /\ outcome' = "none" /\ seen' = {}
  /\ UNCHANGED <<envVars, callVars, turn, budget, left, curr, held,
                 kind, single, singleCopy, cmds, inBlock, buffered, ack,
                 told>>

\* An operation that raises before it does anything.
Refuse(name) ==
  /\ pc = "idle" /\ calls < MaxCalls
  /\ calls' = calls + 1
  /\ op' = name /\ outcome' = "RuntimeError" /\ seen' = {}
  /\ UNCHANGED <<envVars, pc, callVars, turn, budget, left, curr, held,
                 kind, single, singleCopy, cmds, inBlock, buffered, todo, ack,
                 told>>

\* Node._set: a deep set waits for the device, unless it is only buffered.
IssueSet ==
  /\ pc = "set" /\ todo # <<>>
  /\ LET c == Head(todo)
     IN  /\ IF inBlock THEN /\ buffered' = Append(buffered, c)
                            /\ UNCHANGED cmds
                       ELSE /\ cmds' = Append(cmds, c)
                            /\ UNCHANGED buffered
         /\ pc' = IF c.deep /\ ~inBlock THEN "ack" ELSE "set"
  /\ todo' = Tail(todo)
  /\ UNCHANGED <<envVars, callVars, turn, budget, left, curr, outcome, held,
                 kind, single, singleCopy, inBlock, op, ack, told,
                 calls>>
  /\ Observe

\* The answer to a deep set also brings the data server up to date.
Acknowledged ==
  /\ pc = "ack" /\ cmds = <<>>
  /\ pc' = "set" /\ copy' = actual /\ singleCopy' = single
  /\ UNCHANGED <<actual, callVars, turn, budget, left, curr, outcome, held,
                 kind, single, cmds, inBlock, buffered, op, todo, ack,
                 told, calls>>
  /\ Observe

\* What an operation does when its commands are issued: wait for a state of
\* the enable node, or return.
Awaited == [run |-> On, stop |-> Off, wait_done |-> Off]

WaitForState ==
  /\ pc = "set" /\ todo = <<>> /\ op \in DOMAIN Awaited
  /\ \E timeout \in 0..MaxTimeout :
       StartWait([value |-> Awaited[op], invert |-> FALSE, named |-> FALSE], 1,
                 timeout)
  /\ UNCHANGED <<kind, single, singleCopy, cmds, inBlock, buffered, op, todo,
                 ack, told, calls>>
  /\ Observe

\* Mutant of Return: the acknowledged value is not looked at.
ReturnUnchecked ==
  /\ pc = "set" /\ todo = <<>> /\ op \notin DOMAIN Awaited
  /\ Finish("returned")
  /\ UNCHANGED <<envVars, callVars, turn, budget, left, curr, held, unitVars>>

\* AWG.enable_sequencer raises unless the deep set returned the value one; a
\* set that was only buffered returns None.
Return ==
  /\ pc = "set" /\ todo = <<>> /\ op \notin DOMAIN Awaited
  /\ Finish(IF op = "enable_sequencer" /\ (inBlock \/ ack = Off)
              THEN "RuntimeError" ELSE "returned")
  /\ UNCHANGED <<envVars, callVars, turn, budget, left, curr, held, unitVars>>

-----------------------------------------------------------------------------
(* The operations *)

Enabling(isSingle) ==
  Set("single", IF isSingle THEN On ELSE Off)

ScopeRun(isSingle) ==
  kind = "scope" /\ Begin("run", <<Enabling(isSingle), Set("enable", On)>>)

\* Decorated with not_callable_in_transactions; what it enables is left to
\* an external utility function.
LoggerRun ==
  /\ kind \in {"readout", "spectroscopy"}
  /\ IF inBlock THEN Refuse("start")
                ELSE Begin("start", <<DeepSet("enable", On)>>)

ScopeStop == kind = "scope" /\ Begin("stop", <<Set("enable", Off)>>)

\* Mutant of ReadoutStop: it waits, but does not switch the logger off.
ReadoutStopWaitsOnly == kind = "readout" /\ Begin("stop", <<>>)

ReadoutStop == kind = "readout" /\ Begin("stop", <<Set("enable", Off)>>)

SpectroscopyStop ==
  kind = "spectroscopy" /\ Begin("stop", <<Set("enable", Off)>>)

ScopeWaitDone        == kind = "scope" /\ Begin("wait_done", <<>>)
ReadoutWaitDone      == kind = "readout" /\ Begin("wait_done", <<>>)
SpectroscopyWaitDone == kind = "spectroscopy" /\ Begin("wait_done", <<>>)
HubWaitDone          == kind \in Hubs /\ Begin("wait_done", <<>>)

EnableSequencer(isSingle) ==
  /\ kind = "awg"
  /\ Begin("enable_sequencer",
           <<Enabling(isSingle), DeepSet("enable", On)>>)

\* AWG.wait_done asks the data server for the mode first.
AwgWaitDone ==
  /\ kind = "awg"
  /\ IF singleCopy THEN Begin("wait_done", <<>>) ELSE Refuse("wait_done")

HubRun(deep)  == kind \in Hubs /\ Begin("start", <<SetHub(On, deep)>>)
HubStop(deep) == kind \in Hubs /\ Begin("halt", <<SetHub(Off, deep)>>)

\* Mutant of ArmCommands: the unit is not stopped first.
ArmCommandsNoStop(deep, optional) ==
  IF optional THEN <<Set("config", On)>> ELSE <<>>

\* Stop, then the optional settings, then (PQSC) the register bank.
ArmCommands(deep, optional) ==
  <<SetHub(Off, deep)>>
  \o (IF optional THEN <<Set("config", On)>> ELSE <<>>)
  \o (IF kind = "pqsc" THEN <<[node |-> "config", value |-> On, deep |-> deep]>>
                       ELSE <<>>)

Arm(deep, optional) ==
  kind \in Hubs /\ Begin("arm", ArmCommands(deep, optional))

ArmAndRun(optional) ==
  /\ kind \in Hubs
  /\ Begin("arm_and_run", Append(ArmCommands(TRUE, optional), SetHub(On, TRUE)))

-----------------------------------------------------------------------------
(* A transaction of the device around the operations *)

EnterBlock ==
  /\ pc = "idle" /\ ~inBlock
  /\ inBlock' = TRUE
  /\ UNCHANGED <<waitVars, kind, single, singleCopy, cmds, buffered, op, todo,
                 ack, told, seen, calls>>

LeaveBlock(normally) ==
  /\ pc = "idle" /\ inBlock
  /\ inBlock' = FALSE /\ buffered' = <<>>
  /\ cmds' = IF normally THEN cmds \o buffered ELSE cmds
  /\ op' = "none"
  /\ UNCHANGED <<waitVars, kind, single, singleCopy, todo, ack, told,
                 seen, calls>>

-----------------------------------------------------------------------------
UnitPoll ==
  /\ pc = "deep" => cmds = <<>>
  /\ Poll
  /\ UNCHANGED unitVars

UnitTick == Polling /\ Tick /\ UNCHANGED unitVars

Operations ==
  \/ \E b \in BOOLEAN : \/ ScopeRun(b) \/ EnableSequencer(b)
                        \/ HubRun(b) \/ HubStop(b) \/ ArmAndRun(b)
                        \/ \E optional \in BOOLEAN : Arm(b, optional)
  \/ ScopeStop \/ ScopeWaitDone
  \/ LoggerRun \/ ReadoutStop \/ ReadoutWaitDone
  \/ SpectroscopyStop \/ SpectroscopyWaitDone
  \/ AwgWaitDone \/ HubWaitDone

Execute == IssueSet \/ Acknowledged \/ WaitForState \/ Return \/ UnitPoll

BlockSteps == EnterBlock \/ \E b \in BOOLEAN : LeaveBlock(b)

Device == Take \/ Done \/ CopiesFollow

UnitNext == Operations \/ Execute \/ BlockSteps \/ Device \/ UnitTick

UnitSpec == UnitInit /\ [][UnitNext]_allVars

-----------------------------------------------------------------------------
(* Properties *)

\* When stop or wait_done returns the unit is off and stays off: no command
\* issued before is still on its way to switch it on (run followed by
\* wait_done must not return because the run has not arrived yet).
DoneMeansOff ==
  op \in {"stop", "wait_done"} /\ outcome = "returned" =>
    actual[1] = Off /\ cmds = <<>>

\* Scope.run and AWG.enable_sequencer return only when the unit has been on
\* since their commands arrived.
RunMeansStarted ==
  op \in {"run", "enable_sequencer"} /\ outcome = "returned" => On \in seen

\* Outside of a transaction stop times out only when its disable has reached
\* the device and the unit was still on then: neither because the disable was
\* late nor because the data server has an old value, not even with a timeout
\* of zero.
StopTimesOutOnlyWhenOn ==
  op = "stop" /\ outcome = "TimeoutError" /\ ~inBlock =>
    cmds = <<>> /\ told = Off /\ On \in seen

\* The trigger settings of a PQSC or QHub never change while it sends out
\* triggers, in a transaction or not ("Stop the PQSC if it is already
\* running").
ConfiguredWhenStopped ==
  [][cmds # <<>> /\ cmds' = Tail(cmds) /\ Head(cmds).node = "config"
       => actual[1] = Off]_allVars

=============================================================================
