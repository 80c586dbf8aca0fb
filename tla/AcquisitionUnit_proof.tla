----------------------- MODULE AcquisitionUnit_proof -----------------------
(***************************************************************************)
(* Proofs about AcquisitionUnit, for any timeouts and any number of calls. *)
(***************************************************************************)
EXTENDS AcquisitionUnit, TLAPS

Waiting == pc \in {"next", "deep", "check", "expired", "get"}

(* A value of the enable node has been read in the wait.                   *)
Polled == pc \in {"check", "expired", "get"}
Got    == Polled \/ (pc = "next" /\ turn = 2)

UnitType ==
  /\ pc \in {"idle", "set", "ack", "next", "deep", "check", "expired", "get"}
  /\ actual \in [Node -> Value] /\ copy \in [Node -> Value]
  /\ cmds \in Seq(Command) /\ buffered \in Seq(Command) /\ todo \in Seq(Command)
  /\ ack \in Value /\ op \in Ops

(* A wait is one for the enable node, after the commands of its operation  *)
(* were issued, and once the node was read they have arrived.              *)
Waits ==
  /\ Waiting =>
       /\ todo = <<>> /\ op \in DOMAIN Awaited
       /\ want = [value |-> Awaited[op], invert |-> FALSE, named |-> FALSE]
       /\ targets = 1 /\ turn \in {1, 2}
  /\ pc \in {"deep", "check", "expired", "get"} => turn = 1
  /\ Got => cmds = <<>>

(* seen has the present value of the enable node, and what was read is one *)
(* of the values seen.  A unit that is on has been on whenever it was read *)
(* since the commands arrived, for nothing is left to switch it on again.  *)
Reads ==
  /\ (pc = "ack" \/ Waiting) /\ cmds = <<>> /\ todo = <<>> => actual[1] \in seen
  /\ Polled => copy[1] \in seen /\ (actual[1] = On => copy[1] = On)
  /\ Got => curr \in Value \cap seen /\ (actual[1] = On => curr = On)
  /\ pc = "expired" => curr # want.value
  /\ pc = "next" /\ turn = 2 => curr = want.value

EnableCommand == DeepSet("enable", On)
EnableTodo ==
  {<<Enabling(b), EnableCommand>> : b \in BOOLEAN} \cup {<<EnableCommand>>}

(* enable_sequencer looks at the answer to its own deep set.               *)
Sequencer ==
  op = "enable_sequencer" /\ ~inBlock =>
    /\ pc = "ack" => todo = <<>>
    /\ pc = "ack" /\ cmds # <<>> => cmds[Len(cmds)] = EnableCommand
    /\ pc = "set" => todo \in EnableTodo \/ (todo = <<>> /\ cmds = <<>>)
    /\ pc \in {"ack", "set"} /\ todo = <<>> /\ cmds = <<>> =>
         (ack = On => On \in seen)

StopCommand == Set("enable", Off)

(* The unit was told to be off, or the last command on its way tells it.   *)
LastOff == IF cmds = <<>> THEN told = Off ELSE cmds[Len(cmds)] = StopCommand

Stopping ==
  op = "stop" /\ ~inBlock /\ pc # "idle" =>
    /\ pc # "ack"
    /\ pc = "set" /\ todo # <<>> => todo = <<StopCommand>>
    /\ todo = <<>> => LastOff

UnitIndInv ==
  /\ UnitType /\ Waits /\ Reads /\ Sequencer /\ Stopping
  /\ pc = "ack" => ~inBlock
  /\ pc # "idle" => outcome = "none"
  /\ DoneMeansOff /\ RunMeansStarted /\ StopTimesOutOnlyWhenOn

-----------------------------------------------------------------------------
(* Facts about the data                                                    *)

\* There is one node, with the values Off and On.
LEMMA OneNode == Node = {1} /\ Value = {Off, On} /\ Off = 0 /\ On = 1
  BY UnitAssumption, SMT DEF Node, Off, On

\* What the operations with a wait wait for.
LEMMA AwaitedFacts ==
  /\ DOMAIN Awaited = {"run", "stop", "wait_done"}
  /\ Awaited["run"] = On /\ Awaited["stop"] = Off /\ Awaited["wait_done"] = Off
  BY SMT DEF Awaited

\* The two commands the invariant speaks of.
LEMMA CommandFacts ==
  /\ EnableCommand \in Command /\ StopCommand \in Command
  /\ EnableCommand.node = "enable" /\ EnableCommand.value = On
  /\ EnableCommand.deep = TRUE
  /\ StopCommand.node = "enable" /\ StopCommand.value = Off
  /\ StopCommand.deep = FALSE
  BY OneNode, SMT DEF Command, EnableCommand, StopCommand, Set, DeepSet

\* Adding a command at the end.
LEMMA AppendFacts ==
  ASSUME NEW S, NEW s \in Seq(S), NEW e \in S
  PROVE  /\ Append(s, e) \in Seq(S) /\ Append(s, e) # <<>>
         /\ Append(s, e)[Len(Append(s, e))] = e
  BY SMT

\* Taking a command from the front keeps the last one, unless it is that.
LEMMA TailFacts ==
  ASSUME NEW S, NEW s \in Seq(S), s # <<>>
  PROVE  /\ Head(s) \in S /\ Tail(s) \in Seq(S)
         /\ Tail(s) = <<>> => Head(s) = s[Len(s)]
         /\ Tail(s) # <<>> => Tail(s)[Len(Tail(s))] = s[Len(s)]
<1>1. PICK n \in Nat : n = Len(s)
  BY SMT
<1>2. n # 0 /\ Head(s) = s[1] /\ Head(s) \in S
  BY <1>1, SMT
<1>3. Tail(s) \in Seq(S) /\ Len(Tail(s)) = n - 1
  BY <1>1, <1>2, SMT
<1>4. ASSUME Tail(s) = <<>>
      PROVE  n = 1
  <2>1. Len(<<>>) = 0
    BY SMT
  <2>2. n - 1 = 0
    BY <2>1, <1>3, <1>4
  <2> QED
    BY <2>2, <1>1, SMT
<1>5. ASSUME Tail(s) # <<>>
      PROVE  Tail(s)[n - 1] = s[n]
  <2>1. n - 1 \in 1..Len(Tail(s))
    BY <1>2, <1>3, <1>5, SMT
  <2>2. \A i \in 1..Len(Tail(s)) : Tail(s)[i] = s[i + 1]
    BY <1>1, <1>2, SMT
  <2>3. n - 1 + 1 = n
    BY SMT
  <2> QED
    BY <2>1, <2>2, <2>3, SMT
<1> QED
  BY <1>1, <1>2, <1>3, <1>4, <1>5

\* The commands enable_sequencer has still to issue.
LEMMA EnableTodoFacts ==
  ASSUME NEW s \in EnableTodo
  PROVE  /\ s \in Seq(Command) /\ s # <<>>
         /\ \/ Head(s) = EnableCommand /\ Tail(s) = <<>>
            \/ Head(s).deep = FALSE /\ Tail(s) \in EnableTodo
<1>1. \A b \in BOOLEAN : Enabling(b) \in Command /\ Enabling(b).deep = FALSE
  BY OneNode, SMT DEF Enabling, Set, Command
<1>2. CASE s = <<EnableCommand>>
  BY <1>2, CommandFacts, SMT
<1>3. CASE \E b \in BOOLEAN : s = <<Enabling(b), EnableCommand>>
  <2>1. PICK b \in BOOLEAN : s = <<Enabling(b), EnableCommand>>
    BY <1>3
  <2>2. PICK c \in Command : c = Enabling(b)
    BY <1>1
  <2>3. c.deep = FALSE
    BY <1>1, <2>2
  <2>4. s = <<c, EnableCommand>>
    BY <2>1, <2>2
  <2>5. s \in Seq(Command) /\ s # <<>> /\ Head(s) = c /\ Tail(s) = <<EnableCommand>>
    BY <2>4, CommandFacts, SMT
  <2>6. <<EnableCommand>> \in EnableTodo
    BY DEF EnableTodo
  <2> QED
    BY <2>3, <2>5, <2>6
<1> QED
  BY <1>2, <1>3 DEF EnableTodo

-----------------------------------------------------------------------------
(* The steps of the device                                                 *)

\* seen only grows within an operation, and has the present value of the
\* enable node once all commands have arrived.
LEMMA ObserveFacts ==
  ASSUME Observe
  PROVE  /\ seen \subseteq seen'
         /\ pc' # "idle" /\ cmds' = <<>> /\ todo' = <<>> => actual'[1] \in seen'
  BY DEF Observe

\* A step to another value of the enable node, or to the same.
LEMMA SwitchFacts ==
  ASSUME UnitType, NEW v \in Value, SwitchTo(v)
  PROVE  /\ actual' = [n \in Node |-> v]
         /\ UNCHANGED <<copy, pc, want, targets, turn, curr, outcome>>
<1>1. CASE v = actual[1]
  <2>1. UNCHANGED waitVars
    BY <1>1 DEF SwitchTo
  <2>2. UNCHANGED <<actual, copy, pc, want, targets, turn, curr, outcome>>
    BY <2>1 DEF waitVars, vars
  <2> QED
    BY <1>1, <2>2, OneNode DEF UnitType
<1>2. CASE v # actual[1]
  <2>1. DeviceChanges(1, v)
    BY <1>2 DEF SwitchTo
  <2> QED
    BY <2>1, OneNode DEF UnitType, DeviceChanges
<1> QED
  BY <1>1, <1>2

\* What the arrival of a command does: only one for the enable node changes
\* it, to the value asked for or, when the unit refuses, to none.
LEMMA TakeFacts ==
  ASSUME UnitType, Take
  PROVE  /\ cmds # <<>> /\ cmds' = Tail(cmds)
         /\ actual' \in [Node -> Value] /\ ack' \in Value
         /\ UNCHANGED <<copy, pc, want, targets, turn, curr, outcome>>
         /\ UNCHANGED <<inBlock, buffered, op, todo>>
         /\ Head(cmds) = EnableCommand => ack' = actual'[1]
         /\ Head(cmds) = StopCommand => told' = Off
         /\ Observe
<1>1. PICK c \in Command : c = Head(cmds)
  BY TailFacts DEF UnitType, Take
<1>2. /\ cmds # <<>> /\ cmds' = Tail(cmds) /\ Observe
      /\ UNCHANGED <<inBlock, buffered, op, todo>>
  BY DEF Take
<1>3. TakesSingle(c) \/ TakesEnable(c) \/ TakesConfig(c)
  BY <1>1 DEF Take
<1>4. c.value \in Value
  BY SMT DEF Command
<1>5. CASE c.node = "enable"
  <2>1. TakesEnable(c)
    BY <1>3, <1>5 DEF TakesSingle, TakesConfig
  <2>2. PICK v \in {c.value} \cup (IF Obeys(c.value) THEN {} ELSE {actual[1]}) :
          ack' = v /\ SwitchTo(v)
    BY <2>1 DEF TakesEnable
  <2>3. v \in Value
    BY <1>4, <2>2, OneNode DEF UnitType
  <2>4. /\ actual' = [n \in Node |-> v]
        /\ UNCHANGED <<copy, pc, want, targets, turn, curr, outcome>>
    BY <2>2, <2>3, SwitchFacts
  <2>5. actual' \in [Node -> Value] /\ actual'[1] = v
    BY <2>3, <2>4, OneNode
  <2>6. c = StopCommand => told' = Off
    BY <2>1, CommandFacts DEF TakesEnable
  <2> QED
    BY <1>1, <1>2, <2>2, <2>3, <2>4, <2>5, <2>6
<1>6. CASE c.node # "enable"
  <2>1. UNCHANGED waitVars /\ UNCHANGED ack
    BY <1>3, <1>6 DEF TakesSingle, TakesConfig, TakesEnable
  <2>2. UNCHANGED <<actual, copy, pc, want, targets, turn, curr, outcome>>
    BY <2>1 DEF waitVars, vars
  <2>3. c # EnableCommand /\ c # StopCommand
    BY <1>6, CommandFacts
  <2> QED
    BY <1>1, <1>2, <2>1, <2>2, <2>3 DEF UnitType
<1> QED
  BY <1>5, <1>6

\* A command reaches the device.
LEMMA TakeKeeps ==
  ASSUME UnitIndInv, Take
  PROVE  UnitIndInv'
<1>1. /\ UnitType /\ Waits /\ Reads /\ Sequencer /\ Stopping
      /\ pc = "ack" => ~inBlock
      /\ pc # "idle" => outcome = "none"
      /\ DoneMeansOff /\ RunMeansStarted /\ StopTimesOutOnlyWhenOn
  BY DEF UnitIndInv
<1>2. /\ cmds # <<>> /\ cmds' = Tail(cmds)
      /\ actual' \in [Node -> Value] /\ ack' \in Value
      /\ UNCHANGED <<copy, pc, want, targets, turn, curr, outcome>>
      /\ UNCHANGED <<inBlock, buffered, op, todo>>
      /\ Head(cmds) = EnableCommand => ack' = actual'[1]
      /\ Head(cmds) = StopCommand => told' = Off
      /\ Observe
  BY <1>1, TakeFacts
<1>3. /\ Tail(cmds) \in Seq(Command)
      /\ Tail(cmds) = <<>> => Head(cmds) = cmds[Len(cmds)]
      /\ Tail(cmds) # <<>> => Tail(cmds)[Len(Tail(cmds))] = cmds[Len(cmds)]
  BY <1>1, <1>2, TailFacts DEF UnitType
<1>4. /\ seen \subseteq seen'
      /\ pc' # "idle" /\ cmds' = <<>> /\ todo' = <<>> => actual'[1] \in seen'
  BY <1>2, ObserveFacts
<1>5. UnitType'
  BY <1>1, <1>2, <1>3 DEF UnitType
<1>6. Waits'
  BY <1>1, <1>2 DEF Waits, Waiting, Got, Polled
<1>7. Reads'
  BY <1>1, <1>2, <1>4 DEF Reads, Waits, Waiting, Got, Polled
<1>8. Sequencer'
  <2> SUFFICES ASSUME op = "enable_sequencer", ~inBlock
               PROVE  Sequencer'
    BY <1>2 DEF Sequencer
  <2>1. pc' = "ack" => todo' = <<>>
    BY <1>1, <1>2 DEF Sequencer
  <2>2. pc' = "ack" /\ cmds' # <<>> => cmds'[Len(cmds')] = EnableCommand
    BY <1>1, <1>2, <1>3 DEF Sequencer
  <2>3. pc' = "set" => todo' \in EnableTodo /\ todo' # <<>>
    BY <1>1, <1>2, EnableTodoFacts DEF Sequencer
  <2>4. ASSUME pc' \in {"ack", "set"}, todo' = <<>>, cmds' = <<>>, ack' = On
        PROVE  On \in seen'
    <3>1. pc = "ack"
      BY <1>2, <2>3, <2>4
    <3>2. cmds[Len(cmds)] = EnableCommand
      BY <1>1, <1>2, <3>1 DEF Sequencer
    <3>3. ack' = actual'[1]
      BY <1>2, <1>3, <2>4, <3>2
    <3> QED
      BY <1>2, <1>4, <2>4, <3>1, <3>3
  <2> QED
    BY <2>1, <2>2, <2>3, <2>4 DEF Sequencer
<1>9. Stopping'
  <2> SUFFICES ASSUME op = "stop", ~inBlock, pc # "idle"
               PROVE  Stopping'
    BY <1>2 DEF Stopping
  <2>1. pc' # "ack"
    BY <1>1, <1>2 DEF Stopping
  <2>2. pc' = "set" /\ todo' # <<>> => todo' = <<StopCommand>>
    BY <1>1, <1>2 DEF Stopping
  <2>3. todo' = <<>> => LastOff'
    BY <1>1, <1>2, <1>3 DEF Stopping, LastOff
  <2> QED
    BY <2>1, <2>2, <2>3 DEF Stopping
<1>10. DoneMeansOff' /\ RunMeansStarted' /\ StopTimesOutOnlyWhenOn'
  BY <1>1, <1>2, <1>4 DEF DoneMeansOff, RunMeansStarted, StopTimesOutOnlyWhenOn
<1> QED
  BY <1>1, <1>2, <1>5, <1>6, <1>7, <1>8, <1>9, <1>10 DEF UnitIndInv

\* The unit switches itself off.
LEMMA DoneKeeps ==
  ASSUME UnitIndInv, Done
  PROVE  UnitIndInv'
<1>1. /\ UnitType /\ Waits /\ Reads /\ Sequencer /\ Stopping
      /\ pc = "ack" => ~inBlock
      /\ pc # "idle" => outcome = "none"
      /\ DoneMeansOff /\ RunMeansStarted /\ StopTimesOutOnlyWhenOn
  BY DEF UnitIndInv
<1>2. /\ actual[1] = On /\ actual' = [n \in Node |-> Off]
      /\ UNCHANGED <<copy, pc, want, targets, turn, curr, outcome>>
      /\ UNCHANGED <<cmds, inBlock, buffered, op, todo, ack, told>>
      /\ Observe
  BY <1>1, OneNode, SwitchFacts DEF Done
<1>3. /\ seen \subseteq seen'
      /\ pc' # "idle" /\ cmds' = <<>> /\ todo' = <<>> => actual'[1] \in seen'
  BY <1>2, ObserveFacts
<1>4. actual' \in [Node -> Value] /\ actual'[1] = Off /\ Off # On
  BY <1>2, OneNode
<1>5. UnitType'
  BY <1>1, <1>2, <1>4 DEF UnitType
<1>6. Waits'
  BY <1>1, <1>2 DEF Waits, Waiting, Got, Polled
<1>7. Reads'
  BY <1>1, <1>2, <1>3, <1>4 DEF Reads, Waits, Waiting, Got, Polled
<1>8. Sequencer'
  BY <1>1, <1>2, <1>3 DEF Sequencer
<1>9. Stopping'
  BY <1>1, <1>2, <1>4 DEF Stopping, LastOff, Polled
<1>10. DoneMeansOff' /\ RunMeansStarted' /\ StopTimesOutOnlyWhenOn'
  BY <1>1, <1>2, <1>3, <1>4 DEF DoneMeansOff, RunMeansStarted, StopTimesOutOnlyWhenOn
<1> QED
  BY <1>1, <1>2, <1>5, <1>6, <1>7, <1>8, <1>9, <1>10 DEF UnitIndInv

\* The data server gets to know a value.
LEMMA CopiesFollowKeeps ==
  ASSUME UnitIndInv, CopiesFollow
  PROVE  UnitIndInv'
<1>1. /\ UnitType /\ Waits /\ Reads /\ Sequencer /\ Stopping
      /\ pc = "ack" => ~inBlock
      /\ pc # "idle" => outcome = "none"
      /\ DoneMeansOff /\ RunMeansStarted /\ StopTimesOutOnlyWhenOn
  BY DEF UnitIndInv
<1>2. UNCHANGED <<cmds, inBlock, buffered, op, todo, ack, told, seen>>
  BY DEF CopiesFollow
<1>3. CopyFollows(1) \/ UNCHANGED waitVars
  BY DEF CopiesFollow
<1>4. UNCHANGED <<actual, pc, want, targets, turn, curr, outcome>>
  BY <1>3 DEF CopyFollows, waitVars, vars
<1>5. copy' \in [Node -> Value] /\ (copy'[1] = copy[1] \/ copy'[1] = actual[1])
  BY <1>1, <1>3, OneNode DEF CopyFollows, waitVars, vars, UnitType
<1>6. UnitType'
  BY <1>1, <1>2, <1>4, <1>5 DEF UnitType
<1>7. Waits'
  BY <1>1, <1>2, <1>4 DEF Waits, Waiting, Got, Polled
<1>8. Reads'
  BY <1>1, <1>2, <1>4, <1>5 DEF Reads, Waits, Waiting, Got, Polled
<1>9. Sequencer'
  BY <1>1, <1>2, <1>4 DEF Sequencer
<1>10. Stopping'
  BY <1>1, <1>2, <1>4, <1>5 DEF Stopping, LastOff, Waits, Waiting, Got, Polled
<1>11. DoneMeansOff' /\ RunMeansStarted' /\ StopTimesOutOnlyWhenOn'
  BY <1>1, <1>2, <1>4 DEF DoneMeansOff, RunMeansStarted, StopTimesOutOnlyWhenOn
<1> QED
  BY <1>1, <1>2, <1>4, <1>6, <1>7, <1>8, <1>9, <1>10, <1>11 DEF UnitIndInv

-----------------------------------------------------------------------------
(* Issuing the commands of an operation                                    *)

\* An operation begins: a stop has one command, enable_sequencer two.
LEMMA BeginKeeps ==
  ASSUME UnitIndInv, NEW name \in Ops, NEW commands \in Seq(Command),
         Begin(name, commands),
         name = "stop" => commands = <<StopCommand>>,
         name = "enable_sequencer" => commands \in EnableTodo
  PROVE  UnitIndInv'
<1>1. /\ UnitType /\ Waits /\ Reads /\ Sequencer /\ Stopping
      /\ pc = "ack" => ~inBlock
      /\ pc # "idle" => outcome = "none"
      /\ DoneMeansOff /\ RunMeansStarted /\ StopTimesOutOnlyWhenOn
  BY DEF UnitIndInv
<1>2. /\ op' = name /\ todo' = commands
      /\ pc' = "set" /\ outcome' = "none"
      /\ UNCHANGED <<actual, copy, want, targets, turn, curr>>
      /\ UNCHANGED <<cmds, inBlock, buffered, ack, told>>
  BY DEF Begin, envVars, callVars
<1>3. UnitType'
  BY <1>1, <1>2 DEF UnitType
<1>4. Waits' /\ Reads'
  BY <1>2 DEF Waits, Reads, Waiting, Got, Polled
<1>5. Sequencer'
  <2> SUFFICES ASSUME name = "enable_sequencer"
               PROVE  Sequencer'
    BY <1>2 DEF Sequencer
  <2>1. todo' \in EnableTodo /\ todo' # <<>>
    BY <1>2, EnableTodoFacts
  <2> QED
    BY <1>2, <2>1 DEF Sequencer
<1>6. Stopping'
  <2> SUFFICES ASSUME name = "stop"
               PROVE  Stopping'
    BY <1>2 DEF Stopping
  <2>1. todo' = <<StopCommand>>
    BY <1>2
  <2> QED
    BY <1>2, <2>1 DEF Stopping, Polled
<1>7. DoneMeansOff' /\ RunMeansStarted' /\ StopTimesOutOnlyWhenOn'
  BY <1>2 DEF DoneMeansOff, RunMeansStarted, StopTimesOutOnlyWhenOn
<1> QED
  BY <1>1, <1>2, <1>3, <1>4, <1>5, <1>6, <1>7 DEF UnitIndInv

\* An operation is refused.
LEMMA RefuseKeeps ==
  ASSUME UnitIndInv, NEW name \in Ops, Refuse(name)
  PROVE  UnitIndInv'
<1>1. /\ UnitType /\ Waits /\ Reads /\ Sequencer /\ Stopping
      /\ pc = "ack" => ~inBlock
      /\ pc # "idle" => outcome = "none"
      /\ DoneMeansOff /\ RunMeansStarted /\ StopTimesOutOnlyWhenOn
  BY DEF UnitIndInv
<1>2. /\ op' = name /\ pc = "idle" /\ outcome' = "RuntimeError"
      /\ UNCHANGED <<actual, copy, pc, want, targets, turn, curr>>
      /\ UNCHANGED <<cmds, inBlock, buffered, todo, ack, told>>
  BY DEF Refuse, envVars, callVars
<1>3. UnitType'
  BY <1>1, <1>2 DEF UnitType
<1>4. Waits' /\ Reads' /\ Sequencer' /\ Stopping'
  BY <1>2 DEF Waits, Reads, Sequencer, Stopping, Waiting, Got, Polled
<1>5. DoneMeansOff' /\ RunMeansStarted' /\ StopTimesOutOnlyWhenOn'
  BY <1>2 DEF DoneMeansOff, RunMeansStarted, StopTimesOutOnlyWhenOn
<1> QED
  BY <1>1, <1>2, <1>3, <1>4, <1>5 DEF UnitIndInv

\* The commands of the operations: what BeginKeeps asks of them.
LEMMA CommandsFacts ==
  /\ Set("enable", Off) = StopCommand
  /\ \A b \in BOOLEAN :
       /\ <<Enabling(b), DeepSet("enable", On)>> \in EnableTodo
       /\ <<Enabling(b), Set("enable", On)>> \in Seq(Command)
       /\ \A v \in Value : <<SetHub(v, b)>> \in Seq(Command)
       /\ \A optional \in BOOLEAN : ArmCommands(b, optional) \in Seq(Command)
  /\ <<StopCommand>> \in Seq(Command) /\ <<EnableCommand>> \in Seq(Command)
  /\ \A s \in Seq(Command), c \in Command : Append(s, c) \in Seq(Command)
<1>1. Set("enable", Off) = StopCommand
  BY DEF StopCommand
<1>2. \A v \in Value, b \in BOOLEAN : SetHub(v, b) \in Command
  BY SMT DEF SetHub, Command
<1>3. /\ \A v \in Value : Set("enable", v) \in Command
      /\ \A v \in Value : Set("config", v) \in Command
      /\ \A v \in Value, b \in BOOLEAN :
           [node |-> "config", value |-> v, deep |-> b] \in Command
  BY SMT DEF Set, Command
<1>4. \A b \in BOOLEAN : Enabling(b) \in Command
  BY OneNode, SMT DEF Enabling, Set, Command
<1>5. \A c \in Command, d \in Command : <<c>> \in Seq(Command) /\ <<c, d>> \in Seq(Command)
  BY SMT
<1>6. ASSUME NEW b \in BOOLEAN
      PROVE  /\ <<Enabling(b), DeepSet("enable", On)>> \in EnableTodo
             /\ <<Enabling(b), Set("enable", On)>> \in Seq(Command)
  BY <1>3, <1>4, <1>5, OneNode DEF EnableTodo, EnableCommand
<1>7. \A v \in Value, b \in BOOLEAN : <<SetHub(v, b)>> \in Seq(Command)
  BY <1>2, <1>5
<1>8. ASSUME NEW b \in BOOLEAN, NEW optional \in BOOLEAN
      PROVE  ArmCommands(b, optional) \in Seq(Command)
  <2>1. PICK s1 \in Seq(Command) : s1 = <<SetHub(Off, b)>>
    BY <1>7, OneNode
  <2>2. PICK s2 \in Seq(Command) :
          s2 = IF optional THEN <<Set("config", On)>> ELSE <<>>
    <3>1. <<Set("config", On)>> \in Seq(Command) /\ <<>> \in Seq(Command)
      BY <1>3, <1>5, OneNode
    <3> QED
      BY <3>1
  <2>3. PICK s3 \in Seq(Command) :
          s3 = IF kind = "pqsc"
                 THEN <<[node |-> "config", value |-> On, deep |-> b]>> ELSE <<>>
    <3>1. <<[node |-> "config", value |-> On, deep |-> b]>> \in Seq(Command)
      BY <1>3, <1>5, OneNode
    <3>2. <<>> \in Seq(Command)
      OBVIOUS
    <3> QED
      BY <3>1, <3>2
  <2>4. (s1 \o s2) \o s3 \in Seq(Command)
    BY SMT
  <2> QED
    BY <2>1, <2>2, <2>3, <2>4 DEF ArmCommands
<1>9. /\ <<StopCommand>> \in Seq(Command) /\ <<EnableCommand>> \in Seq(Command)
      /\ \A s \in Seq(Command), c \in Command : Append(s, c) \in Seq(Command)
  BY CommandFacts, <1>5, AppendFacts
<1> QED
  BY <1>1, <1>6, <1>7, <1>8, <1>9

\* Every operation keeps the invariant.
LEMMA OperationsKeep ==
  ASSUME UnitIndInv, Operations
  PROVE  UnitIndInv'
<1>1. /\ \A name \in {"run", "stop", "wait_done", "start", "halt", "arm",
                      "arm_and_run", "enable_sequencer"} : name \in Ops
      /\ <<>> \in Seq(Command)
  BY DEF Ops
<1>2. ASSUME NEW b \in BOOLEAN, ScopeRun(b)
      PROVE  UnitIndInv'
  BY <1>1, <1>2, CommandsFacts, BeginKeeps DEF ScopeRun
<1>3. ASSUME NEW b \in BOOLEAN, EnableSequencer(b)
      PROVE  UnitIndInv'
  BY <1>1, <1>3, CommandsFacts, EnableTodoFacts, BeginKeeps DEF EnableSequencer
<1>4. ASSUME NEW b \in BOOLEAN, HubRun(b) \/ HubStop(b)
      PROVE  UnitIndInv'
  BY <1>1, <1>4, CommandsFacts, OneNode, BeginKeeps DEF HubRun, HubStop
<1>5. ASSUME NEW optional \in BOOLEAN, ArmAndRun(optional)
      PROVE  UnitIndInv'
  <2>1. SetHub(On, TRUE) \in Command
    BY OneNode, SMT DEF SetHub, Command
  <2>2. Append(ArmCommands(TRUE, optional), SetHub(On, TRUE)) \in Seq(Command)
    BY <2>1, CommandsFacts
  <2> QED
    BY <1>1, <1>5, <2>2, BeginKeeps DEF ArmAndRun
<1>6. ASSUME NEW b \in BOOLEAN, NEW optional \in BOOLEAN, Arm(b, optional)
      PROVE  UnitIndInv'
  BY <1>1, <1>6, CommandsFacts, BeginKeeps DEF Arm
<1>7. ASSUME ScopeStop \/ ReadoutStop \/ SpectroscopyStop
      PROVE  UnitIndInv'
  BY <1>1, <1>7, CommandsFacts, BeginKeeps
     DEF ScopeStop, ReadoutStop, SpectroscopyStop
<1>8. ASSUME \/ ScopeWaitDone \/ ReadoutWaitDone \/ SpectroscopyWaitDone
             \/ HubWaitDone
      PROVE  UnitIndInv'
  BY <1>1, <1>8, BeginKeeps
     DEF ScopeWaitDone, ReadoutWaitDone, SpectroscopyWaitDone, HubWaitDone
<1>9. ASSUME AwgWaitDone
      PROVE  UnitIndInv'
  <2>1. Begin("wait_done", <<>>) \/ Refuse("wait_done")
    BY <1>9 DEF AwgWaitDone
  <2> QED
    BY <1>1, <2>1, BeginKeeps, RefuseKeeps
<1>10. ASSUME LoggerRun
       PROVE  UnitIndInv'
  <2>1. Begin("start", <<EnableCommand>>) \/ Refuse("start")
    BY <1>10 DEF LoggerRun, EnableCommand
  <2> QED
    BY <1>1, <2>1, CommandsFacts, BeginKeeps, RefuseKeeps
<1> QED
  BY <1>2, <1>3, <1>4, <1>5, <1>6, <1>7, <1>8, <1>9, <1>10 DEF Operations

-----------------------------------------------------------------------------
(* The steps of an operation                                               *)

\* A command is issued, or put into the transaction of the device.
LEMMA IssueSetKeeps ==
  ASSUME UnitIndInv, IssueSet
  PROVE  UnitIndInv'
<1>1. /\ UnitType /\ Waits /\ Reads /\ Sequencer /\ Stopping
      /\ pc = "ack" => ~inBlock
      /\ pc # "idle" => outcome = "none"
      /\ DoneMeansOff /\ RunMeansStarted /\ StopTimesOutOnlyWhenOn
  BY DEF UnitIndInv
<1>2. PICK c \in Command : c = Head(todo)
  BY <1>1, TailFacts DEF UnitType, IssueSet
<1>3. /\ pc = "set" /\ todo # <<>> /\ todo' = Tail(todo)
      /\ UNCHANGED <<actual, copy, want, targets, turn, curr, outcome>>
      /\ UNCHANGED <<inBlock, op, ack, told>>
      /\ Observe
  BY DEF IssueSet, envVars, callVars
<1>4. CASE inBlock
  <2>1. cmds' = cmds /\ buffered' = Append(buffered, c) /\ pc' = "set"
    BY <1>2, <1>4 DEF IssueSet
  <2>2. todo' \in Seq(Command) /\ buffered' \in Seq(Command)
    BY <1>1, <1>3, <2>1, TailFacts, AppendFacts DEF UnitType
  <2>3. UnitType'
    BY <1>1, <1>3, <2>1, <2>2 DEF UnitType
  <2>4. Waits' /\ Reads'
    BY <2>1 DEF Waits, Reads, Waiting, Got, Polled
  <2>5. Sequencer' /\ Stopping'
    BY <1>3, <1>4 DEF Sequencer, Stopping
  <2>6. DoneMeansOff' /\ RunMeansStarted' /\ StopTimesOutOnlyWhenOn'
    BY <1>1, <1>3 DEF DoneMeansOff, RunMeansStarted, StopTimesOutOnlyWhenOn
  <2> QED
    BY <1>1, <1>3, <2>1, <2>3, <2>4, <2>5, <2>6 DEF UnitIndInv
<1>5. CASE ~inBlock
  <2>1. /\ cmds' = Append(cmds, c) /\ buffered' = buffered
        /\ pc' = IF c.deep THEN "ack" ELSE "set"
    BY <1>2, <1>5 DEF IssueSet
  <2>2. todo' \in Seq(Command)
    BY <1>1, <1>3, TailFacts DEF UnitType
  <2>3. /\ cmds' \in Seq(Command) /\ cmds' # <<>>
        /\ cmds'[Len(cmds')] = c
    BY <1>1, <2>1, AppendFacts DEF UnitType
  <2>4. pc' \in {"ack", "set"}
    BY <2>1
  <2>5. UnitType'
    BY <1>1, <1>3, <2>1, <2>2, <2>3, <2>4 DEF UnitType
  <2>6. Waits' /\ Reads'
    BY <2>3, <2>4 DEF Waits, Reads, Waiting, Got, Polled
  <2>7. Sequencer'
    <3> SUFFICES ASSUME op = "enable_sequencer"
                 PROVE  Sequencer'
      BY <1>3 DEF Sequencer
    <3>1. todo \in EnableTodo
      BY <1>1, <1>3, <1>5 DEF Sequencer
    <3>2. \/ c = EnableCommand /\ todo' = <<>>
          \/ c.deep = FALSE /\ todo' \in EnableTodo
      BY <1>2, <1>3, <3>1, EnableTodoFacts
    <3>3. CASE c = EnableCommand /\ todo' = <<>>
      <4>1. pc' = "ack"
        BY <2>1, <3>3, CommandFacts
      <4> QED
        BY <2>3, <3>3, <4>1 DEF Sequencer
    <3>4. CASE c.deep = FALSE /\ todo' \in EnableTodo
      <4>1. pc' = "set" /\ todo' # <<>>
        BY <2>1, <3>4, EnableTodoFacts
      <4> QED
        BY <3>4, <4>1 DEF Sequencer
    <3> QED
      BY <3>2, <3>3, <3>4
  <2>8. Stopping'
    <3> SUFFICES ASSUME op = "stop"
                 PROVE  Stopping'
      BY <1>3 DEF Stopping
    <3>1. todo = <<StopCommand>>
      BY <1>1, <1>3, <1>5 DEF Stopping
    <3>2. c = StopCommand /\ todo' = <<>>
      BY <1>2, <1>3, <3>1, CommandFacts, SMT
    <3>3. pc' = "set"
      BY <2>1, <3>2, CommandFacts
    <3> QED
      BY <2>3, <3>2, <3>3 DEF Stopping, LastOff, Polled
  <2>9. DoneMeansOff' /\ RunMeansStarted' /\ StopTimesOutOnlyWhenOn'
    BY <1>1, <1>3 DEF DoneMeansOff, RunMeansStarted, StopTimesOutOnlyWhenOn
  <2> QED
    BY <1>1, <1>3, <1>5, <2>4, <2>5, <2>6, <2>7, <2>8, <2>9 DEF UnitIndInv
<1> QED
  BY <1>4, <1>5

\* The device answers a deep set.
LEMMA AcknowledgedKeeps ==
  ASSUME UnitIndInv, Acknowledged
  PROVE  UnitIndInv'
<1>1. /\ UnitType /\ Waits /\ Reads /\ Sequencer /\ Stopping
      /\ pc = "ack" => ~inBlock
      /\ pc # "idle" => outcome = "none"
      /\ DoneMeansOff /\ RunMeansStarted /\ StopTimesOutOnlyWhenOn
  BY DEF UnitIndInv
<1>2. /\ pc = "ack" /\ pc' = "set" /\ copy' = actual
      /\ UNCHANGED <<actual, want, targets, turn, curr, outcome>>
      /\ UNCHANGED <<cmds, inBlock, buffered, op, todo, ack, told>>
      /\ cmds = <<>> /\ Observe
  BY DEF Acknowledged, callVars
<1>3. seen \subseteq seen'
  BY <1>2, ObserveFacts
<1>4. UnitType'
  BY <1>1, <1>2 DEF UnitType
<1>5. Waits' /\ Reads'
  BY <1>2 DEF Waits, Reads, Waiting, Got, Polled
<1>6. Sequencer'
  BY <1>1, <1>2, <1>3 DEF Sequencer
<1>7. Stopping'
  BY <1>1, <1>2 DEF Stopping
<1>8. DoneMeansOff' /\ RunMeansStarted' /\ StopTimesOutOnlyWhenOn'
  BY <1>1, <1>2 DEF DoneMeansOff, RunMeansStarted, StopTimesOutOnlyWhenOn
<1> QED
  BY <1>1, <1>2, <1>4, <1>5, <1>6, <1>7, <1>8 DEF UnitIndInv

\* The operation begins to wait.
LEMMA WaitForStateKeeps ==
  ASSUME UnitIndInv, WaitForState
  PROVE  UnitIndInv'
<1>1. /\ UnitType /\ Waits /\ Reads /\ Sequencer /\ Stopping
      /\ pc = "ack" => ~inBlock
      /\ pc # "idle" => outcome = "none"
      /\ DoneMeansOff /\ RunMeansStarted /\ StopTimesOutOnlyWhenOn
  BY DEF UnitIndInv
<1>2. PICK timeout \in 0..MaxTimeout :
        StartWait([value |-> Awaited[op], invert |-> FALSE, named |-> FALSE], 1,
                  timeout)
  BY DEF WaitForState
<1>3. /\ want' = [value |-> Awaited[op], invert |-> FALSE, named |-> FALSE]
      /\ targets' = 1 /\ turn' = 1 /\ pc' = "next" /\ outcome' = "none"
      /\ UNCHANGED <<actual, copy, curr>>
  BY <1>2, SMT DEF StartWait, envVars
<1>4. /\ pc = "set" /\ todo = <<>> /\ op \in DOMAIN Awaited
      /\ UNCHANGED <<cmds, inBlock, buffered, op, todo, ack, told>>
      /\ Observe
  BY DEF WaitForState
<1>5. pc' # "idle" /\ cmds' = <<>> /\ todo' = <<>> => actual'[1] \in seen'
  BY <1>4, ObserveFacts
<1>6. UnitType'
  BY <1>1, <1>3, <1>4 DEF UnitType
<1>7. Waits'
  BY <1>3, <1>4 DEF Waits, Waiting, Got, Polled
<1>8. Reads'
  BY <1>3, <1>4, <1>5 DEF Reads, Waiting, Got, Polled
<1>9. Sequencer'
  BY <1>3 DEF Sequencer
<1>10. Stopping'
  BY <1>1, <1>3, <1>4 DEF Stopping, LastOff, Polled
<1>11. DoneMeansOff' /\ RunMeansStarted' /\ StopTimesOutOnlyWhenOn'
  BY <1>3 DEF DoneMeansOff, RunMeansStarted, StopTimesOutOnlyWhenOn
<1> QED
  BY <1>3, <1>6, <1>7, <1>8, <1>9, <1>10, <1>11 DEF UnitIndInv

\* An operation without a wait returns; enable_sequencer looks at the answer.
LEMMA ReturnKeeps ==
  ASSUME UnitIndInv, Return
  PROVE  UnitIndInv'
<1>1. /\ UnitType /\ Waits /\ Reads /\ Sequencer /\ Stopping
      /\ pc = "ack" => ~inBlock
      /\ pc # "idle" => outcome = "none"
      /\ DoneMeansOff /\ RunMeansStarted /\ StopTimesOutOnlyWhenOn
  BY DEF UnitIndInv
<1>2. /\ pc = "set" /\ todo = <<>> /\ op \notin {"run", "stop", "wait_done"}
      /\ pc' = "idle"
      /\ UNCHANGED <<actual, copy, want, targets, turn, curr>>
      /\ UNCHANGED <<cmds, inBlock, buffered, op, todo, ack, told, seen>>
  BY AwaitedFacts DEF Return, Finish, envVars, callVars, unitVars
<1>3. op = "enable_sequencer" /\ outcome' = "returned" => ~inBlock /\ ack # Off
  BY DEF Return, Finish
<1>4. UnitType'
  BY <1>1, <1>2 DEF UnitType
<1>5. Waits' /\ Reads' /\ Sequencer' /\ Stopping'
  BY <1>2 DEF Waits, Reads, Sequencer, Stopping, Waiting, Got, Polled
<1>6. RunMeansStarted'
  <2> SUFFICES ASSUME op = "enable_sequencer", outcome' = "returned"
               PROVE  On \in seen
    BY <1>2 DEF RunMeansStarted
  <2>1. ~inBlock /\ ack = On
    BY <1>1, <1>3, OneNode DEF UnitType
  <2>2. cmds = <<>>
    BY <1>1, <1>2, <2>1, EnableTodoFacts DEF Sequencer
  <2> QED
    BY <1>1, <1>2, <2>1, <2>2 DEF Sequencer
<1>7. DoneMeansOff' /\ StopTimesOutOnlyWhenOn'
  BY <1>2 DEF DoneMeansOff, StopTimesOutOnlyWhenOn
<1> QED
  BY <1>2, <1>4, <1>5, <1>6, <1>7 DEF UnitIndInv

-----------------------------------------------------------------------------
(* The steps of the wait                                                   *)

\* The wait returns, or turns to the enable node.
LEMMA NextNodeKeeps ==
  ASSUME UnitIndInv, NextNode, UNCHANGED unitVars
  PROVE  UnitIndInv'
<1>1. /\ UnitType /\ Waits /\ Reads /\ Sequencer /\ Stopping
      /\ pc = "ack" => ~inBlock
      /\ pc # "idle" => outcome = "none"
      /\ DoneMeansOff /\ RunMeansStarted /\ StopTimesOutOnlyWhenOn
  BY DEF UnitIndInv
<1>2. /\ pc = "next"
      /\ UNCHANGED <<actual, copy, want, targets, turn, curr>>
      /\ UNCHANGED <<cmds, inBlock, buffered, op, todo, ack, told, seen>>
  BY DEF NextNode, envVars, callVars, unitVars
<1>3. \/ turn = 1 /\ pc' = "deep" /\ outcome' = outcome
      \/ turn = 2 /\ pc' = "idle" /\ outcome' = "returned"
  BY <1>1, <1>2, SMT DEF NextNode, Finish, Waits, Waiting
<1>4. UnitType'
  BY <1>1, <1>2, <1>3 DEF UnitType
<1>5. CASE turn = 1 /\ pc' = "deep" /\ outcome' = outcome
  <2>1. Waits'
    BY <1>1, <1>2, <1>5 DEF Waits, Waiting, Got, Polled
  <2>2. Reads'
    BY <1>1, <1>2, <1>5 DEF Reads, Waiting, Got, Polled
  <2>3. Sequencer' /\ Stopping'
    BY <1>1, <1>2, <1>5 DEF Sequencer, Stopping, LastOff, Polled
  <2>4. DoneMeansOff' /\ RunMeansStarted' /\ StopTimesOutOnlyWhenOn'
    BY <1>1, <1>2, <1>5 DEF DoneMeansOff, RunMeansStarted, StopTimesOutOnlyWhenOn
  <2> QED
    BY <1>1, <1>2, <1>4, <1>5, <2>1, <2>2, <2>3, <2>4 DEF UnitIndInv
<1>6. CASE turn = 2 /\ pc' = "idle" /\ outcome' = "returned"
  <2>1. Waits' /\ Reads' /\ Sequencer' /\ Stopping'
    BY <1>6 DEF Waits, Reads, Sequencer, Stopping, Waiting, Got, Polled
  <2>2. /\ cmds = <<>> /\ curr = want.value /\ want.value = Awaited[op]
        /\ op \in DOMAIN Awaited
        /\ curr \in seen /\ (actual[1] = On => curr = On)
    BY <1>1, <1>2, <1>6 DEF Waits, Reads, Waiting, Got
  <2>3. DoneMeansOff'
    <3> SUFFICES ASSUME op \in {"stop", "wait_done"}
                 PROVE  actual[1] = Off
      BY <1>2, <2>2 DEF DoneMeansOff
    <3>1. curr = Off
      BY <2>2, AwaitedFacts
    <3>2. actual[1] \in {Off, On}
      BY <1>1, OneNode DEF UnitType
    <3> QED
      BY <2>2, <3>1, <3>2, OneNode
  <2>4. RunMeansStarted'
    BY <1>2, <2>2, AwaitedFacts DEF RunMeansStarted
  <2>5. StopTimesOutOnlyWhenOn'
    BY <1>6 DEF StopTimesOutOnlyWhenOn
  <2> QED
    BY <1>4, <1>6, <2>1, <2>3, <2>4, <2>5 DEF UnitIndInv
<1> QED
  BY <1>3, <1>5, <1>6

\* The deep get, which the device answers after the commands.
LEMMA DeepGetKeeps ==
  ASSUME UnitIndInv, DeepGet, pc = "deep" => cmds = <<>>, UNCHANGED unitVars
  PROVE  UnitIndInv'
<1>1. /\ UnitType /\ Waits /\ Reads /\ Sequencer /\ Stopping
      /\ pc = "ack" => ~inBlock
      /\ pc # "idle" => outcome = "none"
      /\ DoneMeansOff /\ RunMeansStarted /\ StopTimesOutOnlyWhenOn
  BY DEF UnitIndInv
<1>2. /\ pc = "deep" /\ pc' = "check" /\ cmds = <<>>
      /\ UNCHANGED <<actual, want, targets, turn, outcome>>
      /\ UNCHANGED <<cmds, inBlock, buffered, op, todo, ack, told, seen>>
  BY DEF DeepGet, callVars, unitVars
<1>3. turn = 1 /\ todo = <<>> /\ actual[1] \in seen
  BY <1>1, <1>2 DEF Waits, Reads, Waiting
<1>4. curr' = actual[1] /\ copy' = [copy EXCEPT ![1] = actual[1]]
  BY <1>3 DEF DeepGet
<1>5. copy' \in [Node -> Value] /\ copy'[1] = actual[1]
  BY <1>1, <1>4, OneNode DEF UnitType
<1>6. UnitType'
  BY <1>1, <1>2, <1>5 DEF UnitType
<1>7. Waits'
  BY <1>1, <1>2 DEF Waits, Waiting, Got, Polled
<1>8. Reads'
  BY <1>1, <1>2, <1>3, <1>4, <1>5 DEF Reads, Waiting, Got, Polled
<1>9. Sequencer'
  BY <1>2 DEF Sequencer
<1>10. Stopping'
  BY <1>1, <1>2, <1>3, <1>4, <1>5 DEF Stopping, LastOff, Polled
<1>11. DoneMeansOff' /\ RunMeansStarted' /\ StopTimesOutOnlyWhenOn'
  BY <1>1, <1>2 DEF DoneMeansOff, RunMeansStarted, StopTimesOutOnlyWhenOn
<1> QED
  BY <1>1, <1>2, <1>6, <1>7, <1>8, <1>9, <1>10, <1>11 DEF UnitIndInv

\* The value is compared.
LEMMA CheckValueKeeps ==
  ASSUME UnitIndInv, CheckValue, UNCHANGED unitVars
  PROVE  UnitIndInv'
<1>1. /\ UnitType /\ Waits /\ Reads /\ Sequencer /\ Stopping
      /\ pc = "ack" => ~inBlock
      /\ pc # "idle" => outcome = "none"
      /\ DoneMeansOff /\ RunMeansStarted /\ StopTimesOutOnlyWhenOn
  BY DEF UnitIndInv
<1>2. /\ pc = "check"
      /\ UNCHANGED <<actual, copy, want, targets, curr, outcome>>
      /\ UNCHANGED <<cmds, inBlock, buffered, op, todo, ack, told, seen>>
  BY DEF CheckValue, envVars, callVars, unitVars
<1>3. /\ todo = <<>> /\ cmds = <<>> /\ targets = 1 /\ turn = 1
      /\ op \in DOMAIN Awaited /\ want.value = Awaited[op]
      /\ want.invert = FALSE
      /\ want = [value |-> Awaited[op], invert |-> FALSE, named |-> FALSE]
  BY <1>1, <1>2 DEF Waits, Waiting, Got, Polled
<1>4. \/ curr = want.value /\ pc' = "next" /\ turn' = 2
      \/ curr # want.value /\ pc' = "expired" /\ turn' = 1
  <2>1. Matches(curr) <=> curr = want.value
    BY <1>3, Zenon DEF Matches
  <2>2. IF Matches(curr) THEN pc' = "next" /\ turn' = turn + 1
                         ELSE pc' = "expired" /\ UNCHANGED turn
    BY DEF CheckValue
  <2>3. 1 + 1 = 2
    BY SMT
  <2> QED
    BY <1>3, <2>1, <2>2, <2>3
<1>5. UnitType'
  BY <1>1, <1>2, <1>4 DEF UnitType
<1>6. Waits'
  BY <1>2, <1>3, <1>4 DEF Waits, Waiting, Got, Polled
<1>7. Reads'
  BY <1>1, <1>2, <1>3, <1>4 DEF Reads, Waiting, Got, Polled
<1>8. Sequencer'
  BY <1>4 DEF Sequencer
<1>9. Stopping'
  BY <1>1, <1>2, <1>3, <1>4, AwaitedFacts DEF Stopping, LastOff, Polled
<1>10. DoneMeansOff' /\ RunMeansStarted' /\ StopTimesOutOnlyWhenOn'
  BY <1>1, <1>2 DEF DoneMeansOff, RunMeansStarted, StopTimesOutOnlyWhenOn
<1> QED
  BY <1>1, <1>2, <1>4, <1>5, <1>6, <1>7, <1>8, <1>9, <1>10 DEF UnitIndInv

\* The clock is looked at.
LEMMA CheckTimeKeeps ==
  ASSUME UnitIndInv, CheckTime, UNCHANGED unitVars
  PROVE  UnitIndInv'
<1>1. /\ UnitType /\ Waits /\ Reads /\ Sequencer /\ Stopping
      /\ pc = "ack" => ~inBlock
      /\ pc # "idle" => outcome = "none"
      /\ DoneMeansOff /\ RunMeansStarted /\ StopTimesOutOnlyWhenOn
  BY DEF UnitIndInv
<1>2. /\ pc = "expired"
      /\ UNCHANGED <<actual, copy, want, targets, turn, curr>>
      /\ UNCHANGED <<cmds, inBlock, buffered, op, todo, ack, told, seen>>
  BY DEF CheckTime, envVars, callVars, unitVars
<1>3. \/ pc' = "get" /\ outcome' = outcome
      \/ pc' = "idle" /\ outcome' = Failure
  BY DEF CheckTime, Finish
<1>4. Failure # "returned"
  BY DEF Failure
<1>5. UnitType'
  BY <1>1, <1>2, <1>3 DEF UnitType
<1>6. Waits'
  BY <1>1, <1>2, <1>3 DEF Waits, Waiting, Got, Polled
<1>7. Reads'
  BY <1>1, <1>2, <1>3 DEF Reads, Waiting, Got, Polled
<1>8. Sequencer'
  BY <1>3 DEF Sequencer
<1>9. Stopping'
  BY <1>1, <1>2, <1>3 DEF Stopping, LastOff, Polled
<1>10. DoneMeansOff' /\ RunMeansStarted'
  BY <1>1, <1>2, <1>3, <1>4 DEF DoneMeansOff, RunMeansStarted
<1>11. StopTimesOutOnlyWhenOn'
  <2> SUFFICES ASSUME op = "stop", pc' = "idle", ~inBlock
               PROVE  cmds = <<>> /\ told = Off /\ On \in seen
    BY <1>1, <1>2, <1>3 DEF StopTimesOutOnlyWhenOn
  <2>1. /\ cmds = <<>> /\ todo = <<>> /\ want.value = Off
        /\ curr \in Value /\ curr \in seen /\ curr # want.value
    BY <1>1, <1>2, AwaitedFacts DEF Waits, Reads, Waiting, Got, Polled
  <2>2. told = Off
    BY <1>1, <1>2, <2>1 DEF Stopping, LastOff
  <2> QED
    BY <2>1, <2>2, OneNode
<1> QED
  BY <1>1, <1>2, <1>3, <1>5, <1>6, <1>7, <1>8, <1>9, <1>10, <1>11
     DEF UnitIndInv

\* The data server is asked again.
LEMMA SleepAndGetKeeps ==
  ASSUME UnitIndInv, SleepAndGet, UNCHANGED unitVars
  PROVE  UnitIndInv'
<1>1. /\ UnitType /\ Waits /\ Reads /\ Sequencer /\ Stopping
      /\ pc = "ack" => ~inBlock
      /\ pc # "idle" => outcome = "none"
      /\ DoneMeansOff /\ RunMeansStarted /\ StopTimesOutOnlyWhenOn
  BY DEF UnitIndInv
<1>2. /\ pc = "get" /\ pc' = "check"
      /\ UNCHANGED <<actual, copy, want, targets, turn, outcome>>
      /\ UNCHANGED <<cmds, inBlock, buffered, op, todo, ack, told, seen>>
  BY DEF SleepAndGet, envVars, callVars, unitVars
<1>3. curr' = copy[1]
  BY <1>1, <1>2 DEF SleepAndGet, Waits
<1>4. UnitType'
  BY <1>1, <1>2 DEF UnitType
<1>5. Waits'
  BY <1>1, <1>2 DEF Waits, Waiting, Got, Polled
<1>6. Reads'
  BY <1>1, <1>2, <1>3, OneNode DEF UnitType, Reads, Waiting, Got, Polled
<1>7. Sequencer'
  BY <1>2 DEF Sequencer
<1>8. Stopping'
  BY <1>1, <1>2, <1>3 DEF Stopping, LastOff, Polled
<1>9. DoneMeansOff' /\ RunMeansStarted' /\ StopTimesOutOnlyWhenOn'
  BY <1>1, <1>2 DEF DoneMeansOff, RunMeansStarted, StopTimesOutOnlyWhenOn
<1> QED
  BY <1>1, <1>2, <1>4, <1>5, <1>6, <1>7, <1>8, <1>9 DEF UnitIndInv

\* Nothing of the invariant speaks of time.
LEMMA UnchangedKeeps ==
  ASSUME UnitIndInv,
         UNCHANGED <<actual, copy, pc, want, targets, turn, curr, outcome>>,
         UNCHANGED <<cmds, inBlock, buffered, op, todo, ack, told, seen>>
  PROVE  UnitIndInv'
<1>1. /\ UnitType /\ Waits /\ Reads /\ Sequencer /\ Stopping
      /\ pc = "ack" => ~inBlock
      /\ pc # "idle" => outcome = "none"
      /\ DoneMeansOff /\ RunMeansStarted /\ StopTimesOutOnlyWhenOn
  BY DEF UnitIndInv
<1>2. UnitType' /\ Waits' /\ Reads'
  BY <1>1 DEF UnitType, Waits, Reads, Waiting, Got, Polled
<1>3. Sequencer' /\ Stopping'
  BY <1>1 DEF Sequencer, Stopping, LastOff, Polled
<1>4. DoneMeansOff' /\ RunMeansStarted' /\ StopTimesOutOnlyWhenOn'
  BY <1>1 DEF DoneMeansOff, RunMeansStarted, StopTimesOutOnlyWhenOn
<1> QED
  BY <1>1, <1>2, <1>3, <1>4 DEF UnitIndInv

-----------------------------------------------------------------------------
(* The transaction of the device                                           *)

\* A block begins, between two operations.
LEMMA EnterBlockKeeps ==
  ASSUME UnitIndInv, EnterBlock
  PROVE  UnitIndInv'
<1>1. /\ UnitType /\ Waits /\ Reads /\ Sequencer /\ Stopping
      /\ pc = "ack" => ~inBlock
      /\ pc # "idle" => outcome = "none"
      /\ DoneMeansOff /\ RunMeansStarted /\ StopTimesOutOnlyWhenOn
  BY DEF UnitIndInv
<1>2. /\ pc = "idle" /\ inBlock'
      /\ UNCHANGED <<actual, copy, pc, want, targets, turn, curr, outcome>>
      /\ UNCHANGED <<cmds, buffered, op, todo, ack, told, seen>>
  BY DEF EnterBlock, waitVars, vars
<1>3. UnitType'
  BY <1>1, <1>2 DEF UnitType
<1>4. Waits' /\ Reads' /\ Sequencer' /\ Stopping'
  BY <1>2 DEF Waits, Reads, Sequencer, Stopping, Waiting, Got, Polled
<1>5. DoneMeansOff' /\ RunMeansStarted' /\ StopTimesOutOnlyWhenOn'
  BY <1>1, <1>2 DEF DoneMeansOff, RunMeansStarted, StopTimesOutOnlyWhenOn
<1> QED
  BY <1>2, <1>3, <1>4, <1>5 DEF UnitIndInv

\* A block ends: its commands are issued, or dropped.
LEMMA LeaveBlockKeeps ==
  ASSUME UnitIndInv, NEW normally \in BOOLEAN, LeaveBlock(normally)
  PROVE  UnitIndInv'
<1>1. /\ UnitType /\ Waits /\ Reads /\ Sequencer /\ Stopping
      /\ pc = "ack" => ~inBlock
      /\ pc # "idle" => outcome = "none"
      /\ DoneMeansOff /\ RunMeansStarted /\ StopTimesOutOnlyWhenOn
  BY DEF UnitIndInv
<1>2. /\ pc = "idle" /\ op' = "none" /\ buffered' = <<>>
      /\ cmds' = cmds \o buffered \/ cmds' = cmds
      /\ UNCHANGED <<actual, copy, pc, want, targets, turn, curr, outcome>>
      /\ UNCHANGED <<todo, ack, told, seen>>
  BY DEF LeaveBlock, waitVars, vars
<1>3. cmds' \in Seq(Command) /\ buffered' \in Seq(Command)
  <2>1. cmds \in Seq(Command) /\ buffered \in Seq(Command)
    BY <1>1 DEF UnitType
  <2>2. \A s1 \in Seq(Command), s2 \in Seq(Command) : s1 \o s2 \in Seq(Command)
    BY SMT
  <2>3. <<>> \in Seq(Command)
    OBVIOUS
  <2> QED
    BY <1>2, <2>1, <2>2, <2>3
<1>4. UnitType'
  BY <1>1, <1>2, <1>3 DEF UnitType, Ops
<1>5. Waits' /\ Reads' /\ Sequencer' /\ Stopping'
  BY <1>2 DEF Waits, Reads, Sequencer, Stopping, Waiting, Got, Polled
<1>6. DoneMeansOff' /\ RunMeansStarted' /\ StopTimesOutOnlyWhenOn'
  BY <1>2 DEF DoneMeansOff, RunMeansStarted, StopTimesOutOnlyWhenOn
<1> QED
  BY <1>2, <1>4, <1>5, <1>6 DEF UnitIndInv

-----------------------------------------------------------------------------
(* The theorems                                                            *)

\* The invariant holds in the initial states.
LEMMA UnitIndInvInit == UnitInit => UnitIndInv
<1> SUFFICES ASSUME UnitInit
             PROVE  UnitIndInv
  OBVIOUS
<1>1. /\ pc = "idle" /\ outcome = "none" /\ op = "none" /\ ack = Off
      /\ actual \in [Node -> Value] /\ copy \in [Node -> Value]
      /\ cmds = <<>> /\ buffered = <<>> /\ todo = <<>>
  BY DEF UnitInit, Init
<1>2. UnitType
  BY <1>1, OneNode DEF UnitType, Ops
<1>3. Waits /\ Reads /\ Sequencer /\ Stopping
  BY <1>1 DEF Waits, Reads, Sequencer, Stopping, Waiting, Got, Polled
<1>4. DoneMeansOff /\ RunMeansStarted /\ StopTimesOutOnlyWhenOn
  BY <1>1 DEF DoneMeansOff, RunMeansStarted, StopTimesOutOnlyWhenOn
<1> QED
  BY <1>1, <1>2, <1>3, <1>4 DEF UnitIndInv

\* Every step keeps the invariant.
LEMMA UnitIndInvNext == UnitIndInv /\ [UnitNext]_allVars => UnitIndInv'
<1> SUFFICES ASSUME UnitIndInv, [UnitNext]_allVars
             PROVE  UnitIndInv'
  OBVIOUS
<1>1. CASE Operations
  BY <1>1, OperationsKeep
<1>2. CASE IssueSet \/ Acknowledged \/ WaitForState \/ Return
  BY <1>2, IssueSetKeeps, AcknowledgedKeeps, WaitForStateKeeps, ReturnKeeps
<1>3. CASE UnitPoll
  <2>1. UNCHANGED unitVars /\ (pc = "deep" => cmds = <<>>)
    BY <1>3 DEF UnitPoll
  <2>2. NextNode \/ DeepGet \/ CheckValue \/ CheckTime \/ SleepAndGet
    BY <1>3 DEF UnitPoll, Poll
  <2> QED
    BY <2>1, <2>2, NextNodeKeeps, DeepGetKeeps, CheckValueKeeps,
       CheckTimeKeeps, SleepAndGetKeeps
<1>4. CASE BlockSteps
  BY <1>4, EnterBlockKeeps, LeaveBlockKeeps DEF BlockSteps
<1>5. CASE Device
  BY <1>5, TakeKeeps, DoneKeeps, CopiesFollowKeeps DEF Device
<1>6. CASE UnitTick
  BY <1>6, UnchangedKeeps DEF UnitTick, Tick, envVars, callVars, unitVars
<1>7. CASE UNCHANGED allVars
  BY <1>7, UnchangedKeeps DEF allVars, waitVars, vars, unitVars
<1> QED
  BY <1>1, <1>2, <1>3, <1>4, <1>5, <1>6, <1>7 DEF UnitNext, Execute

\* The inductive invariant of the units.
THEOREM UnitIndInvHolds == UnitSpec => []UnitIndInv
  BY UnitIndInvInit, UnitIndInvNext, PTL DEF UnitSpec

\* When stop or wait_done has returned, the unit is off and no command is on
\* its way to switch it on.
THEOREM DoneMeansOffHolds == UnitSpec => []DoneMeansOff
<1>1. UnitIndInv => DoneMeansOff
  BY DEF UnitIndInv
<1> QED
  BY <1>1, UnitIndInvHolds, PTL

\* run and enable_sequencer return only when the unit has been on since.
THEOREM RunMeansStartedHolds == UnitSpec => []RunMeansStarted
<1>1. UnitIndInv => RunMeansStarted
  BY DEF UnitIndInv
<1> QED
  BY <1>1, UnitIndInvHolds, PTL

\* Outside of a transaction stop times out only when the unit has been on
\* after its disable, for any timeout.
THEOREM StopTimesOutOnlyWhenOnHolds == UnitSpec => []StopTimesOutOnlyWhenOn
<1>1. UnitIndInv => StopTimesOutOnlyWhenOn
  BY DEF UnitIndInv
<1> QED
  BY <1>1, UnitIndInvHolds, PTL

-----------------------------------------------------------------------------
(* Settings change only while the unit is off.  A list of commands that    *)
(* meets an enable node of value v is guarded if each of its settings has  *)
(* a disable before it, or v is off, and no enable between the two.        *)
IsStop(c)  == c.node = "enable" /\ c.value = Off
IsStart(c) == c.node = "enable" /\ c.value = On

Guarded(s, v) ==
  \A i \in 1..Len(s) : s[i].node = "config" =>
    \E j \in 0..i-1 : /\ IF j = 0 THEN v = Off ELSE IsStop(s[j])
                      /\ \A k \in j+1..i-1 : ~IsStart(s[k])

(* A list of commands without settings.                                    *)
Free(s) == \A i \in 1..Len(s) : s[i].node # "config"

\* Only a PQSC or QHub has settings.  Its commands on their way and those of
\* the operation in progress, which in a transaction come after what is
\* buffered, are guarded.
Configuring ==
  /\ kind \in Hubs \/ (Free(cmds) /\ Free(buffered) /\ Free(todo))
  /\ pc = "idle" => todo = <<>>
  /\ ~inBlock => buffered = <<>>
  /\ Guarded(cmds, actual[1])
  /\ inBlock => Guarded(buffered \o todo, On)
  /\ ~inBlock => Guarded(cmds \o todo, actual[1])

\* The first command of a guarded list meets the value w it leaves behind.
LEMMA GuardedTail ==
  ASSUME NEW S, NEW s \in Seq(S), s # <<>>, NEW v, NEW w, Guarded(s, v),
         IsStop(Head(s)) => w = Off,
         ~IsStart(Head(s)) /\ v = Off => w = Off
  PROVE  Guarded(Tail(s), w)
<1>1. PICK n \in Nat : n = Len(s)
  BY SMT
<1>2. n # 0 /\ Head(s) = s[1]
  BY <1>1, SMT
<1>3. /\ Len(Tail(s)) = n - 1
      /\ \A i \in 1..n-1 : Tail(s)[i] = s[i + 1]
  BY <1>1, <1>2, SMT
<1>4. ASSUME NEW i \in 1..n-1, s[i + 1].node = "config"
      PROVE  \E j \in 0..i-1 : /\ IF j = 0 THEN w = Off ELSE IsStop(s[j + 1])
                               /\ \A k \in j+1..i-1 : ~IsStart(s[k + 1])
  <2>1. PICK j \in 0..i : /\ IF j = 0 THEN v = Off ELSE IsStop(s[j])
                          /\ \A k \in j+1..i : ~IsStart(s[k])
    <3>1. PICK h \in 1..Len(s) : h = i + 1
      BY <1>1, SMT
    <3>2. h - 1 = i
      BY <3>1, SMT
    <3>3. s[h].node = "config"
      BY <1>4, <3>1
    <3>4. \E j \in 0..h-1 : /\ IF j = 0 THEN v = Off ELSE IsStop(s[j])
                            /\ \A k \in j+1..h-1 : ~IsStart(s[k])
      BY <3>3 DEF Guarded
    <3> QED
      BY <3>2, <3>4
  <2>2. CASE j = 0
    <3>1. ~IsStart(s[1]) /\ v = Off
      BY <2>1, <2>2, SMT
    <3>2. w = Off
      BY <1>2, <3>1
    <3>3. \A k \in 1..i-1 : ~IsStart(s[k + 1])
      BY <2>1, <2>2, SMT
    <3> QED
      BY <3>2, <3>3, SMT
  <2>3. CASE j = 1
    <3>1. w = Off
      BY <1>2, <2>1, <2>3
    <3>2. \A k \in 1..i-1 : ~IsStart(s[k + 1])
      BY <2>1, <2>3, SMT
    <3> QED
      BY <3>1, <3>2, SMT
  <2>4. CASE j > 1
    <3>1. j - 1 \in 0..i-1 /\ j - 1 # 0 /\ j - 1 + 1 = j
      BY <2>4, SMT
    <3>2. IsStop(s[j])
      BY <2>1, <2>4, SMT
    <3>3. \A k \in j..i-1 : ~IsStart(s[k + 1])
      BY <2>1, SMT
    <3> QED
      BY <3>1, <3>2, <3>3
  <2> QED
    BY <2>2, <2>3, <2>4, SMT
<1>5. \A i \in 1..n-1 : Tail(s)[i].node = "config" =>
        \E j \in 0..i-1 : /\ IF j = 0 THEN w = Off ELSE IsStop(Tail(s)[j])
                          /\ \A k \in j+1..i-1 : ~IsStart(Tail(s)[k])
  <2> SUFFICES ASSUME NEW i \in 1..n-1, Tail(s)[i].node = "config"
               PROVE  \E j \in 0..i-1 :
                        /\ IF j = 0 THEN w = Off ELSE IsStop(Tail(s)[j])
                        /\ \A k \in j+1..i-1 : ~IsStart(Tail(s)[k])
    OBVIOUS
  <2>1. PICK j \in 0..i-1 : /\ IF j = 0 THEN w = Off ELSE IsStop(s[j + 1])
                            /\ \A k \in j+1..i-1 : ~IsStart(s[k + 1])
    BY <1>3, <1>4
  <2>2. j # 0 => j \in 1..n-1
    BY SMT
  <2>3. \A k \in j+1..i-1 : k \in 1..n-1
    BY SMT
  <2>4. \A k \in j+1..i-1 : ~IsStart(Tail(s)[k])
    BY <1>3, <2>1, <2>3
  <2>5. IF j = 0 THEN w = Off ELSE IsStop(Tail(s)[j])
    BY <1>3, <2>1, <2>2
  <2> QED
    BY <2>4, <2>5
<1> QED
  BY <1>3, <1>5 DEF Guarded

\* What becomes of lists without settings.
LEMMA FreeFacts ==
  /\ Free(<<>>)
  /\ \A s \in Seq(Command), t \in Seq(Command) :
       Free(s) /\ Free(t) => Free(s \o t)
  /\ \A s \in Seq(Command) :
       s # <<>> /\ Free(s) => Free(Tail(s)) /\ Head(s).node # "config"
  /\ \A s \in Seq(Command), c \in Command :
       Free(s) /\ c.node # "config" => Free(Append(s, c))
  /\ \A s, v : Free(s) => Guarded(s, v)
<1>1. Free(<<>>)
  <2>1. Len(<<>>) = 0 /\ \A i \in 1..0 : FALSE
    BY SMT
  <2> QED
    BY <2>1 DEF Free
<1>2. ASSUME NEW s \in Seq(Command), NEW t \in Seq(Command), Free(s), Free(t)
      PROVE  Free(s \o t)
  <2>1. PICK n \in Nat : n = Len(s)
    BY SMT
  <2>2. PICK m \in Nat : m = Len(t)
    BY SMT
  <2>3. /\ Len(s \o t) = n + m
        /\ \A i \in 1..n : (s \o t)[i] = s[i]
        /\ \A i \in n+1..n+m : i - n \in 1..m /\ (s \o t)[i] = t[i - n]
    BY <2>1, <2>2, SMT
  <2>4. \A i \in 1..n+m : i \in 1..n \/ i \in n+1..n+m
    BY SMT
  <2> QED
    BY <1>2, <2>1, <2>2, <2>3, <2>4 DEF Free
<1>3. ASSUME NEW s \in Seq(Command), s # <<>>, Free(s)
      PROVE  Free(Tail(s)) /\ Head(s).node # "config"
  <2>1. PICK n \in Nat : n = Len(s)
    BY SMT
  <2>2. n # 0 /\ Head(s) = s[1] /\ 1 \in 1..n
    BY <1>3, <2>1, SMT
  <2>3. /\ Len(Tail(s)) = n - 1
        /\ \A i \in 1..n-1 : i + 1 \in 1..n /\ Tail(s)[i] = s[i + 1]
    BY <2>1, <2>2, SMT
  <2> QED
    BY <1>3, <2>1, <2>2, <2>3 DEF Free
<1>4. ASSUME NEW s \in Seq(Command), NEW c \in Command, Free(s),
             c.node # "config"
      PROVE  Free(Append(s, c))
  <2>1. PICK n \in Nat : n = Len(s)
    BY SMT
  <2>2. /\ Len(Append(s, c)) = n + 1 /\ Append(s, c)[n + 1] = c
        /\ \A i \in 1..n : Append(s, c)[i] = s[i]
        /\ \A i \in 1..n+1 : i \in 1..n \/ i = n + 1
    BY <2>1, SMT
  <2> QED
    BY <1>4, <2>1, <2>2 DEF Free
<1>5. \A s, v : Free(s) => Guarded(s, v)
  BY DEF Free, Guarded
<1> QED
  BY <1>1, <1>2, <1>3, <1>4, <1>5

\* Lists that are guarded whatever they meet can follow others.
LEMMA GuardedConcat ==
  ASSUME NEW S, NEW s \in Seq(S), NEW t \in Seq(S), NEW v, Guarded(s, v),
         Guarded(t, On)
  PROVE  Guarded(s \o t, v)
<1>1. PICK n \in Nat : n = Len(s)
  BY SMT
<1>2. PICK m \in Nat : m = Len(t)
  BY SMT
<1>3. /\ Len(s \o t) = n + m
      /\ \A i \in 1..n : (s \o t)[i] = s[i]
      /\ \A i \in 1..m : (s \o t)[n + i] = t[i]
  BY <1>1, <1>2, SMT
<1> DEFINE u == s \o t
<1> HIDE DEF u
<1> SUFFICES ASSUME NEW i \in 1..n+m, u[i].node = "config"
             PROVE  \E j \in 0..i-1 :
                      /\ IF j = 0 THEN v = Off ELSE IsStop(u[j])
                      /\ \A k \in j+1..i-1 : ~IsStart(u[k])
  BY <1>3 DEF u, Guarded
<1>4. CASE i \in 1..n
  <2>1. PICK j \in 0..i-1 : /\ IF j = 0 THEN v = Off ELSE IsStop(s[j])
                            /\ \A k \in j+1..i-1 : ~IsStart(s[k])
    BY <1>1, <1>3, <1>4 DEF u, Guarded
  <2>2. (j # 0 => j \in 1..n) /\ \A k \in j+1..i-1 : k \in 1..n
    BY <1>4, SMT
  <2> QED
    BY <1>3, <2>1, <2>2 DEF u
<1>5. CASE i \notin 1..n
  <2>1. PICK l \in 1..m : i = n + l
    <3>1. i - n \in 1..m /\ i = n + (i - n)
      BY <1>5, SMT
    <3> QED
      BY <3>1
  <2>2. t[l].node = "config"
    BY <1>3, <2>1 DEF u
  <2>3. PICK j \in 0..l-1 : /\ IF j = 0 THEN On = Off ELSE IsStop(t[j])
                            /\ \A k \in j+1..l-1 : ~IsStart(t[k])
    BY <1>2, <2>2 DEF Guarded
  <2>4. j # 0 /\ IsStop(t[j])
    BY <2>3, OneNode
  <2>5. j \in 1..m /\ n + j \in 0..i-1 /\ n + j # 0
    BY <2>1, <2>4, SMT
  <2>6. IsStop(u[n + j])
    BY <1>3, <2>4, <2>5 DEF u
  <2>7. ASSUME NEW k \in n+j+1..i-1
        PROVE  ~IsStart(u[k])
    <3>1. PICK h \in Int : h = k - n
      BY SMT
    <3>2. h \in j+1..l-1 /\ h \in 1..m /\ k = n + h
      BY <2>1, <2>5, <3>1, SMT
    <3> QED
      BY <1>3, <2>3, <3>2 DEF u
  <2> QED
    BY <2>5, <2>6, <2>7
<1> QED
  BY <1>4, <1>5

\* The first part of a guarded list is guarded.
LEMMA GuardedPrefix ==
  ASSUME NEW S, NEW s \in Seq(S), NEW t \in Seq(S), NEW v, Guarded(s \o t, v)
  PROVE  Guarded(s, v)
<1>1. PICK n \in Nat : n = Len(s)
  BY SMT
<1>2. PICK m \in Nat : m = Len(s \o t)
  BY SMT
<1>3. n <= m /\ \A i \in 1..n : (s \o t)[i] = s[i]
  BY <1>1, <1>2, SMT
<1> DEFINE u == s \o t
<1> HIDE DEF u
<1> SUFFICES ASSUME NEW i \in 1..n, s[i].node = "config"
             PROVE  \E j \in 0..i-1 :
                      /\ IF j = 0 THEN v = Off ELSE IsStop(s[j])
                      /\ \A k \in j+1..i-1 : ~IsStart(s[k])
  BY <1>1 DEF Guarded
<1>4. i \in 1..m
  BY <1>3, SMT
<1>5. PICK j \in 0..i-1 : /\ IF j = 0 THEN v = Off ELSE IsStop(u[j])
                          /\ \A k \in j+1..i-1 : ~IsStart(u[k])
  BY <1>2, <1>3, <1>4 DEF u, Guarded
<1>6. (j # 0 => j \in 1..n) /\ \A k \in j+1..i-1 : k \in 1..n
  BY SMT
<1> QED
  BY <1>3, <1>5, <1>6 DEF u

\* What meets a unit that is off is guarded if it is anyway.
LEMMA GuardedOff ==
  ASSUME NEW s, NEW v, Guarded(s, v)
  PROVE  Guarded(s, Off)
  BY DEF Guarded

\* Issuing the first command of a list to the end of another.
LEMMA IssueFacts ==
  ASSUME NEW S, NEW s \in Seq(S), NEW t \in Seq(S), t # <<>>
  PROVE  Append(s, Head(t)) \o Tail(t) = s \o t
  BY SMT

\* An operation begins: its settings come after a disable of its own.
LEMMA BeginConfigures ==
  ASSUME UnitType, Configuring, NEW name, NEW commands \in Seq(Command),
         Begin(name, commands), Guarded(commands, On),
         kind \in Hubs \/ Free(commands)
  PROVE  Configuring'
<1>1. /\ pc = "idle" /\ pc' = "set" /\ todo' = commands
      /\ UNCHANGED <<actual, kind, cmds, inBlock, buffered>>
  BY DEF Begin, envVars
<1>2. cmds \in Seq(Command) /\ buffered \in Seq(Command) /\ todo = <<>>
  BY <1>1 DEF UnitType, Configuring
<1>3. \A s \in Seq(Command) : s \o <<>> = s
  BY SMT
<1>4. inBlock => Guarded(buffered, On)
  BY <1>2, <1>3 DEF Configuring
<1>5. inBlock => Guarded(buffered \o commands, On)
  BY <1>2, <1>4, GuardedConcat
<1>6. Guarded(cmds \o commands, actual[1])
  BY <1>2, GuardedConcat DEF Configuring
<1> QED
  BY <1>1, <1>5, <1>6 DEF Configuring

\* A list that begins with a disable and has no enable is guarded, with a
\* command at its end that is not a setting, too.
Opened(s) ==
  Len(s) # 0 /\ IsStop(s[1]) /\ \A i \in 1..Len(s) : ~IsStart(s[i])

LEMMA OpenedConcat ==
  ASSUME NEW s \in Seq(Command), Opened(s), NEW d \in Command, ~IsStart(d)
  PROVE  /\ s \o <<d>> \in Seq(Command) /\ Opened(s \o <<d>>)
         /\ s \o <<>> \in Seq(Command) /\ Opened(s \o <<>>)
<1>1. PICK n \in Nat : n = Len(s)
  BY SMT
<1>2. n # 0
  BY <1>1 DEF Opened
<1>3. /\ s \o <<d>> \in Seq(Command) /\ Len(s \o <<d>>) = n + 1
      /\ \A i \in 1..n : (s \o <<d>>)[i] = s[i]
      /\ (s \o <<d>>)[n + 1] = d
  BY <1>1, SMT
<1>4. s \o <<>> = s
  BY SMT
<1>5. \A i \in 1..n+1 : i \in 1..n \/ i = n + 1
  BY SMT
<1>6. n + 1 # 0 /\ 1 \in 1..n
  BY <1>2, SMT
<1> QED
  BY <1>1, <1>3, <1>4, <1>5, <1>6 DEF Opened

LEMMA OpenedGuarded ==
  ASSUME NEW s \in Seq(Command), Opened(s), NEW f \in Command, f.node # "config"
  PROVE  Guarded(s, On) /\ Guarded(Append(s, f), On)
<1>1. PICK n \in Nat : n = Len(s)
  BY SMT
<1>2. n # 0 /\ IsStop(s[1]) /\ \A i \in 1..n : ~IsStart(s[i])
  BY <1>1 DEF Opened
<1>3. s[1].node # "config"
  BY <1>2 DEF IsStop
<1>4. /\ Len(Append(s, f)) = n + 1
      /\ \A i \in 1..n : Append(s, f)[i] = s[i]
      /\ Append(s, f)[n + 1] = f
  BY <1>1, SMT
<1>5. ASSUME NEW t, \A i \in 1..n : t[i] = s[i],
             NEW i \in 1..n, t[i].node = "config"
      PROVE  \E j \in 0..i-1 : /\ IF j = 0 THEN On = Off ELSE IsStop(t[j])
                               /\ \A k \in j+1..i-1 : ~IsStart(t[k])
  <2>1. 1 \in 1..n /\ t[1] = s[1]
    BY <1>2, <1>5, SMT
  <2>2. i # 1
    BY <1>3, <1>5, <2>1
  <2>3. 1 \in 0..i-1 /\ \A k \in 1+1..i-1 : k \in 1..n
    BY <2>2, SMT
  <2> QED
    BY <1>2, <1>5, <2>1, <2>3
<1>6. \A i \in 1..n+1 : i \in 1..n \/ i = n + 1
  BY SMT
<1>7. Guarded(s, On)
  BY <1>1, <1>5 DEF Guarded
<1>8. Guarded(Append(s, f), On)
  BY <1>4, <1>5, <1>6 DEF Guarded
<1> QED
  BY <1>7, <1>8

\* The commands of all operations are guarded.
LEMMA CommandsAreGuarded ==
  /\ Guarded(<<>>, On)
  /\ \A b \in BOOLEAN, v \in Value :
       /\ Guarded(<<Enabling(b), Set("enable", v)>>, On)
       /\ Guarded(<<Enabling(b), DeepSet("enable", v)>>, On)
       /\ Guarded(<<SetHub(v, b)>>, On)
  /\ \A v \in Value : /\ Guarded(<<Set("enable", v)>>, On)
                      /\ Guarded(<<DeepSet("enable", v)>>, On)
  /\ \A b \in BOOLEAN, v \in Value :
       /\ Free(<<Enabling(b), Set("enable", v)>>)
       /\ Free(<<Enabling(b), DeepSet("enable", v)>>)
       /\ Free(<<Set("enable", v)>>) /\ Free(<<DeepSet("enable", v)>>)
  /\ \A b \in BOOLEAN, optional \in BOOLEAN :
       /\ Guarded(ArmCommands(b, optional), On)
       /\ Guarded(Append(ArmCommands(b, optional), SetHub(On, TRUE)), On)
<1>1. \A b \in BOOLEAN, v \in Value :
        /\ Enabling(b).node # "config" /\ SetHub(v, b).node # "config"
        /\ Set("enable", v).node # "config"
        /\ DeepSet("enable", v).node # "config"
  BY SMT DEF Enabling, SetHub, Set, DeepSet
<1>2. \A c : Len(<<c>>) = 1 /\ <<c>>[1] = c
  BY SMT
<1>3. \A c, d : Len(<<c, d>>) = 2 /\ <<c, d>>[1] = c /\ <<c, d>>[2] = d
  BY SMT
<1>4. \A i \in 1..1 : i = 1
  BY SMT
<1>5. \A i \in 1..2 : i = 1 \/ i = 2
  BY SMT
<1>6. \A c : c.node # "config" => Guarded(<<c>>, On) /\ Free(<<c>>)
  BY <1>2, <1>4 DEF Guarded, Free
<1>7. \A c, d : c.node # "config" /\ d.node # "config" =>
               Guarded(<<c, d>>, On) /\ Free(<<c, d>>)
  BY <1>3, <1>5 DEF Guarded, Free
<1>8. Guarded(<<>>, On)
  <2>1. Len(<<>>) = 0 /\ \A i \in 1..0 : FALSE
    BY SMT
  <2> QED
    BY <2>1 DEF Guarded
<1>9. \A v \in Value, b \in BOOLEAN :
         /\ SetHub(v, b) \in Command /\ Set("config", v) \in Command
         /\ [node |-> "config", value |-> v, deep |-> b] \in Command
  BY SMT DEF SetHub, Set, Command
<1>10. ASSUME NEW b \in BOOLEAN, NEW optional \in BOOLEAN
      PROVE  /\ Guarded(ArmCommands(b, optional), On)
             /\ Guarded(Append(ArmCommands(b, optional), SetHub(On, TRUE)), On)
  <2>1. PICK c \in Command : c = SetHub(Off, b)
    BY <1>9, OneNode
  <2>2. PICK d \in Command : d = Set("config", On)
    BY <1>9, OneNode
  <2>3. PICK e \in Command : e = [node |-> "config", value |-> On, deep |-> b]
    BY <1>9, OneNode
  <2>4. PICK f \in Command : f = SetHub(On, TRUE)
    BY <1>9, OneNode
  <2>5. IsStop(c) /\ ~IsStart(c) /\ f.node # "config"
    BY <2>1, <2>4, OneNode, SMT DEF SetHub, IsStop, IsStart
  <2>6. ~IsStart(d) /\ ~IsStart(e)
    BY <2>2, <2>3, SMT DEF Set, IsStart
  <2>7. <<c>> \in Seq(Command) /\ Opened(<<c>>)
    BY <2>5, <1>2, <1>4, SMT DEF Opened
  <2>8. PICK s \in Seq(Command) :
          s = <<c>> \o (IF optional THEN <<d>> ELSE <<>>) /\ Opened(s)
    BY <2>6, <2>7, OpenedConcat
  <2>9. PICK t \in Seq(Command) :
          t = s \o (IF kind = "pqsc" THEN <<e>> ELSE <<>>) /\ Opened(t)
    BY <2>6, <2>8, OpenedConcat
  <2>10. t = ArmCommands(b, optional)
    BY <2>1, <2>2, <2>3, <2>8, <2>9 DEF ArmCommands
  <2> QED
    BY <2>4, <2>5, <2>9, <2>10, OpenedGuarded
<1> QED
  BY <1>1, <1>6, <1>7, <1>8, <1>10

\* An operation that is refused issues nothing.
LEMMA RefuseConfigures ==
  ASSUME Configuring, NEW name, Refuse(name)
  PROVE  Configuring'
  BY DEF Refuse, envVars, Configuring

\* Every operation begins with guarded commands, or is refused.
LEMMA OperationsConfigure ==
  ASSUME UnitType, Configuring, Operations
  PROVE  Configuring'
<1>1. ASSUME NEW name, NEW commands \in Seq(Command), Guarded(commands, On),
             kind \in Hubs \/ Free(commands), Begin(name, commands)
      PROVE  Configuring'
  BY <1>1, BeginConfigures
<1>2. <<>> \in Seq(Command)
  OBVIOUS
<1>3. ASSUME NEW b \in BOOLEAN, ScopeRun(b) \/ EnableSequencer(b)
      PROVE  Configuring'
  BY <1>1, <1>3, CommandsFacts, CommandsAreGuarded, EnableTodoFacts, OneNode
     DEF ScopeRun, EnableSequencer
<1>4. ASSUME NEW b \in BOOLEAN, HubRun(b) \/ HubStop(b)
      PROVE  Configuring'
  BY <1>1, <1>4, CommandsFacts, CommandsAreGuarded, OneNode DEF HubRun, HubStop
<1>5. ASSUME NEW optional \in BOOLEAN, ArmAndRun(optional)
      PROVE  Configuring'
  <2>1. SetHub(On, TRUE) \in Command
    BY OneNode, SMT DEF SetHub, Command
  <2>2. Append(ArmCommands(TRUE, optional), SetHub(On, TRUE)) \in Seq(Command)
    BY <2>1, CommandsFacts
  <2> QED
    BY <1>1, <1>5, <2>2, CommandsAreGuarded DEF ArmAndRun
<1>6. ASSUME NEW b \in BOOLEAN, NEW optional \in BOOLEAN, Arm(b, optional)
      PROVE  Configuring'
  BY <1>1, <1>6, CommandsFacts, CommandsAreGuarded DEF Arm
<1>7. ASSUME ScopeStop \/ ReadoutStop \/ SpectroscopyStop
      PROVE  Configuring'
  BY <1>1, <1>7, CommandsFacts, CommandsAreGuarded, OneNode
     DEF ScopeStop, ReadoutStop, SpectroscopyStop
<1>8. ASSUME \/ ScopeWaitDone \/ ReadoutWaitDone \/ SpectroscopyWaitDone
             \/ HubWaitDone \/ AwgWaitDone
      PROVE  Configuring'
  BY <1>1, <1>2, <1>8, CommandsAreGuarded, FreeFacts, RefuseConfigures
     DEF ScopeWaitDone, ReadoutWaitDone, SpectroscopyWaitDone, HubWaitDone,
         AwgWaitDone
<1>9. ASSUME LoggerRun
      PROVE  Configuring'
  BY <1>1, <1>9, CommandsFacts, CommandsAreGuarded, RefuseConfigures, OneNode
     DEF LoggerRun, EnableCommand
<1> QED
  BY <1>3, <1>4, <1>5, <1>6, <1>7, <1>8, <1>9 DEF Operations

\* The first command of two lists one after the other.
LEMMA ConcatFacts ==
  ASSUME NEW S, NEW s \in Seq(S), NEW t \in Seq(S), s # <<>>
  PROVE  /\ s \o t # <<>> /\ Head(s \o t) = Head(s)
         /\ Tail(s \o t) = Tail(s) \o t
  BY SMT

\* A command reaches the device.
LEMMA TakeConfigures ==
  ASSUME UnitType, Configuring, Take
  PROVE  Configuring'
<1>1. PICK c \in Command : c = Head(cmds)
  BY TailFacts DEF UnitType, Take
<1>2. /\ cmds # <<>> /\ cmds' = Tail(cmds)
      /\ UNCHANGED <<kind, inBlock, buffered, todo, pc>>
      /\ actual' \in [Node -> Value]
  BY TakeFacts DEF Take
<1>3. TakesSingle(c) \/ TakesEnable(c) \/ TakesConfig(c)
  BY <1>1 DEF Take
<1>4. actual'[1] = actual[1] \/ (c.node = "enable" /\ actual'[1] = c.value)
  <2>1. CASE TakesSingle(c) \/ TakesConfig(c)
    BY <2>1 DEF TakesSingle, TakesConfig, waitVars, vars
  <2>2. CASE TakesEnable(c)
    <3>1. PICK v \in {c.value} \cup (IF Obeys(c.value) THEN {} ELSE {actual[1]}) :
            SwitchTo(v)
      BY <2>2 DEF TakesEnable
    <3>2. c.value \in Value
      BY SMT DEF Command
    <3>3. v \in Value /\ v \in {c.value, actual[1]}
      BY <3>1, <3>2, OneNode DEF UnitType
    <3>4. actual'[1] = v
      BY <3>1, <3>3, SwitchFacts, OneNode
    <3> QED
      BY <2>2, <3>3, <3>4 DEF TakesEnable
  <2> QED
    BY <1>3, <2>1, <2>2
<1>5. kind \in Hubs /\ IsStop(c) => actual'[1] = Off
  <2> SUFFICES ASSUME kind \in Hubs, IsStop(c)
               PROVE  actual'[1] = Off
    OBVIOUS
  <2>1. c.node = "enable" /\ c.value = Off /\ Off # On
    BY OneNode DEF IsStop
  <2>2. PICK v \in {c.value} \cup (IF Obeys(c.value) THEN {} ELSE {actual[1]}) :
          SwitchTo(v)
    BY <1>3, <2>1 DEF TakesSingle, TakesEnable, TakesConfig
  <2>3. v = Off
    BY <2>1, <2>2 DEF Obeys
  <2> QED
    BY <2>2, <2>3, SwitchFacts, OneNode
<1>6. ~IsStart(c) /\ actual[1] = Off => actual'[1] = Off
  <2>1. c.value \in {Off, On}
    BY OneNode, SMT DEF Command
  <2> QED
    BY <1>4, <2>1 DEF IsStart
<1>7. cmds \in Seq(Command) /\ todo \in Seq(Command)
  BY DEF UnitType
<1>8. CASE kind \notin Hubs
  <2>1. Free(cmds') /\ Free(todo) /\ Free(buffered) /\ cmds' \in Seq(Command)
    BY <1>2, <1>7, <1>8, FreeFacts, TailFacts DEF Configuring
  <2>2. Guarded(cmds', actual'[1]) /\ Guarded(cmds' \o todo, actual'[1])
    BY <1>7, <2>1, FreeFacts
  <2> QED
    BY <1>2, <2>1, <2>2 DEF Configuring
<1>9. CASE kind \in Hubs
  <2>1. Guarded(cmds', actual'[1])
    BY <1>1, <1>2, <1>5, <1>6, <1>7, <1>9, GuardedTail DEF Configuring
  <2>2. ASSUME ~inBlock
        PROVE  Guarded(cmds' \o todo, actual'[1])
    <3>1. PICK s \in Seq(Command) : s = cmds \o todo
      <4>1. \A s1 \in Seq(Command), s2 \in Seq(Command) : s1 \o s2 \in Seq(Command)
        BY SMT
      <4> QED
        BY <1>7, <4>1
    <3>2. s # <<>> /\ Head(s) = Head(cmds) /\ Tail(s) = Tail(cmds) \o todo
      BY <1>2, <1>7, <3>1, ConcatFacts
    <3>3. Guarded(s, actual[1])
      BY <2>2, <3>1 DEF Configuring
    <3> QED
      BY <1>1, <1>2, <1>5, <1>6, <1>9, <3>2, <3>3, GuardedTail
  <2> QED
    BY <1>2, <1>9, <2>1, <2>2 DEF Configuring
<1> QED
  BY <1>8, <1>9

\* A command is issued, or put into the transaction.
LEMMA IssueConfigures ==
  ASSUME UnitType, Configuring, IssueSet
  PROVE  Configuring'
<1>1. PICK c \in Command : c = Head(todo)
  BY TailFacts DEF UnitType, IssueSet
<1>2. /\ todo # <<>> /\ todo' = Tail(todo) /\ pc' # "idle"
      /\ UNCHANGED <<actual, kind, inBlock>>
  BY DEF IssueSet, envVars
<1>3. /\ cmds \in Seq(Command) /\ buffered \in Seq(Command)
      /\ todo \in Seq(Command)
  BY DEF UnitType
<1>4. \/ kind \in Hubs
      \/ /\ Free(cmds) /\ Free(buffered) /\ Free(todo') /\ Free(Append(cmds, c))
         /\ Free(Append(buffered, c))
  BY <1>1, <1>2, <1>3, FreeFacts DEF Configuring
<1>5. CASE inBlock
  <2>1. cmds' = cmds /\ buffered' = Append(buffered, c)
    BY <1>1, <1>5 DEF IssueSet
  <2>2. buffered' \o todo' = buffered \o todo
    BY <1>1, <1>2, <1>3, <2>1, IssueFacts
  <2> QED
    BY <1>2, <1>4, <1>5, <2>1, <2>2 DEF Configuring
<1>6. CASE ~inBlock
  <2>1. cmds' = Append(cmds, c) /\ buffered' = buffered
    BY <1>1, <1>6 DEF IssueSet
  <2>2. cmds' \o todo' = cmds \o todo
    BY <1>1, <1>2, <1>3, <2>1, IssueFacts
  <2>3. cmds' \in Seq(Command) /\ todo' \in Seq(Command)
    BY <1>1, <1>2, <1>3, <2>1, AppendFacts, TailFacts
  <2>4. Guarded(cmds' \o todo', actual[1])
    BY <1>6, <2>2 DEF Configuring
  <2>5. Guarded(cmds', actual[1])
    BY <2>3, <2>4, GuardedPrefix
  <2> QED
    BY <1>2, <1>4, <1>6, <2>1, <2>4, <2>5 DEF Configuring
<1> QED
  BY <1>5, <1>6

\* A block begins or ends.
LEMMA BlocksConfigure ==
  ASSUME UnitType, Configuring, BlockSteps
  PROVE  Configuring'
<1>1. /\ cmds \in Seq(Command) /\ buffered \in Seq(Command)
      /\ \A s \in Seq(Command) : s \o <<>> = s
      /\ <<>> \in Seq(Command)
  <2>1. \A s \in Seq(Command) : s \o <<>> = s
    BY SMT
  <2> QED
    BY <2>1 DEF UnitType
<1>2. CASE EnterBlock
  <2>1. /\ pc = "idle" /\ ~inBlock /\ inBlock'
        /\ UNCHANGED <<pc, actual, kind, cmds, buffered, todo>>
    BY <1>2 DEF EnterBlock, waitVars, vars
  <2>2. buffered \o todo = <<>>
    BY <1>1, <2>1 DEF Configuring
  <2> QED
    BY <2>1, <2>2, CommandsAreGuarded DEF Configuring
<1>3. ASSUME NEW normally \in BOOLEAN, LeaveBlock(normally)
      PROVE  Configuring'
  <2>1. /\ pc = "idle" /\ inBlock /\ ~inBlock' /\ buffered' = <<>>
        /\ cmds' = cmds \o buffered \/ cmds' = cmds
        /\ UNCHANGED <<pc, actual, kind, todo>>
    BY <1>3 DEF LeaveBlock, waitVars, vars
  <2>2. todo = <<>> /\ Guarded(buffered, On) /\ Guarded(cmds, actual[1])
    BY <1>1, <2>1 DEF Configuring
  <2>3. cmds \o buffered \in Seq(Command) /\ Guarded(cmds \o buffered, actual[1])
    <3>1. \A s1 \in Seq(Command), s2 \in Seq(Command) : s1 \o s2 \in Seq(Command)
      BY SMT
    <3> QED
      BY <1>1, <2>2, <3>1, GuardedConcat
  <2>4. cmds' \in Seq(Command) /\ Guarded(cmds', actual[1])
    BY <1>1, <2>1, <2>2, <2>3
  <2>5. kind \in Hubs \/ (Free(cmds') /\ Free(buffered') /\ Free(todo'))
    BY <1>1, <2>1, FreeFacts DEF Configuring
  <2>6. cmds' \o todo' = cmds'
    BY <1>1, <2>1, <2>2, <2>4
  <2> QED
    BY <2>1, <2>2, <2>4, <2>5, <2>6 DEF Configuring
<1> QED
  BY <1>2, <1>3 DEF BlockSteps

\* The unit switches itself off.
LEMMA DoneConfigures ==
  ASSUME UnitType, Configuring, Done
  PROVE  Configuring'
<1>1. /\ actual' = [n \in Node |-> Off]
      /\ UNCHANGED <<pc, kind, cmds, inBlock, buffered, todo>>
  BY OneNode, SwitchFacts DEF Done
<1>2. actual'[1] = Off
  BY <1>1, OneNode
<1> QED
  BY <1>1, <1>2, GuardedOff DEF Configuring

\* The other steps: when the thread becomes idle nothing is left to issue.
LEMMA OtherConfigures ==
  ASSUME Waits, Configuring,
         \/ Acknowledged \/ WaitForState \/ Return \/ UnitPoll \/ UnitTick
         \/ CopiesFollow \/ UNCHANGED allVars
  PROVE  Configuring'
<1>1. UNCHANGED <<actual, kind, cmds, inBlock, buffered, todo>>
  BY DEF Acknowledged, WaitForState, StartWait, Return, UnitPoll, Poll,
         NextNode, DeepGet, CheckValue, CheckTime, SleepAndGet, UnitTick, Tick,
         CopiesFollow, CopyFollows, allVars, waitVars, unitVars, vars, envVars
<1>2. pc' = "idle" => pc = "idle" \/ todo = <<>>
  <2>1. UnitPoll => todo = <<>>
    BY DEF UnitPoll, Poll, NextNode, DeepGet, CheckValue, CheckTime,
           SleepAndGet, Waits, Waiting
  <2>2. ASSUME Acknowledged \/ UnitTick \/ CopiesFollow \/ UNCHANGED allVars
        PROVE  pc' = "idle" => pc = "idle"
    BY <2>2 DEF Acknowledged, UnitTick, Tick, CopiesFollow, CopyFollows,
                allVars, waitVars, vars
  <2>3. WaitForState \/ Return => todo = <<>>
    BY DEF WaitForState, Return
  <2> QED
    BY <2>1, <2>2, <2>3
<1> QED
  BY <1>1, <1>2 DEF Configuring

\* The commands of any behaviour are guarded.
THEOREM ConfiguringHolds == UnitSpec => []Configuring
<1>1. UnitInit => Configuring
  <2> SUFFICES ASSUME UnitInit
               PROVE  Configuring
    OBVIOUS
  <2>1. cmds = <<>> /\ buffered = <<>> /\ todo = <<>> /\ ~inBlock
    BY DEF UnitInit
  <2>2. Len(<<>>) = 0 /\ <<>> \o <<>> = <<>> /\ \A i \in 1..0 : FALSE
    BY SMT
  <2> QED
    BY <2>1, <2>2 DEF Configuring, Guarded, Free
<1>2. UnitIndInv /\ Configuring /\ [UnitNext]_allVars => Configuring'
  BY OperationsConfigure, TakeConfigures, IssueConfigures, BlocksConfigure,
     DoneConfigures, OtherConfigures
     DEF UnitIndInv, UnitNext, Execute, Device
<1> QED
  BY <1>1, <1>2, UnitIndInvHolds, PTL DEF UnitSpec

\* The trigger settings of a PQSC or QHub change only while it is stopped.
THEOREM ConfiguredWhenStoppedHolds == UnitSpec => ConfiguredWhenStopped
<1>1. ASSUME UnitType, Configuring, cmds # <<>>, Head(cmds).node = "config"
      PROVE  actual[1] = Off
  <2>1. Len(cmds) # 0 /\ Head(cmds) = cmds[1] /\ 1 \in 1..Len(cmds)
    BY <1>1, SMT DEF UnitType
  <2>2. PICK j \in 0..1-1 : IF j = 0 THEN actual[1] = Off ELSE IsStop(cmds[j])
    BY <1>1, <2>1 DEF Configuring, Guarded
  <2>3. j = 0
    BY SMT
  <2> QED
    BY <2>2, <2>3
<1>2. UnitIndInv /\ Configuring =>
        [cmds # <<>> /\ cmds' = Tail(cmds) /\ Head(cmds).node = "config"
           => actual[1] = Off]_allVars
  BY <1>1 DEF UnitIndInv
<1> QED
  BY <1>2, UnitIndInvHolds, ConfiguringHolds, PTL DEF ConfiguredWhenStopped

=============================================================================
