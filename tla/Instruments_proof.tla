-------------------------- MODULE Instruments_proof -------------------------
(***************************************************************************)
(* Proofs about the calls of the instruments that wait for the hardware:   *)
(* what ZSyncPorts promises of its safety, for any ports, instruments,     *)
(* lists of inputs and timeouts, and what the procedures of                *)
(* InstrumentProcedures promise, for any number of calls and of changes    *)
(* in the device, and for any timeout.                                     *)
(***************************************************************************)
EXTENDS ZSyncPorts, InstrumentProcedures, SequenceTheorems, TLAPS

-----------------------------------------------------------------------------
(* The check of the ports: ZSyncPorts.                                     *)

\* Input n is a port that has been connected, or has been cabled to one.
Checked(n) ==
  IF inputs[n] \in Port THEN inputs[n] \in up
  ELSE \E p \in up : inputs[n] \in listed[p]

\* During a call what is true of a port now has been noted.
Noted ==
  inputs # <<>> =>
    \A p \in Port : /\ status[p] = Connected => p \in up
                    /\ Reports(p) \subseteq listed[p]

\* The steps at which an input is worked at, with the port it is looked for at.
InProgress ==
  /\ stage \in {"find", "asleep", "convert", "wait"} => Position \in DOMAIN inputs
  /\ stage \in {"find", "asleep"} => inputs[Position] \notin Port
  /\ stage \in {"convert", "wait"} =>
       IF inputs[Position] \in Port THEN port = inputs[Position]
       ELSE inputs[Position] \in listed[port]

\* The timeout of a step is all that is left of the timeout of the call.
SameClock == stage \in {"find", "asleep", "wait"} => stepLeft = budget

\* What the port waited for was seen as, it has been.
ShownMeansUp == stage = "wait" /\ Connected \in shown => port \in up

PortsInv ==
  /\ PortsTypeOK
  /\ stage # "idle" => verdict = "none" /\ inputs # <<>>
  /\ Noted /\ InProgress /\ SameClock /\ ShownMeansUp
  /\ \A n \in 1..Len(results) : n \in DOMAIN inputs /\ Checked(n)
  /\ verdict = "returned" => Len(results) >= Len(inputs)
  /\ verdict \in {"TimeoutError", "ToolkitError"} => budget = 0

LEMMA PortsInitInv == PortsInit => PortsInv
<1>. HAVE PortsInit
<1>1. PortsTypeOK
  BY ZSyncAssumption DEF PortsInit, PortsTypeOK, Status, Connected
<1>2. Noted /\ InProgress /\ SameClock /\ ShownMeansUp
  BY DEF PortsInit, Noted, InProgress, SameClock, ShownMeansUp
<1>. QED BY <1>1, <1>2 DEF PortsInit, PortsInv

-----------------------------------------------------------------------------
(* Cables, links and the clock.                                            *)

LEMMA LinkInv ==
  ASSUME PortsInv, NEW p \in Port, NEW s \in Status, LinkChanges(p, s)
  PROVE  PortsInv'
<1>1. /\ UNCHANGED <<cabled, stage, inputs, results, port, budget, stepLeft,
                     verdict, listed>>
      /\ status' = [status EXCEPT ![p] = s]
      /\ up' = IF s = Connected THEN up \cup {p} ELSE up
      /\ shown' = IF stage = "wait" /\ p = port THEN shown \cup {s} ELSE shown
  BY DEF LinkChanges
<1>2. linkChanges' \in 0..MaxLinkChanges
  <2>1. /\ linkChanges \in 0..MaxLinkChanges /\ linkChanges < MaxLinkChanges
        /\ linkChanges' = linkChanges + 1
    BY DEF LinkChanges, PortsInv, PortsTypeOK
  <2>. QED BY <2>1, ZSyncAssumption
<1>3. PortsTypeOK'
  BY <1>1, <1>2 DEF PortsInv, PortsTypeOK
<1>4. Noted'
  BY <1>1 DEF PortsInv, PortsTypeOK, Noted, Reports
<1>5. InProgress' /\ SameClock'
  BY <1>1 DEF PortsInv, InProgress, SameClock, Position
<1>6. \A n : Checked(n) => Checked(n)'
  BY <1>1 DEF Checked
<1>7. ShownMeansUp'
  BY <1>1 DEF PortsInv, ShownMeansUp
<1>. QED BY <1>1, <1>3, <1>4, <1>5, <1>6, <1>7 DEF PortsInv

LEMMA CableInv ==
  ASSUME PortsInv, NEW p \in Port, NEW i \in Instrument \cup {"none"},
         CableChanges(p, i)
  PROVE  PortsInv'
<1>1. /\ UNCHANGED <<status, stage, inputs, results, port, budget, stepLeft,
                     verdict, up, shown>>
      /\ cabled' = [cabled EXCEPT ![p] = i]
      /\ listed' = [listed EXCEPT ![p] = @ \cup ({i} \ {"none"})]
  BY DEF CableChanges
<1>2. linkChanges' \in 0..MaxLinkChanges
  <2>1. /\ linkChanges \in 0..MaxLinkChanges /\ linkChanges < MaxLinkChanges
        /\ linkChanges' = linkChanges + 1
    BY DEF CableChanges, PortsInv, PortsTypeOK
  <2>. QED BY <2>1, ZSyncAssumption
<1>3. PortsTypeOK'
  BY <1>1, <1>2 DEF PortsInv, PortsTypeOK
<1>4. \A q \in Port : listed[q] \subseteq listed'[q]
  BY <1>1 DEF PortsInv, PortsTypeOK
<1>5. Noted'
  BY <1>1 DEF PortsInv, PortsTypeOK, Noted, Reports
<1>6. InProgress' /\ SameClock' /\ ShownMeansUp'
  BY <1>1, <1>4
  DEF PortsInv, PortsTypeOK, InProgress, SameClock, Position, ShownMeansUp
<1>7. \A n : Checked(n) => Checked(n)'
  BY <1>1, <1>4 DEF Checked, PortsInv, PortsTypeOK
<1>. QED BY <1>1, <1>3, <1>5, <1>6, <1>7 DEF PortsInv

LEMMA LessType == \A n \in 0..MaxBudget : Less(n) \in 0..MaxBudget
BY ZSyncAssumption DEF Less

LEMMA PortsTickInv == PortsInv /\ PortsTick => PortsInv'
<1>. SUFFICES ASSUME PortsInv, PortsTick PROVE PortsInv'
  OBVIOUS
<1>1. /\ UNCHANGED <<status, cabled, linkChanges, stage, inputs, results, port,
                     verdict, up, listed, shown>>
      /\ budget' = Less(budget) /\ stepLeft' = Less(stepLeft) /\ stage # "idle"
  BY DEF PortsTick, linkVars
<1>2. PortsTypeOK'
  BY <1>1, LessType DEF PortsInv, PortsTypeOK
<1>3. Noted' /\ InProgress' /\ SameClock' /\ ShownMeansUp'
  BY <1>1
  DEF PortsInv, Noted, Reports, InProgress, SameClock, Position, ShownMeansUp
<1>4. \A n : Checked(n) => Checked(n)'
  BY <1>1 DEF Checked
<1>. QED BY <1>1, <1>2, <1>3, <1>4 DEF PortsInv

-----------------------------------------------------------------------------
(* The call.                                                               *)

LEMMA CheckConnectionInv ==
  ASSUME PortsInv, NEW list \in InputList, NEW timeout \in 0..MaxBudget,
         CheckConnection(list, timeout)
  PROVE  PortsInv'
<1>1. list \in Seq(Port \cup Instrument) /\ list # <<>>
  BY DEF InputList, CheckConnection
<1>2. /\ inputs' = list /\ results' = <<>> /\ budget' = timeout
      /\ up' = {p \in Port : status[p] = Connected}
      /\ listed' = [p \in Port |-> Reports(p)]
      /\ stage' = "next" /\ verdict' = "none"
      /\ UNCHANGED <<status, cabled, linkChanges, port, stepLeft, shown>>
  BY DEF CheckConnection, linkVars
<1>3. \A p \in Port : Reports(p) \in SUBSET Instrument
  BY DEF PortsInv, PortsTypeOK, Reports
<1>4. PortsTypeOK'
  BY <1>1, <1>2, <1>3 DEF PortsInv, PortsTypeOK
<1>5. Noted'
  BY <1>2 DEF Noted, Reports
<1>6. InProgress' /\ SameClock' /\ ShownMeansUp'
  BY <1>2 DEF InProgress, SameClock, ShownMeansUp
<1>. QED BY <1>1, <1>2, <1>4, <1>5, <1>6 DEF PortsInv

LEMMA NextInputInv == PortsInv /\ NextInput => PortsInv'
<1>. SUFFICES ASSUME PortsInv, NextInput PROVE PortsInv'
  OBVIOUS
<1>1. /\ UNCHANGED <<status, cabled, linkChanges, inputs, results, budget, up, listed>>
      /\ stage = "next" /\ inputs # <<>> /\ verdict = "none"
  BY DEF NextInput, linkVars, PortsInv
<1>2. Len(results) \in Nat /\ Len(inputs) \in Nat /\ DOMAIN inputs = 1..Len(inputs)
  BY DEF PortsInv, PortsTypeOK
<1>3. Noted' /\ \A n : Checked(n) => Checked(n)'
  BY <1>1 DEF PortsInv, Noted, Reports, Checked
<1>4. CASE Position > Len(inputs)
  <2>1. /\ stage' = "idle" /\ verdict' = "returned"
        /\ UNCHANGED <<port, stepLeft, shown>>
    BY <1>4 DEF NextInput, Finish
  <2>2. Len(results) >= Len(inputs)
    BY <1>2, <1>4 DEF Position
  <2>3. PortsTypeOK' /\ InProgress' /\ SameClock' /\ ShownMeansUp'
    BY <1>1, <2>1 DEF PortsInv, PortsTypeOK, InProgress, SameClock, ShownMeansUp
  <2>. QED BY <1>1, <1>3, <2>1, <2>2, <2>3 DEF PortsInv
<1>5. CASE ~(Position > Len(inputs))
  <2>1. /\ stepLeft' = budget /\ verdict' = "none"
        /\ IF inputs[Position] \in Instrument
             THEN stage' = "find" /\ UNCHANGED <<port, shown>>
             ELSE AwaitLink(inputs[Position])
    BY <1>1, <1>5 DEF NextInput
  <2>2. Position \in DOMAIN inputs /\ inputs[Position] \in Port \cup Instrument
    <3>1. Position \in DOMAIN inputs
      BY <1>2, <1>5 DEF Position
    <3>. QED BY <3>1 DEF PortsInv, PortsTypeOK
  <2>3. PortsTypeOK'
    BY <1>1, <2>1, <2>2 DEF PortsInv, PortsTypeOK, AwaitLink
  <2>4. Position' = Position
    BY <1>1 DEF Position
  <2>5. InProgress' /\ SameClock'
    BY <1>1, <2>1, <2>2, <2>4, ZSyncAssumption DEF InProgress, SameClock, AwaitLink
  <2>6. ShownMeansUp'
    BY <1>1, <2>1, <2>2 DEF PortsInv, Noted, ShownMeansUp, AwaitLink
  <2>. QED BY <1>1, <1>3, <2>1, <2>3, <2>5, <2>6 DEF PortsInv, AwaitLink
<1>. QED BY <1>4, <1>5

LEMMA FindInv == PortsInv /\ (Find \/ Wake \/ StartWait) => PortsInv'
<1>. SUFFICES ASSUME PortsInv, Find \/ Wake \/ StartWait PROVE PortsInv'
  OBVIOUS
<1>1. /\ UNCHANGED <<status, cabled, linkChanges, inputs, results, budget, up, listed>>
      /\ verdict = "none" /\ inputs # <<>>
      /\ stage \in {"find", "asleep", "convert"}
      /\ ~StartWait => UNCHANGED shown
  BY DEF Find, Wake, StartWait, linkVars, PortsInv
<1>2. Position' = Position /\ Position \in DOMAIN inputs
  BY <1>1 DEF Position, PortsInv, InProgress
<1>3. Noted' /\ \A n : Checked(n) => Checked(n)'
  BY <1>1 DEF PortsInv, Noted, Reports, Checked
<1>0. stage' # "wait" => ShownMeansUp'
  BY DEF ShownMeansUp
<1>4. CASE /\ stage = "find" /\ stepLeft = 0
           /\ Finish("ToolkitError") /\ UNCHANGED <<port, stepLeft, shown>>
  <2>1. stage' = "idle" /\ verdict' = "ToolkitError" /\ budget' = 0
    BY <1>1, <1>4 DEF Finish, PortsInv, SameClock
  <2>2. PortsTypeOK' /\ InProgress' /\ SameClock'
    BY <1>1, <1>4, <2>1 DEF PortsInv, PortsTypeOK, InProgress, SameClock
  <2>. QED BY <1>0, <1>1, <1>3, <2>1, <2>2 DEF PortsInv
<1>5. CASE /\ stage = "find" /\ stage' = "convert" /\ port' \in Seen(inputs[Position])
           /\ UNCHANGED <<stepLeft, verdict, shown>>
  <2>1. port' \in Port /\ inputs[Position] \notin Port
        /\ cabled[port'] = inputs[Position]
    BY <1>5 DEF Seen, PortsInv, InProgress
  <2>2. inputs[Position] \in Instrument
    BY <1>2, <2>1 DEF PortsInv, PortsTypeOK
  <2>3. inputs[Position] \in listed[port']
    BY <1>1, <2>1, <2>2, ZSyncAssumption DEF PortsInv, Noted, Reports
  <2>4. PortsTypeOK'
    BY <1>1, <1>5, <2>1 DEF PortsInv, PortsTypeOK
  <2>5. InProgress' /\ SameClock'
    BY <1>1, <1>2, <1>5, <2>1, <2>3 DEF InProgress, SameClock
  <2>. QED BY <1>0, <1>1, <1>3, <1>5, <2>4, <2>5 DEF PortsInv
<1>6. CASE /\ stage \in {"find", "asleep"} /\ stage' \in {"find", "asleep"}
           /\ UNCHANGED <<port, stepLeft, verdict, shown>>
  <2>1. PortsTypeOK' /\ InProgress' /\ SameClock'
    BY <1>1, <1>2, <1>6 DEF PortsInv, PortsTypeOK, InProgress, SameClock
  <2>. QED BY <1>0, <1>1, <1>3, <1>6, <2>1 DEF PortsInv
<1>7. CASE StartWait
  <2>1. /\ stage = "convert" /\ stage' = "wait" /\ stepLeft' = budget
        /\ UNCHANGED <<port, verdict>> /\ shown' = {status[port]}
    BY <1>7 DEF StartWait, AwaitLink
  <2>2. PortsTypeOK' /\ InProgress' /\ SameClock'
    BY <1>1, <1>2, <2>1 DEF PortsInv, PortsTypeOK, InProgress, SameClock
  <2>3. ShownMeansUp'
    BY <1>1, <2>1 DEF PortsInv, PortsTypeOK, Noted, ShownMeansUp
  <2>. QED BY <1>1, <1>3, <2>1, <2>2, <2>3 DEF PortsInv
<1>8. CASE Find
  BY <1>4, <1>5, <1>6, <1>8 DEF Find
<1>9. CASE Wake
  BY <1>6, <1>9 DEF Wake
<1>. QED BY <1>7, <1>8, <1>9

LEMMA WaitInv == PortsInv /\ WaitForLink => PortsInv'
<1>. SUFFICES ASSUME PortsInv, WaitForLink PROVE PortsInv'
  OBVIOUS
<1>1. /\ UNCHANGED <<status, cabled, linkChanges, inputs, port, budget, stepLeft,
                     up, listed>>
      /\ stage = "wait" /\ verdict = "none" /\ inputs # <<>> /\ shown' = {}
  BY DEF WaitForLink, linkVars, PortsInv
<1>3. Noted' /\ \A n : Checked(n) => Checked(n)'
  BY <1>1 DEF PortsInv, Noted, Reports, Checked
<1>2. ShownMeansUp'
  BY <1>1 DEF ShownMeansUp
<1>4. CASE Connected \in shown /\ results' = Append(results, TRUE)
           /\ stage' = "next" /\ UNCHANGED verdict
  <2>1. results' \in Seq({TRUE}) /\ Len(results') = Position
    BY <1>4 DEF PortsInv, PortsTypeOK, Position
  <2>2. port \in up /\ port \in Port
    BY <1>1, <1>4 DEF PortsInv, PortsTypeOK, ShownMeansUp
  <2>3. Position \in DOMAIN inputs /\ Checked(Position)
    BY <1>1, <2>2 DEF PortsInv, InProgress, Checked
  <2>4. \A n \in 1..Len(results') : n \in 1..Len(results) \/ n = Position
    <3>1. Len(results) \in Nat
      BY DEF PortsInv, PortsTypeOK
    <3>. QED BY <2>1, <3>1 DEF Position
  <2>5. \A n \in 1..Len(results') : n \in DOMAIN inputs' /\ Checked(n)'
    BY <1>1, <1>3, <2>3, <2>4 DEF PortsInv
  <2>6. PortsTypeOK' /\ InProgress' /\ SameClock'
    BY <1>1, <1>4, <2>1 DEF PortsInv, PortsTypeOK, InProgress, SameClock
  <2>. QED BY <1>1, <1>2, <1>3, <1>4, <2>5, <2>6 DEF PortsInv
<1>5. CASE stepLeft = 0 /\ Finish("TimeoutError") /\ UNCHANGED results
  <2>1. stage' = "idle" /\ verdict' = "TimeoutError" /\ budget' = 0
    BY <1>1, <1>5 DEF Finish, PortsInv, SameClock
  <2>2. PortsTypeOK' /\ InProgress' /\ SameClock'
    BY <1>1, <1>5, <2>1 DEF PortsInv, PortsTypeOK, InProgress, SameClock
  <2>. QED BY <1>1, <1>2, <1>3, <1>5, <2>1, <2>2 DEF PortsInv
<1>. QED BY <1>4, <1>5 DEF WaitForLink

LEMMA PortsNextInv == PortsInv /\ [PortsNext]_portsVars => PortsInv'
<1>. SUFFICES ASSUME PortsInv, [PortsNext]_portsVars PROVE PortsInv'
  OBVIOUS
<1>1. CASE UNCHANGED portsVars
  <2>1. UNCHANGED <<status, cabled, linkChanges, stage, inputs, results, port,
                    budget, stepLeft, verdict, up, listed, shown>>
    BY <1>1 DEF portsVars
  <2>2. PortsTypeOK' /\ Noted' /\ InProgress' /\ SameClock' /\ ShownMeansUp'
    BY <2>1 DEF PortsInv, PortsTypeOK, Noted, Reports, InProgress, SameClock,
                Position, ShownMeansUp
  <2>3. \A n : Checked(n) => Checked(n)'
    BY <2>1 DEF Checked
  <2>. QED BY <2>1, <2>2, <2>3 DEF PortsInv
<1>2. CASE Checks
  BY <1>2, CheckConnectionInv DEF Checks
<1>3. CASE Environment
  BY <1>3, LinkInv, CableInv DEF Environment
<1>. QED
  BY <1>1, <1>2, <1>3, NextInputInv, FindInv, WaitInv, PortsTickInv
  DEF PortsNext, Checking

-----------------------------------------------------------------------------
\* PortsInv is an invariant of the check of ZSync connections.
THEOREM PortsInvHolds == PortsSpec => []PortsInv
BY PortsInitInv, PortsNextInv, PTL DEF PortsSpec

\* A check_zsync_connection that returns has seen every port it was asked about
\* connected, and for every instrument a port it was cabled to.
THEOREM ConnectedMeansSeenHolds == PortsSpec => []ConnectedMeansSeen
<1>1. PortsInv => ConnectedMeansSeen
  <2>. SUFFICES ASSUME PortsInv, verdict = "returned", NEW n \in DOMAIN inputs
                PROVE  Checked(n)
    BY DEF ConnectedMeansSeen, Checked
  <2>1. /\ Len(results) \in Nat /\ Len(inputs) \in Nat
        /\ DOMAIN inputs = 1..Len(inputs) /\ Len(results) >= Len(inputs)
    BY DEF PortsInv, PortsTypeOK
  <2>2. n \in 1..Len(results)
    BY <2>1
  <2>. QED BY <2>2 DEF PortsInv
<1>. QED BY <1>1, PortsInvHolds, PTL

\* One timeout is shared by all inputs of a call.
THEOREM TimeoutIsSharedHolds == PortsSpec => []TimeoutIsShared
<1>1. PortsInv => TimeoutIsShared
  BY DEF PortsInv, PortsTypeOK, SameClock, TimeoutIsShared
<1>. QED BY <1>1, PortsInvHolds, PTL

-----------------------------------------------------------------------------
(* The procedures of the instruments: InstrumentProcedures.                *)

\* The channel waited for exists.
ChannelExists ==
  /\ awaited = "ch1" => 1 \in 1..NChannels
  /\ awaited = "ch2" => 2 \in 1..NChannels

\* The preset is being loaded, or has been, or could not be.  Nothing in the
\* device makes this untrue again during a call.
LoadTaken ==
  device.busy = "busy" \/ device.preset = "failed" \/ "reset" \in since

LoadIsLast == cmds # <<>> /\ cmds[Len(cmds)] = "load"

\* How far a factory reset has got: once it waits there is no command under way
\* that could start the load after the wait is over.
ResetProgress ==
  op = "reset" =>
    /\ pc \in {"begin", "wait"} => awaited = "preset"
    /\ pc \notin {"status", "used", "source", "fall back"}
    /\ ~open =>
         /\ pc = "begin" => LoadIsLast \/ LoadTaken
         /\ pc \in {"wait", "verify"} => cmds = <<>> /\ LoadTaken
         /\ pc = "wait" /\ "idle" \in held => device.busy = "idle"
         /\ pc = "verify" => device.busy = "idle"

\* What a check of the clock has read of the lock has been so since its call.
LockSeen ==
  /\ pc # "idle" /\ device.status = "locked" => "locked" \in since
  /\ pc = "wait" /\ awaited = "status" =>
       held \subseteq LockStatus /\ ("locked" \in held => "locked" \in since)
  /\ pc = "status" /\ copy.status = "locked" => "locked" \in since
  /\ pc \in {"used", "source"} => "locked" \in since
  /\ pc \in {"begin", "wait"} /\ awaited \in {"ch1", "ch2"} => "locked" \in since

\* A lock that has been steady is one still, and no step reads anything else.
SteadyIsRead ==
  "steady" \in since =>
    /\ Steady /\ pc # "fall back"
    /\ pc = "wait" /\ awaited = "status" => held \subseteq {"locked"}

\* What has been read of the source in use is what it is, while it is steady.
ReadKept ==
  "steady" \in since /\ pc = "source" => kind = "hdawg" \/ read = "zsync"

\* After a fall back no command that sets another source is under way.
FellBack ==
  op = "check" /\ outcome = "False" /\ ~open =>
    cmds = <<>> /\ device.source = "internal"

Uploading == {"table twice", "table", "uploaded", "refuse"}

IndInv ==
  /\ CallTypeOK /\ ChannelExists
  /\ pc # "idle" => outcome = "none"
  /\ pc \in Uploading => op = "upload"
  /\ pc = "load" => op = "reset" /\ awaited = "preset"
  /\ ResetProgress /\ LockSeen /\ SteadyIsRead /\ ReadKept /\ FellBack
  /\ ResetMeansReset /\ LockReported /\ SteadyLockIsKept

\* How far the making of a QCCS mode has got: what is in a transaction of its
\* own is what it has made so far, and nothing of it has left.
ModeType ==
  /\ kind \in Kind /\ read \in Source \cup {"none"}
  /\ own \in BOOLEAN /\ made \in 0..7 /\ issued \in Seq(Command)

ModeProgress ==
  /\ pc = "mode" => op \in QccsMode /\ open /\ made \in 0..Len(QccsSettings(op))
  /\ op \in QccsMode => pc \in {"idle", "mode"}
  /\ own => pc = "mode" /\ buffered = SubSeq(QccsSettings(op), 1, made)
  /\ ~open => buffered = <<>>

ModeInv == ModeType /\ ModeProgress /\ QccsIsWhole

-----------------------------------------------------------------------------
(* The device.                                                             *)

LEMMA KnownType == \A d \in Devices : Known(d) \in Copies
BY DEF Known, Devices, Copies

LEMMA ExecutedFacts ==
  ASSUME NEW d \in Devices, NEW c \in Command
  PROVE  /\ Executed(d, c) \in Devices
         /\ Executed(d, c).preset = d.preset
         /\ Executed(d, c).busy = IF c = "load" THEN "busy" ELSE d.busy
         /\ c \in Source => Executed(d, c).source = c
         /\ Executed(d, c) = d => Executed(d, c).source = d.source
<1>1. CASE c = "load"
  BY <1>1 DEF Executed, Devices, Busy, Source
<1>2. CASE c \in Source
  BY <1>2 DEF Executed, Devices, Source, LockStatus
<1>3. CASE c \in {"good table", "bad table"}
  BY <1>3 DEF Executed, Devices, Source
<1>4. CASE c \in QccsSetting \ {"zsync"}
  BY <1>4 DEF Executed, Source, QccsSetting
<1>5. c \in {"load", "good table", "bad table"} \cup Source \cup (QccsSetting \ {"zsync"})
  BY DEF Command, Source, QccsSetting
<1>. QED BY <1>1, <1>2, <1>3, <1>4, <1>5

LEMMA ValueType ==
  ASSUME NEW d \in Devices, awaited \in {"preset", "status", "ch1", "ch2"},
         ChannelExists
  PROVE  Value(d, awaited) \in Busy \cup LockStatus
<1>1. CASE awaited = "preset"
  BY <1>1 DEF Value, Devices
<1>2. CASE awaited = "status"
  BY <1>2 DEF Value, Devices
<1>3. CASE awaited = "ch1"
  <2>1. d.chan \in [1..NChannels -> Busy] /\ 1 \in 1..NChannels
    BY <1>3 DEF Devices, ChannelExists
  <2>2. d.chan[1] \in Busy
    BY <2>1
  <2>. QED BY <1>3, <2>2 DEF Value
<1>4. CASE awaited = "ch2"
  <2>1. d.chan \in [1..NChannels -> Busy] /\ 2 \in 1..NChannels
    BY <1>4 DEF Devices, ChannelExists
  <2>2. d.chan[2] \in Busy
    BY <2>1
  <2>. QED BY <1>4, <2>2 DEF Value
<1>. QED BY <1>1, <1>2, <1>3, <1>4

LEMMA SteadyFacts ==
  IndInv /\ "steady" \in since =>
    copy.status = "locked" /\ copy.source = "zsync" /\ copy.used = "zsync"
<1>. SUFFICES ASSUME IndInv, "steady" \in since
              PROVE  copy.status = "locked" /\ copy.source = "zsync" /\ copy.used = "zsync"
  OBVIOUS
<1>1. Steady
  BY DEF IndInv, SteadyIsRead
<1>. QED BY <1>1 DEF Steady, Known

\* What a new state of the device leaves of what has been noted.
LEMMA BecomesFacts ==
  ASSUME CallTypeOK, ChannelExists, NEW d \in Devices, Becomes(d)
  PROVE  /\ device' = d
         /\ held' = held \cup {Value(d, awaited)}
         /\ held' \subseteq Busy \cup LockStatus
         /\ since' \subseteq {"reset", "locked", "steady"}
         /\ "locked" \in since \/ d.status = "locked" => "locked" \in since'
         /\ "reset" \in since => "reset" \in since'
         /\ device.busy = "busy" /\ d.busy = "idle" =>
              d.preset = "failed" \/ "reset" \in since'
         /\ "steady" \in since' => "steady" \in since /\ d = device
<1>1. awaited \in {"preset", "status", "ch1", "ch2"} /\ held \subseteq Busy \cup LockStatus
      /\ since \subseteq {"reset", "locked", "steady"}
  BY DEF CallTypeOK
<1>2. Value(d, awaited) \in Busy \cup LockStatus
  BY <1>1, ValueType
<1>3. d.preset \in {"failed", "loaded"}
  BY DEF Devices
<1>. QED BY <1>1, <1>2, <1>3 DEF Becomes

\* What the steps of others leave of the types of a call.
LEMMA CallTypeAfter ==
  ASSUME CallTypeOK, device' \in Devices, held' \subseteq Busy \cup LockStatus,
         since' \subseteq {"reset", "locked", "steady"}, left' \in 0..MaxTimeout,
         cmds' \in Seq(Command), changes' \in 0..MaxChanges,
         copy' = copy, buffered' = buffered, open' = open, op' = op, pc' = pc,
         awaited' = awaited, outcome' = outcome, calls' = calls
  PROVE  CallTypeOK'
<1>1. /\ copy' \in Copies /\ buffered' \in Seq(Command) /\ open' \in BOOLEAN
      /\ calls' \in 0..MaxCalls
  BY DEF CallTypeOK
<1>2. op' \in {"none", "reset", "check", "upload"} \cup QccsMode
  BY DEF CallTypeOK
<1>3. pc' \in {"idle", "begin", "wait", "load", "verify", "status", "used", "source",
               "fall back", "mode", "table twice", "table", "uploaded", "refuse"}
  BY DEF CallTypeOK
<1>4. awaited' \in {"preset", "status"} \cup {"ch1", "ch2"}
  BY DEF CallTypeOK
<1>5. outcome' \in {"none", "returned", "True", "False", "TimeoutError",
                    "ToolkitError", "RuntimeError", "KeyError", "ValidationError"}
  BY DEF CallTypeOK
<1>. QED BY <1>1, <1>2, <1>3, <1>4, <1>5, Zenon DEF CallTypeOK

LEMMA DeviceInv ==
  ASSUME IndInv, NEW d \in Devices, Becomes(d),
         UNCHANGED <<copy, open, buffered, callVars, calls>>,
         changes' \in 0..MaxChanges,
         cmds' \in Seq(Command), cmds = <<>> => cmds' = <<>>,
         LoadIsLast => LoadIsLast' \/ d.busy = "busy",
         device.preset = "failed" /\ d.preset = "loaded" =>
           device.busy = "busy" /\ d.busy = "idle",
         cmds = <<>> => /\ d.busy = "busy" => device.busy = "busy"
                        /\ d.source \in {device.source, "internal"}
  PROVE  IndInv'
<1>1. /\ device' = d
      /\ held' = held \cup {Value(d, awaited)}
      /\ held' \subseteq Busy \cup LockStatus
      /\ since' \subseteq {"reset", "locked", "steady"}
      /\ "locked" \in since \/ d.status = "locked" => "locked" \in since'
      /\ "reset" \in since => "reset" \in since'
      /\ device.busy = "busy" /\ d.busy = "idle" =>
           d.preset = "failed" \/ "reset" \in since'
      /\ "steady" \in since' => "steady" \in since /\ d = device
  BY BecomesFacts DEF IndInv
<1>2. UNCHANGED <<copy, open, buffered, op, pc, awaited, left, outcome, calls>>
  BY DEF callVars
<1>3. CallTypeOK'
  <2>1. /\ device' \in Devices /\ copy' = copy /\ buffered' = buffered /\ open' = open
        /\ op' = op /\ pc' = pc /\ awaited' = awaited /\ outcome' = outcome
        /\ calls' = calls
    BY <1>1, <1>2
  <2>2. CallTypeOK /\ left' \in 0..MaxTimeout
    BY <1>2 DEF IndInv, CallTypeOK
  <2>. QED BY <1>1, <2>1, <2>2, CallTypeAfter
<1>4. /\ device.busy \in Busy /\ d.busy \in Busy
      /\ device.preset \in {"failed", "loaded"} /\ d.preset \in {"failed", "loaded"}
  BY DEF IndInv, CallTypeOK, Devices
<1>5. ResetProgress'
  <2>1. LoadTaken => LoadTaken'
    BY <1>1, <1>4 DEF LoadTaken, Busy
  <2>2. LoadIsLast => LoadIsLast' \/ LoadTaken'
    BY <1>1 DEF LoadTaken
  <2>3. ASSUME op = "reset", pc = "wait", ~open, "idle" \in held'
        PROVE  d.busy = "idle"
    <3>1. awaited = "preset" /\ cmds = <<>> /\ ("idle" \in held => device.busy = "idle")
      BY <2>3 DEF IndInv, ResetProgress
    <3>2. Value(d, awaited) = d.busy
      BY <3>1 DEF Value
    <3>. QED BY <1>1, <1>4, <2>3, <3>1, <3>2 DEF Busy
  <2>4. ASSUME op = "reset", pc = "verify", ~open
        PROVE  d.busy = "idle"
    BY <1>4, <2>4 DEF IndInv, ResetProgress, Busy
  <2>5. CASE op # "reset"
    BY <1>2, <2>5 DEF ResetProgress
  <2>6. CASE op = "reset" /\ open
    BY <1>2, <2>6 DEF IndInv, ResetProgress
  <2>7. CASE op = "reset" /\ ~open
    BY <1>1, <1>2, <2>1, <2>2, <2>3, <2>4, <2>7 DEF IndInv, ResetProgress
  <2>. QED BY <2>5, <2>6, <2>7
<1>6. LockSeen'
  <2>1. awaited = "status" => Value(d, awaited) = d.status
    BY DEF Value
  <2>2. d.status \in LockStatus
    BY DEF Devices
  <2>. QED BY <1>1, <1>2, <2>1, <2>2 DEF IndInv, LockSeen
<1>7. SteadyIsRead' /\ SteadyLockIsKept'
  <2>1. CASE "steady" \notin since'
    BY <2>1 DEF SteadyIsRead, SteadyLockIsKept
  <2>2. CASE "steady" \in since'
    <3>1. "steady" \in since /\ device' = device /\ d = device
      BY <1>1, <2>2
    <3>2. Steady'
      BY <1>2, <3>1 DEF IndInv, SteadyIsRead, Steady
    <3>3. awaited = "status" => Value(d, awaited) = "locked"
      BY <3>1 DEF Value, IndInv, SteadyIsRead, Steady
    <3>. QED
      BY <1>1, <1>2, <3>1, <3>2, <3>3 DEF IndInv, SteadyIsRead, SteadyLockIsKept
  <2>. QED BY <2>1, <2>2
<1>8. FellBack' /\ ResetMeansReset' /\ LockReported'
  BY <1>1, <1>2 DEF IndInv, FellBack, ResetMeansReset, LockReported
<1>9. ChannelExists'
  BY <1>2 DEF IndInv, ChannelExists
<1>10. ReadKept'
  BY <1>1, <1>2 DEF IndInv, ReadKept, Becomes, callVars
<1>. QED BY <1>2, <1>3, <1>5, <1>6, <1>7, <1>8, <1>9, <1>10 DEF IndInv

LEMMA TakeInv == IndInv /\ Take => IndInv'
<1>. SUFFICES ASSUME IndInv, Take PROVE IndInv'
  OBVIOUS
<1> DEFINE c == Head(cmds)  d == Executed(device, c)
<1>1. /\ cmds # <<>> /\ cmds' = Tail(cmds) /\ Becomes(d)
      /\ UNCHANGED <<copy, open, buffered, callVars, calls, changes>>
  BY DEF Take
<1>2. cmds \in Seq(Command) /\ device \in Devices /\ changes \in 0..MaxChanges
  BY DEF IndInv, CallTypeOK, Devices
<1>3. c \in Command /\ cmds' \in Seq(Command)
  BY <1>1, <1>2
<1>4. /\ d \in Devices /\ d.preset = device.preset
      /\ d.busy = IF c = "load" THEN "busy" ELSE device.busy
  BY <1>2, <1>3, ExecutedFacts
<1>5. LoadIsLast => LoadIsLast' \/ d.busy = "busy"
  <2>1. CASE Len(cmds) = 1
    BY <1>1, <1>2, <1>4, <2>1 DEF LoadIsLast
  <2>2. CASE Len(cmds) > 1
    <3>1. /\ Tail(cmds) # <<>> /\ Len(Tail(cmds)) = Len(cmds) - 1
          /\ Tail(cmds)[Len(cmds) - 1] = cmds[Len(cmds)]
      <4>1. /\ Len(Tail(cmds)) = Len(cmds) - 1 /\ Len(cmds) \in Nat
            /\ \A i \in 1..Len(Tail(cmds)) : Tail(cmds)[i] = cmds[i + 1]
        BY <1>1, <1>2, HeadTailProperties
      <4>2. Len(cmds) - 1 \in 1..Len(Tail(cmds)) /\ (Len(cmds) - 1) + 1 = Len(cmds)
        BY <2>2, <4>1
      <4>3. Tail(cmds)[Len(cmds) - 1] = cmds[(Len(cmds) - 1) + 1]
        BY <4>1, <4>2
      <4>. QED BY <4>1, <4>2, <4>3
    <3>. QED BY <1>1, <3>1 DEF LoadIsLast
  <2>3. Len(cmds) \in Nat /\ Len(cmds) # 0
    BY <1>1, <1>2
  <2>4. \A n \in Nat : n = 0 \/ n = 1 \/ n > 1
    OBVIOUS
  <2>. QED BY <2>1, <2>2, <2>3, <2>4
<1>. HIDE DEF c, d
<1>. QED BY <1>1, <1>2, <1>3, <1>4, <1>5, DeviceInv

LEMMA DeviceChangesInv == IndInv /\ DeviceChanges => IndInv'
<1>. SUFFICES ASSUME IndInv, DeviceChanges PROVE IndInv'
  OBVIOUS
<1>1. UNCHANGED <<copy, cmds, open, buffered, callVars, calls>>
  BY DEF DeviceChanges
<1>2. cmds \in Seq(Command) /\ device \in Devices
  BY DEF IndInv, CallTypeOK, Devices
<1>3. changes' \in 0..MaxChanges
  <2>1. changes \in 0..MaxChanges /\ changes < MaxChanges /\ changes' = changes + 1
    BY DEF DeviceChanges, IndInv, CallTypeOK
  <2>. QED BY <2>1, ProcedureAssumption
<1>4. LoadIsLast => LoadIsLast'
  BY <1>1 DEF LoadIsLast
<1>5. ASSUME NEW d \in Devices, Becomes(d),
             d.busy = device.busy \/ (device.busy = "busy" /\ d.busy = "idle"),
             d.preset = device.preset \/ (device.busy = "busy" /\ d.busy = "idle"),
             d.source \in {device.source, "internal"}
      PROVE  IndInv'
  BY <1>1, <1>2, <1>3, <1>4, <1>5, DeviceInv
<1>6. CASE /\ device.busy = "busy"
           /\ Becomes([device EXCEPT !.busy = "idle", !.preset = "failed"])
  <2> DEFINE d == [device EXCEPT !.busy = "idle", !.preset = "failed"]
  <2>1. d \in Devices /\ d.busy = "idle" /\ d.source = device.source
    BY <1>2 DEF Devices, Busy
  <2>2. Becomes(d)
    BY <1>6
  <2>. HIDE DEF d
  <2>. QED BY <1>5, <1>6, <2>1, <2>2
<1>7. CASE /\ device.busy = "busy"
           /\ Becomes([device EXCEPT !.busy = "idle", !.preset = "loaded",
                                     !.source = "internal", !.status = "busy"])
  <2> DEFINE d == [device EXCEPT !.busy = "idle", !.preset = "loaded",
                                 !.source = "internal", !.status = "busy"]
  <2>1. d \in Devices /\ d.busy = "idle" /\ d.source = "internal"
    BY <1>2 DEF Devices, Busy, Source, LockStatus
  <2>2. Becomes(d)
    BY <1>7
  <2>. HIDE DEF d
  <2>. QED BY <1>5, <1>7, <2>1, <2>2
<1>8. ASSUME NEW s \in LockStatus, NEW u \in Source,
             Becomes([device EXCEPT !.status = s, !.used = u])
      PROVE  IndInv'
  <2> DEFINE d == [device EXCEPT !.status = s, !.used = u]
  <2>1. /\ d \in Devices /\ d.busy = device.busy /\ d.preset = device.preset
        /\ d.source = device.source
    BY <1>2 DEF Devices
  <2>2. Becomes(d)
    BY <1>8
  <2>3. /\ d.busy = device.busy \/ (device.busy = "busy" /\ d.busy = "idle")
        /\ d.preset = device.preset \/ (device.busy = "busy" /\ d.busy = "idle")
        /\ d.source \in {device.source, "internal"}
    BY <2>1
  <2>. HIDE DEF d
  <2>. QED BY <1>5, <2>1, <2>2, <2>3
<1>9. CASE Becomes([device EXCEPT !.status = "busy"])
  <2> DEFINE d == [device EXCEPT !.status = "busy"]
  <2>1. /\ d \in Devices /\ d.busy = device.busy /\ d.preset = device.preset
        /\ d.source = device.source
    BY <1>2 DEF Devices, LockStatus
  <2>2. Becomes(d)
    BY <1>9
  <2>3. /\ d.busy = device.busy \/ (device.busy = "busy" /\ d.busy = "idle")
        /\ d.preset = device.preset \/ (device.busy = "busy" /\ d.busy = "idle")
        /\ d.source \in {device.source, "internal"}
    BY <2>1
  <2>. HIDE DEF d
  <2>. QED BY <1>5, <2>1, <2>2, <2>3
<1>10. ASSUME NEW k \in 1..NChannels, NEW b \in Busy,
              Becomes([device EXCEPT !.chan[k] = b])
       PROVE  IndInv'
  <2> DEFINE d == [device EXCEPT !.chan[k] = b]
  <2>1. /\ d \in Devices /\ d.busy = device.busy /\ d.preset = device.preset
        /\ d.source = device.source
    BY <1>2 DEF Devices
  <2>2. Becomes(d)
    BY <1>10
  <2>3. /\ d.busy = device.busy \/ (device.busy = "busy" /\ d.busy = "idle")
        /\ d.preset = device.preset \/ (device.busy = "busy" /\ d.busy = "idle")
        /\ d.source \in {device.source, "internal"}
    BY <2>1
  <2>. HIDE DEF d
  <2>. QED BY <1>5, <2>1, <2>2, <2>3
<1>11. "locked" \in LockStatus /\ "error" \in LockStatus /\ "internal" \in Source
       /\ device.source \in Source
  BY <1>2 DEF LockStatus, Source, Devices
<1>. QED BY <1>6, <1>7, <1>8, <1>9, <1>10, <1>11 DEF DeviceChanges

-----------------------------------------------------------------------------
(* The copies and the clock.                                               *)

LEMMA CopyInv == IndInv /\ CopyFollows => IndInv'
<1>. SUFFICES ASSUME IndInv, CopyFollows PROVE IndInv'
  OBVIOUS
<1>1. UNCHANGED <<device, held, since, cmds, open, buffered, op, pc, awaited, left,
                  outcome, calls, changes>>
  BY DEF CopyFollows, deviceVars, callVars
<1>2. PICK n \in DOMAIN copy : /\ copy[n] # Known(device)[n]
                               /\ copy' = [copy EXCEPT ![n] = Known(device)[n]]
  BY DEF CopyFollows
<1>3. copy \in Copies /\ Known(device) \in Copies
  BY KnownType DEF IndInv, CallTypeOK
<1>4. copy' \in Copies
  BY <1>2, <1>3 DEF Copies
<1>5. CallTypeOK'
  BY <1>1, <1>4 DEF IndInv, CallTypeOK
<1>6. copy'.status \in {copy.status, device.status}
  BY <1>2, <1>3 DEF Copies, Known
<1>7. LockSeen'
  BY <1>1, <1>6 DEF IndInv, LockSeen
<1>8. "steady" \notin since
  BY <1>2 DEF IndInv, SteadyIsRead, Steady
<1>9. SteadyIsRead' /\ ReadKept' /\ SteadyLockIsKept'
  BY <1>1, <1>8 DEF SteadyIsRead, ReadKept, SteadyLockIsKept
<1>10. ChannelExists' /\ ResetProgress'
  BY <1>1 DEF IndInv, ChannelExists, ResetProgress, LoadTaken, LoadIsLast
<1>11. FellBack' /\ ResetMeansReset' /\ LockReported'
  BY <1>1 DEF IndInv, FellBack, ResetMeansReset, LockReported
<1>. QED BY <1>1, <1>5, <1>7, <1>9, <1>10, <1>11 DEF IndInv

LEMMA TickInv == IndInv /\ Tick => IndInv'
<1>. SUFFICES ASSUME IndInv, Tick PROVE IndInv'
  OBVIOUS
<1>1. UNCHANGED <<device, held, since, copy, cmds, open, buffered, op, pc, awaited,
                  outcome, calls, changes>>
  BY DEF Tick, deviceVars
<1>2. left' \in 0..MaxTimeout
  <2>1. left \in 0..MaxTimeout /\ left > 0 /\ left' = left - 1
    BY DEF Tick, IndInv, CallTypeOK
  <2>. QED BY <2>1, ProcedureAssumption
<1>3. CallTypeOK'
  <2>1. /\ device' = device /\ copy' = copy /\ buffered' = buffered /\ open' = open
        /\ op' = op /\ pc' = pc /\ awaited' = awaited /\ outcome' = outcome
        /\ calls' = calls /\ held' = held /\ since' = since /\ cmds' = cmds
        /\ changes' = changes
    BY <1>1
  <2>2. /\ CallTypeOK /\ device \in Devices /\ held \subseteq Busy \cup LockStatus
        /\ since \subseteq {"reset", "locked", "steady"} /\ cmds \in Seq(Command)
        /\ changes \in 0..MaxChanges
    BY DEF IndInv, CallTypeOK
  <2>. QED BY <1>2, <2>1, <2>2, CallTypeAfter
<1>4. ChannelExists' /\ ResetProgress'
  BY <1>1 DEF IndInv, ChannelExists, ResetProgress, LoadTaken, LoadIsLast
<1>5. FellBack' /\ ResetMeansReset' /\ LockReported'
  BY <1>1 DEF IndInv, FellBack, ResetMeansReset, LockReported
<1>6. LockSeen' /\ SteadyIsRead' /\ ReadKept' /\ SteadyLockIsKept'
  BY <1>1
     DEF IndInv, LockSeen, SteadyIsRead, ReadKept, Tick, deviceVars, Steady,
         SteadyLockIsKept
<1>. QED BY <1>1, <1>3, <1>4, <1>5, <1>6 DEF IndInv

-----------------------------------------------------------------------------
(* The steps of a procedure that leave the device alone.                   *)

\* A step to another place of the procedure, or to its end.
LEMMA StepInv ==
  ASSUME IndInv, CallTypeOK', ChannelExists',
         UNCHANGED <<device, held, since, cmds, open, op, calls>>,
         pc # "idle",
         pc' # "idle" => outcome' = "none",
         pc' \in Uploading => op = "upload",
         pc' # "load",
         ResetProgress', LockSeen', SteadyIsRead', ReadKept',
         outcome' = "False" => open,
         outcome' = "returned" /\ op = "reset" /\ ~open => "reset" \in since,
         outcome' = "True" => "locked" \in since,
         "steady" \in since => /\ outcome' # "False"
                               /\ outcome' = "TimeoutError" => awaited' # "status"
  PROVE  IndInv'
<1>1. FellBack' /\ ResetMeansReset' /\ LockReported' /\ SteadyLockIsKept'
  BY DEF FellBack, ResetMeansReset, LockReported, SteadyLockIsKept
<1>. QED BY <1>1 DEF IndInv

\* The end of a procedure.
LEMMA EndInv ==
  ASSUME IndInv, pc # "idle",
         NEW how \in {"returned", "True", "TimeoutError", "ToolkitError", "RuntimeError",
                      "ValidationError"},
         Ends(how),
         UNCHANGED <<deviceVars, copy, cmds, open, buffered, op, awaited, calls, changes>>,
         left' \in 0..MaxTimeout,
         how = "returned" /\ op = "reset" /\ ~open => "reset" \in since,
         how = "True" => "locked" \in since,
         "steady" \in since /\ how = "TimeoutError" => awaited # "status"
  PROVE  IndInv'
<1>1. /\ UNCHANGED <<device, held, since, copy, cmds, open, buffered, op, awaited, calls,
                     changes>>
      /\ pc' = "idle" /\ outcome' = how
  BY DEF deviceVars, Ends
<1>2. CallTypeOK'
  BY <1>1 DEF IndInv, CallTypeOK
<1>3. ChannelExists' /\ ResetProgress' /\ LockSeen' /\ SteadyIsRead' /\ ReadKept'
  BY <1>1 DEF IndInv, ChannelExists, ResetProgress, LockSeen, SteadyIsRead, ReadKept, Steady
<1>. QED BY <1>1, <1>2, <1>3, StepInv DEF Uploading

LEMMA BeginWaitInv == IndInv /\ BeginWait => IndInv'
<1>. SUFFICES ASSUME IndInv, BeginWait PROVE IndInv'
  OBVIOUS
<1>1. /\ UNCHANGED <<device, since, cmds, open, buffered, op, awaited, left, outcome,
                     calls, changes>>
      /\ pc = "begin" /\ cmds = <<>> /\ pc' = "wait"
      /\ held' = {Value(device, awaited)}
      /\ copy' = IF awaited = "status" THEN [copy EXCEPT !.status = device.status]
                                       ELSE copy
  BY DEF BeginWait
<1>2. /\ device \in Devices /\ copy \in Copies
      /\ awaited \in {"preset", "status", "ch1", "ch2"}
  BY DEF IndInv, CallTypeOK
<1>3. held' \subseteq Busy \cup LockStatus
  BY <1>1, <1>2, ValueType DEF IndInv
<1>4. copy' \in Copies
  BY <1>1, <1>2 DEF Copies, Devices
<1>5. CallTypeOK'
  BY <1>1, <1>3, <1>4 DEF IndInv, CallTypeOK
<1>6. ResetProgress'
  <2>1. ~LoadIsLast
    BY <1>1 DEF LoadIsLast
  <2>2. LoadTaken' <=> LoadTaken
    BY <1>1 DEF LoadTaken
  <2>3. awaited = "preset" => Value(device, awaited) = device.busy
    BY DEF Value
  <2>. QED BY <1>1, <2>1, <2>2, <2>3 DEF IndInv, ResetProgress
<1>7. awaited = "status" => Value(device, awaited) = device.status
  BY DEF Value
<1>8. LockSeen'
  <2>1. device.status \in LockStatus
    BY <1>2 DEF Devices
  <2>. QED BY <1>1, <1>7, <2>1 DEF IndInv, LockSeen
<1>9. SteadyIsRead'
  <2>1. "steady" \in since /\ awaited = "status" => copy' = copy
    <3>1. copy = Known(device) => copy.status = device.status
      BY DEF Known
    <3>2. copy.status = device.status => [copy EXCEPT !.status = device.status] = copy
      BY <1>2 DEF Copies
    <3>. QED BY <1>1, <3>1, <3>2 DEF IndInv, SteadyIsRead, Steady
  <2>2. "steady" \in since => copy' = copy
    BY <1>1, <2>1
  <2>3. "steady" \in since => Steady /\ Steady'
    BY <1>1, <2>2 DEF IndInv, SteadyIsRead, Steady
  <2>4. Steady => device.status = "locked"
    BY DEF Steady
  <2>. QED BY <1>1, <1>7, <2>3, <2>4 DEF SteadyIsRead
<1>10. ChannelExists'
  BY <1>1 DEF IndInv, ChannelExists
<1>11. FellBack' /\ ReadKept' /\ ResetMeansReset' /\ LockReported' /\ SteadyLockIsKept'
  BY <1>1 DEF IndInv, ReadKept, FellBack, ResetMeansReset, LockReported, SteadyLockIsKept
<1>. QED BY <1>1, <1>5, <1>6, <1>8, <1>9, <1>10, <1>11 DEF IndInv, Uploading

LEMMA EndsInv ==
  IndInv /\ (WaitTimesOut \/ VerifyPreset \/ Uploaded \/ TableRefused) => IndInv'
<1>. SUFFICES ASSUME IndInv, WaitTimesOut \/ VerifyPreset \/ Uploaded \/ TableRefused
              PROVE  IndInv'
  OBVIOUS
<1>0. left \in 0..MaxTimeout
  BY DEF IndInv, CallTypeOK
<1>1. CASE WaitTimesOut
  <2>1. "steady" \in since => awaited # "status"
    BY <1>1 DEF WaitTimesOut, IndInv, SteadyIsRead
  <2>. QED BY <1>0, <1>1, <2>1, EndInv DEF WaitTimesOut
<1>2. CASE VerifyPreset
  <2> DEFINE how == IF device.preset = "failed" THEN "ToolkitError" ELSE "returned"
  <2>1. Ends(how) /\ pc = "verify"
        /\ UNCHANGED <<deviceVars, copy, cmds, open, buffered, op, awaited, left, calls,
                       changes>>
    BY <1>2 DEF VerifyPreset
  <2>2. how = "returned" /\ op = "reset" /\ ~open => "reset" \in since
    BY <2>1 DEF IndInv, ResetProgress, LoadTaken
  <2>3. how \in {"ToolkitError", "returned"}
    OBVIOUS
  <2>. HIDE DEF how
  <2>. QED BY <1>0, <2>1, <2>2, <2>3, EndInv
<1>3. CASE Uploaded
  <2>1. op = "upload"
    BY <1>3 DEF Uploaded, IndInv, Uploading
  <2>. QED BY <1>0, <1>3, <2>1, EndInv DEF Uploaded
<1>4. CASE TableRefused
  <2>1. op = "upload"
    BY <1>4 DEF TableRefused, IndInv, Uploading
  <2>. QED BY <1>0, <1>4, <2>1, EndInv DEF TableRefused
<1>. QED BY <1>1, <1>2, <1>3, <1>4

\* A step on, within the procedure.
LEMMA GoOnInv ==
  ASSUME IndInv, pc \notin {"idle"},
         UNCHANGED <<deviceVars, copy, cmds, open, buffered, op, outcome, calls, changes>>,
         pc' \in {"begin", "source", "used", "status", "fall back", "verify", "table",
                 "uploaded"},
         pc' \in Uploading => pc \in Uploading,
         awaited' \in {"preset", "status", "ch1", "ch2"}, left' \in 0..MaxTimeout,
         ChannelExists', ResetProgress', LockSeen', ReadKept',
         "steady" \in since => pc' # "fall back"
  PROVE  IndInv'
<1>1. /\ UNCHANGED <<device, held, since, copy, cmds, open, buffered, op, outcome, calls,
                     changes>>
      /\ outcome = "none"
  BY DEF deviceVars, IndInv
<1>2. CallTypeOK'
  BY <1>1 DEF IndInv, CallTypeOK
<1>3. SteadyIsRead'
  BY <1>1 DEF IndInv, SteadyIsRead, Steady
<1>4. pc' \in Uploading => op = "upload"
  BY DEF IndInv
<1>. QED BY <1>1, <1>2, <1>3, <1>4, StepInv

LEMMA PresetLoadedInv == IndInv /\ PresetLoaded => IndInv'
<1>. SUFFICES ASSUME IndInv, PresetLoaded PROVE IndInv'
  OBVIOUS
<1>1. /\ UNCHANGED <<device, held, since, copy, cmds, open, buffered, op, awaited, left,
                     outcome, calls, changes>>
      /\ pc = "wait" /\ "idle" \in held /\ pc' = "verify"
  BY DEF PresetLoaded, deviceVars
<1>2. ResetProgress'
  BY <1>1 DEF IndInv, ResetProgress, LoadTaken
<1>3. LockSeen' /\ ChannelExists' /\ ReadKept'
  BY <1>1 DEF IndInv, LockSeen, ChannelExists, ReadKept
<1>4. awaited \in {"preset", "status", "ch1", "ch2"} /\ left \in 0..MaxTimeout
  BY DEF IndInv, CallTypeOK
<1>5. UNCHANGED deviceVars
  BY DEF PresetLoaded
<1>. QED BY <1>1, <1>2, <1>3, <1>4, <1>5, GoOnInv DEF Uploading

LEMMA StatusNotBusyInv == IndInv /\ StatusNotBusy => IndInv'
<1>. SUFFICES ASSUME IndInv, StatusNotBusy PROVE IndInv'
  OBVIOUS
<1>1. /\ UNCHANGED <<device, held, since, cmds, open, buffered, op, awaited, left,
                     outcome, calls, changes>>
      /\ pc = "wait" /\ awaited = "status" /\ pc' = "status" /\ outcome = "none"
  BY DEF StatusNotBusy, deviceVars, IndInv
<1>2. PICK s \in held \ {"busy"} : copy' = [copy EXCEPT !.status = s]
  BY DEF StatusNotBusy
<1>3. copy \in Copies /\ device \in Devices /\ held \subseteq Busy \cup LockStatus
  BY DEF IndInv, CallTypeOK
<1>4. s \in LockStatus /\ s # "busy"
  BY <1>1, <1>2 DEF IndInv, LockSeen
<1>5. copy' \in Copies /\ copy'.status = s
  BY <1>2, <1>3, <1>4 DEF Copies
<1>6. CallTypeOK'
  BY <1>1, <1>5 DEF IndInv, CallTypeOK
<1>7. LockSeen'
  BY <1>1, <1>2, <1>5 DEF IndInv, LockSeen
<1>8. SteadyIsRead'
  <2>1. CASE "steady" \notin since
    BY <1>1, <2>1 DEF SteadyIsRead
  <2>2. CASE "steady" \in since
    <3>1. s = "locked" /\ Steady
      BY <1>1, <1>2, <2>2 DEF IndInv, SteadyIsRead
    <3>2. copy.status = "locked"
      BY <3>1 DEF Steady, Known
    <3>3. copy' = copy
      BY <1>2, <1>3, <3>1, <3>2 DEF Copies
    <3>4. Steady'
      BY <1>1, <3>1, <3>3 DEF Steady
    <3>. QED BY <1>1, <3>4 DEF SteadyIsRead
  <2>. QED BY <2>1, <2>2
<1>9. ChannelExists' /\ ResetProgress' /\ ReadKept'
  BY <1>1 DEF IndInv, ChannelExists, ResetProgress, ReadKept
<1>. QED BY <1>1, <1>6, <1>7, <1>8, <1>9, StepInv DEF Uploading

LEMMA ReadStatusInv == IndInv /\ ReadStatus => IndInv'
<1>. SUFFICES ASSUME IndInv, ReadStatus PROVE IndInv'
  OBVIOUS
<1>1. /\ UNCHANGED <<kind, device, held, since, copy, cmds, open, buffered, op, awaited,
                     left, outcome, calls, changes>>
      /\ pc = "status" /\ UNCHANGED deviceVars
      /\ pc' = IF copy.status # "locked" THEN "fall back"
               ELSE IF kind = "hdawg" THEN "source" ELSE "used"
  BY DEF ReadStatus, deviceVars
<1>2. ChannelExists' /\ ResetProgress' /\ LockSeen' /\ ReadKept'
  BY <1>1 DEF IndInv, ChannelExists, ResetProgress, LockSeen, ReadKept
<1>3. "steady" \in since => copy.status = "locked"
  BY SteadyFacts
<1>4. awaited \in {"preset", "status", "ch1", "ch2"} /\ left \in 0..MaxTimeout
  BY DEF IndInv, CallTypeOK
<1>. QED BY <1>1, <1>2, <1>3, <1>4, GoOnInv DEF Uploading

LEMMA ReadUsedInv == IndInv /\ ReadUsed => IndInv'
<1>. SUFFICES ASSUME IndInv, ReadUsed PROVE IndInv'
  OBVIOUS
<1>1. /\ UNCHANGED <<kind, device, held, since, copy, cmds, open, buffered, op, awaited,
                     left, outcome, calls, changes>>
      /\ pc = "used" /\ pc' = "source" /\ UNCHANGED deviceVars /\ read' = copy.used
  BY DEF ReadUsed, deviceVars
<1>2. ChannelExists' /\ ResetProgress' /\ LockSeen'
  BY <1>1 DEF IndInv, ChannelExists, ResetProgress, LockSeen
<1>3. ReadKept'
  BY <1>1, SteadyFacts DEF ReadKept
<1>4. awaited \in {"preset", "status", "ch1", "ch2"} /\ left \in 0..MaxTimeout
  BY DEF IndInv, CallTypeOK
<1>. QED BY <1>1, <1>2, <1>3, <1>4, GoOnInv DEF Uploading

LEMMA CheckStatusInv == IndInv /\ CheckStatus => IndInv'
<1>. SUFFICES ASSUME IndInv, CheckStatus PROVE IndInv'
  OBVIOUS
<1>1. /\ UNCHANGED <<device, held, since, copy, cmds, open, buffered, op, awaited,
                     left, calls, changes>>
      /\ pc \in {"table", "table twice"} /\ UNCHANGED deviceVars
  BY DEF CheckStatus, deviceVars
<1>2. awaited \in {"preset", "status", "ch1", "ch2"} /\ left \in 0..MaxTimeout
      /\ op = "upload"
  BY <1>1 DEF IndInv, CallTypeOK, Uploading
<1>3. CASE Ends("RuntimeError")
  BY <1>1, <1>2, <1>3, EndInv
<1>4. CASE pc' \in {"uploaded", "table"} /\ UNCHANGED outcome
  <2>1. ChannelExists' /\ ResetProgress' /\ LockSeen' /\ ReadKept'
    BY <1>1, <1>2, <1>4 DEF IndInv, ChannelExists, ResetProgress, LockSeen, ReadKept
  <2>. QED BY <1>1, <1>2, <1>4, <2>1, GoOnInv DEF Uploading
<1>. QED BY <1>3, <1>4 DEF CheckStatus

LEMMA ReadSourceInv == IndInv /\ ReadSource => IndInv'
<1>. SUFFICES ASSUME IndInv, ReadSource PROVE IndInv'
  OBVIOUS
<1> DEFINE good == IF kind = "hdawg" THEN copy.source # "internal"
                                     ELSE read = copy.source
<1>1. /\ UNCHANGED <<deviceVars, copy, cmds, open, buffered, op, calls, changes>>
      /\ pc = "source"
  BY DEF ReadSource
<1>2. /\ UNCHANGED <<device, held, since>>
      /\ outcome = "none" /\ "locked" \in since
      /\ awaited \in {"preset", "status", "ch1", "ch2"} /\ left \in 0..MaxTimeout
  BY <1>1 DEF deviceVars, IndInv, CallTypeOK, LockSeen
<1>3. "steady" \in since => good
  BY <1>1, SteadyFacts DEF IndInv, ReadKept
<1>4. CASE Ends("True") /\ UNCHANGED <<awaited, left>>
  BY <1>1, <1>2, <1>4, EndInv
<1>5. CASE Wait("ch1") /\ left' = MaxTimeout /\ UNCHANGED outcome /\ NChannels # 0
  <2>1. pc' = "begin" /\ awaited' = "ch1" /\ left' \in 0..MaxTimeout
    BY <1>5, ProcedureAssumption DEF Wait
  <2>2. 1 \in 1..NChannels
    BY <1>5, ProcedureAssumption
  <2>3. op # "reset"
    BY <1>1 DEF IndInv, ResetProgress
  <2>4. ChannelExists' /\ ResetProgress' /\ LockSeen' /\ ReadKept'
    BY <1>1, <1>2, <2>1, <2>2, <2>3
       DEF ChannelExists, ResetProgress, LockSeen, ReadKept, IndInv
  <2>. QED BY <1>1, <1>2, <1>5, <2>1, <2>4, GoOnInv DEF Uploading
<1>6. CASE ~good /\ pc' = "fall back" /\ UNCHANGED <<awaited, left, outcome>>
  <2>1. ChannelExists' /\ ResetProgress' /\ LockSeen' /\ ReadKept'
    BY <1>1, <1>2, <1>6 DEF IndInv, ChannelExists, ResetProgress, LockSeen, ReadKept
  <2>. QED BY <1>1, <1>2, <1>3, <1>6, <2>1, GoOnInv DEF Uploading
<1>. QED BY <1>4, <1>5, <1>6 DEF ReadSource

LEMMA ChannelReadyInv == IndInv /\ ChannelReady => IndInv'
<1>. SUFFICES ASSUME IndInv, ChannelReady PROVE IndInv'
  OBVIOUS
<1>1. /\ UNCHANGED <<deviceVars, copy, cmds, open, buffered, op, left, calls, changes>>
      /\ pc = "wait" /\ awaited \in {"ch1", "ch2"}
  BY DEF ChannelReady
<1>2. /\ UNCHANGED <<device, held, since>>
      /\ outcome = "none" /\ "locked" \in since /\ left \in 0..MaxTimeout
  BY <1>1 DEF deviceVars, IndInv, CallTypeOK, LockSeen
<1>3. CASE Ends("True") /\ UNCHANGED awaited
  BY <1>1, <1>2, <1>3, EndInv
<1>4. CASE Wait("ch2") /\ UNCHANGED outcome /\ NChannels > 1
  <2>1. pc' = "begin" /\ awaited' = "ch2"
    BY <1>4 DEF Wait
  <2>2. 2 \in 1..NChannels
    BY <1>4, ProcedureAssumption
  <2>3. op # "reset"
    BY <1>1 DEF IndInv, ResetProgress
  <2>4. ChannelExists' /\ ResetProgress' /\ LockSeen' /\ ReadKept'
    BY <1>1, <1>2, <2>1, <2>2, <2>3
       DEF ChannelExists, ResetProgress, LockSeen, ReadKept, IndInv
  <2>. QED BY <1>1, <1>2, <1>4, <2>1, <2>4, GoOnInv DEF Uploading
<1>. QED BY <1>3, <1>4 DEF ChannelReady

-----------------------------------------------------------------------------
(* The deep sets.                                                          *)

\* A deep set outside of a transaction, whatever the step does besides.
LEMMA DeepSetFacts ==
  ASSUME IndInv, NEW c \in Command, ~open, DeepSet(c),
         UNCHANGED <<open, op, awaited, left, calls, changes>>
  PROVE  /\ cmds = <<>> /\ UNCHANGED <<cmds, buffered>>
         /\ Becomes(Executed(device, c))
         /\ device' = Executed(device, c) /\ device' \in Devices
         /\ copy' \in Copies
         /\ held' \subseteq Busy \cup LockStatus
         /\ since' \subseteq {"reset", "locked", "steady"}
         /\ "locked" \in since \/ device'.status = "locked" => "locked" \in since'
         /\ "steady" \in since' => /\ "steady" \in since /\ device' = device
                                   /\ copy' = copy /\ Steady'
<1> DEFINE d == Executed(device, c)
<1>1. /\ cmds = <<>> /\ UNCHANGED <<cmds, buffered>> /\ Becomes(d)
      /\ copy' = [copy EXCEPT !.source = d.source]
  BY DEF DeepSet
<1>2. device \in Devices /\ copy \in Copies
  BY DEF IndInv, CallTypeOK
<1>3. d \in Devices
  BY <1>2, ExecutedFacts
<1>4. d.source \in Source
  BY <1>3 DEF Devices
<1>5. copy' \in Copies
  BY <1>1, <1>2, <1>4 DEF Copies
<1>. HIDE DEF d
<1>6. /\ device' = d
      /\ held' \subseteq Busy \cup LockStatus
      /\ since' \subseteq {"reset", "locked", "steady"}
      /\ "locked" \in since \/ d.status = "locked" => "locked" \in since'
      /\ "steady" \in since' => "steady" \in since /\ d = device
  BY <1>1, <1>3, BecomesFacts DEF IndInv
<1>7. ASSUME "steady" \in since'
      PROVE  "steady" \in since /\ device' = device /\ copy' = copy /\ Steady'
  <2>1. "steady" \in since /\ device' = device /\ d = device
    BY <1>6, <1>7
  <2>2. copy.source = d.source
    BY <2>1, SteadyFacts DEF IndInv, SteadyIsRead, Steady
  <2>3. copy' = copy
    BY <1>1, <1>2, <2>2 DEF Copies
  <2>. QED BY <2>1, <2>3 DEF IndInv, SteadyIsRead, Steady
<1>8. Becomes(Executed(device, c)) /\ device' = Executed(device, c)
  BY <1>1, <1>6 DEF d
<1>. QED BY <1>1, <1>3, <1>5, <1>6, <1>7, <1>8

LEMMA LoadPresetInv == IndInv /\ LoadPreset => IndInv'
<1>. SUFFICES ASSUME IndInv, LoadPreset PROVE IndInv'
  OBVIOUS
<1>1. /\ UNCHANGED <<open, op, awaited, left, outcome, calls, changes>>
      /\ pc = "load" /\ pc' = "begin" /\ DeepSet("load")
      /\ outcome = "none" /\ op = "reset" /\ awaited = "preset"
  BY DEF LoadPreset, IndInv
<1>2. "load" \in Command
  BY DEF Command
<1>3. CASE open
  <2>1. UNCHANGED <<cmds, copy, device, held, since>> /\ buffered' = Append(buffered, "load")
    BY <1>1, <1>3 DEF DeepSet, deviceVars
  <2>2. buffered' \in Seq(Command)
    <3>1. buffered \in Seq(Command)
      BY DEF IndInv, CallTypeOK
    <3>. QED BY <1>2, <2>1, <3>1
  <2>3. CallTypeOK'
    BY <1>1, <2>1, <2>2 DEF IndInv, CallTypeOK
  <2>4. ChannelExists' /\ ResetProgress' /\ LockSeen'
    BY <1>1, <1>3, <2>1 DEF IndInv, ChannelExists, ResetProgress, LockSeen
  <2>5. SteadyIsRead' /\ ReadKept' /\ SteadyLockIsKept'
    BY <1>1, <2>1 DEF IndInv, SteadyIsRead, ReadKept, Steady, SteadyLockIsKept
  <2>6. FellBack' /\ ResetMeansReset' /\ LockReported'
    BY <1>1 DEF FellBack, ResetMeansReset, LockReported
  <2>. QED BY <1>1, <2>3, <2>4, <2>5, <2>6 DEF IndInv, Uploading
<1>4. CASE ~open
  <2>1. /\ UNCHANGED <<cmds, buffered>>
        /\ device' = Executed(device, "load") /\ device' \in Devices
        /\ copy' \in Copies /\ held' \subseteq Busy \cup LockStatus
        /\ since' \subseteq {"reset", "locked", "steady"}
        /\ "locked" \in since \/ device'.status = "locked" => "locked" \in since'
        /\ "steady" \in since' => Steady'
    BY <1>1, <1>2, <1>4, DeepSetFacts
  <2>2. device'.busy = "busy"
    <3>1. device \in Devices
      BY DEF IndInv, CallTypeOK
    <3>. QED BY <1>2, <2>1, <3>1, ExecutedFacts
  <2>3. CallTypeOK'
    BY <1>1, <2>1 DEF IndInv, CallTypeOK
  <2>4. ChannelExists' /\ ResetProgress' /\ LockSeen'
    BY <1>1, <2>1, <2>2 DEF IndInv, ChannelExists, ResetProgress, LoadTaken, LockSeen
  <2>5. SteadyIsRead' /\ ReadKept' /\ SteadyLockIsKept'
    BY <1>1, <2>1 DEF SteadyIsRead, ReadKept, SteadyLockIsKept
  <2>6. FellBack' /\ ResetMeansReset' /\ LockReported'
    BY <1>1 DEF FellBack, ResetMeansReset, LockReported
  <2>. QED BY <1>1, <2>3, <2>4, <2>5, <2>6 DEF IndInv, Uploading
<1>. QED BY <1>3, <1>4

LEMMA FallBackInv == IndInv /\ FallBack => IndInv'
<1>. SUFFICES ASSUME IndInv, FallBack PROVE IndInv'
  OBVIOUS
<1>1. /\ UNCHANGED <<open, op, awaited, left, calls, changes>>
      /\ pc = "fall back" /\ pc' = "idle" /\ DeepSet("internal")
      /\ outcome' = "False" /\ "steady" \notin since
  BY DEF FallBack, Ends, IndInv, SteadyIsRead
<1>2. "internal" \in Command /\ "internal" \in Source
  BY DEF Command, Source
<1>3. CASE open
  <2>1. /\ UNCHANGED <<cmds, copy, device, held, since>>
        /\ buffered' = Append(buffered, "internal")
    BY <1>1, <1>3 DEF DeepSet, deviceVars
  <2>2. buffered' \in Seq(Command)
    <3>1. buffered \in Seq(Command)
      BY DEF IndInv, CallTypeOK
    <3>. QED BY <1>2, <2>1, <3>1
  <2>3. CallTypeOK'
    BY <1>1, <2>1, <2>2 DEF IndInv, CallTypeOK
  <2>4. ChannelExists' /\ ResetProgress' /\ LockSeen' /\ SteadyIsRead' /\ ReadKept'
    BY <1>1, <2>1 DEF IndInv, ChannelExists, ResetProgress, LockSeen, SteadyIsRead, ReadKept
  <2>. QED BY <1>1, <1>3, <2>1, <2>3, <2>4, StepInv DEF Uploading
<1>4. CASE ~open
  <2>1. /\ cmds = <<>> /\ UNCHANGED <<cmds, buffered>>
        /\ device' = Executed(device, "internal") /\ device' \in Devices
        /\ copy' \in Copies /\ held' \subseteq Busy \cup LockStatus
        /\ since' \subseteq {"reset", "locked", "steady"}
        /\ "steady" \notin since'
    BY <1>1, <1>2, <1>4, DeepSetFacts
  <2>2. device'.source = "internal"
    <3>1. device \in Devices
      BY DEF IndInv, CallTypeOK
    <3>. QED BY <1>2, <2>1, <3>1, ExecutedFacts
  <2>3. CallTypeOK'
    BY <1>1, <2>1 DEF IndInv, CallTypeOK
  <2>4. ChannelExists' /\ ResetProgress' /\ LockSeen'
    BY <1>1 DEF IndInv, ChannelExists, ResetProgress, LockSeen
  <2>5. SteadyIsRead' /\ ReadKept' /\ SteadyLockIsKept'
    BY <2>1 DEF SteadyIsRead, ReadKept, SteadyLockIsKept
  <2>6. FellBack' /\ ResetMeansReset' /\ LockReported'
    BY <1>1, <2>1, <2>2 DEF FellBack, ResetMeansReset, LockReported
  <2>. QED BY <1>1, <2>3, <2>4, <2>5, <2>6 DEF IndInv, Uploading
<1>. QED BY <1>3, <1>4

-----------------------------------------------------------------------------
(* The calls, and the blocks of the program.                               *)

LEMMA SendFacts ==
  ASSUME IndInv, NEW commands \in Seq(Command), Send(commands)
  PROVE  /\ cmds' \in Seq(Command) /\ buffered' \in Seq(Command)
         /\ ~open => cmds' = cmds \o commands
<1>1. cmds \in Seq(Command) /\ buffered \in Seq(Command)
  BY DEF IndInv, CallTypeOK
<1>2. cmds \o commands \in Seq(Command) /\ buffered \o commands \in Seq(Command)
  BY <1>1
<1>. QED BY <1>1, <1>2 DEF Send

\* A call: only what it sends, and what it waits for, tells it from the others.
LEMMA CallInv ==
  ASSUME IndInv, NEW o, NEW step, NEW timeout \in 0..MaxTimeout,
         Call(o, step, timeout),
         o \in {"reset", "check", "upload"} \cup QccsMode,
         step \in {"begin", "load", "mode"} \cup Uploading,
         step \in Uploading => o = "upload",
         step = "load" => o = "reset",
         o \in {"reset", "check"} => awaited' \in {"preset", "status"},
         o \notin {"reset", "check"} => UNCHANGED awaited /\ step # "begin",
         o = "reset" => /\ awaited' = "preset" /\ step # "mode"
                        /\ step = "begin" /\ ~open => LoadIsLast',
         cmds' \in Seq(Command), buffered' \in Seq(Command), open' \in BOOLEAN,
         o = "reset" => UNCHANGED open,
         UNCHANGED <<device, held, copy, changes>>
  PROVE  IndInv'
<1>1. /\ op' = o /\ pc' = step /\ left' = timeout /\ outcome' = "none"
      /\ calls < MaxCalls /\ calls' = calls + 1
      /\ since' \subseteq {"locked", "steady"}
      /\ device.status = "locked" => "locked" \in since'
      /\ "steady" \in since' => Steady
  BY DEF Call
<1>2. calls' \in 0..MaxCalls
  <2>1. calls \in 0..MaxCalls
    BY DEF IndInv, CallTypeOK
  <2>. QED BY <1>1, <2>1, ProcedureAssumption
<1>3. awaited' \in {"preset", "status", "ch1", "ch2"}
  BY DEF IndInv, CallTypeOK
<1>4. CallTypeOK'
  BY <1>1, <1>2, <1>3 DEF IndInv, CallTypeOK, Uploading
<1>5. ChannelExists'
  BY DEF IndInv, ChannelExists
<1>6. ResetProgress'
  BY <1>1 DEF ResetProgress, Uploading
<1>7. LockSeen'
  BY <1>1 DEF LockSeen, Uploading, QccsMode
<1>8. SteadyIsRead' /\ ReadKept' /\ SteadyLockIsKept'
  BY <1>1 DEF SteadyIsRead, ReadKept, Steady, SteadyLockIsKept, Uploading
<1>9. FellBack' /\ ResetMeansReset' /\ LockReported'
  BY <1>1 DEF FellBack, ResetMeansReset, LockReported
<1>. QED BY <1>1, <1>4, <1>5, <1>6, <1>7, <1>8, <1>9 DEF IndInv

LEMMA FactoryResetInv ==
  ASSUME IndInv, NEW deep \in BOOLEAN, NEW timeout \in 0..MaxTimeout,
         FactoryReset(deep, timeout)
  PROVE  IndInv'
<1> DEFINE step == IF deep THEN "load" ELSE "begin"
<1>1. /\ Call("reset", step, timeout) /\ awaited' = "preset"
      /\ UNCHANGED <<device, held, copy, open, changes>>
      /\ deep => UNCHANGED <<cmds, buffered>>
      /\ ~deep => Send(<<"load">>)
  BY DEF FactoryReset
<1>2. <<"load">> \in Seq(Command)
  BY DEF Command
<1>3. cmds \in Seq(Command) /\ buffered \in Seq(Command)
  BY DEF IndInv, CallTypeOK
<1>4. cmds' \in Seq(Command) /\ buffered' \in Seq(Command)
  BY <1>1, <1>2, <1>3, SendFacts
<1>5. ~deep /\ ~open => LoadIsLast'
  <2>1. ~deep /\ ~open => cmds' = cmds \o <<"load">>
    BY <1>1, <1>2, SendFacts
  <2>2. /\ cmds \o <<"load">> # <<>>
        /\ (cmds \o <<"load">>)[Len(cmds \o <<"load">>)] = "load"
    BY <1>3
  <2>. QED BY <2>1, <2>2 DEF LoadIsLast
<1>6. step = "begin" => ~deep
  OBVIOUS
<1>7. step \in {"begin", "load"} /\ step \notin Uploading
  BY DEF Uploading
<1>8. open' \in BOOLEAN
  BY <1>1 DEF IndInv, CallTypeOK
<1>. HIDE DEF step
<1>. QED BY <1>1, <1>4, <1>5, <1>6, <1>7, <1>8, CallInv

LEMMA CheckRefClockInv ==
  ASSUME IndInv, NEW timeout \in 0..MaxTimeout, CheckRefClock(timeout)
  PROVE  IndInv'
<1>1. /\ Call("check", "begin", timeout) /\ awaited' = "status"
      /\ UNCHANGED <<device, held, copy, cmds, open, buffered, changes>>
  BY DEF CheckRefClock
<1>2. cmds' \in Seq(Command) /\ buffered' \in Seq(Command)
  BY <1>1 DEF IndInv, CallTypeOK
<1>3. "check" \notin Uploading /\ "begin" \notin Uploading /\ open' \in BOOLEAN
  BY <1>1 DEF Uploading, IndInv, CallTypeOK
<1>. QED BY <1>1, <1>2, <1>3, CallInv

LEMMA UploadInv ==
  ASSUME IndInv, NEW c \in Command, NEW validated, NEW check,
         UploadToDevice(c, validated, check)
  PROVE  IndInv'
<1>1. PICK step \in Uploading : Call("upload", step, 0)
  BY DEF UploadToDevice, Looks, Uploading
<1>2. Send(<<c>>) /\ UNCHANGED <<device, held, copy, awaited, open, changes>>
  BY DEF UploadToDevice
<1>4. <<c>> \in Seq(Command)
  OBVIOUS
<1>5. cmds' \in Seq(Command) /\ buffered' \in Seq(Command) /\ open' \in BOOLEAN
  BY <1>2, <1>4, SendFacts DEF IndInv, CallTypeOK
<1>6. 0 \in 0..MaxTimeout
  BY ProcedureAssumption
<1>7. step \notin {"begin", "load", "mode"}
  BY DEF Uploading
<1>. QED BY <1>1, <1>2, <1>5, <1>6, <1>7, CallInv

LEMMA RefuseTableInv == IndInv /\ RefuseTable => IndInv'
<1>. SUFFICES ASSUME IndInv, RefuseTable PROVE IndInv'
  OBVIOUS
<1>1. /\ Call("upload", "refuse", 0)
      /\ UNCHANGED <<device, held, copy, awaited, cmds, buffered, open, changes>>
  BY DEF RefuseTable
<1>2. cmds' \in Seq(Command) /\ buffered' \in Seq(Command) /\ open' \in BOOLEAN
  BY <1>1 DEF IndInv, CallTypeOK
<1>3. 0 \in 0..MaxTimeout /\ "refuse" \in Uploading
  BY ProcedureAssumption DEF Uploading
<1>. QED BY <1>1, <1>2, <1>3, CallInv

LEMMA EnableInv ==
  ASSUME IndInv, NEW mode \in QccsMode, EnableQccsMode(mode)
  PROVE  IndInv'
<1>1. /\ Call(mode, "mode", 0) /\ open' = TRUE
      /\ UNCHANGED <<device, held, copy, awaited, cmds, buffered, changes>>
  BY DEF EnableQccsMode
<1>2. cmds' \in Seq(Command) /\ buffered' \in Seq(Command) /\ open' \in BOOLEAN
  BY <1>1 DEF IndInv, CallTypeOK
<1>3. 0 \in 0..MaxTimeout
  BY ProcedureAssumption
<1>4. "mode" \notin Uploading /\ mode \notin {"reset", "check", "upload"}
  BY DEF Uploading, QccsMode
<1>. QED BY <1>1, <1>2, <1>3, <1>4, CallInv

\* What the program does between its calls, and in the making of a QCCS mode.
LEMMA IdleInv ==
  ASSUME IndInv, pc \in {"idle", "mode"}, pc' \in {"idle", "mode"},
         pc' = "mode" => outcome' = "none",
         UNCHANGED <<deviceVars, copy, op, awaited, left, changes>>,
         cmds' \in Seq(Command), buffered' \in Seq(Command), open' \in BOOLEAN,
         calls' \in 0..MaxCalls,
         \/ outcome' = "none" /\ UNCHANGED pc
         \/ op \in QccsMode /\ outcome' \in {"returned", "ToolkitError", "KeyError"}
  PROVE  IndInv'
<1>1. UNCHANGED <<device, held, since, copy, op, awaited, left, changes>>
  BY DEF deviceVars
<1>2. CallTypeOK'
  BY <1>1 DEF IndInv, CallTypeOK
<1>3. ChannelExists' /\ LockSeen' /\ ReadKept'
  BY <1>1 DEF IndInv, ChannelExists, LockSeen, ReadKept
<1>4. ResetProgress'
  BY <1>1 DEF IndInv, ResetProgress, QccsMode
<1>5. SteadyIsRead' /\ SteadyLockIsKept'
  BY <1>1 DEF IndInv, SteadyIsRead, Steady, SteadyLockIsKept
<1>6. FellBack' /\ ResetMeansReset' /\ LockReported'
  BY <1>1 DEF FellBack, ResetMeansReset, LockReported, QccsMode
<1>. QED BY <1>1, <1>2, <1>3, <1>4, <1>5, <1>6 DEF IndInv, Uploading

LEMMA BlockInv == IndInv /\ (EnterBlock \/ LeaveBlock) => IndInv'
<1>. SUFFICES ASSUME IndInv, EnterBlock \/ LeaveBlock PROVE IndInv'
  OBVIOUS
<1>1. /\ cmds \in Seq(Command) /\ buffered \in Seq(Command) /\ calls \in 0..MaxCalls
      /\ cmds \o buffered \in Seq(Command) /\ <<>> \in Seq(Command)
  <2>1. cmds \in Seq(Command) /\ buffered \in Seq(Command) /\ calls \in 0..MaxCalls
    BY DEF IndInv, CallTypeOK
  <2>. QED BY <2>1
<1>2. calls < MaxCalls => calls + 1 \in 0..MaxCalls
  BY <1>1, ProcedureAssumption
<1>3. CASE EnterBlock
  BY <1>1, <1>2, <1>3, IdleInv DEF EnterBlock
<1>4. CASE LeaveBlock
  <2>1. cmds' \in {cmds, cmds \o buffered} /\ buffered' = <<>>
    BY <1>4, Zenon DEF LeaveBlock
  <2>2. cmds' \in Seq(Command) /\ buffered' \in Seq(Command)
    BY <1>1, <2>1
  <2>. QED BY <1>1, <1>4, <2>2, IdleInv DEF LeaveBlock
<1>. QED BY <1>3, <1>4

LEMMA SettingsType ==
  ASSUME NEW mode
  PROVE  QccsSettings(mode) \in Seq(Command) /\ Len(QccsSettings(mode)) \in 1..7
<1> DEFINE gen1 == <<"mode", "freq", "interface", "drive", "zsync", "slope", "polarity">>
           gen2 == <<"mode", "freq", "drive", "zsync", "slope", "polarity">>
           uhfqa == <<"extclk", "dioclk", "mode", "drive", "slope", "index", "polarity">>
<1>1. QccsSettings(mode) \in {gen1, gen2, uhfqa, <<"mode">>}
  BY DEF QccsSettings
<1>2. QccsSetting \subseteq Command
  BY DEF Command
<1>3. gen1 \in Seq(QccsSetting) /\ Len(gen1) = 7
  BY DEF QccsSetting
<1>4. gen2 \in Seq(QccsSetting) /\ Len(gen2) = 6
  BY DEF QccsSetting
<1>5. uhfqa \in Seq(QccsSetting) /\ Len(uhfqa) = 7
  BY DEF QccsSetting
<1>6. <<"mode">> \in Seq(QccsSetting) /\ Len(<<"mode">>) = 1
  BY DEF QccsSetting
<1>. HIDE DEF gen1, gen2, uhfqa
<1>7. QccsSettings(mode) \in Seq(QccsSetting) /\ Len(QccsSettings(mode)) \in {1, 6, 7}
  BY <1>1, <1>3, <1>4, <1>5, <1>6
<1>. QED BY <1>2, <1>7, SeqMonotonic

\* The setting that is made next, and what has been made with it.
LEMMA SettingFacts ==
  ASSUME ModeInv, pc = "mode", made # Len(QccsSettings(op))
  PROVE  /\ QccsSettings(op)[made + 1] \in Command
         /\ made + 1 \in 0..Len(QccsSettings(op))
         /\ Append(SubSeq(QccsSettings(op), 1, made), QccsSettings(op)[made + 1])
              = SubSeq(QccsSettings(op), 1, made + 1)
<1> DEFINE list == QccsSettings(op)
<1>1. list \in Seq(Command) /\ Len(list) \in 1..7 /\ made \in 0..Len(list)
  BY SettingsType DEF ModeInv, ModeType, ModeProgress
<1>2. made \in Nat /\ Len(list) \in Nat /\ made + 1 \in 1..Len(list)
  BY <1>1
<1>. HIDE DEF list
<1>3. list[made + 1] \in Command
  BY <1>1, <1>2
<1>4. Append(SubSeq(list, 1, made), list[made + 1]) = SubSeq(list, 1, made + 1)
  BY <1>1, <1>2
<1>. QED BY <1>2, <1>3, <1>4 DEF list

LEMMA ModeStepInv ==
  IndInv /\ ModeInv /\ (MakeSetting \/ QccsModeSet \/ QccsModeFails) => IndInv'
<1>. SUFFICES ASSUME IndInv, ModeInv, MakeSetting \/ QccsModeSet \/ QccsModeFails
              PROVE  IndInv'
  OBVIOUS
<1>1. /\ cmds \in Seq(Command) /\ buffered \in Seq(Command) /\ calls \in 0..MaxCalls
      /\ cmds \o buffered \in Seq(Command) /\ <<>> \in Seq(Command) /\ open \in BOOLEAN
  <2>1. cmds \in Seq(Command) /\ buffered \in Seq(Command) /\ calls \in 0..MaxCalls
        /\ open \in BOOLEAN
    BY DEF IndInv, CallTypeOK
  <2>. QED BY <2>1
<1>2. /\ UNCHANGED <<deviceVars, copy, op, awaited, left, calls, changes>>
      /\ pc = "mode"
  BY DEF MakeSetting, QccsModeSet, QccsModeFails
<1>0. op \in QccsMode
  BY <1>2 DEF ModeInv, ModeType, ModeProgress
<1>3. CASE MakeSetting
  <2>1. <<QccsSettings(op)[made + 1]>> \in Seq(Command)
    BY <1>2, <1>3, SettingFacts DEF MakeSetting, AllMade
  <2>2. cmds' \in Seq(Command) /\ buffered' \in Seq(Command)
    BY <1>3, <2>1, SendFacts DEF MakeSetting
  <2>3. outcome' = "none" /\ UNCHANGED <<pc, open>>
    BY <1>2, <1>3 DEF MakeSetting, IndInv
  <2>. QED BY <1>1, <1>2, <2>2, <2>3, IdleInv
<1>4. CASE QccsModeSet
  <2>1. cmds' \in {cmds, cmds \o buffered} /\ buffered' \in {buffered, <<>>}
        /\ open' \in {open, FALSE} /\ pc' = "idle" /\ outcome' = "returned"
    BY <1>4, Zenon DEF QccsModeSet, Ends
  <2>. QED BY <1>0, <1>1, <1>2, <2>1, IdleInv
<1>5. CASE QccsModeFails
  <2>1. cmds' = cmds /\ buffered' \in {buffered, <<>>}
        /\ open' \in {open, FALSE} /\ pc' = "idle"
        /\ outcome' \in {"ToolkitError", "KeyError"}
    BY <1>5, Zenon DEF QccsModeFails, QccsFails, Ends
  <2>. QED BY <1>0, <1>1, <1>2, <2>1, IdleInv
<1>. QED BY <1>3, <1>4, <1>5

-----------------------------------------------------------------------------

LEMMA InitInv == Init => IndInv
<1>. HAVE Init
<1>1. device \in Devices /\ copy \in Copies
  <2>1. device \in Devices
    BY DEF Init, Devices, Busy, LockStatus
  <2>. QED BY <2>1, KnownType DEF Init
<1>2. CallTypeOK
  <2>1. 0 \in 0..MaxTimeout /\ 0 \in 0..MaxCalls /\ 0 \in 0..MaxChanges
    BY ProcedureAssumption
  <2>2. <<>> \in Seq(Command)
    OBVIOUS
  <2>. QED BY <1>1, <2>1, <2>2 DEF Init, CallTypeOK
<1>3. ChannelExists /\ ResetProgress /\ LockSeen /\ SteadyIsRead /\ ReadKept /\ FellBack
  BY DEF Init, ChannelExists, ResetProgress, LockSeen, SteadyIsRead, ReadKept, FellBack
<1>. QED
  BY <1>2, <1>3
     DEF Init, IndInv, Uploading, ResetMeansReset, LockReported, SteadyLockIsKept

LEMMA NextInv == IndInv /\ ModeInv /\ [Next]_vars => IndInv'
<1>. SUFFICES ASSUME IndInv, ModeInv, [Next]_vars PROVE IndInv'
  OBVIOUS
<1>1. CASE UNCHANGED vars
  <2>1. /\ device' = device /\ copy' = copy /\ cmds' = cmds /\ open' = open
        /\ buffered' = buffered /\ op' = op /\ pc' = pc /\ awaited' = awaited
        /\ left' = left /\ outcome' = outcome /\ held' = held /\ since' = since
        /\ calls' = calls /\ changes' = changes /\ kind' = kind /\ read' = read
    BY <1>1 DEF vars
  <2>2. CallTypeOK' /\ ChannelExists'
    <3>1. /\ CallTypeOK /\ device \in Devices /\ held \subseteq Busy \cup LockStatus
          /\ since \subseteq {"reset", "locked", "steady"} /\ cmds \in Seq(Command)
          /\ left \in 0..MaxTimeout /\ changes \in 0..MaxChanges
      BY DEF IndInv, CallTypeOK
    <3>2. CallTypeOK'
      BY <2>1, <3>1, CallTypeAfter
    <3>3. ChannelExists'
      BY <2>1 DEF IndInv, ChannelExists
    <3>. QED BY <3>2, <3>3
  <2>3. ResetProgress'
    BY <2>1 DEF IndInv, ResetProgress, LoadTaken, LoadIsLast
  <2>4. LockSeen' /\ SteadyIsRead' /\ ReadKept' /\ SteadyLockIsKept'
    BY <2>1 DEF IndInv, LockSeen, SteadyIsRead, ReadKept, Steady, SteadyLockIsKept
  <2>5. FellBack' /\ ResetMeansReset' /\ LockReported'
    BY <2>1 DEF IndInv, FellBack, ResetMeansReset, LockReported
  <2>. QED BY <2>1, <2>2, <2>3, <2>4, <2>5 DEF IndInv
<1>2. CASE Calls
  <2>1. {"good table", "bad table"} \subseteq Command
    BY DEF Command
  <2>. QED
    BY <1>2, <2>1, FactoryResetInv, CheckRefClockInv, EnableInv, UploadInv, RefuseTableInv,
       BlockInv DEF Calls
<1>3. CASE Program
  BY <1>3, BeginWaitInv, EndsInv, LoadPresetInv, PresetLoadedInv, StatusNotBusyInv,
     ReadStatusInv, ReadUsedInv, ReadSourceInv, ChannelReadyInv, FallBackInv, ModeStepInv,
     CheckStatusInv DEF Program
<1>4. CASE Terminated
  BY <1>1, <1>4 DEF Terminated
<1>. QED BY <1>1, <1>2, <1>3, <1>4, TakeInv, DeviceChangesInv, CopyInv, TickInv DEF Next

-----------------------------------------------------------------------------
(* The making of a QCCS mode.                                              *)

LEMMA ModeInit == Init => ModeInv
<1>. HAVE Init
<1>1. /\ kind \in Kind /\ read = "none" /\ own = FALSE /\ made = 0 /\ issued = <<>>
      /\ pc = "idle" /\ op = "none" /\ buffered = <<>>
  BY DEF Init
<1>2. ModeType
  <2>1. issued \in Seq(Command) /\ made \in 0..7
    BY <1>1
  <2>. QED BY <1>1, <2>1 DEF ModeType
<1>3. QccsIsWhole
  BY <1>1 DEF QccsIsWhole, QccsMode
<1>4. ModeProgress
  BY <1>1 DEF ModeProgress, QccsMode
<1>. QED BY <1>2, <1>3, <1>4 DEF ModeInv

\* A step of the device, of the data server or of the clock.
LEMMA ModeUntouched ==
  ASSUME ModeInv, UNCHANGED <<kind, op, pc, outcome, read, modeVars, open, buffered>>
  PROVE  ModeInv'
<1>1. UNCHANGED <<kind, op, pc, outcome, read, own, made, issued, open, buffered>>
  BY DEF modeVars
<1>2. QccsIsWhole'
  BY <1>1 DEF ModeInv, ModeType, ModeProgress, QccsIsWhole
<1>. QED BY <1>1, <1>2 DEF ModeInv, ModeType, ModeProgress

\* A step of another procedure, or the call of one.
LEMMA ModeElsewhere ==
  ASSUME ModeInv, pc # "mode", pc' # "mode", op' \notin QccsMode,
         UNCHANGED <<kind, open, own, made>>, issued' \in {issued, <<>>},
         read' \in Source \cup {"none"},
         ~open => UNCHANGED buffered
  PROVE  ModeInv'
<1>1. QccsIsWhole'
  BY DEF QccsIsWhole
<1>2. ModeType'
  <2>1. /\ issued \in Seq(Command) /\ kind \in Kind /\ own \in BOOLEAN /\ made \in 0..7
        /\ UNCHANGED <<kind, own, made>>
    BY DEF ModeInv, ModeType
  <2>2. <<>> \in Seq(Command)
    OBVIOUS
  <2>3. issued' \in Seq(Command)
    BY <2>1, <2>2
  <2>. QED BY <2>1, <2>3 DEF ModeType
<1>3. ModeProgress'
  <2>1. ~own
    BY DEF ModeInv, ModeProgress
  <2>2. UNCHANGED <<open, own>>
    OBVIOUS
  <2>. QED BY <2>1, <2>2 DEF ModeInv, ModeProgress
<1>. QED BY <1>1, <1>2, <1>3 DEF ModeInv

LEMMA ModeProgram ==
  IndInv /\ ModeInv /\ pc \notin {"idle", "mode"} /\ Program => ModeInv'
<1>. SUFFICES ASSUME IndInv, ModeInv, pc \notin {"idle", "mode"}, Program PROVE ModeInv'
  OBVIOUS
<1>1. ~MakeSetting /\ ~QccsModeSet /\ ~QccsModeFails
  BY DEF MakeSetting, QccsModeSet, QccsModeFails
<1>2. UNCHANGED <<open, op, modeVars>> /\ pc' # "mode"
  BY <1>1
     DEF Program, BeginWait, WaitTimesOut, LoadPreset, PresetLoaded, VerifyPreset,
         StatusNotBusy, ReadStatus, ReadUsed, ReadSource, ChannelReady, FallBack, Uploaded,
         CheckStatus, TableRefused, Ends, Wait
<1>3. UNCHANGED kind /\ (~open => UNCHANGED buffered)
  <2>1. LoadPreset \/ FallBack \/ (UNCHANGED kind /\ UNCHANGED buffered)
    BY <1>1
       DEF Program, BeginWait, WaitTimesOut, PresetLoaded, VerifyPreset,
           StatusNotBusy, ReadStatus, ReadUsed, ReadSource, ChannelReady, Uploaded,
           CheckStatus, TableRefused, deviceVars
  <2>2. ASSUME NEW c, DeepSet(c)
        PROVE  UNCHANGED kind /\ (~open => UNCHANGED buffered)
    BY <2>2 DEF DeepSet, Becomes, deviceVars
  <2>. QED BY <2>1, <2>2 DEF LoadPreset, FallBack
<1>4. read' \in Source \cup {"none"}
  <2>1. ReadUsed \/ read' \in {read, "none"}
    BY <1>1
       DEF Program, BeginWait, WaitTimesOut, LoadPreset, PresetLoaded, VerifyPreset,
           StatusNotBusy, ReadStatus, ReadSource, ChannelReady, FallBack, Uploaded,
           CheckStatus, TableRefused
  <2>2. copy.used \in Source
    BY DEF IndInv, CallTypeOK, Copies
  <2>3. read \in Source \cup {"none"}
    BY DEF ModeInv, ModeType
  <2>. QED BY <2>1, <2>2, <2>3 DEF ReadUsed
<1>5. op' \notin QccsMode
  BY <1>2 DEF ModeInv, ModeType, ModeProgress
<1>. QED BY <1>2, <1>3, <1>4, <1>5, ModeElsewhere DEF modeVars

LEMMA ModeMakes ==
  IndInv /\ ModeInv /\ pc = "mode" /\ Program => ModeInv'
<1>. SUFFICES ASSUME IndInv, ModeInv, pc = "mode", Program PROVE ModeInv'
  OBVIOUS
<1>1. MakeSetting \/ QccsModeSet \/ QccsModeFails
  BY DEF Program, BeginWait, WaitTimesOut, LoadPreset, PresetLoaded, VerifyPreset,
         StatusNotBusy, ReadStatus, ReadUsed, ReadSource, ChannelReady, FallBack, Uploaded,
         CheckStatus, TableRefused
<1>2. /\ op \in QccsMode /\ open /\ issued = <<>> /\ outcome = "none"
      /\ UNCHANGED <<kind, op, read>>
  BY <1>1
     DEF ModeInv, ModeType, ModeProgress, QccsIsWhole, IndInv, MakeSetting, QccsModeSet, QccsModeFails, deviceVars
<1>3. CASE MakeSetting
  <2>1. /\ made # Len(QccsSettings(op)) /\ made' = made + 1
        /\ UNCHANGED <<pc, open, own, issued, outcome>>
        /\ buffered' = buffered \o <<QccsSettings(op)[made + 1]>>
    BY <1>2, <1>3 DEF MakeSetting, AllMade, Send
  <2>2. made' \in 0..Len(QccsSettings(op)) /\ made' \in 0..7
    <3>1. Len(QccsSettings(op)) \in 1..7 /\ made + 1 \in 0..Len(QccsSettings(op))
      BY <2>1, SettingFacts, SettingsType
    <3>. QED BY <2>1, <3>1
  <2>3. buffered' = Append(buffered, QccsSettings(op)[made + 1])
    <3>1. buffered \in Seq(Command)
      BY DEF IndInv, CallTypeOK
    <3>2. QccsSettings(op)[made + 1] \in Command
      BY <2>1, SettingFacts
    <3>. QED BY <2>1, <3>1, <3>2
  <2>4. own => buffered' = SubSeq(QccsSettings(op), 1, made + 1)
    BY <2>1, <2>3, SettingFacts DEF ModeInv, ModeType, ModeProgress
  <2>5. QccsIsWhole'
    BY <1>2, <2>1 DEF QccsIsWhole
  <2>. QED BY <1>2, <2>1, <2>2, <2>4, <2>5 DEF ModeInv, ModeType, ModeProgress
<1>4. CASE QccsModeSet
  <2>1. /\ made = Len(QccsSettings(op)) /\ pc' = "idle" /\ outcome' = "returned"
        /\ own' = FALSE /\ made' = 0
    BY <1>4 DEF QccsModeSet, AllMade, Ends
  <2>0. /\ kind' \in Kind /\ read' \in Source \cup {"none"}
        /\ own' \in BOOLEAN /\ made' \in 0..7
    <3>1. made' \in 0..7
      BY <2>1
    <3>2. kind' \in Kind /\ read' \in Source \cup {"none"}
      BY <1>2 DEF ModeInv, ModeType
    <3>. QED BY <2>1, <3>1, <3>2
  <2>2. CASE own
    <3>1. open' = FALSE /\ buffered' = <<>> /\ issued' = buffered
      BY <1>4, <2>2 DEF QccsModeSet
    <3>2. buffered = QccsSettings(op)
      <4>1. QccsSettings(op) \in Seq(Command)
        BY SettingsType
      <4>2. SubSeq(QccsSettings(op), 1, Len(QccsSettings(op))) = QccsSettings(op)
        BY <4>1
      <4>. QED BY <2>1, <2>2, <4>2 DEF ModeInv, ModeType, ModeProgress
    <3>3. issued' \in Seq(Command)
      BY <3>1 DEF IndInv, CallTypeOK
    <3>4. QccsIsWhole'
      BY <1>2, <2>1, <3>1, <3>2 DEF QccsIsWhole
    <3>5. ModeProgress'
      BY <1>2, <2>1, <3>1 DEF ModeProgress
    <3>. QED BY <2>0, <3>3, <3>4, <3>5 DEF ModeInv, ModeType
  <2>3. CASE ~own
    <3>1. UNCHANGED <<open, buffered, issued>>
      BY <1>4, <2>3 DEF QccsModeSet
    <3>2. QccsIsWhole'
      BY <1>2, <2>1, <3>1 DEF QccsIsWhole
    <3>3. ModeProgress'
      BY <1>2, <2>1, <3>1 DEF ModeProgress
    <3>4. issued' \in Seq(Command)
      BY <3>1 DEF ModeInv, ModeType
    <3>. QED BY <2>0, <3>2, <3>3, <3>4 DEF ModeInv, ModeType
  <2>. QED BY <2>2, <2>3
<1>5. CASE QccsModeFails
  <2>1. /\ pc' = "idle" /\ outcome' \in {"ToolkitError", "KeyError"}
        /\ own' = FALSE /\ made' = 0 /\ UNCHANGED issued
    BY <1>5 DEF QccsModeFails, QccsFails, Ends
  <2>2. ~open' => buffered' = <<>>
    BY <1>2, <1>5 DEF QccsModeFails
  <2>3. QccsIsWhole'
    BY <1>2, <2>1, <2>2 DEF QccsIsWhole
  <2>4. ModeType'
    <3>1. issued' \in Seq(Command) /\ made' \in 0..7
      BY <2>1 DEF ModeInv, ModeType
    <3>. QED BY <1>2, <2>1, <3>1 DEF ModeInv, ModeType
  <2>5. ModeProgress'
    BY <1>2, <2>1, <2>2 DEF ModeProgress
  <2>. QED BY <2>3, <2>4, <2>5 DEF ModeInv
<1>. QED BY <1>1, <1>3, <1>4, <1>5

LEMMA ModeCalls == IndInv /\ ModeInv /\ Calls => ModeInv'
<1>. SUFFICES ASSUME IndInv, ModeInv, Calls PROVE ModeInv'
  OBVIOUS
<1>1. pc = "idle" /\ ~own
  BY DEF Calls, FactoryReset, CheckRefClock, EnableQccsMode, UploadToDevice, RefuseTable,
         EnterBlock, LeaveBlock, Call, ModeInv, ModeProgress
<1>2. ASSUME NEW mode \in QccsMode, EnableQccsMode(mode)
      PROVE  ModeInv'
  <2>1. /\ op' = mode /\ pc' = "mode" /\ outcome' = "none" /\ issued' = <<>>
        /\ own' = ~open /\ open' = TRUE /\ made' = 0 /\ UNCHANGED <<kind, buffered, read>>
    BY <1>2 DEF EnableQccsMode, Call
  <2>2. Len(QccsSettings(mode)) \in 1..7 /\ SubSeq(QccsSettings(mode), 1, 0) = <<>>
    BY SettingsType
  <2>3. made' \in 0..Len(QccsSettings(op')) /\ made' \in 0..7 /\ own' \in BOOLEAN
        /\ issued' \in Seq(Command)
    <3>1. own' \in BOOLEAN
      BY <2>1
    <3>2. issued' \in Seq(Command) /\ made' \in 0..7
      BY <2>1
    <3>. QED BY <2>1, <2>2, <3>1, <3>2
  <2>4. QccsIsWhole'
    BY <2>1 DEF QccsIsWhole
  <2>5. own' => buffered' = SubSeq(QccsSettings(op'), 1, made')
    BY <2>1, <2>2 DEF ModeInv, ModeType, ModeProgress
  <2>. QED BY <2>1, <2>3, <2>4, <2>5 DEF ModeInv, ModeType, ModeProgress
<1>3. CASE EnterBlock \/ LeaveBlock
  <2>1. /\ pc' = "idle" /\ outcome' = "none" /\ issued' = <<>>
        /\ UNCHANGED <<kind, read, own, made, op>> /\ open' \in BOOLEAN
        /\ ~open' => buffered' = <<>>
    BY <1>1, <1>3, Zenon DEF EnterBlock, LeaveBlock, deviceVars
  <2>2. QccsIsWhole'
    BY <2>1 DEF QccsIsWhole
  <2>3. issued' \in Seq(Command)
    BY <2>1
  <2>. QED BY <1>1, <2>1, <2>2, <2>3 DEF ModeInv, ModeType, ModeProgress
<1>4. ASSUME NEW commands, Send(commands)
      PROVE  ~open => UNCHANGED buffered
  BY <1>4 DEF Send
<1>5. ASSUME NEW o, NEW step, NEW timeout, Call(o, step, timeout), o \notin QccsMode,
             step # "mode", UNCHANGED <<kind, read, own, made, open>>,
             ~open => UNCHANGED buffered
      PROVE  ModeInv'
  <2>1. op' \notin QccsMode /\ pc' # "mode" /\ issued' = <<>>
    BY <1>5 DEF Call
  <2>2. read' \in Source \cup {"none"}
    BY <1>5 DEF ModeInv, ModeType, ModeProgress
  <2>. QED BY <1>1, <1>5, <2>1, <2>2, ModeElsewhere
<1>6. {"reset", "check", "upload"} \cap QccsMode = {}
  BY DEF QccsMode
<1>7. ASSUME NEW deep \in BOOLEAN, NEW t \in 0..MaxTimeout, FactoryReset(deep, t)
      PROVE  ModeInv'
  <2>1. ~open => UNCHANGED buffered
    BY <1>4, <1>7 DEF FactoryReset
  <2>2. Call("reset", IF deep THEN "load" ELSE "begin", t)
        /\ UNCHANGED <<kind, read, own, made, open>>
    BY <1>7 DEF FactoryReset
  <2>3. (IF deep THEN "load" ELSE "begin") # "mode" /\ "reset" \notin QccsMode
    BY <1>6
  <2>. QED BY <1>5, <2>1, <2>2, <2>3
<1>8. ASSUME NEW t \in 0..MaxTimeout, CheckRefClock(t)
      PROVE  ModeInv'
  BY <1>5, <1>6, <1>8 DEF CheckRefClock
<1>9. ASSUME NEW table, NEW validated, NEW check, UploadToDevice(table, validated, check)
      PROVE  ModeInv'
  <2>1. ~open => UNCHANGED buffered
    BY <1>4, <1>9 DEF UploadToDevice
  <2>2. Call("upload", Looks(validated, check), 0)
        /\ UNCHANGED <<kind, read, own, made, open>>
    BY <1>9 DEF UploadToDevice
  <2>3. Looks(validated, check) # "mode" /\ "upload" \notin QccsMode
    BY <1>6 DEF Looks
  <2>. QED BY <1>5, <2>1, <2>2, <2>3
<1>10. CASE RefuseTable
  BY <1>5, <1>6, <1>10 DEF RefuseTable
<1>. QED BY <1>2, <1>3, <1>7, <1>8, <1>9, <1>10 DEF Calls

LEMMA ModeNext == IndInv /\ ModeInv /\ [Next]_vars => ModeInv'
<1>. SUFFICES ASSUME IndInv, ModeInv, [Next]_vars PROVE ModeInv'
  OBVIOUS
<1>1. CASE UNCHANGED vars \/ Terminated
  BY <1>1, ModeUntouched DEF vars, modeVars, Terminated
<1>2. CASE Take \/ DeviceChanges \/ CopyFollows \/ Tick
  BY <1>2, ModeUntouched
     DEF Take, DeviceChanges, CopyFollows, Tick, Becomes, callVars, deviceVars
<1>3. CASE Program
  <2>1. pc # "idle"
    BY <1>3
       DEF Program, BeginWait, WaitTimesOut, LoadPreset, PresetLoaded, VerifyPreset,
           StatusNotBusy, ReadStatus, ReadUsed, ReadSource, ChannelReady, FallBack,
           Uploaded, CheckStatus, TableRefused, MakeSetting, QccsModeSet, QccsModeFails
  <2>. QED BY <1>3, <2>1, ModeProgram, ModeMakes
<1>. QED BY <1>1, <1>2, <1>3, ModeCalls DEF Next

-----------------------------------------------------------------------------
\* The inductive invariant of the procedures, whatever the device does.
THEOREM IndInvHolds == Spec => [](IndInv /\ ModeInv)
BY InitInv, NextInv, ModeInit, ModeNext, PTL DEF Spec

\* What the procedures keep in their variables has its type.
THEOREM ProceduresTypeOK == Spec => []TypeOK
<1>1. IndInv /\ ModeInv => TypeOK
  BY DEF IndInv, ModeInv, ModeType, TypeOK
<1>. QED BY <1>1, IndInvHolds, PTL

\* A factory_reset that returns outside of a transaction has loaded the preset.
THEOREM ResetMeansResetHolds == Spec => []ResetMeansReset
<1>1. IndInv => ResetMeansReset
  BY DEF IndInv
<1>. QED BY <1>1, IndInvHolds, PTL

\* A check_ref_clock that returns True has seen a lock since it was called.
THEOREM LockReportedHolds == Spec => []LockReported
<1>1. IndInv => LockReported
  BY DEF IndInv
<1>. QED BY <1>1, IndInvHolds, PTL

\* A check_ref_clock that returns False leaves the device on its internal clock.
THEOREM FallbackIsInternalHolds == Spec => []FallbackIsInternal
<1>1. IndInv => FallbackIsInternal
  BY DEF IndInv, FellBack, FallbackIsInternal
<1>. QED BY <1>1, IndInvHolds, PTL

\* A lock that is steady and known is never given up.
THEOREM SteadyLockIsKeptHolds == Spec => []SteadyLockIsKept
<1>1. IndInv => SteadyLockIsKept
  BY DEF IndInv
<1>. QED BY <1>1, IndInvHolds, PTL

\* Outside of a transaction the settings of a QCCS mode leave as a whole, when
\* the call returns, and never in part, also when the call raises.
THEOREM QccsIsWholeHolds == Spec => []QccsIsWhole
<1>1. ModeInv => QccsIsWhole
  BY DEF ModeInv
<1>. QED BY <1>1, IndInvHolds, PTL

=============================================================================
