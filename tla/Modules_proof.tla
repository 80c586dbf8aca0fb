---------------------------- MODULE Modules_proof ----------------------------
(***************************************************************************)
(* Proofs about the LabOne modules of the toolkit: what ModuleWait         *)
(* promises of the safety of its calls, for any steps, devices, files and  *)
(* bounds, and what SweeperSettings promises, for any devices and          *)
(* waveforms and with no bound on the calls.                               *)
(***************************************************************************)
EXTENDS ModuleWait, SweeperSettings, TLAPS

-----------------------------------------------------------------------------
(* The calls that wait: ModuleWait.                                        *)


\* The steps of each call.
Steps(o) ==
  CASE o = "none"      -> {"idle"}
    [] o = "wait"      -> {"idle", "clock", "finished", "progress", "asleep",
                           "finished again", "progress again"}
    [] o = "impedance" -> {"idle", "clock", "calibrate", "step", "asleep",
                           "progress again", "step again"}
    [] o = "load"      -> {"idle", "load", "load clock"}

\* What the module is now has been noted.
Watched == Seen(module, op, target) \subseteq since

\* Once the loop of wait_done has ended, its time is over, or the module was
\* done, or it has begun anew; and by the last look it has been seen undone
\* unless it is still through.
LoopHasEnded ==
  op = "wait" =>
    /\ pc = "finished again" => left = 0 \/ "anew" \in since \/ Done(module)
    /\ pc = "progress again" =>
         /\ left = 0 \/ "anew" \in since \/ module.progress = Whole
         /\ module.progress # Whole => "undone" \in since

\* Unless one has timed out, a load is at work only while it is waited for.
LoadsInTurn ==
  ~overdue => jobs \subseteq IF op = "load" /\ pc # "idle" THEN {target} ELSE {}

IndInv ==
  /\ TypeOK
  /\ calls \in 0..MaxCalls
  /\ pc \in Steps(op)
  /\ pc # "idle" => outcome = "none"
  /\ Watched
  /\ LoopHasEnded
  /\ LoadsInTurn
  /\ DoneIsReported /\ StepIsReported

Claims == DoneIsReported /\ StepIsReported

-----------------------------------------------------------------------------
(* What is noted of a module.                                              *)

Facts == {"done", "undone", "anew", "step", "nostep"}

Modules == [state : {"idle", "running", "finished"}, progress : 0..Whole,
            status : SUBSET Step]

LEMMA SeenFacts == \A m, o, s : Seen(m, o, s) \subseteq Facts
BY DEF Seen, Facts

LEMMA InitInv == Init => IndInv
<1>. HAVE Init
<1>1. module \in Modules
  BY DEF Init, Modules, Whole
<1>2. since \subseteq Facts /\ Watched
  BY SeenFacts DEF Init, Watched
<1>3. 0 \in 0..MaxCalls /\ 0 \in 0..MaxTimeout
  BY ModuleAssumption
<1>4. settings \in [Device -> 0..MaxCalls]
  BY <1>3 DEF Init
<1>. QED
  BY <1>1, <1>2, <1>3, <1>4
     DEF Init, IndInv, TypeOK, Facts, Modules, Steps, LoopHasEnded, DoneIsReported,
         StepIsReported, LoadsInTurn

-----------------------------------------------------------------------------
(* The module.  Nothing it does takes back what has been noted of it.      *)

LEMMA BecomesInv ==
  ASSUME IndInv, NEW m \in Modules, NEW noted \in SUBSET Facts, Becomes(m, noted),
         \* Only a module that begins anew is undone after having been done, or
         \* is no longer through.
         "anew" \in noted \/ (Done(module) => Done(m)),
         "anew" \in noted \/ (module.progress = Whole => m.progress = Whole),
         "anew" \in noted => ~Done(m)
  PROVE  IndInv'
<1>1. /\ module' = m /\ since' = since \cup Seen(m, op, target) \cup noted
      /\ UNCHANGED <<jobs, settings, overdue, op, pc, target, left, outcome, calls>>
  BY DEF Becomes, callVars, loadVars
<1>2. TypeOK'
  BY <1>1, SeenFacts DEF IndInv, TypeOK, Modules, Facts
<1>3. Watched'
  BY <1>1 DEF Watched, Seen, Done, StepFinished
<1>4. LoopHasEnded'
  <2>1. CASE "anew" \in noted
    <3>1. "anew" \in since' /\ "undone" \in since'
      BY <1>1, <2>1 DEF Seen
    <3>. QED BY <1>1, <3>1 DEF LoopHasEnded
  <2>2. CASE "anew" \notin noted
    <3>1. /\ Done(module) => Done(module)'
          /\ module.progress = Whole => module'.progress = Whole
      BY <1>1, <2>2 DEF Done
    <3>. QED BY <1>1, <3>1 DEF IndInv, LoopHasEnded
  <2>. QED BY <2>1, <2>2
<1>5. DoneIsReported' /\ StepIsReported' /\ LoadsInTurn'
  BY <1>1 DEF IndInv, DoneIsReported, StepIsReported, LoadsInTurn
<1>. QED BY <1>1, <1>2, <1>3, <1>4, <1>5 DEF IndInv

LEMMA ModuleInv == IndInv /\ Module => IndInv'
<1>. SUFFICES ASSUME IndInv, Module PROVE IndInv'
  OBVIOUS
<1>0. module \in Modules
  BY DEF IndInv, TypeOK, Modules
<1>1. CASE Start
  <2>1. PICK undo \in SUBSET module.status :
          Becomes([state |-> "running", progress |-> 0,
                   status |-> module.status \ undo], {"anew"})
    BY <1>1 DEF Start
  <2> DEFINE m == [state |-> "running", progress |-> 0,
                   status |-> module.status \ undo]
  <2>2. m \in Modules /\ ~Done(m)
    BY <1>0 DEF Modules, Done, Whole
  <2>3. Becomes(m, {"anew"})
    BY <2>1
  <2>. HIDE DEF m
  <2>. QED BY <2>2, <2>3, BecomesInv DEF Facts
<1>2. CASE Stop \/ Complete
  <2> DEFINE m == [module EXCEPT !.state = "finished"]
  <2>1. Becomes(m, {})
    BY <1>2 DEF Stop, Complete
  <2>2. m \in Modules /\ m.state = "finished" /\ m.progress = module.progress
    BY <1>0 DEF Modules
  <2>3. Done(m)
    BY <2>2 DEF Done
  <2>. HIDE DEF m
  <2>. QED BY <2>1, <2>2, <2>3, BecomesInv
<1>3. CASE NextRound
  <2> DEFINE m == [module EXCEPT !.progress = 0]
  <2>1. Becomes(m, {"anew"}) /\ module.state = "running"
    BY <1>3 DEF NextRound
  <2>2. m \in Modules /\ ~Done(m)
    BY <1>0, <2>1 DEF Modules, Done, Whole
  <2>. HIDE DEF m
  <2>. QED BY <2>1, <2>2, BecomesInv DEF Facts
<1>4. CASE Advance
  <2> DEFINE m == [module EXCEPT !.progress = @ + 1]
  <2>1. Becomes(m, {}) /\ module.progress < Whole
    BY <1>4 DEF Advance
  <2>2. m \in Modules /\ m.state = module.state
    BY <1>0, <2>1 DEF Modules, Whole
  <2>3. /\ Done(module) => Done(m)
        /\ module.progress # Whole
    BY <1>0, <2>1, <2>2 DEF Modules, Done, Whole
  <2>. HIDE DEF m
  <2>. QED BY <2>1, <2>2, <2>3, BecomesInv
<1>5. CASE StepCompleted
  <2>1. PICK s \in Step : Becomes([module EXCEPT !.status = @ \cup {s}], {})
    BY <1>5 DEF StepCompleted
  <2> DEFINE m == [module EXCEPT !.status = @ \cup {s}]
  <2>2. /\ m \in Modules /\ m.state = module.state
        /\ m.progress = module.progress
    BY <1>0 DEF Modules
  <2>3. Done(module) => Done(m)
    BY <2>2 DEF Done
  <2>4. Becomes(m, {})
    BY <2>1
  <2>. HIDE DEF m
  <2>. QED BY <2>2, <2>3, <2>4, BecomesInv
<1>6. ASSUME NEW j \in jobs, Load(j) \/ LoadFinishes(j)
      PROVE  IndInv'
  <2>1. j.call \in 0..MaxCalls
    <3>1. j.call \in 1..MaxCalls
      BY DEF IndInv, TypeOK, Job
    <3>. QED BY <3>1, ModuleAssumption
  <2>2. /\ UNCHANGED <<module, op, pc, target, left, outcome, calls, since, overdue>>
        /\ jobs' \subseteq jobs
        /\ settings' = settings \/ settings' = [settings EXCEPT ![j.device] = j.call]
    BY <1>6 DEF Load, LoadFinishes, callVars
  <2>3. TypeOK'
    BY <2>1, <2>2 DEF IndInv, TypeOK
  <2>4. Watched'
    BY <2>2 DEF IndInv, Watched, Seen, Done, StepFinished
  <2>5. LoopHasEnded' /\ DoneIsReported' /\ StepIsReported' /\ LoadsInTurn'
    BY <2>2 DEF IndInv, LoopHasEnded, DoneIsReported, StepIsReported,
                LoadsInTurn, Done
  <2>. QED BY <2>2, <2>3, <2>4, <2>5 DEF IndInv
<1>. QED BY <1>1, <1>2, <1>3, <1>4, <1>5, <1>6 DEF Module

LEMMA TickInv == IndInv /\ Tick => IndInv'
<1>. SUFFICES ASSUME IndInv, Tick PROVE IndInv'
  OBVIOUS
<1>1. UNCHANGED <<module, jobs, settings, overdue, op, pc, target, outcome, since, calls>>
  BY DEF Tick, loadVars
<1>2. left' \in 0..MaxTimeout /\ left # 0
  <2>1. left \in 0..MaxTimeout /\ left > 0 /\ left' = left - 1
    BY DEF Tick, IndInv, TypeOK
  <2>. QED BY <2>1, ModuleAssumption
<1>3. TypeOK'
  BY <1>1, <1>2 DEF IndInv, TypeOK
<1>4. Watched'
  BY <1>1 DEF IndInv, Watched, Seen, Done, StepFinished
<1>5. LoopHasEnded' /\ DoneIsReported' /\ StepIsReported' /\ LoadsInTurn'
  BY <1>1, <1>2 DEF IndInv, LoopHasEnded, DoneIsReported, StepIsReported,
                    LoadsInTurn, Done
<1>. QED BY <1>1, <1>3, <1>4, <1>5 DEF IndInv

-----------------------------------------------------------------------------
(* The calls.                                                              *)

LEMMA CallInv ==
  ASSUME IndInv, NEW o \in {"wait", "impedance", "load"},
         NEW step \in {"clock", "load"}, step \in Steps(o),
         NEW what, NEW timeout \in 0..MaxTimeout, Call(o, step, what, timeout),
         jobs' \subseteq Job,
         jobs' = jobs \/ (o = "load" /\ jobs' = jobs \cup {what})
  PROVE  IndInv'
<1>1. /\ UNCHANGED <<module, settings, overdue>>
      /\ op' = o /\ pc' = step /\ target' = what /\ left' = timeout
      /\ outcome' = "none" /\ calls' = calls + 1 /\ calls < MaxCalls
      /\ since' = Seen(module, o, what) /\ pc = "idle"
  BY DEF Call
<1>2. TypeOK'
  BY <1>1, SeenFacts DEF IndInv, TypeOK, Facts
<1>3. Watched'
  BY <1>1 DEF Watched, Seen, Done, StepFinished
<1>4. calls' \in 0..MaxCalls
  BY <1>1, ModuleAssumption DEF IndInv
<1>5. pc' \in Steps(op')
  BY <1>1
<1>6. LoopHasEnded' /\ DoneIsReported' /\ StepIsReported' /\ LoadsInTurn'
  BY <1>1 DEF IndInv, LoopHasEnded, DoneIsReported, StepIsReported, LoadsInTurn
<1>7. Steps(op)' = Steps(op')
  BY DEF Steps
<1>. QED BY <1>1, <1>2, <1>3, <1>4, <1>5, <1>6, <1>7 DEF IndInv

LEMMA CallsInv == IndInv /\ Calls => IndInv'
<1>. SUFFICES ASSUME IndInv, NEW timeout \in 0..MaxTimeout,
                     \/ Call("wait", "clock", "all", timeout) /\ UNCHANGED jobs
                     \/ \E s \in Step \cup {"all"} :
                          Call("impedance", "clock", s, timeout) /\ UNCHANGED jobs
                     \/ \E d \in Device : Execute(d, timeout)
              PROVE  IndInv'
  BY DEF Calls
<1>0. jobs \subseteq Job
  BY DEF IndInv, TypeOK
<1>1. CASE Call("wait", "clock", "all", timeout) /\ UNCHANGED jobs
  BY <1>0, <1>1, CallInv DEF Steps
<1>2. ASSUME NEW s \in Step \cup {"all"},
             Call("impedance", "clock", s, timeout) /\ UNCHANGED jobs
      PROVE  IndInv'
  BY <1>0, <1>2, CallInv DEF Steps
<1>3. ASSUME NEW d \in Device, Execute(d, timeout)
      PROVE  IndInv'
  <2> DEFINE job == [device |-> d, call |-> calls + 1]
  <2>1. Call("load", "load", job, timeout) /\ jobs' = jobs \cup {job}
    BY <1>3 DEF Execute
  <2>2. calls + 1 \in 1..MaxCalls
    BY <2>1, ModuleAssumption DEF Call, IndInv
  <2>3. jobs' \subseteq Job
    BY <1>0, <2>1, <2>2 DEF Job
  <2>. QED BY <2>1, <2>3, CallInv DEF Steps
<1>. QED BY <1>1, <1>2, <1>3

-----------------------------------------------------------------------------
(* The loops.  A look leads on, or ends the call with what it has found.   *)

LEMMA GotoInv ==
  ASSUME IndInv, NEW o, NEW from, NEW to, Goto(o, from, to),
         to \in Steps(o) \ {"idle"}, from # "idle", LoopHasEnded'
  PROVE  IndInv'
BY DEF Goto, loadVars, IndInv, TypeOK, Watched, DoneIsReported, StepIsReported,
       LoadsInTurn, Done, StepFinished, Steps

LEMMA EndsInv ==
  ASSUME IndInv, NEW o, NEW from,
         NEW how \in {"returned", "TimeoutError", "RuntimeError"},
         Ends(o, from, how), Claims',
         o = "load" => how = "TimeoutError" \/ target \notin jobs
  PROVE  IndInv'
BY DEF Ends, Claims, IndInv, TypeOK, Watched, LoopHasEnded, LoadsInTurn, Done,
       StepFinished, Steps

LEMMA WaitInv == IndInv /\ (WaitLooks \/ WaitLooksAgain) => IndInv'
<1>. SUFFICES ASSUME IndInv, WaitLooks \/ WaitLooksAgain PROVE IndInv'
  OBVIOUS
<1> DEFINE to1 == IF left = 0 THEN "finished again" ELSE "finished"
           to2 == IF Finished THEN "finished again" ELSE "progress"
           to3 == IF module.progress = Whole THEN "finished again" ELSE "asleep"
           how == IF module.progress = Whole THEN "returned" ELSE "TimeoutError"
<1>1. CASE Goto("wait", "clock", to1)
  <2>1. LoopHasEnded'
    BY <1>1 DEF Goto, LoopHasEnded
  <2>. QED BY <1>1, <2>1, GotoInv DEF Steps
<1>2. CASE Goto("wait", "finished", to2)
  <2>1. LoopHasEnded'
    BY <1>2 DEF Goto, LoopHasEnded, Done, Finished
  <2>. QED BY <1>2, <2>1, GotoInv DEF Steps
<1>3. CASE Goto("wait", "progress", to3)
  <2>1. LoopHasEnded'
    BY <1>3 DEF Goto, LoopHasEnded, Done
  <2>. QED BY <1>3, <2>1, GotoInv DEF Steps
<1>4. CASE Finished /\ Ends("wait", "finished again", "returned")
  <2>1. Claims'
    BY <1>4 DEF Ends, Claims, DoneIsReported, StepIsReported,
                IndInv, Watched, Seen, Done, Finished
  <2>. QED BY <1>4, <2>1, EndsInv
<1>5. CASE ~Finished /\ Goto("wait", "finished again", "progress again")
  <2>1. LoopHasEnded'
    BY <1>5 DEF Goto, LoopHasEnded, IndInv, Watched, Seen, Done, Finished
  <2>. QED BY <1>5, <2>1, GotoInv DEF Steps
<1>6. CASE Ends("wait", "progress again", how)
  <2>1. Claims'
    BY <1>6 DEF Ends, Claims, DoneIsReported, StepIsReported,
                IndInv, Watched, Seen, LoopHasEnded, Done
  <2>. QED BY <1>6, <2>1, EndsInv
<1>. QED BY <1>1, <1>2, <1>3, <1>4, <1>5, <1>6 DEF WaitLooks, WaitLooksAgain

LEMMA ImpedanceInv == IndInv /\ (ImpedanceLooks \/ ImpedanceLooksAgain) => IndInv'
<1>. SUFFICES ASSUME IndInv, ImpedanceLooks \/ ImpedanceLooksAgain PROVE IndInv'
  OBVIOUS
<1>0. ASSUME NEW from, NEW to, Goto("impedance", from, to),
             to \in Steps("impedance") \ {"idle"}, from # "idle"
      PROVE  IndInv'
  <2>1. LoopHasEnded'
    BY <1>0 DEF Goto, LoopHasEnded
  <2>. QED BY <1>0, <2>1, GotoInv
<1> DEFINE to1 == IF left = 0 THEN "progress again" ELSE "calibrate"
           to2 == IF module.state = "running" THEN "step" ELSE "progress again"
           to3 == IF StepFinished(module, target) THEN "progress again" ELSE "asleep"
           how == IF StepFinished(module, target) THEN "returned" ELSE "RuntimeError"
<1>1. CASE Goto("impedance", "clock", to1)
  BY <1>0, <1>1 DEF Steps
<1>2. CASE Goto("impedance", "calibrate", to2)
  BY <1>0, <1>2 DEF Steps
<1>3. CASE Goto("impedance", "step", to3)
  BY <1>0, <1>3 DEF Steps
<1>4. CASE Ends("impedance", "progress again", "TimeoutError")
  <2>1. Claims'
    BY <1>4 DEF Ends, Claims, DoneIsReported, StepIsReported
  <2>. QED BY <1>4, <2>1, EndsInv
<1>5. CASE Goto("impedance", "progress again", "step again")
  BY <1>0, <1>5 DEF Steps
<1>6. CASE Ends("impedance", "step again", how)
  <2>1. Claims'
    BY <1>6 DEF Ends, Claims, DoneIsReported, StepIsReported,
                IndInv, Watched, Seen
  <2>. QED BY <1>6, <2>1, EndsInv
<1>. QED BY <1>1, <1>2, <1>3, <1>4, <1>5, <1>6
         DEF ImpedanceLooks, ImpedanceLooksAgain

LEMMA OtherStepsInv == IndInv /\ (Wake \/ LoadLooks) => IndInv'
<1>. SUFFICES ASSUME IndInv, Wake \/ LoadLooks PROVE IndInv'
  OBVIOUS
<1>1. CASE Wake
  <2>1. LoopHasEnded' /\ "clock" \in Steps(op) \ {"idle"}
    BY <1>1 DEF Wake, Goto, LoopHasEnded, IndInv, TypeOK, Steps
  <2>. QED BY <1>1, <2>1, GotoInv DEF Wake
<1>2. CASE target \notin jobs /\ Ends("load", "load", "returned")
  <2>1. Claims'
    BY <1>2 DEF Ends, Claims, DoneIsReported, StepIsReported
  <2>. QED BY <1>2, <2>1, EndsInv
<1>3. CASE Goto("load", "load", "load clock") \/ Goto("load", "load clock", "load")
  <2>1. LoopHasEnded'
    BY <1>3 DEF Goto, LoopHasEnded
  <2>. QED BY <1>3, <2>1, GotoInv DEF Steps
<1>4. CASE Ends("load", "load clock", "TimeoutError")
  <2>1. Claims'
    BY <1>4 DEF Ends, Claims, DoneIsReported, StepIsReported
  <2>. QED BY <1>4, <2>1, EndsInv
<1>. QED BY <1>1, <1>2, <1>3, <1>4 DEF LoadLooks

LEMMA NextInv == IndInv /\ [Next]_vars => IndInv'
<1>. SUFFICES ASSUME IndInv, [Next]_vars PROVE IndInv'
  OBVIOUS
<1>1. CASE Terminated \/ UNCHANGED vars
  <2>1. UNCHANGED vars
    BY <1>1 DEF Terminated
  <2>2. /\ UNCHANGED <<module, jobs, settings, overdue, starts>>
        /\ UNCHANGED <<op, pc, target, left, outcome, calls, since>>
    BY <2>1 DEF vars, callVars, loadVars
  <2>3. TypeOK' /\ (calls \in 0..MaxCalls)' /\ (pc \in Steps(op))'
    BY <2>2 DEF IndInv, TypeOK, Steps
  <2>4. Watched' /\ LoopHasEnded' /\ LoadsInTurn'
    BY <2>2 DEF IndInv, Watched, LoopHasEnded, LoadsInTurn, Done, StepFinished
  <2>5. DoneIsReported' /\ StepIsReported' /\ (pc # "idle" => outcome = "none")'
    BY <2>2 DEF IndInv, DoneIsReported, StepIsReported
  <2>. QED BY <2>3, <2>4, <2>5 DEF IndInv
<1>. QED
  BY <1>1, CallsInv, WaitInv, ImpedanceInv, OtherStepsInv, ModuleInv, TickInv
     DEF Next, Program

-----------------------------------------------------------------------------
\* IndInv is an invariant of the waits, under any behaviour of the modules.
THEOREM IndInvHolds == Spec => []IndInv
BY InitInv, NextInv, PTL DEF Spec

\* BaseModule.wait_done returns only if the module was done, and times out before
\* its time only if the module began anew between the two looks at it.
THEOREM DoneIsReportedHolds == Spec => []DoneIsReported
<1>1. IndInv => DoneIsReported
  BY DEF IndInv
<1>. QED BY <1>1, IndInvHolds, PTL

\* ImpedanceModule.wait_done returns only if the step was completed.
THEOREM StepIsReportedHolds == Spec => []StepIsReported
<1>1. IndInv => StepIsReported
  BY DEF IndInv
<1>. QED BY <1>1, IndInvHolds, PTL

LEMMA SettingsStep ==
  IndInv /\ [Next]_vars =>
    [~overdue =>
       /\ op = "load" /\ pc # "idle"
       /\ settings' = [settings EXCEPT ![target.device] = target.call]]_settings
<1>. SUFFICES ASSUME IndInv, Next, settings' # settings, ~overdue
              PROVE  /\ op = "load" /\ pc # "idle"
                     /\ settings' = [settings EXCEPT ![target.device] = target.call]
  BY DEF vars, loadVars
<1>1. PICK j \in jobs : Load(j)
  BY DEF Next, Calls, Call, Execute, Program, WaitLooks, WaitLooksAgain, ImpedanceLooks,
         ImpedanceLooksAgain, Wake, LoadLooks, Goto, Ends, Module, Start, Stop,
         NextRound, Advance, StepCompleted, Complete, LoadFinishes, Becomes, Tick,
         Terminated, vars, loadVars
<1>2. op = "load" /\ pc # "idle" /\ j = target
  BY DEF IndInv, LoadsInTurn
<1>. QED BY <1>1, <1>2 DEF Load

\* A load of device settings is synchronous unless one has timed out: the settings
\* of a device change only in the call that loads them.
THEOREM LoadsAreSynchronousHolds == Spec => LoadsAreSynchronous
BY IndInvHolds, SettingsStep, PTL DEF Spec, LoadsAreSynchronous

-----------------------------------------------------------------------------
(* The sweeper: SweeperSettings.  The values of the dictionary are a       *)
(* record, and are set by node.                                            *)

\* The values a node can have are those of its field.
LEMMA FieldTypes ==
  /\ ValuesOf("device") = Serial \cup {""}
  /\ ValuesOf("mode") = {"sequencer-based", "host-driven"}
  /\ ValuesOf("waveform") = Waveform
  /\ ValuesOf("enable") = BOOLEAN
<1>1. PICK w \in Waveform : TRUE
  BY SweeperAssumption
<1>2. ASSUME NEW d \in Serial \cup {""}
      PROVE  \E v \in Values : v.device = d
  <2>1. [device |-> d, mode |-> "host-driven", waveform |-> w, enable |-> TRUE] \in Values
    BY <1>1 DEF Values
  <2>. QED BY <2>1
<1>3. ASSUME NEW m \in {"sequencer-based", "host-driven"}
      PROVE  \E v \in Values : v.mode = m
  <2>1. [device |-> "", mode |-> m, waveform |-> w, enable |-> TRUE] \in Values
    BY <1>1 DEF Values
  <2>. QED BY <2>1
<1>4. ASSUME NEW x \in Waveform
      PROVE  \E v \in Values : v.waveform = x
  <2>1. [device |-> "", mode |-> "host-driven", waveform |-> x, enable |-> TRUE] \in Values
    BY DEF Values
  <2>. QED BY <2>1
<1>5. ASSUME NEW b \in BOOLEAN
      PROVE  \E v \in Values : v.enable = b
  <2>1. [device |-> "", mode |-> "host-driven", waveform |-> w, enable |-> b] \in Values
    BY <1>1 DEF Values
  <2>. QED BY <2>1
<1>6. ASSUME NEW v \in Values
      PROVE  /\ v["device"] \in Serial \cup {""}
             /\ v["mode"] \in {"sequencer-based", "host-driven"}
             /\ v["waveform"] \in Waveform /\ v["enable"] \in BOOLEAN
             /\ v["device"] = v.device /\ v["mode"] = v.mode
             /\ v["waveform"] = v.waveform /\ v["enable"] = v.enable
  BY DEF Values
<1>7. ValuesOf("device") = Serial \cup {""}
  BY <1>2, <1>6 DEF ValuesOf
<1>8. ValuesOf("mode") = {"sequencer-based", "host-driven"}
  BY <1>3, <1>6 DEF ValuesOf
<1>9. ValuesOf("waveform") = Waveform
  BY <1>4, <1>6 DEF ValuesOf
<1>10. ValuesOf("enable") = BOOLEAN
  BY <1>5, <1>6 DEF ValuesOf
<1>. QED BY <1>7, <1>8, <1>9, <1>10

\* A transaction that sets some of them keeps the dictionary well typed.
LEMMA MergeKeepsValues ==
  ASSUME NEW vs, NEW new, \A n \in NodeOf : vs[n] \in ValuesOf(n),
         \A n \in DOMAIN new : new[n] \in ValuesOf(n)
  PROVE  [n \in NodeOf |-> IF n \in DOMAIN new THEN new[n] ELSE vs[n]] \in Values
<1> DEFINE f == [n \in NodeOf |-> IF n \in DOMAIN new THEN new[n] ELSE vs[n]]
<1>1. \A n \in NodeOf : f[n] \in ValuesOf(n)
  OBVIOUS
<1>2. /\ f["device"] \in Serial \cup {""}
      /\ f["mode"] \in {"sequencer-based", "host-driven"}
      /\ f["waveform"] \in Waveform
      /\ f["enable"] \in BOOLEAN
  BY <1>1, FieldTypes DEF NodeOf
<1>3. f = [device |-> f["device"], mode |-> f["mode"],
           waveform |-> f["waveform"], enable |-> f["enable"]]
  BY DEF NodeOf
<1>. QED BY <1>2, <1>3 DEF Values

-----------------------------------------------------------------------------
(* The invariant.  A device set in a transaction is the device of the      *)
(* sweeper at once, and of the node when the transaction is in effect.     *)

Result == [device : Serial \cup {""}, config : Config]

SweeperIndInv ==
  /\ SettingsTypeOK
  /\ raw \in [device : Serial \cup {""}, config : Config, result : Result]
  /\ \A n \in NodeOf : values[n] \in ValuesOf(n)
  /\ "device" \in DOMAIN pending => pending["device"] = raw.device
  /\ ~astray => raw.device = values.device
  /\ raw.result = NoResult \/ raw.result.device = raw.device
  /\ SweepsOnShownDevice

LEMMA ValuesByNode ==
  ASSUME NEW vs \in Values, NEW n \in NodeOf
  PROVE  vs[n] \in ValuesOf(n)
BY DEF ValuesOf

LEMMA SweeperInitInv == SweeperInit => SweeperIndInv
<1>. HAVE SweeperInit
<1>1. \A n \in NodeOf : values[n] \in ValuesOf(n)
  BY ValuesByNode DEF SweeperInit
<1>. QED
  BY <1>1 DEF SweeperInit, SweeperIndInv, SettingsTypeOK, Fresh, Default, Config, NoUse, NoResult,
              Result, SweepsOnShownDevice

LEMMA SetNodeInv ==
  ASSUME SweeperIndInv, NEW node \in NodeOf, NEW v \in ValuesOf(node), SetNode(node, v)
  PROVE  SweeperIndInv'
<1>. USE DEF SweeperIndInv, SettingsTypeOK
<1>1. SweepsOnShownDevice'
  BY DEF SetNode, NoUse, SweepsOnShownDevice
<1>2. /\ raw' \in [device : Serial \cup {""}, config : Config, result : Result]
      /\ raw'.result = NoResult \/ raw'.result.device = raw'.device
      /\ node = "device" => raw'.device = v
      /\ node # "device" => raw' = raw
  BY FieldTypes DEF SetNode, Fresh, Default, Config, NoResult, Result
<1>3. CASE open
  <2>1. /\ values' = values /\ open' = open
        /\ DOMAIN pending' = DOMAIN pending \cup {node}
        /\ pending'[node] = v
        /\ \A n \in DOMAIN pending : n # node => pending'[n] = pending[n]
    BY <1>3 DEF SetNode
  <2>2. /\ DOMAIN pending' \subseteq NodeOf
        /\ \A n \in DOMAIN pending' : pending'[n] \in ValuesOf(n)
    BY <2>1
  <2>3. "device" \in DOMAIN pending' => pending'["device"] = raw'.device
    BY <1>2, <2>1
  <2>4. ~astray' => raw'.device = values'.device
    BY <1>2, <1>3, <2>1 DEF SetNode
  <2>5. astray' \in BOOLEAN
    BY DEF SetNode
  <2>. QED BY <1>1, <1>2, <1>3, <2>1, <2>2, <2>3, <2>4, <2>5
<1>4. CASE ~open
  <2>1. /\ values' = [values EXCEPT ![node] = v]
        /\ open' = open /\ pending' = pending
    BY <1>4 DEF SetNode
  <2>2. /\ values' \in Values
        /\ node # "device" => values'.device = values.device
        /\ node = "device" => values'.device = v
    <3>1. CASE node = "device"
      BY <2>1, <3>1, FieldTypes DEF Values
    <3>2. CASE node = "mode"
      BY <2>1, <3>2, FieldTypes DEF Values
    <3>3. CASE node = "waveform"
      BY <2>1, <3>3, FieldTypes DEF Values
    <3>4. CASE node = "enable"
      BY <2>1, <3>4, FieldTypes DEF Values
    <3>. QED BY <3>1, <3>2, <3>3, <3>4 DEF NodeOf
  <2>6. \A n \in NodeOf : values'[n] \in ValuesOf(n)
    BY <2>2, ValuesByNode
  <2>3. ~astray' => raw'.device = values'.device
    <3>1. CASE node = "device"
      BY <1>2, <2>2, <3>1
    <3>2. CASE node # "device"
      <4>1. astray' = astray /\ raw' = raw
        BY <1>2, <3>2 DEF SetNode
      <4>2. values'.device = values.device
        BY <2>2, <3>2
      <4>. QED BY <4>1, <4>2
    <3>. QED BY <3>1, <3>2
  <2>4. pending' = [n \in {} |-> ""] /\ "device" \notin DOMAIN pending'
    BY <1>4, <2>1
  <2>5. astray' \in BOOLEAN
    BY DEF SetNode
  <2>. QED BY <1>1, <1>2, <1>4, <2>1, <2>2, <2>3, <2>4, <2>5, <2>6
<1>. QED BY <1>3, <1>4

LEMMA LeaveBlockInv == SweeperIndInv /\ LeaveBlock => SweeperIndInv'
<1>. SUFFICES ASSUME SweeperIndInv, LeaveBlock PROVE SweeperIndInv'
  OBVIOUS
<1>. USE DEF SweeperIndInv, SettingsTypeOK
<1>1. SweepsOnShownDevice'
  BY DEF LeaveBlock, NoUse, SweepsOnShownDevice
<1>2. values' \in Values
  BY MergeKeepsValues DEF LeaveBlock
<1>3. \A n \in NodeOf : values'[n] \in ValuesOf(n)
  BY <1>2, ValuesByNode
<1>4. values'.device = IF "device" \in DOMAIN pending THEN pending["device"]
                                                     ELSE values.device
  BY DEF LeaveBlock, NodeOf, Values
<1>5. ~astray' => raw'.device = values'.device
  BY <1>4 DEF LeaveBlock
<1>6. pending' = [n \in {} |-> ""] /\ DOMAIN pending' = {}
  BY DEF LeaveBlock
<1>. QED BY <1>1, <1>2, <1>3, <1>5, <1>6 DEF LeaveBlock

LEMMA BlockInv == SweeperIndInv /\ (EnterBlock \/ AbortBlock) => SweeperIndInv'
<1>. SUFFICES ASSUME SweeperIndInv, EnterBlock \/ AbortBlock PROVE SweeperIndInv'
  OBVIOUS
<1>1. SweepsOnShownDevice'
  BY DEF EnterBlock, AbortBlock, NoUse, SweepsOnShownDevice
<1>2. CASE EnterBlock
  BY <1>1, <1>2 DEF EnterBlock, SweeperIndInv, SettingsTypeOK
<1>3. CASE AbortBlock
  <2>1. pending' = [n \in {} |-> ""] /\ DOMAIN pending' = {} /\ open' = FALSE
    BY <1>3 DEF AbortBlock
  <2>2. UNCHANGED <<values, raw, astray>>
    BY <1>3 DEF AbortBlock
  <2>. QED BY <1>1, <2>1, <2>2 DEF SweeperIndInv, SettingsTypeOK
<1>. QED BY <1>2, <1>3

\* A use hands the settings over, and changes nothing else but the result.
LEMMA ConfiguredType ==
  ASSUME SweeperIndInv
  PROVE  Configured(raw.config) \in Config
BY DEF SweeperIndInv, SettingsTypeOK, Configured, Config, Values

LEMMA UseInv ==
  ASSUME SweeperIndInv,
         \/ Run \/ GetResult \/ GetOffsetFreqVector \/ GetActual
         \/ \E use \in {"run", "result", "vector"} : Refuse(use)
  PROVE  SweeperIndInv'
<1>. USE DEF SweeperIndInv, SettingsTypeOK
<1> DEFINE kept == UNCHANGED <<values, open, pending, astray>>
<1>1. CASE Run
  <2>1. /\ kept /\ raw' = [raw EXCEPT !.config = Configured(raw.config),
                 !.result = [device |-> raw.device, config |-> Configured(raw.config)]]
    BY <1>1 DEF Run
  <2>2. last' = [op |-> "run", how |-> "returned", result |-> raw'.result]
    BY <1>1, <2>1 DEF Run, Uses
  <2>3. SweepsOnShownDevice'
    BY <2>1, <2>2 DEF SweepsOnShownDevice, Configured
  <2>. QED BY <2>1, <2>3, ConfiguredType DEF Result
<1>2. CASE GetResult
  <2>1. /\ kept /\ raw' = [raw EXCEPT !.config = Configured(raw.config)]
    BY <1>2 DEF GetResult
  <2>2. /\ last'.op = "result" /\ last'.result = raw.result
        /\ last'.how = "returned" => raw.result # NoResult
    BY <1>2 DEF GetResult, Uses
  <2>3. SweepsOnShownDevice'
    BY <2>1, <2>2 DEF SweepsOnShownDevice
  <2>. QED BY <2>1, <2>3, ConfiguredType DEF Result
<1>3. CASE GetOffsetFreqVector
  <2>1. /\ kept /\ raw' = [raw EXCEPT !.config = Configured(raw.config)]
    BY <1>3 DEF GetOffsetFreqVector
  <2>2. last' = [op |-> "vector", how |-> "returned",
                 result |-> [device |-> raw.device, config |-> raw'.config]]
    BY <1>3 DEF GetOffsetFreqVector, Uses
  <2>3. SweepsOnShownDevice'
    BY <2>1, <2>2 DEF SweepsOnShownDevice, Configured
  <2>. QED BY <2>1, <2>3, ConfiguredType DEF Result
<1>4. CASE GetActual
  BY <1>4 DEF GetActual, Uses, SweepsOnShownDevice
<1>5. ASSUME NEW use \in {"run", "result", "vector"}, Refuse(use)
      PROVE  SweeperIndInv'
  <2>1. kept /\ UNCHANGED raw /\ last'.how = "ToolkitError"
    BY <1>5 DEF Refuse, Uses
  <2>2. SweepsOnShownDevice'
    BY <2>1 DEF SweepsOnShownDevice
  <2>. QED BY <2>1, <2>2
<1>. QED BY <1>1, <1>2, <1>3, <1>4, <1>5

LEMMA SweeperNextInv == SweeperIndInv /\ [SweeperNext]_sweeperVars => SweeperIndInv'
<1>. SUFFICES ASSUME SweeperIndInv, [SweeperNext]_sweeperVars PROVE SweeperIndInv'
  OBVIOUS
<1>1. ASSUME NEW node \in NodeOf, NEW v \in ValuesOf(node), SetNode(node, v)
      PROVE  SweeperIndInv'
  BY <1>1, SetNodeInv
<1>2. CASE EnterBlock \/ LeaveBlock \/ AbortBlock
  BY <1>2, BlockInv, LeaveBlockInv
<1>3. CASE \/ Run \/ GetResult \/ GetOffsetFreqVector \/ GetActual
           \/ \E use \in {"run", "result", "vector"} : Refuse(use)
  BY <1>3, UseInv
<1>4. CASE UNCHANGED sweeperVars
  BY <1>4 DEF sweeperVars, SweeperIndInv, SettingsTypeOK, SweepsOnShownDevice
<1>. QED BY <1>1, <1>2, <1>3, <1>4 DEF SweeperNext

-----------------------------------------------------------------------------
(* The envelopes.  What the nodes show as enabled has been noted, and what *)
(* the sweeper and its result have was.                                    *)

EnvelopeInv ==
  /\ shown \subseteq Waveform
  /\ Enabled(values) \subseteq shown
  /\ raw.config.envelope \in shown \cup {"none"}
  /\ raw.result.config.envelope \in shown \cup {"none"}
  /\ EnvelopeWasShown

LEMMA EnvelopeInit == SweeperInit => EnvelopeInv
<1>. HAVE SweeperInit
<1>1. Enabled(values) = {} /\ shown = {}
  BY DEF SweeperInit, Enabled
<1>2. Default.envelope = "none" /\ NoResult.config = Default
  BY DEF Default, NoResult
<1>3. raw.config = Default /\ raw.result = NoResult /\ last.result = NoResult
  BY DEF SweeperInit, Fresh, NoUse
<1>. QED
  BY <1>1, <1>2, <1>3 DEF EnvelopeInv, EnvelopeWasShown

\* What is handed over to the sweeper is shown, or was when it was handed over.
LEMMA ConfiguredShown ==
  ASSUME EnvelopeInv
  PROVE  Configured(raw.config).envelope \in shown \cup {"none"}
BY DEF EnvelopeInv, Configured, Enabled

LEMMA EnvelopeNext ==
  ASSUME SweeperIndInv, SweeperIndInv', EnvelopeInv, [SweeperNext]_sweeperVars
  PROVE  EnvelopeInv'
<1>. USE DEF EnvelopeInv, EnvelopeWasShown
<1>0. Enabled(values') \subseteq Waveform
  BY DEF SweeperIndInv, SettingsTypeOK, Values, Enabled
<1>1. ASSUME NEW node \in NodeOf, NEW v \in ValuesOf(node), SetNode(node, v)
      PROVE  EnvelopeInv'
  <2>1. /\ shown' = Enabled(values') \cup IF node = "device" THEN {} ELSE shown
        /\ raw' = IF node = "device" THEN Fresh(v) ELSE raw
        /\ last' = NoUse
    BY <1>1 DEF SetNode
  <2>2. Enabled(values)' = Enabled(values')
    BY DEF Enabled
  <2>. QED BY <1>0, <2>1, <2>2 DEF Fresh, Default, NoUse, NoResult
<1>2. CASE EnterBlock \/ LeaveBlock \/ AbortBlock
  <2>1. /\ shown' = shown \cup Enabled(values') /\ raw' = raw /\ last' = NoUse
    BY <1>2 DEF EnterBlock, LeaveBlock, AbortBlock
  <2>2. Enabled(values)' = Enabled(values')
    BY DEF Enabled
  <2>. QED BY <1>0, <2>1, <2>2 DEF Default, NoUse, NoResult
<1>3. CASE \/ Run \/ GetResult \/ GetOffsetFreqVector \/ GetActual
           \/ \E use \in {"run", "result", "vector"} : Refuse(use)
  <2>1. UNCHANGED <<values, shown>> /\ Enabled(values)' = Enabled(values)
    BY <1>3 DEF Run, GetResult, GetOffsetFreqVector, GetActual, Refuse, Enabled
  <2> DEFINE c == Configured(raw.config)
  <2>2. c.envelope \in shown \cup {"none"}
    BY ConfiguredShown
  <2>3. /\ raw'.config = raw.config \/ raw'.config = c
        /\ raw'.result = raw.result \/ raw'.result.config = c
    <3>1. raw \in [device : Serial \cup {""}, config : Config, result : Result]
      BY DEF SweeperIndInv
    <3>2. CASE Run
      BY <3>1, <3>2 DEF Run
    <3>3. CASE GetResult \/ GetOffsetFreqVector
      BY <3>1, <3>3 DEF GetResult, GetOffsetFreqVector
    <3>4. CASE GetActual \/ \E use \in {"run", "result", "vector"} : Refuse(use)
      BY <3>4 DEF GetActual, Refuse
    <3>. QED BY <1>3, <3>2, <3>3, <3>4
  <2>4. last'.result.config \in {raw.config, c, raw.result.config, Default}
    <3>1. CASE Run
      BY <3>1 DEF Run, Uses
    <3>2. CASE GetResult
      BY <3>2 DEF GetResult, Uses
    <3>3. CASE GetOffsetFreqVector
      BY <3>3 DEF GetOffsetFreqVector, Uses, SweeperIndInv
    <3>4. CASE GetActual
      BY <3>4 DEF GetActual, Uses
    <3>5. ASSUME NEW use \in {"run", "result", "vector"}, Refuse(use)
          PROVE  last'.result.config = Default
      BY <3>5 DEF Refuse, Uses, NoResult
    <3>. QED BY <1>3, <3>1, <3>2, <3>3, <3>4, <3>5
  <2>. QED BY <2>1, <2>2, <2>3, <2>4 DEF Default
<1>4. CASE UNCHANGED sweeperVars
  BY <1>4 DEF sweeperVars, Enabled
<1>. QED BY <1>1, <1>2, <1>3, <1>4 DEF SweeperNext

-----------------------------------------------------------------------------
\* SweeperIndInv is an invariant: the nodes and the sweeper object agree except for a
\* device that was set in a transaction which is not in effect.
THEOREM SweeperIndInvHolds == SweeperSpec => []SweeperIndInv
BY SweeperInitInv, SweeperNextInv, PTL DEF SweeperSpec

LEMMA EnvelopeInvHolds == SweeperSpec => []EnvelopeInv
<1>1. /\ SweeperIndInv /\ SweeperIndInv' /\ EnvelopeInv /\ [SweeperNext]_sweeperVars
         => EnvelopeInv'
  BY EnvelopeNext
<1>. QED BY <1>1, EnvelopeInit, SweeperIndInvHolds, PTL DEF SweeperSpec

\* The variables of the sweeper have their types.
THEOREM SweeperTypeCorrect == SweeperSpec => []SweeperTypeOK
<1>1. SweeperIndInv /\ EnvelopeInv => SweeperTypeOK
  BY DEF SweeperIndInv, EnvelopeInv, SweeperTypeOK
<1>. QED BY <1>1, SweeperIndInvHolds, EnvelopeInvHolds, PTL

\* Every envelope a sweep is run with was shown by the nodes, enabled, since the
\* device was set: setting the device replaces the sweeper (_set_device), and an
\* envelope that is not enabled is not handed over (_update_settings).
THEOREM EnvelopeWasShownHolds == SweeperSpec => []EnvelopeWasShown
<1>1. EnvelopeInv => EnvelopeWasShown
  BY DEF EnvelopeInv
<1>. QED BY <1>1, EnvelopeInvHolds, PTL

\* Sweeps are run on, and results are of, the device the node shows, although
\* setting it replaces the sweeper before the node shows it (_set_device).
THEOREM SweepsOnShownDeviceHolds == SweeperSpec => []SweepsOnShownDevice
<1>1. SweeperIndInv => SweepsOnShownDevice
  BY DEF SweeperIndInv
<1>. QED BY <1>1, SweeperIndInvHolds, PTL

=============================================================================
