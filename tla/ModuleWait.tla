----------------------------- MODULE ModuleWait -----------------------------
(***************************************************************************)
(* The waits for a LabOne module: BaseModule.wait_done (base_module.py),   *)
(* ImpedanceModule.wait_done with its steps (impedance_module.py) and the  *)
(* load and save of device settings, which wait on a module of their own   *)
(* (device_settings_module.py).                                            *)
(*                                                                         *)
(* A module runs by itself; the program, or a user of LabOne, starts and   *)
(* stops it at any time, and a module in endless mode begins anew when it  *)
(* is through.  Its nodes are read one after the other.                    *)
(***************************************************************************)
EXTENDS Integers, FiniteSets

CONSTANTS
  Step,        \* steps of a compensation: the bits of its expectedstatus
  Device,      \* devices settings are loaded to
  MaxTimeout,  \* bound: the longest timeout, in ticks
  MaxStarts,   \* bound: starts and stops of the module, and its own new rounds
  MaxCalls     \* bound: calls

ASSUME ModuleAssumption ==
  /\ IsFiniteSet(Step) /\ "all" \notin Step
  /\ MaxTimeout \in Nat /\ MaxStarts \in Nat /\ MaxCalls \in Nat

VARIABLES
  module,    \* state (nodes finished, calibrate), progress, status of the module
  jobs,      \* loads of settings whose modules have not finished yet
  settings,  \* the load each device has its settings from, or 0
  overdue,   \* a load has timed out, and may still be at work
  op, pc,    \* the call in progress, or the last one, and its next step
  target,    \* the compensation step, or "all"; the load
  left,      \* what is left of the timeout
  outcome,   \* how the call ended
  since,     \* what has been true of the module since the call
  starts, calls

callVars == <<op, pc, target, left, outcome, calls>>
loadVars == <<jobs, settings, overdue>>
vars == <<module, callVars, loadVars, since, starts>>

\* progress is 0, something, or 1
Whole == 2

Finished == module.state = "finished"

Done(m) == m.state = "finished" \/ m.progress = Whole

\* finished(step): all steps, or one of them.  Of the two nodes read for all,
\* `expectedstatus` depends on the kind of the compensation only, which is not
\* changed while it is waited for: what the read of `status` finds decides.
StepFinished(m, s) == IF s = "all" THEN m.status = Step ELSE s \in m.status

\* What is noted of module m during call o, which waits for step s.
Seen(m, o, s) ==
  {IF Done(m) THEN "done" ELSE "undone"}
  \cup IF o = "impedance"
       THEN {IF StepFinished(m, s) THEN "step" ELSE "nostep"} ELSE {}

Init ==
  /\ module \in [state : {"idle", "finished"}, progress : {0, Whole},
                 status : {{}}]
  /\ jobs = {} /\ settings = [d \in Device |-> 0] /\ overdue = FALSE
  /\ op = "none" /\ pc = "idle" /\ target = "all" /\ left = 0 /\ outcome = "none"
  /\ since = Seen(module, op, target) /\ starts = 0 /\ calls = 0

-----------------------------------------------------------------------------
(* The module and its users *)

Becomes(m, noted) ==
  /\ module' = m
  /\ since' = since \cup Seen(m, op, target) \cup noted
  /\ UNCHANGED <<loadVars, callVars>>

\* execute, calibrate; a step that is run again is first not completed.
Start ==
  /\ starts < MaxStarts /\ starts' = starts + 1
  /\ \E undo \in SUBSET module.status :
       Becomes([state |-> "running", progress |-> 0,
                status |-> module.status \ undo], {"anew"})

\* finish, by the program or by a user.
Stop ==
  /\ starts < MaxStarts /\ starts' = starts + 1
  /\ Becomes([module EXCEPT !.state = "finished"], {})

\* A module in endless mode begins anew without having finished.
NextRound ==
  /\ starts < MaxStarts /\ starts' = starts + 1
  /\ module.state = "running" /\ module.progress = Whole
  /\ Becomes([module EXCEPT !.progress = 0], {"anew"})

Advance ==
  /\ module.state = "running" /\ module.progress < Whole
  /\ Becomes([module EXCEPT !.progress = @ + 1], {})
  /\ UNCHANGED starts

StepCompleted ==
  /\ module.state = "running"
  /\ \E s \in Step \ module.status :
       Becomes([module EXCEPT !.status = @ \cup {s}], {})
  /\ UNCHANGED starts

Complete ==
  /\ module.state = "running" /\ module.progress = Whole
  /\ Becomes([module EXCEPT !.state = "finished"], {})
  /\ UNCHANGED starts

\* A module that loads settings works by itself, also when nobody waits for it.
Load(j) ==
  /\ settings' = [settings EXCEPT ![j.device] = j.call]
  /\ UNCHANGED <<module, jobs, overdue, callVars, since, starts>>

\* It finishes whether or not it has loaded anything.
LoadFinishes(j) ==
  /\ jobs' = jobs \ {j}
  /\ UNCHANGED <<module, settings, overdue, callVars, since, starts>>

Tick ==
  /\ pc # "idle" /\ left > 0 /\ left' = left - 1
  /\ UNCHANGED <<module, loadVars, op, pc, target, outcome, since, starts, calls>>

-----------------------------------------------------------------------------
(* Calls *)

Call(o, step, what, timeout) ==
  /\ pc = "idle" /\ calls < MaxCalls /\ calls' = calls + 1
  /\ op' = o /\ pc' = step /\ target' = what /\ left' = timeout
  /\ outcome' = "none"
  /\ since' = Seen(module, o, what)
  /\ UNCHANGED <<module, settings, overdue, starts>>

Goto(o, from, to) ==
  /\ op = o /\ pc = from /\ pc' = to
  /\ UNCHANGED <<module, loadVars, op, target, left, outcome, since, starts, calls>>

Ends(o, from, how) ==
  /\ op = o /\ pc = from /\ pc' = "idle" /\ outcome' = how
  /\ overdue' = (overdue \/ (o = "load" /\ how = "TimeoutError"))
  /\ UNCHANGED <<module, jobs, settings, op, target, left, since, starts, calls>>

\* Mutant of WaitLooks: only the clock ends the loop, and counts.
WaitLooksAtClockOnly ==
  \/ left > 0 /\ Goto("wait", "clock", "asleep")
  \/ left = 0 /\ Ends("wait", "clock", "TimeoutError")

\* Mutant of WaitLooks: the loop does not look at the clock.
WaitLooksForever ==
  \/ Goto("wait", "clock", "finished")
  \/ Goto("wait", "finished",
          IF Finished THEN "finished again" ELSE "progress")
  \/ Goto("wait", "progress",
          IF module.progress = Whole THEN "finished again" ELSE "asleep")

\* The condition of the loop in BaseModule.wait_done: clock, finished, progress.
WaitLooks ==
  \/ Goto("wait", "clock", IF left = 0 THEN "finished again" ELSE "finished")
  \/ Goto("wait", "finished",
          IF Finished THEN "finished again" ELSE "progress")
  \/ Goto("wait", "progress",
          IF module.progress = Whole THEN "finished again" ELSE "asleep")

\* After the loop both are read again.
WaitLooksAgain ==
  \/ Finished /\ Ends("wait", "finished again", "returned")
  \/ ~Finished /\ Goto("wait", "finished again", "progress again")
  \/ Ends("wait", "progress again",
          IF module.progress = Whole THEN "returned" ELSE "TimeoutError")

\* ImpedanceModule.wait_done: its loop ends also when nothing is calibrated.
ImpedanceLooks ==
  \/ Goto("impedance", "clock", IF left = 0 THEN "progress again" ELSE "calibrate")
  \/ Goto("impedance", "calibrate",
          IF module.state = "running" THEN "step" ELSE "progress again")
  \/ Goto("impedance", "step",
          IF StepFinished(module, target) THEN "progress again" ELSE "asleep")

\* Mutant of ImpedanceLooksAgain: the step is not looked at again.
ImpedanceLooksAtProgress ==
  Ends("impedance", "progress again",
       IF module.progress < Whole THEN "TimeoutError" ELSE "returned")

\* The timeout is told from the progress, the result from the step.
ImpedanceLooksAgain ==
  \/ module.progress < Whole /\ Ends("impedance", "progress again", "TimeoutError")
  \/ module.progress = Whole /\ Goto("impedance", "progress again", "step again")
  \/ Ends("impedance", "step again",
          IF StepFinished(module, target) THEN "returned" ELSE "RuntimeError")

Wake == Goto(op, "asleep", "clock")

\* _simple_execution: a new module is given the device, the file and the
\* command, and is executed.
Execute(device, timeout) ==
  LET job == [device |-> device, call |-> calls + 1]
  IN  Call("load", "load", job, timeout) /\ jobs' = jobs \cup {job}

\* Mutant of LoadLooks: the module of an earlier load is used again, and its
\* `finished` of then is taken for an answer.
LoadLooksReused ==
  \/ /\ op = "load"
     /\ target \notin jobs \/ \E d \in Device : settings[d] # 0
     /\ Ends("load", "load", "returned")
  \/ op = "load" /\ target \in jobs /\ Goto("load", "load", "load clock")
  \/ left > 0 /\ Goto("load", "load clock", "load")
  \/ left = 0 /\ Ends("load", "load clock", "TimeoutError")

\* Node.wait_for_state_change on `finished` of that module: its value, the clock.
LoadLooks ==
  \/ op = "load" /\ target \notin jobs /\ Ends("load", "load", "returned")
  \/ op = "load" /\ target \in jobs /\ Goto("load", "load", "load clock")
  \/ left > 0 /\ Goto("load", "load clock", "load")
  \/ left = 0 /\ Ends("load", "load clock", "TimeoutError")

Calls ==
  \E timeout \in 0..MaxTimeout :
    \/ Call("wait", "clock", "all", timeout) /\ UNCHANGED jobs
    \/ \E s \in Step \cup {"all"} :
         Call("impedance", "clock", s, timeout) /\ UNCHANGED jobs
    \/ \E d \in Device : Execute(d, timeout)

Program ==
  WaitLooks \/ WaitLooksAgain \/ ImpedanceLooks \/ ImpedanceLooksAgain \/ Wake
  \/ LoadLooks

Module ==
  \/ Start \/ Stop \/ NextRound \/ Advance \/ StepCompleted \/ Complete
  \/ \E j \in jobs : Load(j) \/ LoadFinishes(j)

\* The program has made its last call.
Terminated == pc = "idle" /\ calls = MaxCalls /\ UNCHANGED vars

Next == Calls \/ Program \/ Module \/ Tick \/ Terminated

Spec == Init /\ [][Next]_vars

\* The thread runs and time passes; nothing is assumed of the modules.
FairSpec == Spec /\ WF_vars(Program) /\ WF_vars(Tick)

-----------------------------------------------------------------------------
(* Properties *)

Job == [device : Device, call : 1..MaxCalls]

TypeOK ==
  /\ module \in [state : {"idle", "running", "finished"}, progress : 0..Whole,
                 status : SUBSET Step]
  /\ jobs \subseteq Job /\ settings \in [Device -> 0..MaxCalls]
  /\ overdue \in BOOLEAN
  /\ op \in {"none", "wait", "impedance", "load"}
  /\ pc \in {"idle", "clock", "finished", "progress", "calibrate", "step",
            "asleep", "finished again", "progress again", "step again", "load",
            "load clock"}
  /\ left \in 0..MaxTimeout
  /\ outcome \in {"none", "returned", "TimeoutError", "RuntimeError"}
  /\ since \subseteq {"done", "undone", "anew", "step", "nostep"}

\* wait_done returns only if the module was done at some time of the call.  It
\* times out only if the module was not, and before its time is over only if
\* the module began anew during the call: the loop ended because the module was
\* done, and the second look found it at work again.
DoneIsReported ==
  op = "wait" =>
    /\ outcome = "returned" => "done" \in since
    /\ outcome = "TimeoutError" =>
         "undone" \in since /\ (left = 0 \/ "anew" \in since)

\* The wait for a compensation step returns only if the step was completed, and
\* raises RuntimeError only if it was not.
StepIsReported ==
  op = "impedance" =>
    /\ outcome = "returned" => "step" \in since
    /\ outcome = "RuntimeError" => "nostep" \in since

\* A load is synchronous: unless one has timed out, the settings of a device
\* change only while the load that changes them is waited for (load_from_file:
\* "it will block until loading the settings has finished").
LoadsAreSynchronous ==
  [][~overdue =>
       /\ op = "load" /\ pc # "idle"
       /\ settings' = [settings EXCEPT ![target.device] = target.call]]_settings

\* Every call ends, whatever the module does.
CallEnds == pc # "idle" ~> pc = "idle"

=============================================================================
