------------------------ MODULE InstrumentProcedures ------------------------
(***************************************************************************)
(* The procedures of the instruments that set something, wait, and look at *)
(* the result: factory_reset (base.py), check_ref_clock of the hubs, the   *)
(* SHF instruments and the HDAWG, and the upload of a command table        *)
(* (command_table_node.py); and enable_qccs_mode (hdawg.py, uhfqa.py),     *)
(* which makes its settings one by one in a transaction.  They are called  *)
(* in a transaction of the device or outside of one.                       *)
(*                                                                         *)
(* Every wait of these procedures is for a node to be no longer "busy".  Of *)
(* wait_for_state_change what WaitPromise says is kept: it returns when the *)
(* node has been something else since its deep get, and raises only when   *)
(* its time is over and the node has been busy since.                      *)
(***************************************************************************)
EXTENDS Integers, Sequences

CONSTANTS
  NChannels,    \* channels an instrument waits for after a lock, at most 2
  MaxTimeout,   \* bound: the longest timeout, in ticks
  MaxCalls,     \* bound: calls
  MaxChanges    \* bound: things the device does by itself

ASSUME ProcedureAssumption ==
  /\ NChannels \in 0..2 /\ MaxTimeout \in Nat
  /\ MaxCalls \in Nat /\ MaxChanges \in Nat

VARIABLES
  kind,       \* what instrument it is
  device,     \* what the nodes of the device have
  copy,       \* what the data server knows of those that are read without deep
  cmds,       \* set commands on their way to the device
  open,       \* a transaction of the device is in progress
  buffered,   \* its commands
  op, pc,     \* the procedure in progress, or the last one, and its next step
  awaited,    \* what it waits for: "preset", "status" or a channel
  left,       \* what is left of the timeout
  outcome,    \* how it ended
  read,       \* the clock source in use, as a clock check has read it
  own,        \* a QCCS mode: the transaction in progress is its own
  made,       \* a QCCS mode: how many of its settings it has made
  issued,     \* a QCCS mode: the commands that have left for the data server
  held,       \* values of what is waited for since the wait began
  since,      \* what has happened in the device since the call
  calls, changes

vars == <<kind, device, copy, cmds, open, buffered, op, pc, awaited, left, outcome,
          read, own, made, issued, held, since, calls, changes>>
deviceVars == <<kind, device, held, since>>
modeVars   == <<own, made, issued>>
callVars   == <<op, pc, awaited, left, outcome, read, modeVars>>

Busy == {"idle", "busy"}
Source == {"internal", "zsync"}
LockStatus == {"locked", "busy", "error"}

Kind == {"hub", "shf", "hdawg", "uhfqa"}

\* The QCCS modes: the generations of the HDAWG, with one that it does not have,
\* and the mode of the UHFQA.
QccsMode == {"gen 1", "gen 2", "gen 3", "uhfqa"}

-----------------------------------------------------------------------------
(* The device *)

Value(d, what) ==
  CASE what = "preset" -> d.busy
    [] what = "status" -> d.status
    [] what = "ch1"    -> d.chan[1]
    [] what = "ch2"    -> d.chan[2]

\* A new state of the device, and what the call in progress gets to know of
\* it; "steady" is lost with the first change.
Becomes(d) ==
  /\ device' = d /\ UNCHANGED kind
  /\ held' = held \cup {Value(d, awaited)}
  /\ since' = (IF d = device THEN since ELSE since \ {"steady"})
       \cup (IF device.busy = "busy" /\ d.busy = "idle" /\ d.preset = "loaded"
               THEN {"reset"} ELSE {})
       \cup (IF d.status = "locked" THEN {"locked"} ELSE {})

\* What the device does with a command.  A new source is locked to anew.
Executed(d, c) ==
  CASE c = "load" -> [d EXCEPT !.busy = "busy"]
    [] c \in Source -> [d EXCEPT !.source = c, !.status = "busy"]
    [] c \in {"good table", "bad table"} ->
         [d EXCEPT !.table = IF c = "good table" THEN "loaded" ELSE "failed"]
    [] OTHER -> d

Take ==
  /\ cmds # <<>> /\ cmds' = Tail(cmds)
  /\ Becomes(Executed(device, Head(cmds)))
  /\ UNCHANGED <<copy, open, buffered, callVars, calls, changes>>

\* The end of a preset load, with or without an error; a successful one sets
\* the clock source back.  The end of locking; a lock that is lost; a channel.
DeviceChanges ==
  /\ changes < MaxChanges /\ changes' = changes + 1
  /\ \/ /\ device.busy = "busy"
        /\ \/ Becomes([device EXCEPT !.busy = "idle", !.preset = "failed"])
           \/ Becomes([device EXCEPT !.busy = "idle", !.preset = "loaded",
                                     !.source = "internal", !.status = "busy"])
     \/ /\ device.status = "busy"
        /\ \/ Becomes([device EXCEPT !.status = "locked", !.used = device.source])
           \/ Becomes([device EXCEPT !.status = "error", !.used = "internal"])
     \/ /\ device.status = "locked"
        /\ Becomes([device EXCEPT !.status = "busy"])
     \/ /\ kind \in {"shf", "hdawg"}
        /\ \E c \in 1..NChannels, b \in Busy :
             b # device.chan[c] /\ Becomes([device EXCEPT !.chan[c] = b])
  /\ UNCHANGED <<copy, cmds, open, buffered, callVars, calls>>

Known(d) == [status |-> d.status, source |-> d.source, used |-> d.used,
             table |-> d.table]

CopyFollows ==
  /\ \E n \in DOMAIN copy : /\ copy[n] # Known(device)[n]
                            /\ copy' = [copy EXCEPT ![n] = Known(device)[n]]
  /\ UNCHANGED <<deviceVars, cmds, open, buffered, callVars, calls, changes>>

Tick ==
  /\ pc # "idle" /\ left > 0 /\ left' = left - 1
  /\ UNCHANGED <<deviceVars, copy, cmds, open, buffered, op, pc, awaited,
                 outcome, read, modeVars, calls, changes>>

Init ==
  /\ kind \in Kind
  /\ device \in [busy : {"idle"}, preset : {"failed"},
                 status : {"locked", "error"}, source : Source, used : Source,
                 table : {"none"},
                 chan : [1..NChannels -> Busy]]
  /\ \A c, d \in 1..NChannels : device.chan[c] = device.chan[d]
  /\ kind \in {"hub", "uhfqa"} => \A c \in 1..NChannels : device.chan[c] = "idle"
  /\ device.status = "locked" => device.used = device.source
  /\ device.status = "error" => device.used = "internal"
  /\ copy = Known(device)
  /\ cmds = <<>> /\ open = FALSE /\ buffered = <<>>
  /\ op = "none" /\ pc = "idle" /\ awaited = "preset" /\ left = 0
  /\ outcome = "none" /\ read = "none" /\ held = {}
  /\ own = FALSE /\ made = 0 /\ issued = <<>>
  /\ since = {}
  /\ calls = 0 /\ changes = 0

-----------------------------------------------------------------------------
(* Sets *)

Send(commands) ==
  IF open THEN buffered' = buffered \o commands /\ UNCHANGED cmds
          ELSE cmds' = cmds \o commands /\ UNCHANGED buffered

\* A deep set is answered after what was issued before, and with the value in
\* the device; in a transaction it is a set like any other.
DeepSet(c) ==
  IF open
    THEN buffered' = Append(buffered, c) /\ UNCHANGED <<cmds, copy, deviceVars>>
    ELSE /\ cmds = <<>> /\ Becomes(Executed(device, c))
         /\ copy' = [copy EXCEPT !.source = Executed(device, c).source]
         /\ UNCHANGED <<cmds, buffered>>

\* Locked to an external clock, and known to be.
Steady ==
  /\ device.status = "locked"
  /\ device.source = "zsync" /\ device.used = "zsync"
  /\ copy = Known(device)

Call(o, step, timeout) ==
  /\ pc = "idle" /\ calls < MaxCalls /\ calls' = calls + 1
  /\ op' = o /\ pc' = step /\ left' = timeout /\ outcome' = "none"
  /\ issued' = <<>>
  /\ since' = (IF device.status = "locked" THEN {"locked"} ELSE {})
               \cup (IF Steady /\ cmds = <<>> THEN {"steady"} ELSE {})

Ends(how) == pc' = "idle" /\ outcome' = how

Wait(what) == pc' = "begin" /\ awaited' = what

-----------------------------------------------------------------------------
(* The wait of all procedures *)

\* Its deep get is answered after the commands that were issued before.
BeginWait ==
  /\ pc = "begin" /\ cmds = <<>> /\ pc' = "wait"
  /\ held' = {Value(device, awaited)}
  /\ copy' = IF awaited = "status" THEN [copy EXCEPT !.status = device.status]
                                   ELSE copy
  /\ UNCHANGED <<kind, device, since, cmds, open, buffered, op, awaited, left,
                 outcome, read, modeVars, calls, changes>>

WaitTimesOut ==
  /\ pc = "wait" /\ left = 0 /\ "busy" \in held
  /\ Ends("TimeoutError")
  /\ UNCHANGED <<deviceVars, copy, cmds, open, buffered, op, awaited, left,
                 read, modeVars, calls, changes>>

-----------------------------------------------------------------------------
(* factory_reset *)

\* Mutant of FactoryReset: the load is issued without waiting for its answer,
\* and the error is looked at next.
FactoryResetNoWait(deep, timeout) ==
  /\ Call("reset", "verify", timeout)
  /\ Send(<<"load">>)
  /\ UNCHANGED <<kind, device, held, copy, awaited, open, read, own, made, changes>>

FactoryReset(deep, timeout) ==
  /\ Call("reset", IF deep THEN "load" ELSE "begin", timeout)
  /\ awaited' = "preset"
  /\ IF deep THEN UNCHANGED <<cmds, buffered>> ELSE Send(<<"load">>)
  /\ UNCHANGED <<kind, device, held, copy, open, read, own, made, changes>>

LoadPreset ==
  /\ pc = "load" /\ pc' = "begin" /\ DeepSet("load")
  /\ UNCHANGED <<open, op, awaited, left, outcome, read, modeVars, calls, changes>>

PresetLoaded ==
  /\ pc = "wait" /\ awaited = "preset" /\ "idle" \in held
  /\ pc' = "verify"
  /\ UNCHANGED <<deviceVars, copy, cmds, open, buffered, op, awaited, left,
                 outcome, read, modeVars, calls, changes>>

\* The error is read deep.
VerifyPreset ==
  /\ pc = "verify" /\ cmds = <<>>
  /\ Ends(IF device.preset = "failed" THEN "ToolkitError" ELSE "returned")
  /\ UNCHANGED <<deviceVars, copy, cmds, open, buffered, op, awaited, left,
                 read, modeVars, calls, changes>>

-----------------------------------------------------------------------------
(* check_ref_clock: three copies in the code *)

CheckRefClock(timeout) ==
  /\ kind # "uhfqa"
  /\ Call("check", "begin", timeout) /\ awaited' = "status"
  /\ UNCHANGED <<kind, device, held, copy, cmds, open, buffered, read, own, made,
                 changes>>

\* The wait has read a status that is not busy, and the data server knows it.
StatusNotBusy ==
  /\ pc = "wait" /\ awaited = "status"
  /\ \E s \in held \ {"busy"} : copy' = [copy EXCEPT !.status = s]
  /\ pc' = "status"
  /\ UNCHANGED <<deviceVars, cmds, open, buffered, op, awaited, left, outcome,
                 read, modeVars, calls, changes>>

\* Mutant of ReadStatus: not being busy is taken for being locked.
ReadStatusUnchecked ==
  /\ pc = "status"
  /\ pc' = IF kind = "hdawg" THEN "source" ELSE "used"
  /\ UNCHANGED <<deviceVars, copy, cmds, open, buffered, op, awaited, left,
                 outcome, read, modeVars, calls, changes>>

\* It is read again, this time from the data server.
ReadStatus ==
  /\ pc = "status"
  /\ pc' = IF copy.status # "locked" THEN "fall back"
           ELSE IF kind = "hdawg" THEN "source" ELSE "used"
  /\ UNCHANGED <<deviceVars, copy, cmds, open, buffered, op, awaited, left,
                 outcome, read, modeVars, calls, changes>>

\* The source in use is read next; the HDAWG does not look at it.
ReadUsed ==
  /\ pc = "used" /\ pc' = "source" /\ read' = copy.used
  /\ UNCHANGED <<deviceVars, copy, cmds, open, buffered, op, awaited, left,
                 outcome, modeVars, calls, changes>>

\* Mutant of ReadSource: the comparison is inverted.
ReadSourceSwapped ==
  /\ pc = "source" /\ read' = "none"
  /\ IF read # copy.source
       THEN Ends("True") /\ UNCHANGED <<awaited, left>>
       ELSE pc' = "fall back" /\ UNCHANGED <<awaited, left, outcome>>
  /\ UNCHANGED <<deviceVars, copy, cmds, open, buffered, op, modeVars, calls,
                 changes>>

\* The source is compared to the one in use, as read before, in the HDAWG to
\* "internal".  Then the HDAWG and the SHF instruments wait for their channels.
ReadSource ==
  /\ pc = "source" /\ read' = "none"
  /\ IF IF kind = "hdawg" THEN copy.source # "internal"
                        ELSE read = copy.source
       THEN IF kind = "hub" \/ NChannels = 0
              THEN Ends("True") /\ UNCHANGED <<awaited, left>>
              ELSE Wait("ch1") /\ left' = MaxTimeout /\ UNCHANGED outcome
       ELSE pc' = "fall back" /\ UNCHANGED <<awaited, left, outcome>>
  /\ UNCHANGED <<deviceVars, copy, cmds, open, buffered, op, modeVars, calls,
                 changes>>

\* The channels share a timeout.
ChannelReady ==
  /\ pc = "wait" /\ awaited \in {"ch1", "ch2"} /\ "idle" \in held
  /\ IF awaited = "ch1" /\ NChannels > 1
       THEN Wait("ch2") /\ UNCHANGED outcome
       ELSE Ends("True") /\ UNCHANGED awaited
  /\ UNCHANGED <<deviceVars, copy, cmds, open, buffered, op, left, read, modeVars,
                 calls, changes>>

\* Mutant of FallBack: the source is set without waiting for the answer.
FallBackShallow ==
  /\ pc = "fall back" /\ Send(<<"internal">>) /\ Ends("False")
  /\ UNCHANGED <<deviceVars, copy, open, op, awaited, left, read, modeVars, calls,
                 changes>>

FallBack ==
  /\ pc = "fall back" /\ DeepSet("internal") /\ Ends("False")
  /\ UNCHANGED <<open, op, awaited, left, read, modeVars, calls, changes>>

-----------------------------------------------------------------------------
(* enable_qccs_mode *)

\* The settings made for the mode; "zsync" is the reference clock.  A generation
\* that the HDAWG does not have is found out after the first.
QccsSettings(mode) ==
  CASE mode = "gen 1" -> <<"mode", "freq", "interface", "drive", "zsync", "slope",
                           "polarity">>
    [] mode = "gen 2" -> <<"mode", "freq", "drive", "zsync", "slope", "polarity">>
    [] mode = "uhfqa" -> <<"extclk", "dioclk", "mode", "drive", "slope", "index",
                           "polarity">>
    [] OTHER -> <<"mode">>

\* create_or_append_set_transaction: a transaction of its own, if none is in
\* progress.
EnableQccsMode(mode) ==
  /\ kind = IF mode = "uhfqa" THEN "uhfqa" ELSE "hdawg"
  /\ Call(mode, "mode", 0)
  /\ own' = ~open /\ open' = TRUE /\ made' = 0
  /\ UNCHANGED <<kind, device, held, copy, awaited, cmds, buffered, read, changes>>

AllMade == made = Len(QccsSettings(op))

MakeSetting ==
  /\ pc = "mode" /\ ~AllMade /\ made' = made + 1
  /\ Send(<<QccsSettings(op)[made + 1]>>)
  /\ UNCHANGED <<deviceVars, copy, open, op, pc, awaited, left, outcome, read, own,
                 issued, calls, changes>>

\* The end of its own transaction, which is sent as one list.
QccsModeSet ==
  /\ pc = "mode" /\ AllMade /\ op # "gen 3" /\ Ends("returned")
  /\ own' = FALSE /\ made' = 0
  /\ IF own THEN /\ open' = FALSE /\ buffered' = <<>>
                 /\ cmds' = cmds \o buffered /\ issued' = buffered
            ELSE UNCHANGED <<open, buffered, cmds, issued>>
  /\ UNCHANGED <<deviceVars, copy, op, awaited, left, read, calls, changes>>

\* The generation is wrong, or the instrument does not have the node of a
\* setting; that of a wildcard, which the last two of the HDAWG are, is not
\* looked for.
QccsFails ==
  \/ AllMade /\ op = "gen 3" /\ Ends("ToolkitError")
  \/ /\ ~AllMade /\ (op = "uhfqa" \/ QccsSettings(op)[made + 1] \notin {"slope", "polarity"})
     /\ Ends("KeyError")

\* Mutant of QccsModeFails: the transaction is sent however the block ends.
QccsModeFailsSent ==
  /\ pc = "mode" /\ QccsFails
  /\ own' = FALSE /\ made' = 0
  /\ IF own THEN /\ open' = FALSE /\ buffered' = <<>>
                 /\ cmds' = cmds \o buffered /\ issued' = buffered
            ELSE UNCHANGED <<open, buffered, cmds, issued>>
  /\ UNCHANGED <<deviceVars, copy, op, awaited, left, read, calls, changes>>

\* What is in a transaction of its own is dropped; in one that is joined it stays.
QccsModeFails ==
  /\ pc = "mode" /\ QccsFails
  /\ own' = FALSE /\ made' = 0
  /\ IF own THEN open' = FALSE /\ buffered' = <<>> ELSE UNCHANGED <<open, buffered>>
  /\ UNCHANGED <<deviceVars, copy, cmds, op, awaited, left, read, issued, calls,
                 changes>>

-----------------------------------------------------------------------------
(* upload_to_device *)

\* How often the status is looked at after an upload, outside of a transaction:
\* a raw table that is validated goes through a second call, which always looks.
Looks(validated, check) ==
  IF open THEN "uploaded"
  ELSE CASE validated /\ check -> "table twice"
         [] validated # check  -> "table"
         [] OTHER              -> "uploaded"

\* `validated` is a raw table with validate, `check` is check_upload.
UploadToDevice(table, validated, check) ==
  /\ kind \in {"shf", "hdawg"}
  /\ Call("upload", Looks(validated, check), 0)
  /\ Send(<<table>>)
  /\ UNCHANGED <<kind, device, held, copy, awaited, open, read, own, made, changes>>

\* The schema may find out a table that the device would refuse.
RefuseTable ==
  /\ kind \in {"shf", "hdawg"}
  /\ Call("upload", "refuse", 0)
  /\ UNCHANGED <<kind, device, held, copy, awaited, cmds, open, buffered, read, own, made,
                 changes>>

TableRefused ==
  /\ pc = "refuse" /\ Ends("ValidationError")
  /\ UNCHANGED <<deviceVars, copy, cmds, open, buffered, op, awaited, left,
                 read, modeVars, calls, changes>>

Uploaded ==
  /\ pc = "uploaded" /\ Ends("returned")
  /\ UNCHANGED <<deviceVars, copy, cmds, open, buffered, op, awaited, left,
                 read, modeVars, calls, changes>>

\* The status is read without deep.
CheckStatus ==
  /\ pc \in {"table", "table twice"}
  /\ IF copy.table # "loaded" THEN Ends("RuntimeError")
     ELSE /\ pc' = IF pc = "table" THEN "uploaded" ELSE "table"
          /\ UNCHANGED outcome
  /\ UNCHANGED <<deviceVars, copy, cmds, open, buffered, op, awaited, left,
                 read, modeVars, calls, changes>>

-----------------------------------------------------------------------------
(* Blocks of the program *)

EnterBlock ==
  /\ pc = "idle" /\ ~open /\ calls < MaxCalls /\ calls' = calls + 1
  /\ open' = TRUE /\ outcome' = "none" /\ issued' = <<>>
  /\ UNCHANGED <<deviceVars, copy, cmds, buffered, op, pc, awaited, left, read, own,
                 made, changes>>

LeaveBlock ==
  /\ pc = "idle" /\ open /\ open' = FALSE
  /\ outcome' = "none" /\ issued' = <<>>
  /\ \/ cmds' = cmds \o buffered
     \/ UNCHANGED cmds
  /\ buffered' = <<>>
  /\ UNCHANGED <<deviceVars, copy, op, pc, awaited, left, read, own, made, calls,
                 changes>>

Calls ==
  \/ \E deep \in BOOLEAN, t \in 0..MaxTimeout : FactoryReset(deep, t)
  \/ \E t \in 0..MaxTimeout : CheckRefClock(t)
  \/ \E mode \in QccsMode : EnableQccsMode(mode)
  \/ \E table \in {"good table", "bad table"}, validated, check \in BOOLEAN :
       UploadToDevice(table, validated, check)
  \/ RefuseTable
  \/ EnterBlock \/ LeaveBlock

Program ==
  \/ BeginWait \/ WaitTimesOut
  \/ LoadPreset \/ PresetLoaded \/ VerifyPreset
  \/ StatusNotBusy \/ ReadStatus \/ ReadUsed \/ ReadSource \/ ChannelReady
  \/ FallBack
  \/ MakeSetting \/ QccsModeSet \/ QccsModeFails
  \/ Uploaded \/ CheckStatus \/ TableRefused

\* The program has made its last call.
Terminated == pc = "idle" /\ calls = MaxCalls /\ UNCHANGED vars

Next ==
  \/ Calls \/ Program \/ Terminated
  \/ Take \/ DeviceChanges \/ CopyFollows \/ Tick

Spec == Init /\ [][Next]_vars

-----------------------------------------------------------------------------
(* Properties *)

QccsSetting == {"mode", "freq", "interface", "drive", "slope", "polarity", "extclk",
                "dioclk", "index", "zsync"}
Command == {"load", "good table", "bad table", "internal"} \cup QccsSetting

Devices == [busy : Busy, preset : {"failed", "loaded"}, status : LockStatus,
            source : Source, used : Source, table : {"none", "loaded", "failed"},
            chan : [1..NChannels -> Busy]]

Copies == [status : LockStatus, source : Source, used : Source,
           table : {"none", "loaded", "failed"}]

CallTypeOK ==
  /\ device \in Devices /\ copy \in Copies
  /\ cmds \in Seq(Command) /\ buffered \in Seq(Command)
  /\ open \in BOOLEAN
  /\ op \in {"none", "reset", "check", "upload"} \cup QccsMode
  /\ pc \in {"idle", "begin", "wait", "load", "verify", "status", "used", "source",
            "fall back", "mode", "table twice", "table", "uploaded", "refuse"}
  /\ awaited \in {"preset", "status"} \cup {"ch1", "ch2"}
  /\ left \in 0..MaxTimeout
  /\ outcome \in {"none", "returned", "True", "False", "TimeoutError",
                 "ToolkitError", "RuntimeError", "KeyError", "ValidationError"}
  /\ held \subseteq Busy \cup LockStatus
  /\ since \subseteq {"reset", "locked", "steady"}
  /\ calls \in 0..MaxCalls /\ changes \in 0..MaxChanges

TypeOK ==
  /\ CallTypeOK
  /\ kind \in Kind /\ read \in Source \cup {"none"}
  /\ own \in BOOLEAN /\ made \in 0..7 /\ issued \in Seq(Command)

\* A factory reset that returns outside of a transaction has loaded the preset
\* since it was called, with deep and without.
ResetMeansReset ==
  op = "reset" /\ outcome = "returned" /\ ~open => "reset" \in since

\* A check that returns True has seen a lock that was there since the call: a
\* lock of before, which the data server still reports, does not count.
LockReported == outcome = "True" => "locked" \in since

\* A check that returns False outside of a transaction leaves the device on its
\* internal clock.
FallbackIsInternal ==
  op = "check" /\ outcome = "False" /\ ~open => device.source = "internal"

\* An instrument that is locked to an external clock all along, and of which
\* the data server knows so, is never switched to its internal clock, and the
\* check does not time out on the lock.
SteadyLockIsKept ==
  "steady" \in since /\ op = "check" =>
    /\ outcome # "False"
    /\ outcome = "TimeoutError" => awaited # "status"

\* Outside of a transaction the settings of a QCCS mode leave for the device as
\* a whole, when the call returns, and never in part: not while they are made,
\* and not when it raises; in a transaction of the caller nothing leaves.
QccsIsWhole ==
  op \in QccsMode =>
    /\ issued = IF outcome = "returned" /\ ~open THEN QccsSettings(op) ELSE <<>>
    /\ pc = "idle" /\ ~open => buffered = <<>>

=============================================================================
