-------------------------- MODULE SweeperSettings --------------------------
(***************************************************************************)
(* The SHFQA sweeper (driver/modules/shfqa_sweeper.py): its settings are   *)
(* values of a dictionary that stands behind a node tree as if it were a   *)
(* connection (nodetree/connection_dict.py), and are handed over to a      *)
(* sweeper object before every use of it.  Setting the device replaces     *)
(* that object, at once, because the set parser of the node does it; the   *)
(* value itself may be held back in a transaction of the tree.             *)
(*                                                                         *)
(* Of the settings one is kept for each way in which they are handed over. *)
(***************************************************************************)
EXTENDS FiniteSets

CONSTANTS
  Serial,    \* serials of SHFQA devices
  Waveform   \* waveforms of the envelope

ASSUME SweeperAssumption == "" \notin Serial /\ Waveform # {}

VARIABLES
  values,    \* ConnectionDict._values by node
  open,      \* a transaction of the tree is in progress
  pending,   \* the value it holds back for each node it has one for
  raw,       \* ShfSweeper object: its device, its configuration, its last result
  last,      \* the last use of the sweeper, how it ended and what it returned
  astray,    \* the device was set in a transaction that is not in effect
  shown      \* waveforms the nodes showed, enabled, since the device was set

sweeperVars == <<values, open, pending, raw, last, astray, shown>>

NodeOf == {"device", "mode", "waveform", "enable"}

\* The values of the dictionary, options as their names.
Values ==
  [device   : Serial \cup {""},
   mode     : {"sequencer-based", "host-driven"},
   waveform : Waveform,
   enable   : BOOLEAN]

ValuesOf(node) == {v[node] : v \in Values}

\* The waveform of an envelope that is enabled.
Enabled(v) == IF v.enable THEN {v.waveform} ELSE {}

\* The configuration classes; an envelope is "none" until one was passed.
Config == [use_sequencer : BOOLEAN, envelope : Waveform \cup {"none"}]

Default == [use_sequencer |-> TRUE, envelope |-> "none"]

NoResult == [device |-> "", config |-> Default]
NoUse    == [op |-> "none", how |-> "none", result |-> NoResult]

\* A new ShfSweeper.
Fresh(serial) == [device |-> serial, config |-> Default, result |-> NoResult]

SweeperInit ==
  /\ values \in Values /\ values.device = "" /\ values.enable = FALSE
  /\ values.mode = "sequencer-based"
  /\ open = FALSE /\ pending = [n \in {} |-> ""]
  /\ raw = Fresh("") /\ last = NoUse /\ astray = FALSE
  /\ shown = Enabled(values)

-----------------------------------------------------------------------------
(* Nodes *)

\* Mutant of SetNode: the sweeper is replaced when the value gets there, but a
\* transaction writes its values past the parser.
SetNodeParsedLate(node, v) ==
  /\ raw' = IF node = "device" /\ ~open THEN Fresh(v) ELSE raw
  /\ IF open
       THEN /\ pending' = [n \in DOMAIN pending \cup {node} |->
                             IF n = node THEN v ELSE pending[n]]
            /\ UNCHANGED values
       ELSE values' = [values EXCEPT ![node] = v] /\ UNCHANGED pending
  /\ astray' = IF node = "device" THEN open ELSE astray
  /\ shown' = Enabled(values') \cup IF node = "device" THEN {} ELSE shown
  /\ last' = NoUse /\ UNCHANGED open

\* Mutant of SetNode: the sweeper is not replaced, but given the new device.
SetNodeSweeperKept(node, v) ==
  /\ raw' = IF node = "device" THEN [raw EXCEPT !.device = v, !.result = NoResult]
                               ELSE raw
  /\ IF open
       THEN /\ pending' = [n \in DOMAIN pending \cup {node} |->
                             IF n = node THEN v ELSE pending[n]]
            /\ UNCHANGED values
       ELSE values' = [values EXCEPT ![node] = v] /\ UNCHANGED pending
  /\ astray' = IF node = "device" THEN open ELSE astray
  /\ shown' = Enabled(values') \cup IF node = "device" THEN {} ELSE shown
  /\ last' = NoUse /\ UNCHANGED open

\* Node._set with the set parser _set_device, and ConnectionDict.set.
SetNode(node, v) ==
  /\ raw' = IF node = "device" THEN Fresh(v) ELSE raw
  /\ IF open
       THEN /\ pending' = [n \in DOMAIN pending \cup {node} |->
                             IF n = node THEN v ELSE pending[n]]
            /\ UNCHANGED values
       ELSE values' = [values EXCEPT ![node] = v] /\ UNCHANGED pending
  /\ astray' = IF node = "device" THEN open ELSE astray
  /\ shown' = Enabled(values') \cup IF node = "device" THEN {} ELSE shown
  /\ last' = NoUse /\ UNCHANGED open

EnterBlock ==
  /\ ~open /\ open' = TRUE /\ last' = NoUse
  /\ UNCHANGED <<values, pending, raw, astray, shown>>

\* The list is set one node after the other; the last value of a node stays.
LeaveBlock ==
  /\ open /\ open' = FALSE
  /\ values' = [n \in NodeOf |-> IF n \in DOMAIN pending THEN pending[n] ELSE values[n]]
  /\ pending' = [n \in {} |-> ""] /\ last' = NoUse
  /\ astray' = (astray /\ "device" \notin DOMAIN pending)
  /\ shown' = shown \cup Enabled(values') /\ UNCHANGED raw

AbortBlock ==
  /\ open /\ open' = FALSE
  /\ pending' = [n \in {} |-> ""] /\ last' = NoUse
  /\ UNCHANGED <<values, raw, astray, shown>>

-----------------------------------------------------------------------------
(* The sweeper *)

\* What _update_settings makes of the values, for a sweeper configured as c:
\* options become flags, and an envelope that is not enabled is not
\* passed, whereupon the sweeper keeps the one it has.
Configured(c) ==
  [use_sequencer |-> values.mode = "sequencer-based",
   envelope      |-> IF values.enable THEN values.waveform ELSE c.envelope]

Uses(op, how, result) == last' = [op |-> op, how |-> how, result |-> result]

\* Without a device every use of the sweeper is refused.
Refuse(op) ==
  /\ values.device = ""
  /\ Uses(op, "ToolkitError", NoResult)
  /\ UNCHANGED <<values, open, pending, raw, astray, shown>>

Run ==
  /\ values.device # ""
  /\ LET c == Configured(raw.config)
         result == [device |-> raw.device, config |-> c]
     IN  /\ raw' = [raw EXCEPT !.config = c, !.result = result]
         /\ Uses("run", "returned", result)
  /\ UNCHANGED <<values, open, pending, astray, shown>>

\* get_result and plot hand over the settings too; the data is that of the
\* last run of this sweeper object.
GetResult ==
  /\ values.device # ""
  /\ raw' = [raw EXCEPT !.config = Configured(raw.config)]
  /\ Uses("result", IF raw.result = NoResult THEN "RuntimeError" ELSE "returned",
          raw.result)
  /\ UNCHANGED <<values, open, pending, astray, shown>>

GetOffsetFreqVector ==
  /\ values.device # ""
  /\ raw' = [raw EXCEPT !.config = Configured(raw.config)]
  /\ Uses("vector", "returned", [device |-> raw.device, config |-> raw'.config])
  /\ UNCHANGED <<values, open, pending, astray, shown>>

\* actual_settling_time and its like ask the sweeper as it was configured last.
GetActual ==
  /\ Uses("actual", "returned", [device |-> raw.device, config |-> raw.config])
  /\ UNCHANGED <<values, open, pending, raw, astray, shown>>

SweeperNext ==
  \/ \E node \in NodeOf : \E v \in ValuesOf(node) : SetNode(node, v)
  \/ EnterBlock \/ LeaveBlock \/ AbortBlock
  \/ \E op \in {"run", "result", "vector"} : Refuse(op)
  \/ Run \/ GetResult \/ GetOffsetFreqVector \/ GetActual

SweeperSpec == SweeperInit /\ [][SweeperNext]_sweeperVars

-----------------------------------------------------------------------------
(* Properties *)

SettingsTypeOK ==
  /\ values \in Values /\ open \in BOOLEAN /\ astray \in BOOLEAN
  /\ DOMAIN pending \subseteq NodeOf
  /\ \A n \in DOMAIN pending : pending[n] \in ValuesOf(n)
  /\ ~open => pending = [n \in {} |-> ""]
  /\ raw.device \in Serial \cup {""} /\ raw.config \in Config

SweeperTypeOK == SettingsTypeOK /\ shown \subseteq Waveform

\* The sweeper keeps an envelope that is disabled, but never one that was meant
\* for another device or was not in effect: every envelope a result or a vector
\* of frequencies comes from was shown by the nodes, enabled, since the device
\* was set.
EnvelopeWasShown == last.result.config.envelope \in shown \cup {"none"}

\* Every sweep is run on the device that the node shows, and every result is
\* one of that device, unless the device was set in a transaction that was
\* aborted or is still in progress.
SweepsOnShownDevice ==
  last.op \in {"run", "result", "vector"} /\ last.how = "returned" /\ ~astray =>
    last.result.device = values.device

=============================================================================
