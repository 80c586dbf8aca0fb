# Verification of zhinst-toolkit

TLA+ models of the driver logic of `zhinst-toolkit` (`src/src/zhinst/toolkit`),
model-checked with TLC and, for the most part, proved with TLAPS. All paths below are
relative to `src/src/zhinst/toolkit`. `PROJECT.json` maps every definition to
the lines it stands for.

The toolkit is a library: a user program calls it from one thread, and it talks
to a *data server*, which talks to the *devices*. There are no locks in the
toolkit. What makes it hard is on the other side of the calls: sets are
asynchronous, the data server's copy of a node lags behind the device, devices
come and go, a device switches itself off when it is done, cables are moved, an
exception may leave any block at any point, and `with` blocks of session,
device and library functions nest in any order.

## 1. Inventory

| Component | State | Operations | Interacts with | What is hard, and what makes it correct |
|---|---|---|---|---|
| **Session** (`session.py`: `Session`, `Devices`, `HF2Devices`) | the device dictionary, the session bundle `_multi_transaction` | `connect_device`, `disconnect_device`, `devices[...]`, `set_transaction` | starts and stops the transactions of all node trees; data server | devices appear, vanish and are replaced within a block; one of several starts fails. A block covers all devices, leaves nothing started, and applies its commands as one list or not at all |
| **Transaction** (`nodetree/nodetree.py`, `nodetree/helper.py`) | queue, callback | `start`, `stop`, `add`, `add_raw_list`, `NodeTree.set_transaction`, `create_or_append_set_transaction` | nodes put commands in, the session bundle gets a copy | a block joined to another must not outlive it; tree queue and bundle must agree |
| **Node** (`nodetree/node.py`) | none of its own | `_set`, `_set_deep`, `_get`, `_get_deep`, `_send_set_list`, `wait_for_state_change` | transaction of its tree, connection | waits: fresh values, one timeout for all leaves of a wildcard, no timeout for a node that has the state, termination |
| **Node tree** (`nodetree/nodetree.py`) | node dictionary, node info cache, first layer | path conversion, `get_node_info`, `update_node(s)` | nodes, connection | cached information that is stale after an update; an update of several that fails midway |
| **Acquisition units** (`driver/nodes/shfqa_scope.py`, `readout.py`, `spectroscopy.py`, `awg.py`) | in the device: enable, single | `run`, `stop`, `wait_done`, `enable_sequencer`, `configure*`, `read` | node, wait | asynchronous sets followed by a wait; a run that is over before it is asked for; being called in a transaction |
| **PQSC, QHub** (`driver/devices/quantum_system_hub.py`, `pqsc.py`, `qhub.py`) | in the device: enable, port status | `arm`, `run`, `arm_and_run`, `stop`, `wait_done`, `check_ref_clock`, `check_zsync_connection`, `find_zsync_worker_port` | node, wait, instruments | settings change only when stopped; one timeout for several inputs, of which some are looked up first |
| **Command table** (`command_table.py`, `driver/nodes/command_table_node.py`) | header, entries, their children, a validation flag in every object | reading creates, writing validates, `update`, `as_dict`, `is_valid`, `clear`, upload | JSON schema, node | flags are copied at creation; an update fails midway; what is only looked at must not be uploaded |
| **Waveforms, Sequence** (`waveform.py`, `sequence.py`) | slots; constants and waveforms of a sequence | set, assign, append, native conversion, `validate` | AWG node | slot gaps, lengths and markers; deferred compilation against changed waveforms |
| **Base instrument** (`driver/devices/base.py`) | node tree, options | `set_transaction`, `factory_reset`, firmware check | node tree, session | factory reset in a transaction only buffers and then reports success |
| **SHF, HDAWG, UHF instruments** (`driver/devices/*.py`) | none of their own | reference clock checks, QCCS mode, integration weights, session of channels | node, wait | three copies of the clock check with different fall-backs; a partly issued configuration |
| **Multistate** (`driver/nodes/multistate.py`) | none | configures discrimination from a settings list | external utility, transaction | its settings are sets in a joined block |
| **Modules** (`driver/modules/base_module.py`, `daq_module.py`, `impedance_module.py`, `device_settings_module.py`) | in the module: finished, progress | `execute`, `wait_done`, `load`, `save` | external module object | progress and finished are read one after the other; a module restarted meanwhile |
| **SHFQA sweeper, ConnectionDict** (`driver/modules/shfqa_sweeper.py`, `nodetree/connection_dict.py`) | settings in a dictionary behind a node tree | get, set, run, get_result | external sweeper | the settings must be transferred before each use; a device change replaces the sweeper |
| **Other modules, parsers, interface** | none | value conversions | - | stateless |

## 2. Plan

Order: what every other operation rests on first.

1. `SessionTransactions` with its abstract `SettingBlocks` and the refinement in
   `DisciplinedSession` - done, proved.
2. `StateWait` with its abstract `WaitPromise` and the refinement; `AcquisitionUnit`
   and `ZSyncPorts`, which use it - done, proved.
3. `CommandTable` - done, proved; its upload is in `InstrumentProcedures`. Reading
   a table back from the device is left.
4. `NodeTree`: cache, `update_node(s)`, path conversion to and from raw paths -
   done, proved, except for wildcards within a path.
5. `InstrumentProcedures`: factory reset, the clock checks, QCCS mode, upload of
   command tables - done, proved.
6. `AwgProgram`: waveforms, sequences, their compilation and their way into an
   AWG core or a generator, in a transaction or outside of one - done, proved.
7. `ModuleWait`: base and impedance modules, device settings - done, proved.
8. `SweeperSettings`: connection dictionary and transfer of settings - done,
   proved.

Left for later: multistate discrimination, the `configure` and `read` functions
of the acquisition units, `load_from_device` of the command table, wildcards.
An abstract specification worth adding beside `SettingBlocks` and `WaitPromise`:
the command table as a plain function from indices to entries. Theorems left: that
the waits of `ZSyncPorts` and `InstrumentProcedures` are steps of `WaitPromise`,
which so far is by construction only.

## 3. Modules

### SessionTransactions
State: the devices the data server is connected to, `Devices._devices`, the
number of device objects created, which transactions are started
(`Transaction._queue is not None`), their queues, which trees forward to the
session bundle (`_add_callback`), the stack of `with` blocks the program is in,
and the lists the data server has applied. `Multi` is the bundle, `Root` the
tree of the session itself (`/zi`), 1, 2, ... the device objects.

Actions: a lookup in `session.devices` (which may create an object, or find
that the device is gone and drop it), `connect_device`, `disconnect_device` with
the serial in either case, another client connecting or disconnecting; a set or
a settings list on any object ever handed out; entering, leaving and aborting a
session block, a tree block, a joined block, and the session block that is
refused because a tree has a transaction of its own. An abort may be followed by
anything: the program may catch the exception. A set command is an issue number;
its path and value are not told apart by any property.

### SettingBlocks, DisciplinedSession
`SettingBlocks` is what the docstrings of `set_transaction` promise: commands of
a block are held back in order; when the block ends normally they are applied as
one list, or refused as one by the data server, which the program is told; when
the program raises within the block none of them is applied. How the last command
or block ended is a variable of both (`ending`, and `ended` of
`SessionTransactions`), so that the refinement tells these ends apart.
`DisciplinedSession` is a program that keeps four rules (in the head of the
module), each of which avoids one way in which the code does otherwise, and
shows that it then implements `SettingBlocks`. The mapping: a session block
covers every tree and holds the queue of the bundle, a tree block covers its
tree and holds its queue, a joined block covers nothing.

### SessionDocClaims
A statement of a docstring that the code does not keep: that a session block
bundles all set commands, settings lists included (section 6).

### StateWait
`Node.wait_for_state_change`, one step for each read, comparison and look at the
clock, over the leaves of a path. `actual` are the values in the device, `copy`
those of the data server; a deep get reads the first and refreshes the second.
Time is what is left of a timeout, in ticks; `Tick` may come between any two
steps. `held` is a history variable: the values each node has had since the deep
get its wait begins with.

### WaitPromise
What the callers of `wait_for_state_change` rely on, as an abstract
specification: a node is asked for, is reached once it has been in the state
since, and the call gives up when its time is over and the current node has been
out of the state since. `StateWait` implements it (`ImplementsWaitPromise`): to
the caller the call is between two nodes until the answer to the deep get is
there, and waiting until the comparison succeeds or the clock has run out. All
other steps of the loop, and the copies of the data server, are invisible.
`ZSyncPorts` and `InstrumentProcedures` have waits of this kind, for one node
each. A state that does not last may be missed, so that a wait may time out on a
node that was connected for a moment; both contain that.

### AcquisitionUnit
Extends `StateWait` with node 1 as the enable node of a unit: scope, readout,
spectroscopy, AWG core, PQSC or QHub. An operation is a list of set commands and
maybe a wait. Commands travel in order (`cmds`), or stay in `buffered` while the
device has a transaction in progress. `Take`, `Done` and `CopiesFollow` are the
device. A unit may refuse an enable, and may obey a disable only when it is done,
or never; the hubs obey it at once (`Obeys`). `told` is a history variable: what
the last enable or disable that arrived told the unit to be.

### ZSyncPorts
`check_zsync_connection` over a list of ports and instruments (`CheckConnection`),
`find_zsync_worker_port` in steps (clock, list of serials, sleep), and
`_check_zsync_connection`, a wait of `WaitPromise` (`AwaitLink`, `WaitForLink`;
`shown` is what the port has been since). Cables are plugged and links come up
and fail meanwhile.

### CommandTable
The header, the entries by number, their children and attributes, and the
validation flag each object has got at its creation. A value is reduced to
whether its schema accepts it. `update` is a sequence of steps, one for each
attribute of the JSON document, any of which may raise. A document is any
sequence of items, which may write to a place more than once; that the items
have the parts the code takes from them is `DocumentAssumption`. An object the program
keeps from before a `clear` or a delete is not modelled: what is written to it
is no longer part of the table. `fresh` is a history variable: the entries created
since `active_validation` was switched, which are the ones it is in effect for.

### NodeTree
The dictionary of the nodes, the prefixes that are not hidden, the first layer,
and the cache of node information. Paths are sequences of elements; that the
text of one element begins with that of another (`1` and `10`) is a constant
relation, since `is_child_node` compares text. `update_nodes` takes one node per
step, so that the cache is also seen between the nodes of an update that fails.
On the way back to a raw path every element loses the underscores at its end
(`Strip`), those of an escaped keyword as well as those that it has itself; a node
with one of the latter is `Stripped`, and is not found by its path.
The order and the repetitions of the two lists of prefixes are left out, and so
is what a `Node` object remembers for itself.

### InstrumentProcedures
`factory_reset`, three versions of `check_ref_clock` (hubs, SHF, HDAWG; the kind of
the instrument is chosen at the beginning), `enable_qccs_mode` of HDAWG and UHFQA,
and `upload_to_device` of a command table with its status check. A clock check reads
the source in use and the source set one after the other. `enable_qccs_mode` joins a
transaction or has its own (`own`), makes one setting a step, and may fail at any of
them. A raw table that is validated is uploaded by a second call, which checks the
status by default (`Looks`). State: the nodes of the device these look at, the copies
of those that are read without `deep`, commands on their way and in a
transaction, the procedure in progress with its next step and what is left of
its timeout. Its waits are those of `WaitPromise`. The
device executes commands, loads a preset, loses and gets a lock and falls back
to the other clock by itself. `held` and `since` are history variables.

### AwgProgram
A `Waveforms` object, a `Sequence`, and a device with an AWG core and a
generator. A waveform is reduced to the kinds, lengths and marker channels of
its parts, code to the constants its lines declare and the waveforms it defines
itself. Actions: assigning, deleting and taking over slots, loading a program
(which compiles the waveforms as they are then), `validate`, writing and reading
the memory of the core and of the generator, and a transaction around them that
ends normally or not. The compiler is external: it rounds lengths up, fills gaps
and puts the waveforms of the code last, as `validate` and
`read_from_waveform_memory` expect. `AwgAssumption` says what parts a waveform and
a line of code have; a dictionary of constants has a key once. Which waveforms and
which code there are is a constant, the slots are `0..MaxSlot`.

### ModuleWait
`BaseModule.wait_done`, `ImpedanceModule.wait_done` for a step or for all, and
the load of device settings, one step for each node that is read. The module is
started, stopped, advances and begins anew at any time. A load has a module of its
own (`jobs`), which writes the settings of a device and finishes when it will,
whether it has written them or not; the call waits for `finished` only. A load that
timed out goes on (`overdue`). `since` is a history variable: what has been true
of the module in the call.

### SweeperSettings
`ConnectionDict` with the device, one setting of each way in which settings are
handed over (a mode with a parser, a waveform passed only when enabled), the
transaction of the module's node tree, and the sweeper object with its device,
configuration and last result. Actions: set, transaction, `run`, `get_result`,
`get_offset_freq_vector`, and `actual` settings that are read back; and what is
refused without a device or a result. Setting the device replaces the sweeper at
once, through the set parser of its node, also in a transaction. `shown` is a
history variable: the envelopes that the nodes have shown, enabled, since the device
was set.

## 4. Runs

Bounds are constants in the `.cfg` files, named `Max...`.

| Run | What it shows | Bounds, and why they are enough |
|---|---|---|
| `transactions` | open blocks keep their transactions; session blocks cover all devices, also those created within; bundle and tree queues agree; nothing is applied twice or out of order | 2 serials, 2 objects (one replaced, or both in use), 2 commands (an order), 3 nested blocks (session, tree and a joined one) |
| `transactions_ruled` | a program that keeps the rules gets the promised blocks: applied as one list or refused as one when they end, not applied when the program raises; nothing is left started | the same with 2 nested blocks; session within tree, tree within session and joined blocks occur |
| `session_drops_lists` | a docstring the code does not keep: a settings list within a session block is dropped (section 6) | as `transactions_ruled` |
| `state_wait` | returns are fresh, a node that has the state never times out, the timeout is shared, every call ends; the loop is one wait to its callers | 2 nodes (a first and a next), 2 values of which one has a name, timeout 0 to 2 |
| `acquisition` | `wait_done` and `stop` mean off, `run` and `enable_sequencer` mean started, `stop` times out only on a unit that was on after the disable had arrived, settings change only while stopped | 3 calls (run, wait, run again; or with a transaction in between), timeout 0 and 1 |
| `zsync` | a return means connected, the timeout is shared, every call ends | 2 ports, 1 instrument, 2 inputs, 3 changes of cable or link (out, in elsewhere, up), timeout 0 to 2 |
| `command_table` | an entry created since the table validates holds nothing invalid; a validated update is whole; an update arrives; reading leaves no trace | 2 indices of which one is out of range, 2 attributes of which one is required; documents with every kind of fault, and with two values for one place |
| `node_tree` | cached information is current, every node that is neither shadowed nor has an element ending in an underscore is found, a lenient update reaches all nodes | 6 paths (hidden, not hidden, keyword, ending in an underscore, shadowing), 3 node updates in lists of up to 2, with a wildcard, adding or not |
| `awg_program` | what is written is read back in its slot, constants arrive, validated waveforms fit the program, a write is whole or nothing | 2 slots and code with a waveform of its own (a gap with its filler, one program waveform more than slots), lengths 0 to 3 with granularity 2 (empty, rounded, exact), complex waves and markers on either channel, a generator of 1 slot, 5 calls |
| `procedures` | a reset that returns was a reset; a reported lock was one; a fall back leaves the internal clock; a steady lock is kept; QCCS settings go out as a whole, or not at all when one of them fails | 2 channels, timeout 0 and 1, 3 calls (one inside a transaction, one after it), 2 changes the device makes by itself (lost and found again) |
| `module_wait` | `wait_done` and a compensation step report only what was so in the call; loads do not outlast their calls unless one timed out; every call ends | 2 steps (one done, one not), 2 devices (a load that timed out and the next, on either), timeout 0 to 2, 3 starts or stops, 2 calls |
| `sweeper` | a sweep runs on the device the nodes show, and with no envelope they have not shown for it | 2 devices, 2 waveforms, no bound on the calls |

`PROJECT.json` has, for every property of these runs, a mutant of the code that
violates it; the mutants stand in the modules before the operator they replace.
Deadlock is checked in all runs: a program can always make another call or, at
the bounds of the counters, another client, the device or a tick still moves. In
`InstrumentProcedures` and `ModuleWait`, where the calls are bounded, a program
that has made its last one may rest (`Terminated`); any other state without a
successor would be reported.

## 5. Proofs

Every proof is for any values of the constants that satisfy the assumption of
the module (bounds are natural numbers, sets are what their names say), so none
of the bounds of section 4 matters to it.

`DisciplinedSession_proof`, first part (any program), from `SessionAssumption`:
`TypeCorrect`, `IndInvHolds`, `BlocksKeepTheirTransactionHolds`,
`SessionBlockCoversDevicesHolds`, `BundleMirrorsTreesHolds`, for both kinds of data
server. The inductive invariant `IndInv` has three parts beside types. Transactions
are well formed: only handed-out objects are started, only started trees forward, no
tree of the session forwards without a bundle, and a queue that is not started is
empty. Blocks nest: a session block was entered while none of its trees was in a
block, and a tree block while its own tree was in none. And every open block still
has its transaction. The last alone is not inductive: the end of a session block
stops all trees of the session, and it takes the nesting to know that no block
outside of it relied on one of them. On top of it, `OrderInv` (`OrderInvHolds`)
gives `AppliedOnceInOrderHolds`: every list is ascending in the order of issue; the
queues that may still be sent have no command in common with each other or with a
list already applied. A command is in two queues while its tree forwards to the
bundle, which is why only queues that may be sent are compared; that the queue of a
forwarding tree is never sent is what the nesting of blocks is needed for.

Its second part (a program that keeps the rules): a step under the rules is a step of
`SessionTransactions`, so the invariants above hold. `DisciplineHolds` adds that
a session block has all its trees started and forwarding, and that whatever is
started belongs to an open block. With it `NothingLeftStartedHolds`, and
`ImplementsSettingBlocksHolds`, the refinement: initial states map to initial
states, entering a block maps to opening one, its normal end to `CommitBlock` or, if
the data server refuses the list, `RefuseBlock`, an abort to `AbortBlock`, which
applies nothing, a set maps to an abstract issue (held back in the innermost block
that covers its tree, or applied at once), and everything that devices do maps
to a stutter.

`StateWait_proof`, from `WaitAssumption`: `IndInvHolds`, `ReturnIsFreshHolds`,
`SteadyNodeHolds`, `TimeoutIsSharedHolds`, for any number of nodes, any values
and any timeout. The invariant says what the thread knows: the value read last
and the copy in the data server are values the node has had since its wait
began, because the wait begins with a deep get; what is left for a node is what
is left for the call; nodes before the one in turn have had the state. With it
`ImplementsWaitPromiseHolds`, the refinement: a deep get is the step that begins
to wait, a comparison that succeeds the step that reaches the node (the value read
is one of `held`), a look at the clock that ends the loop the step that gives up
(the time of the call is over, and the value read last is out of the state), and
everything else is a stutter.

`AcquisitionUnit_proof`, from `UnitAssumption`: `DoneMeansOffHolds`,
`RunMeansStartedHolds`, `StopTimesOutOnlyWhenOnHolds` from the invariant `UnitIndInv`
(`UnitIndInvHolds`), and `ConfiguredWhenStoppedHolds` from `Configuring`
(`ConfiguringHolds`). `UnitIndInv` connects what is on its way with what was
read: once the deep get of a wait was answered no command is under way, so a
unit that was read as off cannot come on again; the last command under way of a
`stop` is the disable, and once that has arrived the unit has been told to be off
and what the loop reads is what it has been since (`Stopping`, `Reads`); that of
`enable_sequencer` is the enable the answer is for.
`Configuring` says of the commands on their way followed by those still to be
issued (or, in a transaction, of the buffered ones followed by those) that each
setting has a disable before it and no enable between; it must hold of the
concatenation, since settings are issued after their disable has left.

`Instruments_proof`, first part, from `ZSyncAssumption`: `PortsInvHolds`,
`ConnectedMeansSeenHolds`, `TimeoutIsSharedHolds`. The invariant notes what every
port has been since the call began, ties the port that is waited for to the
instrument it was found for, and keeps the time left for a step equal to that of the
call.

Its second part, from `ProcedureAssumption`: `ProceduresTypeOK`,
`ResetMeansResetHolds`, `LockReportedHolds`, `FallbackIsInternalHolds`,
`SteadyLockIsKeptHolds`, `QccsIsWholeHolds`. The reset rests on the load being the
last command under way, or taken already, until the deep answer to it is there
(`ResetProgress`, `LoadTaken`); the clock checks on the copies that are read having
been refreshed by the wait before them (`LockSeen`, `SteadyIsRead`); the fall back
on the answer to its deep set (`FellBack`). A QCCS mode has an invariant of its own
(`ModeInv`): a transaction of its own is in progress exactly from its first step to
its last, nothing else is in it, and what it holds are the settings made so far, in
their order (`ModeProgress`).

`Modules_proof`, first part, from `ModuleAssumption`: `DoneIsReportedHolds`,
`StepIsReportedHolds`, `LoadsAreSynchronousHolds`. The invariant has that the present
state of the module is noted (`Watched`), and what the end of the loop tells
about it (`LoopHasEnded`): the looks after the loop may come to another result
only because the module began anew. Unless a load has timed out the only module at
work is the one that is waited for (`LoadsInTurn`); an earlier call has returned only
once its module had finished.

Its second part, from `SweeperAssumption`: `SweeperTypeCorrect`,
`EnvelopeWasShownHolds` from `EnvelopeInv`, and `SweepsOnShownDeviceHolds` from
`SweeperIndInv` (`SweeperIndInvHolds`). The envelopes that the sweeper and its last
result keep are of those shown since the sweeper was made. The device held back in a
transaction is that of the sweeper, and a result is one of the sweeper's device.

`CommandTable_proof`, from `SchemaAssumption` and `DocumentAssumption`, for any
schema and documents of any length: `ActiveEntries`, `ValidatedUpdate`,
`UpdateArriving` and `ReadingIsInvisible`, from `TableInv` (`TableInvariance`),
which has three parts beside types, and `FreshInv` (`FreshInvariance`): while the
table validates, every entry created since it was switched validates. `Guarded`: a
child of an entry that validates validates too and holds nothing invalid; that such
a child alone holds nothing invalid, as the property says it, is not inductive,
because a child gets its flag when it is created, from the entry, and not from the
table. `Remaining`: what is left of an update is header items, the step to the
table, then table items, and a validated one that found its table active keeps it
so. `Arrived`: the writes of the document are those done followed by those to do,
and every place holds the last value written to it so far; the property itself says
nothing before the end.

`NodeTree_proof`, from `NodeTreeAssumption`, for any paths, keywords, escapes and
lists of nodes: `InfoStaysCurrent`, `PathsRoundTrip`, `LenientReaching` from
`NodeTreeInv` (`NodeTreeInvariance`). The prefixes that are kept are exactly those
of the nodes, which the way back from a Node to its path relies on (`WayBack`, with
`StripEscape`: the escape of a keyword comes off again, and an element that does not
end in an underscore is left as it is). What
is cached describes the tree as it is (`Describes`), because the cache is emptied by
every update of a node and nothing else changes the tree; two Nodes that are equal
share an entry, which is sound since their paths are (`KeyIsSamePath`, from
`StripTwice`). A call in progress has reached its first m nodes, for the m that are
no longer to do (`ReachedUpTo`), and a node that was not found stays unknown within
the call because only a call that may add has new nodes, and that call does not go
on past one it cannot add.

`AwgProgram_proof`, from `AwgAssumption`, for any waveforms, code, dictionaries of
constants and granularity, and any number of slots and calls: `AwgInvariance`,
`AwgTypes`, `WrittenIsReadBack`, `ConstantsAreDeclared`, `ValidatedFits`,
`NothingHalfDone`. The inductive invariant `AwgInv` has types that are exact
(`TypeInv`): a stored waveform is up to three arrays of one length, a command on its
way is one of four kinds, and the memory of the device has just the slots its
program plays; and `Fits`: waveforms that passed `validate` have the lengths of the
program in the device. `Fits` is what `ValidatedFits` needs: a write into a slot that
the program has is of the length it was validated for, and `Issue` drops one for any
other. That a transaction ends sets `validated` back, since a program may have
been loaded in it, is what keeps `Fits`. For `WrittenIsReadBack` the program of the
device is a compilation (`CompileFacts`: where a slot of the waveforms is, with
which length and channels), and dealing out what `RawVector` interleaved gives the
same parts again (`NativeOfRaw`). For `NothingHalfDone` what a list of commands
does is found by going through it (`PulsesReplaced`, `WavesExecuted`), and for
`ConstantsAreDeclared` likewise through the constants (`TextDeclares`): each is
declared with its own value when it was inserted, and inserting another one, which
has another key, leaves that so.

These two loops, `ExecutedAll` and `SequenceText`, are recursive functions in the
model. The induction theorems of the library take an operator, which the provers
cannot instantiate; the proof has its own form of it over the set of the steps
at which something holds (`Loop`, from the least element of a set of numbers), and
shows that the functions exist (`ExecutionsExist`, `InsertionsExist`) and what
each of their steps does (`ExecutedAllSteps`, `SequenceTextSteps`).

Only model-checked: liveness (`CallEnds`, three times), which the prover does
not reach. Every other property of the passing runs is a theorem.

**Fairness.** `FairSpec` of `StateWait` and `ModuleWait`, and `PortsFairSpec` of
`ZSyncPorts`, have weak fairness of the steps of the calling thread (it is in a
loop that blocks on nothing but `time.sleep` and an answered request) and of the
tick (the monotonic clock goes on). Nothing is assumed of the device, the data
server, the cables or the module.

**External behaviour assumed.** The data server hands sets to a device in the
order in which they were issued; a deep get and a deep set are answered after
all that was issued before; the copy of a value follows at some time, or not; a
unit may refuse an enable, and obeys a disable at once, when it is done, or not at
all, a PQSC or QHub at once. A module that loads settings finishes at some time or
not, whether or not it has loaded them; which steps a compensation has
(`expectedstatus`) is fixed. A device that loads a preset is
busy from when it takes the command on, and one that is given another clock is
not locked until it has locked anew. An HF2 data server does not list its
devices. A module has finished or not, and a progress that grows while it runs.
A sweeper object keeps the configuration it was given last. The compiler as
described under `AwgProgram`. With `zhinst.core` from 25.04 on a set blocks until
the device has the value (`CHANGELOG.md`, version 1.0.0); in the models it arrives
at once or later, so that what is shown holds with and without that.

## 6. Where code and documentation disagree

| Run | What happens |
|---|---|
| `session_drops_lists` | Within a session block a function that uses `_send_set_list` (`configure` of scope, readout and spectroscopy, and others) puts its settings into the queue of the device tree, but `add_raw_list` does not call the callback that copies them to the bundle (`nodetree.py:139`). At the end of the block the bundle is sent and the queues of the trees are thrown away: the settings are dropped. The docstring says that the block "bundles all node set commands into a single transaction" (`session.py:1072-1073`), and that of `_send_set_list` that the settings "will be put into it" (`node.py:1162-1163`). Rule 3 of `DisciplinedSession` avoids it. |

More that the models contain, in the modules named; the properties except these
cases or claim nothing of them.

*Session and transactions.* A session block starts the bundle, then the devices one
after the other, then `/zi`, all before its `try` (`session.py:1092-1095`). If a
device has a transaction of its own it refuses, and the exception leaves the bundle
and the devices before it in progress (rule 1 of `DisciplinedSession`). A device
object dropped from `session.devices` within a session block goes on buffering after
it (rule 2). An HF2 device connected within a session block is not part of it (rule
4).

*Waits and units.* A wait for an enumeration value by name that times out while the
node has a value without a name raises `AttributeError` instead of `TimeoutError`
(`Failure`). `scope.run(single=True)` with a short recording is over before the
state is asked for, and raises `TimeoutError` although the scope did start.
`enable_sequencer` in a transaction raises, and the enable is executed when the
transaction ends. A cable that is moved after its port was looked up is not noticed:
the wait goes on for that port. `find_zsync_worker_port` with no time left reports
an instrument as not connected without having asked.

*Procedures.* `factory_reset` in a transaction only buffers the load, and then
reports by the error of an earlier one. Copies of `source` and `actual source`
that are older than the lock can make a good lock look like one to the other
clock, which is then given up. An invalid generation in `enable_qccs_mode` called
in a transaction leaves the mode setting in it. The status check after an
asynchronous upload of a command table reads a status that may be older. A raw table
uploaded with `validate` is checked although `check_upload` is off, and twice when it
is on (`command_table_node.py:115-118`).

*Command table and node tree.* `as_dict` with active validation off validates
nothing, although the docstring has a `ValidationError` there (the tests rely on the
code). Switching `active_validation` does not reach the entries there are, in
neither direction: those from before go on refusing invalid values, or accepting
them, against the docstring of the class (`fresh`). A node with an element that ends
in an underscore is not found by its path, since `node_to_raw_path` strips it
(`Stripped`). `is_child_node` compares text, so `demods/10` is a child of
`demods/1`; if the latter does not exist it counts as a partial node. A node added
under a prefix that has the name of the first element of hidden nodes puts these out
of reach (`Shadowed`).

*Waveforms.* A list as second wave of a pair raises `AttributeError` instead of
`RuntimeError`. An empty complex wave is declared with two channels and uploaded
as one real zero. Markers with bits of the second channel only, or with none, do
not fit the descriptor that is read back. An empty list of indexes uploads, or
reads, all. Reading a generator renumbers its slots. A write that joined a
transaction leaves in it the waveforms before the one that could not be
converted. Of two constants declared in one line the second is lost when the
first is replaced.

*Modules and sweeper.* `wait_done` of an impedance module raises `TimeoutError`
at once when nothing is calibrated and the progress is not complete, even if the
step is done. The device of the sweeper set in a transaction that is aborted
leaves node and sweeper apart (`astray`). An envelope that is disabled is not
passed on, so the sweeper keeps the one it has. A result obtained before the
device was set is gone.

## 7. Not modelled

- **Multistate discrimination** builds settings lists with an external utility
  and adds them one by one to a transaction that it joins or makes; as commands they
  are the sets of `SessionTransactions` in a joined block, and it has no state of its
  own.
- **Acquisition units**: the `configure` functions (settings lists in a
  transaction, as above) and the `read` functions (reads of one node and a
  conversion by an external utility).
- **Integration weights, deskew, averages** of SHFQA and UHFQA: lists of sets
  without a wait or a read in between.
- **Command table**: `load_from_device` parses what the device has. An entry the
  program keeps from before a `clear` is no longer part of the table.
- **Node tree**: wildcards within a path, dynamic nodes, and what a `Node` object
  remembers of itself (`is_valid`, its next layer): the toolkit makes a new object
  for every access, so only a program that keeps one sees it.
- **Session**: creation and removal of the connection, `sync`, `poll`,
  subscription; calls into the external connection object without state of their
  own.
- **What the data server knows right after a transaction**: `AWG.wait_done` reads
  the mode from it, and the models have both outcomes without a claim.
- **Parsers** and the register parsers of the other modules are stateless;
  firmware and option checks happen once, before anything else.
- Value formatting, node documentation, logging and plotting; the inside of the
  external utilities for waveforms, weights and sweeps.
