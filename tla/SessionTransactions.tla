------------------------ MODULE SessionTransactions ------------------------
(***************************************************************************)
(* The set transactions of a data server session: Session, Devices and     *)
(* HF2Devices (session.py), Transaction and NodeTree.set_transaction       *)
(* (nodetree/nodetree.py), the routing of a set in Node (nodetree/node.py) *)
(* and create_or_append_set_transaction (nodetree/helper.py).              *)
(*                                                                         *)
(* A user program calls these operations one at a time.  It opens and      *)
(* closes "with" blocks in nested order, keeps every device object it was  *)
(* ever given, and may catch an exception at any level, so that an aborted *)
(* block is followed by anything.  Other clients of the same data server   *)
(* connect and disconnect devices at any time.                             *)
(*                                                                         *)
(* Device objects are numbered in the order in which they are created.     *)
(* Device dictionary insertions always insert a fresh object, so iterating *)
(* over the dictionary visits the objects in ascending order.              *)
(***************************************************************************)
EXTENDS Integers, Sequences, FiniteSets

CONSTANTS
  Serial,     \* serials of the devices the data server can connect to
  HF2,        \* TRUE for an HF2 data server, which cannot list its devices
  MaxObject,  \* bound: device objects created in one behaviour
  MaxSet,     \* bound: set commands issued in one behaviour
  MaxDepth    \* bound: with blocks open at a time

ASSUME SessionAssumption ==
  /\ HF2 \in BOOLEAN
  /\ MaxObject \in Nat
  /\ MaxSet \in Nat
  /\ MaxDepth \in Nat

Multi  == -1              \* Session._multi_transaction
Root   == 0               \* the node tree of the session itself (/zi)
Object == 1..MaxObject    \* device objects, each with a node tree
Tree   == {Root} \cup Object
Tx     == {Multi} \cup Tree

\* A buffered (path, value) pair, or a settings list given to
\* _send_set_list: the issue number stands for path and value.
Entry == [id : Nat, tree : Tree, list : BOOLEAN]

Block == [kind : {"session", "tree", "join"}, tree : Tree]

VARIABLES
  connected,  \* serials connected to the data server
  devs,       \* Devices._devices: serial -> device object
  made,       \* number of device objects created so far
  started,    \* transactions whose _queue is not None
  queue,      \* Transaction._queue (empty when not started)
  forward,    \* trees whose _add_callback is multi_transaction.add
  blocks,     \* the with blocks the program is in, innermost last
  issued,     \* number of set commands issued so far
  server,     \* the lists of settings the data server applied, in order
  ended       \* how the last set command, or the last block, ended for the
              \* program: done, refused by the data server, or raised within

vars == <<connected, devs, made, started, queue, forward, blocks, issued,
          server, ended>>
txVars   == <<started, queue, forward>>
devVars  == <<connected, devs, made>>

Endings == {"none", "done", "refused", "raised"}

Created  == {devs[s] : s \in DOMAIN devs}
Handle   == {Root} \cup 1..made

TypeOK ==
  /\ connected \subseteq Serial
  /\ made \in 0..MaxObject
  /\ DOMAIN devs \subseteq Serial /\ devs \in [DOMAIN devs -> 1..made]
  /\ started \subseteq Tx
  /\ queue \in [Tx -> Seq(Entry)]
  /\ forward \subseteq Tree
  /\ blocks \in Seq(Block)
  /\ issued \in 0..MaxSet
  /\ server \in Seq(Seq(Entry))
  /\ ended \in Endings

Init ==
  /\ connected \in SUBSET Serial
  /\ devs = [s \in {} |-> 0]
  /\ made = 0
  /\ started = {}
  /\ queue = [x \in Tx |-> <<>>]
  /\ forward = {}
  /\ blocks = <<>>
  /\ issued = 0
  /\ server = <<>>
  /\ ended = "none"

-----------------------------------------------------------------------------
(* Transaction objects *)

Start(T, callbacks) ==
  /\ started' = started \cup T
  /\ queue' = [x \in Tx |-> IF x \in T THEN <<>> ELSE queue[x]]
  /\ forward' = (forward \ T) \cup callbacks

Stop(T) ==
  /\ started' = started \ T
  /\ queue' = [x \in Tx |-> IF x \in T THEN <<>> ELSE queue[x]]
  /\ forward' = forward \ T

\* Mutant of AddTargets: the callback is not called.
AddTargetsOwnOnly(t) == {t}

\* Transaction.add of tree t: the own queue first, then the callback.  When
\* the multi transaction has been stopped the callback raises, after the
\* append to the own queue.
AddTargets(t) == {t} \cup (IF t \in forward THEN {Multi} \cap started ELSE {})

\* Transaction.add_raw_list of tree t: the own queue only.
AddListTargets(t) == {t}

Buffer(T, e) ==
  /\ queue' = [x \in Tx |-> IF x \in T THEN Append(queue[x], e) ELSE queue[x]]
  /\ UNCHANGED <<started, forward>>

\* A list of settings handed to the connection is applied, or the call
\* raises and applies nothing.  An empty list changes no setting.
Applied(list) == IF list = <<>> THEN server ELSE Append(server, list)

Send(list) ==
  \/ server' = Applied(list) /\ ended' = "done"
  \/ server' = server /\ ended' = "refused"

-----------------------------------------------------------------------------
(* Devices *)

\* Devices.connected(): asked from the data server, or the own dictionary
\* for an HF2 data server.
Reported == IF HF2 THEN DOMAIN devs ELSE connected

Without(f, s) == [x \in DOMAIN f \ {s} |-> f[x]]

AddDevice(s, inTransaction) ==
  /\ made < MaxObject
  /\ made' = made + 1
  /\ devs' = [x \in DOMAIN devs \cup {s} |->
                IF x = s THEN made + 1 ELSE devs[x]]
  /\ IF inTransaction THEN Start({made + 1}, {made + 1})
                      ELSE UNCHANGED txVars

\* Mutant of GetItem: a new device does not join the session transaction.
GetItemUnstarted(s) ==
  \/ /\ s \in Reported \cap DOMAIN devs
     /\ UNCHANGED <<devs, made, txVars>>
  \/ /\ s \in Reported \ DOMAIN devs
     /\ AddDevice(s, FALSE)
  \/ /\ s \notin Reported
     /\ devs' = Without(devs, s)
     /\ UNCHANGED <<made, txVars>>

\* Devices.__getitem__.  (When _create_device raises nothing changes.)
GetItem(s) ==
  \/ /\ s \in Reported \cap DOMAIN devs
     /\ UNCHANGED <<devs, made, txVars>>
  \/ /\ s \in Reported \ DOMAIN devs
     /\ AddDevice(s, Multi \in started)
  \/ /\ s \notin Reported
     /\ devs' = Without(devs, s)
     /\ UNCHANGED <<made, txVars>>

Lookup(s) ==
  /\ GetItem(s)
  /\ UNCHANGED <<connected, blocks, issued, server, ended>>

\* Session.connect_device.  "serial not in self._devices" runs __getitem__,
\* which drops the object of a device that is no longer connected.
ConnectDevice(s) ==
  /\ \/ /\ s \in Reported
        /\ GetItem(s)
        /\ UNCHANGED connected
     \/ /\ s \notin Reported
        /\ connected' = connected \cup {s}
        /\ AddDevice(s, ~HF2 /\ Multi \in started)
     \/ /\ s \notin Reported            \* connectDevice raises
        /\ devs' = Without(devs, s)
        /\ UNCHANGED <<connected, made, txVars>>
  /\ UNCHANGED <<blocks, issued, server, ended>>

\* Session.disconnect_device.  MutableMapping.pop looks the device up, which
\* ignores case, and deletes the key as it was spelled, which does not.  An
\* object that the lookup creates and the deletion drops reaches nobody.
\* The data server may still report the device for a while.
DisconnectDevice(s, lowerCase) ==
  /\ IF lowerCase THEN /\ devs' = Without(devs, s)
                       /\ UNCHANGED <<made, txVars>>
                  ELSE GetItem(s)
  /\ connected' \in {connected, connected \ {s}}
  /\ UNCHANGED <<blocks, issued, server, ended>>

\* Another client of the data server.
OtherClient(s) ==
  /\ connected' \in {connected \cup {s}, connected \ {s}}
  /\ connected' # connected
  /\ UNCHANGED <<devs, made, txVars, blocks, issued, server, ended>>

-----------------------------------------------------------------------------
(* Set commands *)

NewEntry(t, isList) == [id |-> issued + 1, tree |-> t, list |-> isList]

\* Node._set on a writable node of tree t.
SetNode(t) ==
  /\ issued < MaxSet
  /\ issued' = issued + 1
  /\ IF t \in started
       THEN /\ Buffer(AddTargets(t), NewEntry(t, FALSE))
            /\ ended' = "done" /\ UNCHANGED server
       ELSE /\ Send(<<NewEntry(t, FALSE)>>)
            /\ UNCHANGED txVars
  /\ UNCHANGED <<devVars, blocks>>

\* Mutant of SendSetList: the same for a settings list.
SendSetListAlsoSends(t) ==
  /\ t # Root
  /\ issued < MaxSet
  /\ issued' = issued + 1
  /\ IF t \in started THEN Buffer(AddListTargets(t), NewEntry(t, TRUE))
                      ELSE UNCHANGED txVars
  /\ Send(<<NewEntry(t, TRUE)>>)
  /\ UNCHANGED <<devVars, blocks>>

\* Node._send_set_list on a node of tree t: only device nodes call it.
SendSetList(t) ==
  /\ t # Root
  /\ issued < MaxSet
  /\ issued' = issued + 1
  /\ IF t \in started
       THEN /\ Buffer(AddListTargets(t), NewEntry(t, TRUE))
            /\ ended' = "done" /\ UNCHANGED server
       ELSE /\ Send(<<NewEntry(t, TRUE)>>)
            /\ UNCHANGED txVars
  /\ UNCHANGED <<devVars, blocks>>

-----------------------------------------------------------------------------
(* with blocks *)

Enter(kind, t) ==
  /\ Len(blocks) < MaxDepth
  /\ blocks' = Append(blocks, [kind |-> kind, tree |-> t])

Innermost(kind) == blocks # <<>> /\ blocks[Len(blocks)].kind = kind

Leave == blocks' = SubSeq(blocks, 1, Len(blocks) - 1)

\* Trees that Session.set_transaction starts and stops.
SessionTrees == Created \cup {Root}

\* Mutant of BeginSession: a tree with a transaction of its own is restarted.
BeginSessionAnyway ==
  /\ Multi \notin started
  /\ Start({Multi} \cup SessionTrees, SessionTrees)
  /\ Enter("session", Root)
  /\ UNCHANGED <<devVars, issued, server, ended>>

\* Session.set_transaction up to the yield.  (When the multi transaction is
\* in progress its start raises before anything changes.)
BeginSession ==
  /\ Multi \notin started
  /\ SessionTrees \cap started = {}
  /\ Start({Multi} \cup SessionTrees, SessionTrees)
  /\ Enter("session", Root)
  /\ UNCHANGED <<devVars, issued, server, ended>>

\* The same when a tree already has a transaction of its own: its start
\* raises, after the multi transaction and the devices before it have been
\* started, and outside of the try block whose finally stops them.
EarlierThan(busy) == {o \in Created : \A b \in busy \ {Root} : o < b}

BeginSessionRefused ==
  /\ Multi \notin started
  /\ LET busy == SessionTrees \cap started
     IN  /\ busy # {}
         /\ Start({Multi} \cup EarlierThan(busy), EarlierThan(busy))
  /\ UNCHANGED <<devVars, blocks, issued, server, ended>>

\* Normal end of the block: the bundle is sent, then the finally clause.
CommitSession ==
  /\ Innermost("session")
  /\ Send(queue[Multi])
  /\ Stop({Multi} \cup SessionTrees)
  /\ Leave
  /\ UNCHANGED <<devVars, issued>>

\* Mutant of AbortSession: no finally clause.
AbortSessionUnstopped ==
  /\ Innermost("session")
  /\ ended' = "raised"
  /\ Leave
  /\ UNCHANGED <<devVars, txVars, issued, server>>

\* Mutant of AbortSession: the bundle is sent in the finally clause.
AbortSessionSends ==
  /\ Innermost("session")
  /\ server' = Applied(queue[Multi]) /\ ended' = "raised"
  /\ Stop({Multi} \cup SessionTrees)
  /\ Leave
  /\ UNCHANGED <<devVars, issued>>

\* The block raises: the finally clause only.
AbortSession ==
  /\ Innermost("session")
  /\ ended' = "raised"
  /\ Stop({Multi} \cup SessionTrees)
  /\ Leave
  /\ UNCHANGED <<devVars, issued, server>>

\* NodeTree.set_transaction.  (Raises and changes nothing when started.)
BeginTree(t) ==
  /\ t \notin started
  /\ Start({t}, {})
  /\ Enter("tree", t)
  /\ UNCHANGED <<devVars, issued, server, ended>>

CommitTree ==
  /\ Innermost("tree")
  /\ LET t == blocks[Len(blocks)].tree
     IN  Send(queue[t]) /\ Stop({t})
  /\ Leave
  /\ UNCHANGED <<devVars, issued>>

AbortTree ==
  /\ Innermost("tree")
  /\ ended' = "raised"
  /\ Stop({blocks[Len(blocks)].tree})
  /\ Leave
  /\ UNCHANGED <<devVars, issued, server>>

\* create_or_append_set_transaction when a transaction is in progress.  When
\* none is, it is NodeTree.set_transaction.
BeginJoin(t) ==
  /\ t \in started
  /\ Enter("join", t)
  /\ UNCHANGED <<devVars, txVars, issued, server, ended>>

\* (nullcontext: neither end does anything.)
EndJoin ==
  /\ Innermost("join")
  /\ ended' \in {"done", "raised"}
  /\ Leave
  /\ UNCHANGED <<devVars, txVars, issued, server>>

-----------------------------------------------------------------------------
DeviceStep ==
  \E s \in Serial :
    \/ Lookup(s)
    \/ ConnectDevice(s)
    \/ \E lowerCase \in BOOLEAN : DisconnectDevice(s, lowerCase)
    \/ OtherClient(s)

SetStep == \E t \in Handle : SetNode(t) \/ SendSetList(t)

BlockStep ==
  \/ BeginSession \/ BeginSessionRefused \/ CommitSession \/ AbortSession
  \/ \E t \in Handle : BeginTree(t) \/ BeginJoin(t)
  \/ CommitTree \/ AbortTree \/ EndJoin

Next == DeviceStep \/ SetStep \/ BlockStep

Spec == Init /\ [][Next]_vars

-----------------------------------------------------------------------------
(* Properties *)

InSession == \E i \in DOMAIN blocks : blocks[i].kind = "session"

Entries(x) == {queue[x][i] : i \in DOMAIN queue[x]}

\* A device or session-tree block keeps its own transaction, unforwarded,
\* until that very block ends, and a block that joined a transaction never
\* outlives it, whatever session blocks are opened and closed meanwhile
\* (the warning of create_or_append_set_transaction about an early exit).
BlocksKeepTheirTransaction ==
  \A i \in DOMAIN blocks :
    /\ blocks[i].kind = "session" => Multi \in started
    /\ blocks[i].kind # "session" => blocks[i].tree \in started
    /\ blocks[i].kind = "tree" => blocks[i].tree \notin forward

\* While a session block is open every device object the session hands out,
\* also one created inside of the block, buffers into the session bundle.
\* (An HF2 data server is excepted: HF2Devices.add_hf2_device does not start
\* the transaction of a device that is connected within the block.)
SessionBlockCoversDevices ==
  InSession /\ ~HF2 => SessionTrees \subseteq started \cap forward

\* The session bundle and the queues of the forwarded trees tell the same
\* story: what Node._set put into the queue of a tree is in the bundle, and
\* the bundle has nothing of that tree which is not in its queue.  (Settings
\* lists are in the queue; that they should be in the bundle too is what
\* SessionDocClaims is about.)
BundleMirrorsTrees ==
  Multi \in started =>
    \A t \in SessionTrees \cap forward :
      /\ {e \in Entries(t) : ~e.list} \subseteq Entries(Multi)
      /\ {e \in Entries(Multi) : e.tree = t} \subseteq Entries(t)

\* Every command is applied at most once, and within one list of settings
\* commands are applied in the order in which they were issued.
AppliedOnceInOrder ==
  /\ \A b \in DOMAIN server : \A i, j \in DOMAIN server[b] :
       i < j => server[b][i].id < server[b][j].id
  /\ \A b, c \in DOMAIN server : \A i \in DOMAIN server[b] :
       \A j \in DOMAIN server[c] :
         server[b][i].id = server[c][j].id => b = c /\ i = j

-----------------------------------------------------------------------------
(* What makes the properties inductive (see DisciplinedSession_proof).     *)

TransactionsWellFormed ==
  /\ started \subseteq {Multi} \cup Handle
  /\ forward \subseteq started
  /\ Multi \notin started => SessionTrees \cap forward = {}
  /\ \A x \in Tx \ started : queue[x] = <<>>
  /\ \A e \in Entries(Multi) : e.tree \in Handle

\* Blocks nest: a session block was entered while none of its trees was in
\* a block, and a tree block while its tree was in none.
BlocksNest ==
  /\ \A i \in DOMAIN blocks : blocks[i].tree \in Handle
  /\ \A i, j \in DOMAIN blocks : i < j =>
       /\ blocks[j].kind = "session" =>
            blocks[i].kind # "session" /\ blocks[i].tree \notin SessionTrees
       /\ blocks[j].kind = "tree" /\ blocks[i].kind # "session" =>
            blocks[i].tree # blocks[j].tree

IndInv ==
  /\ TypeOK
  /\ TransactionsWellFormed
  /\ BlocksNest
  /\ BlocksKeepTheirTransaction

=============================================================================
