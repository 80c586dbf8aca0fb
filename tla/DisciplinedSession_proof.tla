---------------------- MODULE DisciplinedSession_proof ----------------------
(***************************************************************************)
(* Proofs about the transactions of a session, for any set of devices, any *)
(* bounds and both kinds of data server.  The first part is about          *)
(* SessionTransactions alone: which programs the code serves as promised,  *)
(* and what holds for any program.  The second part proves that the        *)
(* transactions of a program that keeps the rules of DisciplinedSession    *)
(* implement SettingBlocks.                                                *)
(***************************************************************************)
EXTENDS DisciplinedSession, TLAPS

-----------------------------------------------------------------------------
(* Any program: SessionTransactions.                                       *)


(* The entries of a sequence; Entries(x) is Content(queue[x]).             *)
Content(s) == {s[i] : i \in DOMAIN s}

(* Appending adds one entry to the content of a queue (list.append in      *)
(* Transaction.add).                                                       *)
LEMMA ContentAppend ==
  ASSUME NEW S, NEW s \in Seq(S), NEW e \in S
  PROVE  /\ Append(s, e) \in Seq(S)
         /\ Content(Append(s, e)) = Content(s) \cup {e}
<1>1. /\ Append(s, e) \in Seq(S)
      /\ DOMAIN Append(s, e) = 1..(Len(s) + 1)
      /\ DOMAIN s = 1..Len(s)
      /\ Len(s) \in Nat
      /\ \A i \in 1..Len(s) : Append(s, e)[i] = s[i]
      /\ Append(s, e)[Len(s) + 1] = e
  OBVIOUS
<1>2. ASSUME NEW x \in Content(s)
      PROVE  x \in Content(Append(s, e))
  <2>1. PICK i \in 1..Len(s) : x = s[i]
    BY <1>1 DEF Content
  <2>2. i \in DOMAIN Append(s, e) /\ Append(s, e)[i] = x
    BY <1>1, <2>1
  <2>. QED  BY <2>2 DEF Content
<1>3. e \in Content(Append(s, e))
  <2>1. Len(s) + 1 \in DOMAIN Append(s, e)
    BY <1>1
  <2>. QED  BY <1>1, <2>1 DEF Content
<1>4. ASSUME NEW x \in Content(Append(s, e)), x # e
      PROVE  x \in Content(s)
  <2>1. PICK i \in 1..(Len(s) + 1) : x = Append(s, e)[i]
    BY <1>1 DEF Content
  <2>2. i \in 1..Len(s)
    BY <1>1, <1>4, <2>1
  <2>. QED  BY <1>1, <2>1, <2>2 DEF Content
<1>. QED  BY <1>1, <1>2, <1>3, <1>4

(* Leaving the innermost block keeps the others in place (the unwinding of *)
(* nested with statements).                                                *)
LEMMA LeaveKeepsOuter ==
  ASSUME NEW S, NEW s \in Seq(S), s # <<>>
  PROVE  LET r == SubSeq(s, 1, Len(s) - 1)
         IN  /\ r \in Seq(S)
             /\ DOMAIN r = 1..(Len(s) - 1)
             /\ DOMAIN s = 1..Len(s)
             /\ Len(s) \in Nat \ {0}
             /\ s[Len(s)] \in S
             /\ \A i \in DOMAIN r : r[i] = s[i] /\ i \in DOMAIN s /\ i < Len(s)
<1>1. Len(s) \in Nat \ {0} /\ DOMAIN s = 1..Len(s)
  OBVIOUS
<1>. QED  BY <1>1

-----------------------------------------------------------------------------
(* Type correctness of the session state: every transaction is a list of   *)
(* pairs, the dictionary of devices only names objects that were made.     *)

TxTypeOK ==
  /\ started \subseteq Tx
  /\ queue \in [Tx -> Seq(Entry)]
  /\ forward \subseteq Tree

DevTypeOK ==
  /\ connected \subseteq Serial
  /\ made \in 0..MaxObject
  /\ DOMAIN devs \subseteq Serial /\ devs \in [DOMAIN devs -> 1..made]

LEMMA StartType ==
  ASSUME TxTypeOK, NEW T \in SUBSET Tx, NEW C \in SUBSET Tree, Start(T, C)
  PROVE  TxTypeOK'
<1>1. <<>> \in Seq(Entry)
  OBVIOUS
<1>2. queue' \in [Tx -> Seq(Entry)]
  BY <1>1 DEF TxTypeOK, Start
<1>. QED  BY <1>2 DEF TxTypeOK, Start

LEMMA StopType ==
  ASSUME TxTypeOK, NEW T, Stop(T)
  PROVE  TxTypeOK'
<1>1. <<>> \in Seq(Entry)
  OBVIOUS
<1>2. queue' \in [Tx -> Seq(Entry)]
  BY <1>1 DEF TxTypeOK, Stop
<1>. QED  BY <1>2 DEF TxTypeOK, Stop

LEMMA BufferType ==
  ASSUME TxTypeOK, NEW T, NEW e \in Entry, Buffer(T, e)
  PROVE  TxTypeOK'
<1>1. \A x \in Tx : Append(queue[x], e) \in Seq(Entry)
  BY ContentAppend DEF TxTypeOK
<1>. QED  BY <1>1 DEF TxTypeOK, Buffer

LEMMA AddDeviceType ==
  ASSUME TxTypeOK, DevTypeOK, NEW s \in Serial, NEW b,
         AddDevice(s, b), connected' \subseteq Serial
  PROVE  TxTypeOK' /\ DevTypeOK'
<1>. USE SessionAssumption
<1>1. made + 1 \in Object /\ made' = made + 1 /\ made \in Nat
  BY DEF DevTypeOK, AddDevice, Object
<1>2. DevTypeOK'
  BY <1>1 DEF DevTypeOK, AddDevice, Object
<1>3. {made + 1} \in SUBSET Tx /\ {made + 1} \in SUBSET Tree
  BY <1>1 DEF Tx, Tree
<1>4. TxTypeOK'
  <2>1. CASE b
    BY <1>3, <2>1, StartType DEF AddDevice
  <2>2. CASE ~b
    BY <2>2 DEF AddDevice, txVars, TxTypeOK
  <2>. QED  BY <2>1, <2>2
<1>. QED  BY <1>2, <1>4

LEMMA GetItemType ==
  ASSUME TxTypeOK, DevTypeOK, NEW s \in Serial, GetItem(s),
         connected' \subseteq Serial
  PROVE  TxTypeOK' /\ DevTypeOK'
<1>1. CASE s \in Reported \cap DOMAIN devs /\ UNCHANGED <<devs, made, txVars>>
  BY <1>1 DEF TxTypeOK, DevTypeOK, txVars
<1>2. CASE s \in Reported \ DOMAIN devs /\ AddDevice(s, Multi \in started)
  BY <1>2, AddDeviceType
<1>3. CASE s \notin Reported /\ devs' = Without(devs, s)
           /\ UNCHANGED <<made, txVars>>
  BY <1>3 DEF TxTypeOK, DevTypeOK, txVars, Without
<1>. QED  BY <1>1, <1>2, <1>3 DEF GetItem

(* A list handed to the server extends the log of applied lists.           *)
LEMMA SendType ==
  ASSUME server \in Seq(Seq(Entry)), NEW l \in Seq(Entry), Send(l)
  PROVE  server' \in Seq(Seq(Entry))
<1>1. Append(server, l) \in Seq(Seq(Entry))
  BY ContentAppend
<1>2. server' = server \/ server' = Append(server, l)
  BY DEF Send, Applied
<1>. QED  BY <1>1, <1>2

(* What a set command does, whichever of the two ways it came.             *)
LEMMA SetType ==
  ASSUME TypeOK, NEW t \in Handle, NEW isList \in BOOLEAN, NEW T,
         issued < MaxSet, issued' = issued + 1,
         \/ Buffer(T, NewEntry(t, isList)) /\ UNCHANGED server
         \/ Send(<<NewEntry(t, isList)>>) /\ UNCHANGED txVars,
         UNCHANGED <<devVars, blocks>>, ended' \in Endings
  PROVE  TypeOK'
<1>. USE SessionAssumption
<1>1. t \in Tree
  BY DEF Handle, Tree, Object, TypeOK
<1>2. NewEntry(t, isList) \in Entry
  BY <1>1 DEF NewEntry, Entry, TypeOK
<1>3. TxTypeOK /\ DevTypeOK
  BY DEF TypeOK, TxTypeOK, DevTypeOK
<1>4. TxTypeOK'
  BY <1>2, <1>3, BufferType DEF txVars, TxTypeOK
<1>5. server' \in Seq(Seq(Entry))
  <2>1. <<NewEntry(t, isList)>> \in Seq(Entry)
    BY <1>2
  <2>. QED  BY <2>1, SendType DEF TypeOK
<1>6. issued' \in 0..MaxSet
  BY DEF TypeOK
<1>. QED  BY <1>4, <1>5, <1>6 DEF TypeOK, TxTypeOK, devVars

LEMMA EnterType ==
  ASSUME blocks \in Seq(Block), NEW k \in {"session", "tree", "join"},
         NEW t \in Tree, Enter(k, t)
  PROVE  blocks' \in Seq(Block)
<1>1. [kind |-> k, tree |-> t] \in Block
  BY DEF Block
<1>. QED  BY <1>1, ContentAppend DEF Enter

LEMMA LeaveType ==
  ASSUME blocks \in Seq(Block), blocks # <<>>, Leave
  PROVE  /\ blocks' \in Seq(Block)
         /\ blocks[Len(blocks)] \in Block
  BY LeaveKeepsOuter, Zenon DEF Leave

LEMMA TypeSplit ==
  TypeOK <=> /\ DevTypeOK /\ TxTypeOK
             /\ blocks \in Seq(Block)
             /\ issued \in 0..MaxSet
             /\ server \in Seq(Seq(Entry))
             /\ ended \in Endings
  BY DEF TypeOK, DevTypeOK, TxTypeOK

LEMMA TypeSplitPrime ==
  TypeOK' <=> /\ DevTypeOK' /\ TxTypeOK'
              /\ blocks' \in Seq(Block)
              /\ issued' \in 0..MaxSet
              /\ server' \in Seq(Seq(Entry))
              /\ ended' \in Endings
  BY DEF TypeOK, DevTypeOK, TxTypeOK

(* How the last set command or block ended.                                *)
LEMMA EndedType ==
  ASSUME ended \in Endings, DeviceStep \/ SetStep \/ BlockStep
  PROVE  ended' \in Endings
<1>1. CASE DeviceStep
  BY <1>1 DEF DeviceStep, Lookup, ConnectDevice, DisconnectDevice, OtherClient
<1>2. CASE SetStep
  BY <1>2 DEF SetStep, SetNode, SendSetList, Send, Endings
<1>3. CASE BlockStep
  BY <1>3 DEF BlockStep, BeginSession, BeginSessionRefused, CommitSession,
              AbortSession, BeginTree, BeginJoin, CommitTree, AbortTree,
              EndJoin, Send, Endings
<1>. QED  BY <1>1, <1>2, <1>3

LEMMA DeviceStepType ==
  ASSUME TypeOK, DeviceStep
  PROVE  TypeOK'
<1>. USE TypeSplit
<1>1. PICK s \in Serial :
        \/ Lookup(s)
        \/ ConnectDevice(s)
        \/ \E lowerCase \in BOOLEAN : DisconnectDevice(s, lowerCase)
        \/ OtherClient(s)
  BY DEF DeviceStep
<1>2. UNCHANGED <<blocks, issued, server, ended>> /\ connected' \subseteq Serial
  BY <1>1 DEF Lookup, ConnectDevice, DisconnectDevice, OtherClient, DevTypeOK
<1>3. DevTypeOK' /\ TxTypeOK'
  <2>1. CASE Lookup(s)
    BY <1>2, <2>1, GetItemType DEF Lookup
  <2>2. CASE ConnectDevice(s)
    <3>1. CASE GetItem(s)
      BY <1>2, <3>1, GetItemType
    <3>2. CASE AddDevice(s, ~HF2 /\ Multi \in started)
      BY <1>2, <3>2, AddDeviceType
    <3>3. CASE devs' = Without(devs, s) /\ UNCHANGED <<connected, made, txVars>>
      BY <3>3 DEF TxTypeOK, DevTypeOK, txVars, Without
    <3>. QED  BY <2>2, <3>1, <3>2, <3>3 DEF ConnectDevice
  <2>3. CASE \E lowerCase \in BOOLEAN : DisconnectDevice(s, lowerCase)
    <3>1. CASE GetItem(s)
      BY <1>2, <3>1, GetItemType
    <3>2. CASE devs' = Without(devs, s) /\ UNCHANGED <<made, txVars>>
      BY <1>2, <3>2 DEF TxTypeOK, DevTypeOK, txVars, Without
    <3>. QED  BY <2>3, <3>1, <3>2 DEF DisconnectDevice
  <2>4. CASE OtherClient(s)
    BY <1>2, <2>4 DEF OtherClient, TxTypeOK, DevTypeOK, txVars
  <2>. QED  BY <1>1, <2>1, <2>2, <2>3, <2>4
<1>. QED  BY <1>2, <1>3, TypeSplitPrime

LEMMA SetStepType ==
  ASSUME TypeOK, SetStep
  PROVE  TypeOK'
<1>1. PICK t \in Handle : SetNode(t) \/ SendSetList(t)
  BY DEF SetStep
<1>0. ended' \in Endings
  BY EndedType DEF TypeOK
<1>2. CASE SetNode(t)
  BY <1>0, <1>2, SetType DEF SetNode
<1>3. CASE SendSetList(t)
  BY <1>0, <1>3, SetType DEF SendSetList
<1>. QED  BY <1>1, <1>2, <1>3

LEMMA BlockStepType ==
  ASSUME TypeOK, BlockStep
  PROVE  TypeOK'
<1>0. ended' \in Endings
  BY EndedType DEF TypeOK
<1>. USE <1>0, TypeSplit, SessionAssumption
<1>1. SessionTrees \in SUBSET Tree /\ Handle \subseteq Tree /\ Tree \subseteq Tx
      /\ Root \in Tree /\ Multi \in Tx
  BY DEF SessionTrees, Created, Handle, DevTypeOK, Tree, Object, Tx
<1>2. CASE BeginSession
  <2>1. TxTypeOK'
    BY <1>1, <1>2, StartType DEF BeginSession
  <2>2. blocks' \in Seq(Block)
    BY <1>1, <1>2, EnterType DEF BeginSession
  <2>. QED  BY <1>2, <2>1, <2>2, TypeSplitPrime DEF BeginSession, devVars, DevTypeOK
<1>3. CASE BeginSessionRefused
  <2>1. PICK busy : Start({Multi} \cup EarlierThan(busy), EarlierThan(busy))
    BY <1>3 DEF BeginSessionRefused
  <2>2. EarlierThan(busy) \in SUBSET Tree
    BY <1>1 DEF EarlierThan, SessionTrees
  <2>3. TxTypeOK'
    BY <1>1, <2>1, <2>2, StartType
  <2>. QED  BY <1>3, <2>3, TypeSplitPrime DEF BeginSessionRefused, devVars, DevTypeOK
<1>4. CASE CommitSession
  <2>1. TxTypeOK'
    BY <1>4, StopType DEF CommitSession
  <2>2. server' \in Seq(Seq(Entry))
    BY <1>1, <1>4, SendType DEF CommitSession, TxTypeOK
  <2>. QED  BY <1>4, <2>1, <2>2, LeaveType, TypeSplitPrime
            DEF CommitSession, devVars, DevTypeOK, Innermost
<1>5. CASE AbortSession
  <2>1. TxTypeOK'
    BY <1>5, StopType DEF AbortSession
  <2>. QED  BY <1>5, <2>1, LeaveType, TypeSplitPrime
            DEF AbortSession, devVars, DevTypeOK, Innermost
<1>6. ASSUME NEW t \in Handle, BeginTree(t)
      PROVE  TypeOK'
  <2>1. TxTypeOK'
    BY <1>1, <1>6, StartType DEF BeginTree
  <2>2. blocks' \in Seq(Block)
    BY <1>1, <1>6, EnterType DEF BeginTree
  <2>. QED  BY <1>6, <2>1, <2>2, TypeSplitPrime DEF BeginTree, devVars, DevTypeOK
<1>7. ASSUME NEW t \in Handle, BeginJoin(t)
      PROVE  TypeOK'
  <2>1. blocks' \in Seq(Block)
    BY <1>1, <1>7, EnterType DEF BeginJoin
  <2>. QED  BY <1>7, <2>1, TypeSplitPrime
            DEF BeginJoin, devVars, DevTypeOK, txVars, TxTypeOK
<1>8. CASE CommitTree
  <2>. DEFINE t == blocks[Len(blocks)].tree
  <2>1. t \in Tx /\ blocks' \in Seq(Block)
    BY <1>1, <1>8, LeaveType DEF CommitTree, Innermost, Block
  <2>2. TxTypeOK'
    BY <1>8, StopType DEF CommitTree
  <2>3. server' \in Seq(Seq(Entry))
    BY <1>8, <2>1, SendType DEF CommitTree, TxTypeOK
  <2>. QED  BY <1>8, <2>1, <2>2, <2>3, TypeSplitPrime
            DEF CommitTree, devVars, DevTypeOK
<1>9. CASE AbortTree
  <2>1. TxTypeOK'
    BY <1>9, StopType DEF AbortTree
  <2>. QED  BY <1>9, <2>1, LeaveType, TypeSplitPrime
            DEF AbortTree, devVars, DevTypeOK, Innermost
<1>10. CASE EndJoin
  BY <1>10, LeaveType, TypeSplitPrime
     DEF EndJoin, devVars, DevTypeOK, txVars, TxTypeOK, Innermost
<1>. QED  BY <1>2, <1>3, <1>4, <1>5, <1>6, <1>7, <1>8, <1>9, <1>10 DEF BlockStep

(* Every reachable state of the session is well typed.                     *)
THEOREM TypeCorrect == Spec => []TypeOK
<1>1. Init => TypeOK
  <2>. HAVE Init
  <2>1. <<>> \in Seq(Entry) /\ <<>> \in Seq(Block) /\ <<>> \in Seq(Seq(Entry))
    OBVIOUS
  <2>. QED  BY <2>1, SessionAssumption DEF Init, TypeOK, Endings
<1>2. TypeOK /\ [Next]_vars => TypeOK'
  <2>. SUFFICES ASSUME TypeOK, [Next]_vars PROVE TypeOK'
    OBVIOUS
  <2>1. CASE DeviceStep
    BY <2>1, DeviceStepType
  <2>2. CASE SetStep
    BY <2>2, SetStepType
  <2>3. CASE BlockStep
    BY <2>3, BlockStepType
  <2>4. CASE UNCHANGED vars
    BY <2>4 DEF TypeOK, vars
  <2>. QED  BY <2>1, <2>2, <2>3, <2>4 DEF Next
<1>. QED  BY <1>1, <1>2, PTL DEF Spec

-----------------------------------------------------------------------------
(* The with blocks.                                                        *)

(* What the device operations can do to the trees of the session: leave or *)
(* drop objects, or add one fresh object, which joins the session bundle   *)
(* when one is in progress (except on an HF2 data server).                 *)
DropsDevices ==
  /\ SessionTrees' \subseteq SessionTrees
  /\ UNCHANGED <<made, started, queue, forward>>

AddsDevice ==
  /\ made' = made + 1
  /\ made + 1 \in Object
  /\ SessionTrees' \subseteq SessionTrees \cup {made + 1}
  /\ \/ Multi \in started /\ Start({made + 1}, {made + 1})
     \/ (HF2 \/ Multi \notin started) /\ UNCHANGED <<started, queue, forward>>

LEMMA AddDeviceShape ==
  ASSUME TypeOK, NEW s \in Serial, NEW b, AddDevice(s, b),
         b => Multi \in started, ~b => HF2 \/ Multi \notin started
  PROVE  AddsDevice
<1>. USE SessionAssumption
<1>1. made' = made + 1 /\ made + 1 \in Object
  BY DEF AddDevice, TypeOK, Object
<1>2. SessionTrees' \subseteq SessionTrees \cup {made + 1}
  BY DEF AddDevice, SessionTrees, Created
<1>. QED  BY <1>1, <1>2 DEF AddDevice, AddsDevice, txVars

LEMMA WithoutShape ==
  ASSUME NEW s, devs' = Without(devs, s), UNCHANGED <<made, txVars>>
  PROVE  DropsDevices
BY DEF DropsDevices, Without, SessionTrees, Created, txVars

LEMMA GetItemShape ==
  ASSUME TypeOK, NEW s \in Serial, GetItem(s)
  PROVE  DropsDevices \/ AddsDevice
<1>1. CASE UNCHANGED <<devs, made, txVars>>
  BY <1>1 DEF DropsDevices, SessionTrees, Created, txVars
<1>2. CASE s \in Reported \ DOMAIN devs /\ AddDevice(s, Multi \in started)
  BY <1>2, AddDeviceShape
<1>3. CASE devs' = Without(devs, s) /\ UNCHANGED <<made, txVars>>
  BY <1>3, WithoutShape
<1>. QED  BY <1>1, <1>2, <1>3 DEF GetItem

LEMMA DeviceStepShape ==
  ASSUME TypeOK, DeviceStep
  PROVE  /\ DropsDevices \/ AddsDevice
         /\ UNCHANGED <<blocks, issued, server, ended>>
<1>1. PICK s \in Serial :
        \/ Lookup(s)
        \/ ConnectDevice(s)
        \/ \E lowerCase \in BOOLEAN : DisconnectDevice(s, lowerCase)
        \/ OtherClient(s)
  BY DEF DeviceStep
<1>2. CASE Lookup(s)
  BY <1>2, GetItemShape DEF Lookup
<1>3. CASE ConnectDevice(s)
  <2>1. CASE GetItem(s)
    BY <1>3, <2>1, GetItemShape DEF ConnectDevice
  <2>2. CASE AddDevice(s, ~HF2 /\ Multi \in started)
    BY <1>3, <2>2, AddDeviceShape DEF ConnectDevice
  <2>3. CASE devs' = Without(devs, s) /\ UNCHANGED <<connected, made, txVars>>
    <3>1. UNCHANGED <<made, txVars>>
      BY <2>3
    <3>. QED  BY <1>3, <2>3, <3>1, WithoutShape DEF ConnectDevice
  <2>. QED  BY <1>3, <2>1, <2>2, <2>3 DEF ConnectDevice
<1>4. CASE \E lowerCase \in BOOLEAN : DisconnectDevice(s, lowerCase)
  BY <1>4, GetItemShape, WithoutShape DEF DisconnectDevice
<1>5. CASE OtherClient(s)
  BY <1>5 DEF OtherClient, DropsDevices, SessionTrees, Created, txVars
<1>. QED  BY <1>1, <1>2, <1>3, <1>4, <1>5

(* Identifiers: the multi transaction is no tree, a fresh object is not    *)
(* among the handles.                                                      *)
LEMMA Identifiers ==
  ASSUME TypeOK
  PROVE  /\ Multi \notin Tree /\ Multi \in Tx
         /\ Root \in Handle /\ Handle \subseteq Tree /\ Tree \subseteq Tx
         /\ SessionTrees \subseteq Handle
         /\ Root \in SessionTrees
         /\ made + 1 \notin Handle
         /\ made + 1 # Multi
         /\ made \in Nat
  BY SessionAssumption
     DEF TypeOK, Multi, Tree, Root, Object, Tx, Handle, SessionTrees, Created

LEMMA HandleGrows ==
  ASSUME TypeOK, made' = made + 1
  PROVE  Handle \cup {made + 1} \subseteq Handle'
  BY Identifiers DEF Handle

LEMMA DeviceStepInv ==
  ASSUME IndInv, DeviceStep
  PROVE  TransactionsWellFormed' /\ BlocksNest' /\ BlocksKeepTheirTransaction'
<1>. USE DEF IndInv
<1>0. (DropsDevices \/ AddsDevice) /\ UNCHANGED blocks
  BY DeviceStepShape
<1>1. CASE DropsDevices
  <2>1. Handle' = Handle
    BY <1>1 DEF DropsDevices, Handle
  <2>2. TransactionsWellFormed'
    BY <1>1, <2>1 DEF DropsDevices, TransactionsWellFormed, Entries
  <2>3. BlocksNest'
    BY <1>0, <1>1, <2>1 DEF DropsDevices, BlocksNest
  <2>4. BlocksKeepTheirTransaction'
    BY <1>0, <1>1 DEF DropsDevices, BlocksKeepTheirTransaction
  <2>. QED  BY <2>2, <2>3, <2>4
<1>2. CASE AddsDevice
  <2>1. /\ made' = made + 1 /\ Handle \cup {made + 1} \subseteq Handle'
        /\ SessionTrees' \subseteq SessionTrees \cup {made + 1}
        /\ Multi \in Tx /\ made + 1 # Multi
        /\ \A i \in DOMAIN blocks : blocks[i].tree # made + 1
        /\ made + 1 \notin Handle
    BY <1>2, HandleGrows, Identifiers DEF AddsDevice, BlocksNest
  <2>2. BlocksNest'
    BY <1>0, <2>1 DEF BlocksNest
  <2>3. CASE Multi \in started /\ Start({made + 1}, {made + 1})
    <3>1. started' = started \cup {made + 1} /\ forward' = forward \cup {made + 1}
      BY <2>3 DEF Start
    <3>2. queue'[Multi] = queue[Multi]
          /\ \A x \in Tx : queue'[x] = <<>> \/ queue'[x] = queue[x]
      BY <2>1, <2>3 DEF Start
    <3>3. TransactionsWellFormed'
      BY <2>1, <2>3, <3>1, <3>2 DEF TransactionsWellFormed, Entries
    <3>4. BlocksKeepTheirTransaction'
      BY <1>0, <2>1, <3>1 DEF BlocksKeepTheirTransaction
    <3>. QED  BY <2>2, <3>3, <3>4
  <2>4. CASE (HF2 \/ Multi \notin started) /\ UNCHANGED <<started, queue, forward>>
    <3>1. made + 1 \notin forward
      BY <2>1 DEF TransactionsWellFormed
    <3>2. TransactionsWellFormed'
      BY <2>1, <2>4, <3>1 DEF TransactionsWellFormed, Entries
    <3>3. BlocksKeepTheirTransaction'
      BY <1>0, <2>4 DEF BlocksKeepTheirTransaction
    <3>. QED  BY <2>2, <3>2, <3>3
  <2>. QED  BY <1>2, <2>3, <2>4 DEF AddsDevice
<1>. QED  BY <1>0, <1>1, <1>2

(* A set command, by itself or as a settings list: a command issued while  *)
(* its tree has a transaction adds one entry to the queues T, anything     *)
(* else leaves the transactions alone.                                     *)
SetShape(t, isList, T) ==
  /\ UNCHANGED <<started, forward, devs, made, blocks>>
  /\ \/ /\ t \in started
        /\ queue' = [x \in Tx |-> IF x \in T
                                    THEN Append(queue[x], NewEntry(t, isList))
                                    ELSE queue[x]]
     \/ UNCHANGED queue

LEMMA SetStepShape ==
  ASSUME SetStep
  PROVE  \E t \in Handle : \/ SetShape(t, FALSE, AddTargets(t))
                           \/ SetShape(t, TRUE, AddListTargets(t))
<1>1. PICK t \in Handle : SetNode(t) \/ SendSetList(t)
  BY DEF SetStep
<1>2. CASE SetNode(t)
  <2>1. SetShape(t, FALSE, AddTargets(t))
    BY <1>2 DEF SetNode, SetShape, Buffer, txVars, devVars
  <2>. QED  BY <2>1
<1>3. CASE SendSetList(t)
  <2>1. SetShape(t, TRUE, AddListTargets(t))
    BY <1>3 DEF SendSetList, SetShape, Buffer, txVars, devVars
  <2>. QED  BY <2>1
<1>. QED  BY <1>1, <1>2, <1>3

(* What a set command does to the entries of each queue.                   *)
LEMMA SetEntries ==
  ASSUME TypeOK, NEW t \in Handle, NEW isList \in BOOLEAN, NEW T,
         SetShape(t, isList, T)
  PROVE  \/ \A x \in Tx : Entries(x)' = Entries(x)
         \/ /\ t \in started
            /\ \A x \in Tx : Entries(x)' = IF x \in T
                 THEN Entries(x) \cup {NewEntry(t, isList)}
                 ELSE Entries(x)
<1>1. NewEntry(t, isList) \in Entry
  <2>1. t \in Tree
    BY Identifiers
  <2>2. issued + 1 \in Nat
    BY SessionAssumption DEF TypeOK
  <2>. QED  BY <2>1, <2>2 DEF NewEntry, Entry
<1>2. CASE UNCHANGED queue
  BY <1>2 DEF Entries
<1>3. CASE t \in started /\ queue' = [y \in Tx |->
                             IF y \in T THEN Append(queue[y], NewEntry(t, isList))
                                        ELSE queue[y]]
  <2>1. ASSUME NEW x \in Tx, x \in T
        PROVE  Entries(x)' = Entries(x) \cup {NewEntry(t, isList)}
    <3>1. queue'[x] = Append(queue[x], NewEntry(t, isList))
      BY <1>3, <2>1
    <3>2. queue[x] \in Seq(Entry)
      BY DEF TypeOK
    <3>3. Content(queue'[x]) = Content(queue[x]) \cup {NewEntry(t, isList)}
      BY <1>1, <3>1, <3>2, ContentAppend
    <3>. QED  BY <3>3 DEF Entries, Content
  <2>2. ASSUME NEW x \in Tx, x \notin T
        PROVE  Entries(x)' = Entries(x)
    BY <1>3, <2>2 DEF Entries
  <2>. QED  BY <1>3, <2>1, <2>2
<1>. QED  BY <1>2, <1>3 DEF SetShape

LEMMA SetStepInv ==
  ASSUME IndInv, SetStep
  PROVE  TransactionsWellFormed' /\ BlocksNest' /\ BlocksKeepTheirTransaction'
<1>. USE DEF IndInv
<1>1. PICK t \in Handle, isList \in BOOLEAN, T \in SUBSET Tx :
        SetShape(t, isList, T) /\ (T = AddTargets(t) \/ T = AddListTargets(t))
  <2>1. \A t \in Handle : AddTargets(t) \in SUBSET Tx /\ AddListTargets(t) \in SUBSET Tx
    BY Identifiers DEF AddTargets, AddListTargets
  <2>. QED  BY <2>1, SetStepShape
<1>2. BlocksNest' /\ BlocksKeepTheirTransaction' /\ Handle' = Handle
  BY <1>1 DEF SetShape, BlocksNest, BlocksKeepTheirTransaction, Handle,
              SessionTrees, Created
<1>3. ASSUME NEW x \in Tx, x \notin started
      PROVE  queue'[x] = <<>>
  BY <1>1, <1>3 DEF SetShape, AddTargets, AddListTargets, TransactionsWellFormed
<1>4. \A e \in Entries(Multi)' : e.tree \in Handle
  <2>1. NewEntry(t, isList).tree \in Handle
    BY DEF NewEntry
  <2>2. Multi \in Tx
    BY Identifiers
  <2>. QED  BY <1>1, <2>1, <2>2, SetEntries DEF TransactionsWellFormed
<1>5. TransactionsWellFormed'
  BY <1>1, <1>2, <1>3, <1>4
     DEF SetShape, TransactionsWellFormed, SessionTrees, Created
<1>. QED  BY <1>2, <1>5

(* Entering a block.                                                       *)
LEMMA EnterShape ==
  ASSUME TypeOK, NEW k \in {"session", "tree", "join"}, NEW t \in Tree,
         Enter(k, t)
  PROVE  /\ Len(blocks) \in Nat
         /\ DOMAIN blocks = 1..Len(blocks)
         /\ DOMAIN blocks' = 1..(Len(blocks) + 1)
         /\ \A i \in DOMAIN blocks : blocks'[i] = blocks[i]
         /\ blocks'[Len(blocks) + 1] = [kind |-> k, tree |-> t]
<1>1. blocks \in Seq(Block) /\ [kind |-> k, tree |-> t] \in Block
  BY DEF TypeOK, Block
<1>. QED  BY <1>1 DEF Enter

(* Leaving the innermost block.                                            *)
LEMMA LeaveShape ==
  ASSUME TypeOK, blocks # <<>>, Leave
  PROVE  /\ Len(blocks) \in DOMAIN blocks
         /\ blocks[Len(blocks)] \in Block
         /\ \A i \in DOMAIN blocks' : /\ i \in DOMAIN blocks
                                      /\ i < Len(blocks)
                                      /\ blocks'[i] = blocks[i]
<1>1. blocks \in Seq(Block)
  BY DEF TypeOK
<1>2. Len(blocks) \in DOMAIN blocks
  BY <1>1, LeaveKeepsOuter
<1>. QED  BY <1>1, <1>2, LeaveKeepsOuter DEF Leave

LEMMA LeaveNests ==
  ASSUME TypeOK, BlocksNest, blocks # <<>>, Leave, UNCHANGED devVars
  PROVE  BlocksNest'
<1>1. SessionTrees' = SessionTrees /\ Handle' = Handle
  BY DEF devVars, SessionTrees, Created, Handle
<1>. QED  BY <1>1, LeaveShape DEF BlocksNest

LEMMA BeginSessionInv ==
  ASSUME IndInv, BeginSession
  PROVE  TransactionsWellFormed' /\ BlocksNest' /\ BlocksKeepTheirTransaction'
<1>. USE DEF IndInv
<1>1. /\ SessionTrees' = SessionTrees /\ Handle' = Handle
      /\ Multi \notin started /\ SessionTrees \cap started = {}
  BY DEF BeginSession, devVars, SessionTrees, Created, Handle
<1>2. /\ started' = started \cup {Multi} \cup SessionTrees
      /\ forward' \subseteq forward \cup SessionTrees
      /\ SessionTrees \subseteq forward'
      /\ \A x \in Tx \ started' : queue'[x] = queue[x]
      /\ queue'[Multi] = <<>>
  BY Identifiers DEF BeginSession, Start
<1>3. TransactionsWellFormed'
  BY <1>1, <1>2, Identifiers DEF TransactionsWellFormed, Entries
<1>4. \A i \in DOMAIN blocks : /\ blocks[i].kind # "session"
                               /\ blocks[i].tree \in started
                               /\ blocks[i].tree \notin SessionTrees
  BY <1>1 DEF BlocksKeepTheirTransaction
<1>5. /\ Len(blocks) \in Nat
      /\ DOMAIN blocks = 1..Len(blocks)
      /\ DOMAIN blocks' = 1..(Len(blocks) + 1)
      /\ \A i \in DOMAIN blocks : blocks'[i] = blocks[i]
      /\ blocks'[Len(blocks) + 1].kind = "session"
      /\ blocks'[Len(blocks) + 1].tree = Root
  <2>1. Enter("session", Root) /\ Root \in Tree
    BY Identifiers DEF BeginSession
  <2>2. blocks'[Len(blocks) + 1] = [kind |-> "session", tree |-> Root]
    BY <2>1, EnterShape
  <2>. QED  BY <2>1, <2>2, EnterShape
<1>6. BlocksNest'
  BY <1>1, <1>4, <1>5, Identifiers DEF BlocksNest
<1>7. BlocksKeepTheirTransaction'
  BY <1>2, <1>4, <1>5 DEF BlocksKeepTheirTransaction
<1>. QED  BY <1>3, <1>6, <1>7

LEMMA BeginSessionRefusedInv ==
  ASSUME IndInv, BeginSessionRefused
  PROVE  TransactionsWellFormed' /\ BlocksNest' /\ BlocksKeepTheirTransaction'
<1>. USE DEF IndInv
<1>. DEFINE busy  == SessionTrees \cap started
            early == EarlierThan(busy)
<1>1. /\ SessionTrees' = SessionTrees /\ Handle' = Handle
      /\ Multi \notin started /\ UNCHANGED blocks
  BY DEF BeginSessionRefused, devVars, SessionTrees, Created, Handle
<1>2. early \subseteq SessionTrees \ started /\ early \subseteq Handle
  <2>1. Created \subseteq Nat \ {Root}
    BY DEF Created, TypeOK, Root
  <2>2. ASSUME NEW o \in early
        PROVE  o \notin started
    BY <2>1, <2>2 DEF EarlierThan, SessionTrees
  <2>. QED  BY <2>2, Identifiers DEF EarlierThan, SessionTrees
<1>3. Start({Multi} \cup early, early)
  BY DEF BeginSessionRefused
<1>4. /\ started' = started \cup {Multi} \cup early
      /\ forward' \subseteq forward \cup early
      /\ \A x \in Tx \ started' : queue'[x] = queue[x]
      /\ queue'[Multi] = <<>>
  BY <1>3, Identifiers DEF Start
<1>. HIDE DEF early
<1>5. TransactionsWellFormed'
  BY <1>1, <1>2, <1>4, Identifiers DEF TransactionsWellFormed, Entries
<1>6. BlocksNest'
  BY <1>1 DEF BlocksNest
<1>7. BlocksKeepTheirTransaction'
  BY <1>1, <1>2, <1>4 DEF BlocksKeepTheirTransaction
<1>. QED  BY <1>5, <1>6, <1>7

(* Both ends of a session block.                                           *)
LEMMA EndSessionInv ==
  ASSUME IndInv, Innermost("session"), Stop({Multi} \cup SessionTrees), Leave,
         UNCHANGED devVars
  PROVE  TransactionsWellFormed' /\ BlocksNest' /\ BlocksKeepTheirTransaction'
<1>. USE DEF IndInv
<1>1. /\ SessionTrees' = SessionTrees /\ Handle' = Handle
      /\ blocks # <<>> /\ blocks[Len(blocks)].kind = "session"
  BY DEF devVars, SessionTrees, Created, Handle, Innermost
<1>2. /\ started' = started \ ({Multi} \cup SessionTrees)
      /\ forward' = forward \ ({Multi} \cup SessionTrees)
      /\ \A x \in Tx \ started' : queue'[x] = <<>> \/ queue'[x] = queue[x]
      /\ queue'[Multi] = <<>>
      /\ \A x \in SessionTrees : queue'[x] = <<>>
  BY Identifiers DEF Stop
<1>3. TransactionsWellFormed'
  BY <1>1, <1>2, Identifiers DEF TransactionsWellFormed, Entries
<1>4. \A i \in DOMAIN blocks' : /\ blocks'[i] = blocks[i]
                                /\ i \in DOMAIN blocks
                                /\ blocks[i].kind # "session"
                                /\ blocks[i].tree \notin SessionTrees
                                /\ blocks[i].tree # Multi
  BY <1>1, LeaveShape, Identifiers DEF BlocksNest
<1>5. BlocksKeepTheirTransaction'
  BY <1>2, <1>4 DEF BlocksKeepTheirTransaction
<1>. QED  BY <1>1, <1>3, <1>5, LeaveNests

LEMMA BeginTreeInv ==
  ASSUME IndInv, NEW t \in Handle, BeginTree(t)
  PROVE  TransactionsWellFormed' /\ BlocksNest' /\ BlocksKeepTheirTransaction'
<1>. USE DEF IndInv
<1>1. /\ SessionTrees' = SessionTrees /\ Handle' = Handle
      /\ t \notin started /\ t \notin forward
  BY DEF BeginTree, devVars, SessionTrees, Created, Handle, TransactionsWellFormed
<1>2. /\ started' = started \cup {t} /\ forward' = forward
      /\ \A x \in Tx \ started' : queue'[x] = queue[x]
      /\ queue'[Multi] = queue[Multi]
  BY <1>1, Identifiers DEF BeginTree, Start
<1>3. TransactionsWellFormed'
  BY <1>1, <1>2 DEF TransactionsWellFormed, Entries
<1>4. /\ Len(blocks) \in Nat
      /\ DOMAIN blocks = 1..Len(blocks)
      /\ DOMAIN blocks' = 1..(Len(blocks) + 1)
      /\ \A i \in DOMAIN blocks : blocks'[i] = blocks[i]
      /\ blocks'[Len(blocks) + 1].kind = "tree"
      /\ blocks'[Len(blocks) + 1].tree = t
  <2>1. Enter("tree", t) /\ t \in Tree
    BY Identifiers DEF BeginTree
  <2>2. blocks'[Len(blocks) + 1] = [kind |-> "tree", tree |-> t]
    BY <2>1, EnterShape
  <2>. QED  BY <2>1, <2>2, EnterShape
<1>5. \A i \in DOMAIN blocks : blocks[i].kind # "session" => blocks[i].tree # t
  BY <1>1 DEF BlocksKeepTheirTransaction
<1>6. BlocksNest'
  BY <1>1, <1>4, <1>5 DEF BlocksNest
<1>7. BlocksKeepTheirTransaction'
  BY <1>1, <1>2, <1>4, <1>5 DEF BlocksKeepTheirTransaction
<1>. QED  BY <1>3, <1>6, <1>7

LEMMA BeginJoinInv ==
  ASSUME IndInv, NEW t \in Handle, BeginJoin(t)
  PROVE  TransactionsWellFormed' /\ BlocksNest' /\ BlocksKeepTheirTransaction'
<1>. USE DEF IndInv
<1>1. /\ SessionTrees' = SessionTrees /\ Handle' = Handle
      /\ t \in started /\ UNCHANGED <<started, queue, forward>>
  BY DEF BeginJoin, devVars, txVars, SessionTrees, Created, Handle
<1>2. /\ Len(blocks) \in Nat
      /\ DOMAIN blocks = 1..Len(blocks)
      /\ DOMAIN blocks' = 1..(Len(blocks) + 1)
      /\ \A i \in DOMAIN blocks : blocks'[i] = blocks[i]
      /\ blocks'[Len(blocks) + 1].kind = "join"
      /\ blocks'[Len(blocks) + 1].tree = t
  <2>1. Enter("join", t) /\ t \in Tree
    BY Identifiers DEF BeginJoin
  <2>2. blocks'[Len(blocks) + 1] = [kind |-> "join", tree |-> t]
    BY <2>1, EnterShape
  <2>. QED  BY <2>1, <2>2, EnterShape
<1>3. TransactionsWellFormed'
  BY <1>1 DEF TransactionsWellFormed, Entries
<1>4. BlocksNest'
  BY <1>1, <1>2 DEF BlocksNest
<1>5. BlocksKeepTheirTransaction'
  BY <1>1, <1>2 DEF BlocksKeepTheirTransaction
<1>. QED  BY <1>3, <1>4, <1>5

(* Both ends of a tree block.                                              *)
LEMMA EndTreeInv ==
  ASSUME IndInv, Innermost("tree"), Stop({blocks[Len(blocks)].tree}), Leave,
         UNCHANGED devVars
  PROVE  TransactionsWellFormed' /\ BlocksNest' /\ BlocksKeepTheirTransaction'
<1>. USE DEF IndInv
<1>. DEFINE t == blocks[Len(blocks)].tree
<1>1. /\ SessionTrees' = SessionTrees /\ Handle' = Handle
      /\ blocks # <<>> /\ blocks[Len(blocks)].kind = "tree"
  BY DEF devVars, SessionTrees, Created, Handle, Innermost
<1>2. Len(blocks) \in DOMAIN blocks /\ t \in Handle /\ t \notin forward /\ t # Multi
  BY <1>1, LeaveShape, Identifiers DEF BlocksNest, BlocksKeepTheirTransaction
<1>3. /\ started' = started \ {t} /\ forward' = forward
      /\ \A x \in Tx \ started' : queue'[x] = <<>> \/ queue'[x] = queue[x]
      /\ queue'[Multi] = queue[Multi]
      /\ t \in Tx => queue'[t] = <<>>
  BY <1>2, Identifiers DEF Stop
<1>4. TransactionsWellFormed'
  BY <1>1, <1>2, <1>3 DEF TransactionsWellFormed, Entries
<1>5. \A i \in DOMAIN blocks' :
        /\ blocks'[i] = blocks[i] /\ i \in DOMAIN blocks
        /\ blocks[i].kind # "session" => blocks[i].tree # t
  BY <1>1, <1>2, LeaveShape DEF BlocksNest
<1>6. BlocksKeepTheirTransaction'
  BY <1>2, <1>3, <1>5 DEF BlocksKeepTheirTransaction
<1>. QED  BY <1>1, <1>4, <1>6, LeaveNests

LEMMA EndJoinInv ==
  ASSUME IndInv, EndJoin
  PROVE  TransactionsWellFormed' /\ BlocksNest' /\ BlocksKeepTheirTransaction'
<1>. USE DEF IndInv
<1>1. /\ SessionTrees' = SessionTrees /\ Handle' = Handle /\ blocks # <<>> /\ Leave
      /\ UNCHANGED <<started, queue, forward>> /\ UNCHANGED devVars
  BY DEF EndJoin, devVars, txVars, SessionTrees, Created, Handle, Innermost
<1>2. TransactionsWellFormed'
  BY <1>1 DEF TransactionsWellFormed, Entries
<1>3. BlocksKeepTheirTransaction'
  BY <1>1, LeaveShape DEF BlocksKeepTheirTransaction
<1>. QED  BY <1>1, <1>2, <1>3, LeaveNests

LEMMA BlockStepInv ==
  ASSUME IndInv, BlockStep
  PROVE  TransactionsWellFormed' /\ BlocksNest' /\ BlocksKeepTheirTransaction'
<1>1. CASE BeginSession
  BY <1>1, BeginSessionInv
<1>2. CASE BeginSessionRefused
  BY <1>2, BeginSessionRefusedInv
<1>3. CASE CommitSession \/ AbortSession
  <2>1. UNCHANGED devVars
    BY <1>3 DEF CommitSession, AbortSession
  <2>. QED  BY <1>3, <2>1, EndSessionInv DEF CommitSession, AbortSession
<1>4. CASE \E t \in Handle : BeginTree(t) \/ BeginJoin(t)
  BY <1>4, BeginTreeInv, BeginJoinInv
<1>5. CASE CommitTree \/ AbortTree
  <2>1. UNCHANGED devVars
    BY <1>5 DEF CommitTree, AbortTree
  <2>. QED  BY <1>5, <2>1, EndTreeInv DEF CommitTree, AbortTree
<1>6. CASE EndJoin
  BY <1>6, EndJoinInv
<1>. QED  BY <1>1, <1>2, <1>3, <1>4, <1>5, <1>6 DEF BlockStep

LEMMA IndInvInit == Init => IndInv
<1>. HAVE Init
<1>1. TypeOK
  <2>1. <<>> \in Seq(Entry) /\ <<>> \in Seq(Block) /\ <<>> \in Seq(Seq(Entry))
    OBVIOUS
  <2>. QED  BY <2>1, SessionAssumption DEF Init, TypeOK, Endings
<1>2. DOMAIN blocks = {}
  BY DEF Init
<1>3. Entries(Multi) = {}
  BY <1>1, Identifiers DEF Init, Entries
<1>. QED  BY <1>1, <1>2, <1>3
          DEF Init, IndInv, TransactionsWellFormed, BlocksNest,
              BlocksKeepTheirTransaction

LEMMA IndInvStep == IndInv /\ [Next]_vars => IndInv'
<1>. SUFFICES ASSUME IndInv, [Next]_vars PROVE IndInv'
  OBVIOUS
<1>1. CASE DeviceStep
  BY <1>1, DeviceStepType, DeviceStepInv DEF IndInv
<1>2. CASE SetStep
  BY <1>2, SetStepType, SetStepInv DEF IndInv
<1>3. CASE BlockStep
  BY <1>3, BlockStepType, BlockStepInv DEF IndInv
<1>4. CASE UNCHANGED vars
  BY <1>4 DEF vars, IndInv, TypeOK, TransactionsWellFormed, BlocksNest,
              BlocksKeepTheirTransaction, Entries, SessionTrees, Created, Handle
<1>. QED  BY <1>1, <1>2, <1>3, <1>4 DEF Next

(* The inductive invariant holds in every reachable state.                 *)
THEOREM IndInvHolds == Spec => []IndInv
  BY IndInvInit, IndInvStep, PTL DEF Spec

(* A with block keeps its transaction until it ends: nothing that happens  *)
(* within set_transaction, at whatever depth, stops or takes over the      *)
(* transaction of an enclosing block or the one a helper joined.           *)
THEOREM BlocksKeepTheirTransactionHolds == Spec => []BlocksKeepTheirTransaction
<1>1. IndInv => BlocksKeepTheirTransaction
  BY DEF IndInv
<1>. QED  BY <1>1, IndInvHolds, PTL

-----------------------------------------------------------------------------
(* The session bundle.                                                     *)

LEMMA TreesUnchanged ==
  ASSUME UNCHANGED devVars
  PROVE  SessionTrees' = SessionTrees /\ Handle' = Handle
BY DEF devVars, SessionTrees, Created, Handle

(* The transaction of an innermost tree block is not forwarded.            *)
LEMMA InnermostTree ==
  ASSUME IndInv, Innermost("tree")
  PROVE  /\ blocks[Len(blocks)].tree \notin forward
         /\ blocks[Len(blocks)].tree \in Handle
<1>1. Len(blocks) \in DOMAIN blocks /\ blocks[Len(blocks)].kind = "tree"
  BY LeaveKeepsOuter DEF Innermost, IndInv, TypeOK
<1>. QED  BY <1>1 DEF IndInv, BlocksNest, BlocksKeepTheirTransaction

LEMMA CoversStep ==
  ASSUME IndInv, SessionBlockCoversDevices, [Next]_vars
  PROVE  SessionBlockCoversDevices'
<1>. SUFFICES ASSUME InSession', ~HF2
              PROVE  SessionTrees' \subseteq started' \cap forward'
  BY DEF SessionBlockCoversDevices
<1>. USE DEF IndInv
<1>1. InSession => SessionTrees \subseteq started \cap forward /\ Multi \in started
  BY DEF SessionBlockCoversDevices, InSession, BlocksKeepTheirTransaction
<1>2. CASE DeviceStep
  <2>1. InSession
    BY <1>2, DeviceStepShape DEF InSession
  <2>2. CASE DropsDevices
    BY <1>1, <2>1, <2>2 DEF DropsDevices
  <2>3. CASE AddsDevice
    BY <1>1, <2>1, <2>3 DEF AddsDevice, Start
  <2>. QED  BY <1>2, <2>2, <2>3, DeviceStepShape
<1>3. CASE SetStep
  BY <1>1, <1>3, SetStepShape DEF SetShape, InSession, SessionTrees, Created
<1>4. CASE BeginSession
  BY <1>4, TreesUnchanged DEF BeginSession, Start
<1>5. CASE BeginSessionRefused
  BY <1>1, <1>5 DEF BeginSessionRefused, InSession
<1>6. CASE CommitSession \/ AbortSession
  <2>1. /\ blocks # <<>> /\ Leave /\ blocks[Len(blocks)].kind = "session"
    BY <1>6 DEF CommitSession, AbortSession, Innermost
  <2>2. PICK i \in DOMAIN blocks' : blocks'[i].kind = "session"
    BY DEF InSession
  <2>3. FALSE
    BY <2>1, <2>2, LeaveShape DEF BlocksNest
  <2>. QED  BY <2>3
<1>7. CASE \E t \in Handle : BeginTree(t) \/ BeginJoin(t)
  <2>1. PICK t \in Handle : BeginTree(t) \/ BeginJoin(t)
    BY <1>7
  <2>2. PICK k \in {"tree", "join"} : Enter(k, t)
    BY <2>1 DEF BeginTree, BeginJoin
  <2>3. InSession
    <3>1. t \in Tree
      BY Identifiers
    <3>2. blocks'[Len(blocks) + 1].kind # "session"
      <4>1. blocks'[Len(blocks) + 1] = [kind |-> k, tree |-> t]
        BY <2>2, <3>1, EnterShape
      <4>. QED  BY <4>1
    <3>3. /\ Len(blocks) \in Nat
          /\ DOMAIN blocks = 1..Len(blocks)
          /\ DOMAIN blocks' = 1..(Len(blocks) + 1)
          /\ \A i \in DOMAIN blocks : blocks'[i] = blocks[i]
      BY <2>2, <3>1, EnterShape
    <3>. QED  BY <3>2, <3>3 DEF InSession
  <2>4. CASE BeginTree(t)
    <3>1. t \notin forward
      BY <2>4 DEF BeginTree, TransactionsWellFormed
    <3>. QED  BY <1>1, <2>3, <2>4, <3>1, TreesUnchanged DEF BeginTree, Start
  <2>5. CASE BeginJoin(t)
    BY <1>1, <2>3, <2>5, TreesUnchanged DEF BeginJoin, txVars
  <2>. QED  BY <2>1, <2>4, <2>5
<1>8. CASE CommitTree \/ AbortTree
  <2>1. /\ Innermost("tree") /\ Leave /\ UNCHANGED devVars
        /\ Stop({blocks[Len(blocks)].tree})
    BY <1>8 DEF CommitTree, AbortTree
  <2>2. InSession
    BY <2>1, LeaveShape DEF InSession, Innermost
  <2>. QED  BY <1>1, <2>1, <2>2, InnermostTree, TreesUnchanged DEF Stop
<1>9. CASE EndJoin
  <2>1. InSession
    BY <1>9, LeaveShape DEF InSession, EndJoin, Innermost
  <2>. QED  BY <1>1, <1>9, <2>1, TreesUnchanged DEF EndJoin, txVars
<1>10. CASE UNCHANGED vars
  BY <1>1, <1>10 DEF vars, InSession, SessionTrees, Created
<1>. QED  BY <1>2, <1>3, <1>4, <1>5, <1>6, <1>7, <1>8, <1>9, <1>10
          DEF Next, BlockStep

(* On every data server but HF2, an open session block covers the session  *)
(* and every device object session.devices hands out, whenever it was      *)
(* created (Devices.__getitem__ starts the transaction of a new device).   *)
THEOREM SessionBlockCoversDevicesHolds == Spec => []SessionBlockCoversDevices
<1>1. Init => SessionBlockCoversDevices
  BY DEF Init, SessionBlockCoversDevices, InSession
<1>. QED  BY <1>1, CoversStep, IndInvHolds, PTL DEF Spec

(* The mirror of one tree.                                                 *)
Mirrors(t) ==
  /\ {e \in Entries(t) : ~e.list} \subseteq Entries(Multi)
  /\ {e \in Entries(Multi) : e.tree = t} \subseteq Entries(t)

LEMMA MirrorKept ==
  ASSUME NEW t, Mirrors(t), UNCHANGED <<queue[Multi], queue[t]>>
  PROVE  Mirrors(t)'
BY DEF Mirrors, Entries

LEMMA MirrorEmpty ==
  ASSUME NEW t, queue'[t] = <<>>,
         \/ queue'[Multi] = <<>>
         \/ queue'[Multi] = queue[Multi] /\ \A e \in Entries(Multi) : e.tree # t
  PROVE  Mirrors(t)'
BY DEF Mirrors, Entries

LEMMA MirrorSet ==
  ASSUME IndInv, SetStep, NEW t \in SessionTrees \cap forward, Mirrors(t),
         Multi \in started
  PROVE  Mirrors(t)'
<1>. USE DEF IndInv
<1>0. t \in Tx /\ Multi \in Tx /\ t # Multi /\ t \in started
  BY Identifiers DEF TransactionsWellFormed
<1>1. \A x : /\ x \in Entries(Multi) /\ x.tree = t => x \in Entries(t)
             /\ x \in Entries(t) /\ ~x.list => x \in Entries(Multi)
  BY DEF Mirrors
<1>2. PICK u \in Handle : \/ SetShape(u, FALSE, AddTargets(u))
                          \/ SetShape(u, TRUE, AddListTargets(u))
  BY SetStepShape
<1>3. u # Multi /\ NewEntry(u, FALSE).tree = u /\ ~NewEntry(u, FALSE).list
      /\ NewEntry(u, TRUE).tree = u /\ NewEntry(u, TRUE).list
  BY Identifiers DEF NewEntry
<1>4. \A x : /\ x \in Entries(Multi)' /\ x.tree = t => x \in Entries(t)'
             /\ x \in Entries(t)' /\ ~x.list => x \in Entries(Multi)'
  <2>1. CASE SetShape(u, FALSE, AddTargets(u))
    <3>. DEFINE e == NewEntry(u, FALSE)
    <3>1. \/ Entries(Multi)' = Entries(Multi) /\ Entries(t)' = Entries(t)
          \/ /\ Entries(Multi)' = IF Multi \in AddTargets(u)
                                    THEN Entries(Multi) \cup {e} ELSE Entries(Multi)
             /\ Entries(t)' = IF t \in AddTargets(u)
                                THEN Entries(t) \cup {e} ELSE Entries(t)
      BY <1>0, <2>1, SetEntries
    <3>2. CASE u = t
      <4>1. Multi \in AddTargets(u) /\ t \in AddTargets(u)
        BY <3>2 DEF AddTargets
      <4>2. \/ Entries(Multi)' = Entries(Multi) /\ Entries(t)' = Entries(t)
            \/ /\ Entries(Multi)' = Entries(Multi) \cup {e}
               /\ Entries(t)' = Entries(t) \cup {e}
        BY <3>1, <4>1
      <4>3. e.tree = t /\ ~e.list
        BY <1>3, <3>2
      <4>. HIDE DEF e
      <4>4. ASSUME NEW x
            PROVE  /\ x \in Entries(Multi)' /\ x.tree = t => x \in Entries(t)'
                   /\ x \in Entries(t)' /\ ~x.list => x \in Entries(Multi)'
        <5>1. CASE x = e
          BY <1>1, <4>2, <4>3, <5>1
        <5>2. CASE x # e
          BY <1>1, <4>2, <5>2, Zenon
        <5>. QED  BY <5>1, <5>2
      <4>. QED  BY <4>4
    <3>3. CASE u # t
      <4>1. t \notin AddTargets(u)
        BY <1>0, <3>3 DEF AddTargets
      <4>2. /\ Entries(Multi)' = Entries(Multi)
               \/ Entries(Multi)' = Entries(Multi) \cup {e}
            /\ Entries(t)' = Entries(t)
        BY <3>1, <4>1
      <4>3. e.tree # t
        BY <1>3, <3>3
      <4>. HIDE DEF e
      <4>. QED  BY <1>1, <4>2, <4>3, Zenon
    <3>. QED  BY <3>2, <3>3
  <2>2. CASE SetShape(u, TRUE, AddListTargets(u))
    <3>. DEFINE e == NewEntry(u, TRUE)
    <3>1. Multi \notin AddListTargets(u)
      BY <1>3 DEF AddListTargets
    <3>2. /\ Entries(Multi)' = Entries(Multi)
          /\ Entries(t)' = Entries(t) \/ Entries(t)' = Entries(t) \cup {e}
      BY <1>0, <2>2, <3>1, SetEntries
    <3>3. e.list
      BY <1>3
    <3>. HIDE DEF e
    <3>. QED  BY <1>1, <3>2, <3>3, Zenon
  <2>. QED  BY <1>2, <2>1, <2>2
<1>. QED  BY <1>4 DEF Mirrors

LEMMA MirrorStep ==
  ASSUME IndInv, BundleMirrorsTrees, [Next]_vars
  PROVE  BundleMirrorsTrees'
<1>. SUFFICES ASSUME Multi \in started', NEW t \in SessionTrees' \cap forward'
              PROVE  Mirrors(t)'
  BY DEF BundleMirrorsTrees, Mirrors
<1>. USE DEF IndInv
<1>1. Multi \in started /\ t \in SessionTrees \cap forward => Mirrors(t)
  BY DEF BundleMirrorsTrees, Mirrors
<1>2. CASE DeviceStep
  <2>1. CASE DropsDevices
    BY <1>1, <2>1, MirrorKept DEF DropsDevices, TransactionsWellFormed
  <2>2. CASE AddsDevice
    <3>0. made + 1 \notin forward /\ made + 1 \in Tx /\ made + 1 # Multi
          /\ Multi \in Tx /\ \A e \in Entries(Multi) : e.tree # made + 1
      BY <2>2, Identifiers DEF AddsDevice, TransactionsWellFormed, Tx, Tree
    <3>1. CASE UNCHANGED <<started, queue, forward>>
      BY <1>1, <2>2, <3>0, <3>1, MirrorKept DEF AddsDevice
    <3>2. CASE Multi \in started /\ Start({made + 1}, {made + 1})
      <4>1. queue'[Multi] = queue[Multi] /\ queue'[made + 1] = <<>>
        BY <3>0, <3>2 DEF Start
      <4>2. CASE t = made + 1
        BY <3>0, <4>1, <4>2, MirrorEmpty
      <4>3. CASE t # made + 1
        <5>1. t \in SessionTrees \cap forward /\ t \in Tx
          BY <2>2, <3>2, <4>3, Identifiers DEF AddsDevice, Start
        <5>2. queue'[t] = queue[t]
          BY <3>2, <4>3, <5>1 DEF Start
        <5>. QED  BY <1>1, <3>2, <4>1, <5>1, <5>2, MirrorKept
      <4>. QED  BY <4>2, <4>3
    <3>. QED  BY <2>2, <3>1, <3>2 DEF AddsDevice
  <2>. QED  BY <1>2, <2>1, <2>2, DeviceStepShape
<1>3. CASE SetStep
  <2>1. UNCHANGED <<started, forward>> /\ SessionTrees' = SessionTrees
    BY <1>3, SetStepShape DEF SetShape, SessionTrees, Created
  <2>. QED  BY <1>1, <1>3, <2>1, MirrorSet
<1>4. CASE BeginSession
  <2>1. queue'[t] = <<>> /\ queue'[Multi] = <<>>
    BY <1>4, TreesUnchanged, Identifiers DEF BeginSession, Start
  <2>. QED  BY <2>1, MirrorEmpty
<1>5. CASE BeginSessionRefused
  <2>1. PICK early : Start({Multi} \cup early, early) /\ UNCHANGED devVars
                     /\ Multi \notin started
    BY <1>5 DEF BeginSessionRefused
  <2>2. t \in SessionTrees /\ t \in Tx
    BY <2>1, TreesUnchanged, Identifiers
  <2>3. t \in early
    BY <2>1, <2>2 DEF Start, TransactionsWellFormed
  <2>4. queue'[t] = <<>> /\ queue'[Multi] = <<>>
    BY <2>1, <2>2, <2>3, Identifiers DEF Start
  <2>. QED  BY <2>4, MirrorEmpty
<1>6. CASE CommitSession \/ AbortSession
  BY <1>6 DEF CommitSession, AbortSession, Stop
<1>7. CASE \E u \in Handle : BeginTree(u)
  <2>1. PICK u \in Handle : BeginTree(u)
    BY <1>7
  <2>2. u \notin forward /\ u # Multi /\ Multi \in Tx
    BY <2>1, Identifiers DEF BeginTree, TransactionsWellFormed
  <2>3. t \in SessionTrees \cap forward /\ t \in Tx /\ t # u /\ Multi \in started
    BY <2>1, <2>2, TreesUnchanged, Identifiers DEF BeginTree, Start
  <2>4. UNCHANGED <<queue[Multi], queue[t]>>
    BY <2>1, <2>2, <2>3 DEF BeginTree, Start
  <2>. QED  BY <1>1, <2>3, <2>4, MirrorKept
<1>8. CASE CommitTree \/ AbortTree
  <2>. DEFINE u == blocks[Len(blocks)].tree
  <2>1. Innermost("tree") /\ UNCHANGED devVars /\ Stop({u})
    BY <1>8 DEF CommitTree, AbortTree
  <2>2. u \notin forward /\ u \in Handle /\ u # Multi /\ Multi \in Tx
    BY <2>1, InnermostTree, Identifiers
  <2>. HIDE DEF u
  <2>3. t \in SessionTrees \cap forward /\ t \in Tx /\ t # u /\ Multi \in started
    BY <2>1, <2>2, TreesUnchanged, Identifiers DEF Stop
  <2>4. UNCHANGED <<queue[Multi], queue[t]>>
    BY <2>1, <2>2, <2>3 DEF Stop
  <2>. QED  BY <1>1, <2>3, <2>4, MirrorKept
<1>9. CASE EndJoin \/ \E u \in Handle : BeginJoin(u)
  <2>1. UNCHANGED <<started, queue, forward, devVars>>
    BY <1>9 DEF EndJoin, BeginJoin, txVars
  <2>. QED  BY <1>1, <2>1, TreesUnchanged, MirrorKept
<1>10. CASE UNCHANGED vars
  BY <1>1, <1>10, MirrorKept DEF vars, SessionTrees, Created
<1>. QED  BY <1>2, <1>3, <1>4, <1>5, <1>6, <1>7, <1>8, <1>9, <1>10
          DEF Next, BlockStep

(* What a tree of the session hands to its Transaction.add is what the     *)
(* session bundle holds of it: no set of a node is missing from the list   *)
(* that Session.set_transaction sends, and none is in it without having    *)
(* been issued on a tree of the session or on an object it handed out.     *)
THEOREM BundleMirrorsTreesHolds == Spec => []BundleMirrorsTrees
<1>1. Init => BundleMirrorsTrees
  BY DEF Init, BundleMirrorsTrees
<1>. QED  BY <1>1, MirrorStep, IndInvHolds, PTL DEF Spec

-----------------------------------------------------------------------------
(* The order of the commands.                                              *)
(*                                                                         *)
(* A command may be in two queues at a time, in that of its tree and in    *)
(* the session bundle.  What keeps it from being applied twice is that the *)
(* queue of a tree that forwards is never handed to the data server: only  *)
(* tree blocks hand out the queues of trees, and those do not forward      *)
(* (BlocksKeepTheirTransaction).                                           *)

(* The issue numbers of a list of settings, and that they ascend.          *)
Ids(s) == {s[i].id : i \in DOMAIN s}

Ascending(s) == \A i, j \in DOMAIN s : i < j => s[i].id < s[j].id

(* A list that was filled in the order of the commands issued so far.      *)
Filled(s) == Ascending(s) /\ Ids(s) \subseteq 0..issued

(* Transactions whose queue may be handed to the data server.              *)
Sendable == Tx \ forward

QueuesApart ==
  \A x, y \in Sendable : x # y => Ids(queue[x]) \cap Ids(queue[y]) = {}

ServerApart ==
  \A b, c \in DOMAIN server : b # c => Ids(server[b]) \cap Ids(server[c]) = {}

NotYetApplied ==
  \A b \in DOMAIN server, x \in Sendable :
    Ids(server[b]) \cap Ids(queue[x]) = {}

(* Every list is filled in order, and those that are applied, or may be,   *)
(* have no command in common.                                              *)
OrderInv ==
  /\ \A x \in Tx : Filled(queue[x])
  /\ \A b \in DOMAIN server : Filled(server[b])
  /\ QueuesApart
  /\ ServerApart
  /\ NotYetApplied

-----------------------------------------------------------------------------
(* Lists.                                                                  *)

LEMMA EmptyList == Ascending(<<>>) /\ Ids(<<>>) = {}
BY DEF Ascending, Ids

(* A new command at the end of a queue (Transaction.add).                  *)
LEMMA AppendNew ==
  ASSUME NEW s \in Seq(Entry), NEW e \in Entry, Ascending(s),
         \A n \in Ids(s) : n < e.id
  PROVE  Ascending(Append(s, e)) /\ Ids(Append(s, e)) = Ids(s) \cup {e.id}
<1>1. /\ DOMAIN Append(s, e) = 1..(Len(s) + 1)
      /\ DOMAIN s = 1..Len(s)
      /\ Len(s) \in Nat
      /\ \A i \in 1..Len(s) : Append(s, e)[i] = s[i] /\ i \in DOMAIN s
      /\ Append(s, e)[Len(s) + 1] = e
  OBVIOUS
<1>2. \A i \in 1..Len(s) : s[i].id < e.id
  BY <1>1 DEF Ids
<1>3. Ascending(Append(s, e))
  <2>. SUFFICES ASSUME NEW i \in 1..(Len(s) + 1), NEW j \in 1..(Len(s) + 1), i < j
                PROVE  Append(s, e)[i].id < Append(s, e)[j].id
    BY <1>1 DEF Ascending
  <2>1. i \in 1..Len(s)
    BY <1>1
  <2>2. CASE j = Len(s) + 1
    BY <1>1, <1>2, <2>1, <2>2
  <2>3. CASE j # Len(s) + 1
    <3>1. j \in 1..Len(s)
      BY <1>1, <2>3
    <3>. QED  BY <1>1, <2>1, <3>1 DEF Ascending
  <2>. QED  BY <2>2, <2>3
<1>4. ASSUME NEW n \in Ids(Append(s, e)) PROVE n \in Ids(s) \cup {e.id}
  <2>1. PICK i \in 1..(Len(s) + 1) : n = Append(s, e)[i].id
    BY <1>1 DEF Ids
  <2>2. CASE i = Len(s) + 1
    BY <1>1, <2>1, <2>2
  <2>3. CASE i # Len(s) + 1
    <3>1. i \in 1..Len(s)
      BY <1>1, <2>3
    <3>. QED  BY <1>1, <2>1, <3>1 DEF Ids
  <2>. QED  BY <2>2, <2>3
<1>5. ASSUME NEW n \in Ids(s) PROVE n \in Ids(Append(s, e))
  <2>1. PICK i \in 1..Len(s) : n = s[i].id
    BY <1>1 DEF Ids
  <2>2. i \in DOMAIN Append(s, e) /\ Append(s, e)[i].id = n
    BY <1>1, <2>1
  <2>. QED  BY <2>2 DEF Ids
<1>6. e.id \in Ids(Append(s, e))
  <2>1. Len(s) + 1 \in DOMAIN Append(s, e)
    BY <1>1
  <2>. QED  BY <1>1, <2>1 DEF Ids
<1>. QED  BY <1>3, <1>4, <1>5, <1>6

(* What a further list is for the lists applied before it.                 *)
LEMMA AppendList ==
  ASSUME NEW S, NEW r \in Seq(S), NEW l \in S
  PROVE  /\ DOMAIN Append(r, l) = 1..(Len(r) + 1)
         /\ DOMAIN r = 1..Len(r) /\ Len(r) \in Nat
         /\ \A b \in DOMAIN r : Append(r, l)[b] = r[b]
         /\ Append(r, l)[Len(r) + 1] = l
         /\ \A b \in DOMAIN Append(r, l) : b \in DOMAIN r \/ b = Len(r) + 1
OBVIOUS

-----------------------------------------------------------------------------
(* Steps.                                                                  *)

(* The data server applies a list of commands it has not applied yet, of   *)
(* which no queue that may be sent is left a part.                         *)
LEMMA SendInv ==
  ASSUME OrderInv, server \in Seq(Seq(Entry)), issued \in Nat, issued' \in Nat,
         issued <= issued', NEW l \in Seq(Entry), Send(l),
         Ascending(l), Ids(l) \subseteq 0..issued',
         \A b \in DOMAIN server : Ids(server[b]) \cap Ids(l) = {},
         \A x \in Tx : Filled(queue[x])', QueuesApart',
         \A x \in Sendable' : Ids(queue'[x]) \cap Ids(l) = {},
         \A b \in DOMAIN server, x \in Sendable' :
           Ids(server[b]) \cap Ids(queue'[x]) = {}
  PROVE  OrderInv'
<1>0. \A b \in DOMAIN server : Ascending(server[b]) /\ Ids(server[b]) \subseteq 0..issued'
  BY DEF OrderInv, Filled
<1>1. CASE server' = server
  <2>1. \A b \in DOMAIN server' : Filled(server[b])'
    BY <1>0, <1>1 DEF Filled, Ascending, Ids
  <2>. QED  BY <1>1, <2>1 DEF OrderInv, ServerApart, NotYetApplied
<1>2. CASE server' = Append(server, l)
  <2>1. /\ \A b \in DOMAIN server : server'[b] = server[b]
        /\ server'[Len(server) + 1] = l
        /\ \A b \in DOMAIN server' : b \in DOMAIN server \/ b = Len(server) + 1
    BY <1>2, AppendList
  <2>2. \A b \in DOMAIN server' :
          Ascending(server'[b]) /\ Ids(server'[b]) \subseteq 0..issued'
    BY <1>0, <2>1
  <2>3. ServerApart'
    <3>. SUFFICES ASSUME NEW b \in DOMAIN server', NEW c \in DOMAIN server', b # c
                  PROVE  Ids(server'[b]) \cap Ids(server'[c]) = {}
      BY DEF ServerApart, Ids
    <3>1. CASE b \in DOMAIN server /\ c \in DOMAIN server
      BY <2>1, <3>1 DEF OrderInv, ServerApart
    <3>2. CASE b \in DOMAIN server /\ c = Len(server) + 1
      BY <2>1, <3>2
    <3>3. CASE b = Len(server) + 1 /\ c \in DOMAIN server
      BY <2>1, <3>3
    <3>. QED  BY <2>1, <3>1, <3>2, <3>3
  <2>4. NotYetApplied'
    <3>. SUFFICES ASSUME NEW b \in DOMAIN server', NEW x \in Sendable'
                  PROVE  Ids(server'[b]) \cap Ids(queue'[x]) = {}
      BY DEF NotYetApplied, Ids
    <3>. QED  BY <2>1
  <2>5. \A b \in DOMAIN server' : Filled(server[b])'
    BY <2>2 DEF Filled, Ascending, Ids
  <2>. QED  BY <2>3, <2>4, <2>5 DEF OrderInv
<1>. QED  BY <1>1, <1>2 DEF Send, Applied

(* Queues are emptied, and a tree that no longer forwards has an empty     *)
(* queue: every step but a set.                                            *)
LEMMA EmptiedFacts ==
  ASSUME OrderInv, UNCHANGED issued,
         \A x \in Tx : queue'[x] = queue[x] \/ queue'[x] = <<>>,
         \A x \in Tx \ forward' : x \in forward => queue'[x] = <<>>
  PROVE  /\ \A x \in Tx : Filled(queue[x])'
         /\ QueuesApart'
         /\ \A b \in DOMAIN server, x \in Sendable' :
              Ids(server[b]) \cap Ids(queue'[x]) = {}
<1>1. ASSUME NEW x \in Tx
      PROVE  Ascending(queue'[x]) /\ Ids(queue'[x]) \subseteq 0..issued'
  BY EmptyList DEF OrderInv, Filled
<1>2. \A x \in Tx : Filled(queue[x])'
  BY <1>1 DEF Filled, Ascending, Ids
<1>3. \A x \in Sendable' : x \in Sendable \/ Ids(queue'[x]) = {}
  BY EmptyList DEF Sendable, Tx, Tree, Object
<1>4. \A x \in Tx : Ids(queue'[x]) \subseteq Ids(queue[x])
  BY EmptyList
<1>5. Sendable' \subseteq Tx
  BY DEF Sendable, Tx, Tree, Object
<1>6. QueuesApart'
  <2>. SUFFICES ASSUME NEW x \in Sendable', NEW y \in Sendable', x # y
                PROVE  Ids(queue'[x]) \cap Ids(queue'[y]) = {}
    BY DEF QueuesApart, Ids
  <2>. QED  BY <1>3, <1>4, <1>5 DEF OrderInv, QueuesApart
<1>7. \A b \in DOMAIN server, x \in Sendable' :
        Ids(server[b]) \cap Ids(queue'[x]) = {}
  BY <1>3, <1>4, <1>5 DEF OrderInv, NotYetApplied
<1>. QED  BY <1>2, <1>6, <1>7

(* Steps that send nothing and only empty queues.                          *)
LEMMA EmptiedInv ==
  ASSUME OrderInv, UNCHANGED <<issued, server>>,
         \A x \in Tx : queue'[x] = queue[x] \/ queue'[x] = <<>>,
         \A x \in Tx \ forward' : x \in forward => queue'[x] = <<>>
  PROVE  OrderInv'
<1>1. \A b \in DOMAIN server' : Filled(server[b])'
  BY DEF OrderInv, Filled, Ascending, Ids
<1>2. ServerApart'
  BY DEF OrderInv, ServerApart, Ids
<1>3. NotYetApplied'
  <2>. SUFFICES ASSUME NEW b \in DOMAIN server', NEW x \in Sendable'
                PROVE  Ids(server'[b]) \cap Ids(queue'[x]) = {}
    BY DEF NotYetApplied, Ids
  <2>. QED  BY EmptiedFacts
<1>. QED  BY <1>1, <1>2, <1>3, EmptiedFacts DEF OrderInv

(* The end of a block sends the queue m, which is empty then.              *)
LEMMA CommitInv ==
  ASSUME OrderInv, TypeOK, UNCHANGED issued, NEW m \in Sendable,
         Send(queue[m]), Stop({m}) \/ \E T : m \in T /\ Stop(T)
  PROVE  OrderInv'
<1>1. PICK T : m \in T /\ Stop(T)
  OBVIOUS
<1>2. /\ \A x \in Tx : queue'[x] = queue[x] \/ queue'[x] = <<>>
      /\ \A x \in Tx \ forward' : x \in forward => queue'[x] = <<>>
      /\ queue'[m] = <<>>
      /\ \A x \in Sendable' : x \in Tx
      /\ \A x \in Sendable' : x \in Sendable \/ queue'[x] = <<>>
  BY <1>1 DEF Stop, Sendable, Tx, Tree, Object
<1>3. /\ queue[m] \in Seq(Entry) /\ m \in Tx
      /\ server \in Seq(Seq(Entry)) /\ issued \in Nat
  BY SessionAssumption DEF TypeOK, Sendable
<1>4. /\ Ascending(queue[m]) /\ Ids(queue[m]) \subseteq 0..issued
      /\ \A b \in DOMAIN server : Ids(server[b]) \cap Ids(queue[m]) = {}
  BY <1>3 DEF OrderInv, Filled, NotYetApplied
<1>5. ASSUME NEW x \in Sendable'
      PROVE  Ids(queue'[x]) \cap Ids(queue[m]) = {}
  <2>1. CASE queue'[x] = <<>>
    BY <2>1, EmptyList
  <2>2. CASE queue'[x] # <<>>
    BY <1>2, <2>2 DEF OrderInv, QueuesApart
  <2>. QED  BY <2>1, <2>2
<1>6. /\ \A x \in Tx : Filled(queue[x])'
      /\ QueuesApart'
      /\ \A b \in DOMAIN server, x \in Sendable' :
           Ids(server[b]) \cap Ids(queue'[x]) = {}
  BY <1>2, EmptiedFacts
<1>. QED  BY <1>3, <1>4, <1>5, <1>6, SendInv

(* Transaction.add and add_raw_list: of the queues that get the command    *)
(* one at most may be sent.                                                *)
LEMMA BufferInv ==
  ASSUME OrderInv, TypeOK, NEW e \in Entry, e.id = issued + 1,
         issued' = issued + 1, UNCHANGED server, NEW T, Buffer(T, e),
         \A x, y \in T \ forward : x = y
  PROVE  OrderInv'
<1>1. issued \in Nat /\ \A x \in Tx : queue[x] \in Seq(Entry)
  BY SessionAssumption DEF TypeOK
<1>2. ASSUME NEW x \in Tx, x \in T
      PROVE  /\ Ascending(queue'[x])
             /\ Ids(queue'[x]) = Ids(queue[x]) \cup {issued + 1}
  <2>1. queue'[x] = Append(queue[x], e)
    BY <1>2 DEF Buffer
  <2>2. Ascending(queue[x]) /\ \A n \in Ids(queue[x]) : n < e.id
    BY <1>1 DEF OrderInv, Filled
  <2>. QED  BY <1>1, <2>1, <2>2, AppendNew
<1>3. \A x \in Tx : x \notin T => queue'[x] = queue[x]
  BY DEF Buffer
<1>4. /\ Sendable' = Sendable /\ Sendable \subseteq Tx
      /\ \A x, y \in Sendable : x \in T /\ y \in T => x = y
  BY DEF Buffer, Sendable, Tx, Tree, Object
<1>5. /\ \A x \in Tx : Ascending(queue[x]) /\ Ids(queue[x]) \subseteq 0..issued
      /\ \A b \in DOMAIN server :
           Ascending(server[b]) /\ Ids(server[b]) \subseteq 0..issued
  BY DEF OrderInv, Filled
<1>6. issued + 1 \notin 0..issued /\ 0..issued \subseteq 0..(issued + 1)
      /\ issued + 1 \in 0..(issued + 1)
  BY <1>1
<1>7. \A x \in Tx : Filled(queue[x])'
  <2>1. ASSUME NEW x \in Tx
        PROVE  Ascending(queue'[x]) /\ Ids(queue'[x]) \subseteq 0..(issued + 1)
    BY <1>2, <1>3, <1>5, <1>6
  <2>. QED  BY <2>1 DEF Filled, Ascending, Ids
<1>8. \A b \in DOMAIN server' : Filled(server[b])'
  <2>1. \A b \in DOMAIN server : Ids(server[b]) \subseteq 0..(issued + 1)
    BY <1>5, <1>6
  <2>. QED  BY <1>5, <2>1 DEF Filled, Ascending, Ids
<1>9. QueuesApart'
  <2>. SUFFICES ASSUME NEW x \in Sendable, NEW y \in Sendable, x # y
                PROVE  Ids(queue'[x]) \cap Ids(queue'[y]) = {}
    BY <1>4 DEF QueuesApart, Ids
  <2>1. Ids(queue[x]) \cap Ids(queue[y]) = {}
    BY DEF OrderInv, QueuesApart
  <2>2. issued + 1 \notin Ids(queue[x]) /\ issued + 1 \notin Ids(queue[y])
    BY <1>4, <1>5, <1>6
  <2>. QED  BY <1>2, <1>3, <1>4, <2>1, <2>2
<1>10. ServerApart'
  BY DEF OrderInv, ServerApart, Ids
<1>11. NotYetApplied'
  <2>. SUFFICES ASSUME NEW b \in DOMAIN server, NEW x \in Sendable
                PROVE  Ids(server[b]) \cap Ids(queue'[x]) = {}
    BY <1>4 DEF NotYetApplied, Ids
  <2>1. Ids(server[b]) \cap Ids(queue[x]) = {}
    BY DEF OrderInv, NotYetApplied
  <2>2. issued + 1 \notin Ids(server[b])
    BY <1>5, <1>6
  <2>. QED  BY <1>2, <1>3, <1>4, <2>1, <2>2
<1>. QED  BY <1>7, <1>8, <1>9, <1>10, <1>11 DEF OrderInv

(* A set outside of a transaction is sent at once.                         *)
LEMMA SendNewInv ==
  ASSUME OrderInv, TypeOK, NEW e \in Entry, e.id = issued + 1,
         issued' = issued + 1, UNCHANGED txVars, Send(<<e>>)
  PROVE  OrderInv'
<1>1. /\ issued \in Nat /\ issued' \in Nat /\ issued <= issued'
      /\ server \in Seq(Seq(Entry)) /\ <<e>> \in Seq(Entry)
  BY SessionAssumption DEF TypeOK
<1>2. Ascending(<<e>>) /\ Ids(<<e>>) = {issued + 1}
  BY DEF Ascending, Ids
<1>3. /\ \A x \in Tx : Ascending(queue[x]) /\ Ids(queue[x]) \subseteq 0..issued
      /\ \A b \in DOMAIN server : Ids(server[b]) \subseteq 0..issued
  BY DEF OrderInv, Filled
<1>4. issued + 1 \notin 0..issued /\ 0..issued \subseteq 0..issued'
      /\ issued + 1 \in 0..issued'
  BY <1>1
<1>5. UNCHANGED queue /\ Sendable' = Sendable /\ Sendable \subseteq Tx
  BY DEF txVars, Sendable, Tx, Tree, Object
<1>6. \A x \in Tx : Filled(queue[x])'
  <2>1. \A x \in Tx : Ids(queue[x]) \subseteq 0..issued'
    BY <1>3, <1>4
  <2>. QED  BY <1>3, <1>5, <2>1 DEF Filled, Ascending, Ids
<1>7. QueuesApart'
  <2>1. \A x, y \in Sendable' : x # y => Ids(queue'[x]) \cap Ids(queue'[y]) = {}
    BY <1>5 DEF OrderInv, QueuesApart
  <2>. QED  BY <2>1 DEF QueuesApart, Ids
<1>8. /\ Ids(<<e>>) \subseteq 0..issued'
      /\ \A b \in DOMAIN server : Ids(server[b]) \cap Ids(<<e>>) = {}
      /\ \A x \in Sendable' : Ids(queue'[x]) \cap Ids(<<e>>) = {}
  BY <1>2, <1>3, <1>4, <1>5
<1>9. \A b \in DOMAIN server, x \in Sendable' :
        Ids(server[b]) \cap Ids(queue'[x]) = {}
  BY <1>5 DEF OrderInv, NotYetApplied
<1>. QED  BY <1>1, <1>2, <1>6, <1>7, <1>8, <1>9, SendInv

LEMMA SetStepOrder ==
  ASSUME OrderInv, TypeOK, SetStep
  PROVE  OrderInv'
<1>1. PICK t \in Handle : SetNode(t) \/ SendSetList(t)
  BY DEF SetStep
<1>2. ASSUME NEW isList \in BOOLEAN
      PROVE  NewEntry(t, isList) \in Entry /\ NewEntry(t, isList).id = issued + 1
  <2>1. t \in Tree /\ issued + 1 \in Nat
    BY Identifiers, SessionAssumption DEF TypeOK
  <2>. QED  BY <2>1 DEF NewEntry, Entry
<1>3. CASE SetNode(t)
  <2>. DEFINE e == NewEntry(t, FALSE)
  <2>0. e \in Entry /\ e.id = issued + 1
    BY <1>2
  <2>1. \A x, y \in AddTargets(t) \ forward : x = y
    BY DEF AddTargets
  <2>2. CASE t \in started
    <3>1. /\ issued' = issued + 1 /\ UNCHANGED server
          /\ Buffer(AddTargets(t), e)
      BY <1>3, <2>2 DEF SetNode
    <3>. HIDE DEF e
    <3>. QED  BY <2>0, <2>1, <3>1, BufferInv
  <2>3. CASE t \notin started
    <3>1. issued' = issued + 1 /\ Send(<<e>>) /\ UNCHANGED txVars
      BY <1>3, <2>3 DEF SetNode
    <3>. HIDE DEF e
    <3>. QED  BY <2>0, <3>1, SendNewInv
  <2>. QED  BY <2>2, <2>3
<1>4. CASE SendSetList(t)
  <2>. DEFINE e == NewEntry(t, TRUE)
  <2>0. e \in Entry /\ e.id = issued + 1
    BY <1>2
  <2>1. \A x, y \in AddListTargets(t) \ forward : x = y
    BY DEF AddListTargets
  <2>2. CASE t \in started
    <3>1. /\ issued' = issued + 1 /\ UNCHANGED server
          /\ Buffer(AddListTargets(t), e)
      BY <1>4, <2>2 DEF SendSetList
    <3>. HIDE DEF e
    <3>. QED  BY <2>0, <2>1, <3>1, BufferInv
  <2>3. CASE t \notin started
    <3>1. issued' = issued + 1 /\ Send(<<e>>) /\ UNCHANGED txVars
      BY <1>4, <2>3 DEF SendSetList
    <3>. HIDE DEF e
    <3>. QED  BY <2>0, <3>1, SendNewInv
  <2>. QED  BY <2>2, <2>3
<1>. QED  BY <1>1, <1>3, <1>4

LEMMA StartOrder ==
  ASSUME OrderInv, UNCHANGED <<issued, server>>, NEW T, NEW cb, Start(T, cb)
  PROVE  OrderInv'
<1>1. /\ \A x \in Tx : queue'[x] = queue[x] \/ queue'[x] = <<>>
      /\ \A x \in Tx \ forward' : x \in forward => queue'[x] = <<>>
  BY DEF Start
<1>. QED  BY <1>1, EmptiedInv

LEMMA StopOrder ==
  ASSUME OrderInv, UNCHANGED <<issued, server>>, NEW T, Stop(T)
  PROVE  OrderInv'
<1>1. /\ \A x \in Tx : queue'[x] = queue[x] \/ queue'[x] = <<>>
      /\ \A x \in Tx \ forward' : x \in forward => queue'[x] = <<>>
  BY DEF Stop
<1>. QED  BY <1>1, EmptiedInv

LEMMA OrderStep ==
  ASSUME IndInv, OrderInv, [Next]_vars
  PROVE  OrderInv'
<1>0. TypeOK
  BY DEF IndInv
<1>1. CASE DeviceStep
  <2>1. UNCHANGED <<issued, server>>
    BY <1>0, <1>1, DeviceStepShape
  <2>2. CASE UNCHANGED <<queue, forward>>
    BY <2>1, <2>2, EmptiedInv
  <2>3. CASE Start({made + 1}, {made + 1})
    BY <2>1, <2>3, StartOrder
  <2>. QED  BY <1>0, <1>1, <2>2, <2>3, DeviceStepShape DEF DropsDevices, AddsDevice
<1>2. CASE SetStep
  BY <1>0, <1>2, SetStepOrder
<1>3. CASE BeginSession
  BY <1>3, StartOrder DEF BeginSession
<1>4. CASE BeginSessionRefused
  BY <1>4, StartOrder DEF BeginSessionRefused
<1>5. CASE CommitSession
  <2>1. Multi \in Sendable
    BY <1>0, Identifiers DEF Sendable, TypeOK
  <2>. QED  BY <1>0, <1>5, <2>1, CommitInv DEF CommitSession
<1>6. CASE AbortSession
  BY <1>6, StopOrder DEF AbortSession
<1>7. CASE \E t \in Handle : BeginTree(t)
  BY <1>7, StartOrder DEF BeginTree
<1>8. CASE CommitTree
  <2>1. blocks[Len(blocks)].tree \in Sendable
    BY <1>0, <1>8, InnermostTree, Identifiers DEF CommitTree, Sendable
  <2>. QED  BY <1>0, <1>8, <2>1, CommitInv DEF CommitTree
<1>9. CASE AbortTree
  BY <1>9, StopOrder DEF AbortTree
<1>10. CASE EndJoin \/ (\E t \in Handle : BeginJoin(t)) \/ UNCHANGED vars
  <2>1. UNCHANGED <<queue, forward, issued, server>>
    BY <1>10 DEF EndJoin, BeginJoin, txVars, vars
  <2>. QED  BY <2>1, EmptiedInv
<1>. QED  BY <1>1, <1>2, <1>3, <1>4, <1>5, <1>6, <1>7, <1>8, <1>9, <1>10
          DEF Next, BlockStep

(* The inductive invariant of the order, beside that of the blocks.        *)
THEOREM OrderInvHolds == Spec => []OrderInv
<1>1. Init => OrderInv
  <2>. HAVE Init
  <2>1. \A x \in Tx : queue[x] = <<>>
    BY DEF Init
  <2>2. DOMAIN server = {} /\ Sendable \subseteq Tx
    BY DEF Init, Sendable, Tx, Tree, Object
  <2>. QED  BY <2>1, <2>2, EmptyList
            DEF OrderInv, Filled, QueuesApart, ServerApart, NotYetApplied
<1>. QED  BY <1>1, OrderStep, IndInvHolds, PTL DEF Spec

(* No command is applied twice, and none before one that was issued before *)
(* it in the same list: whatever the transactions hold is handed to the    *)
(* data server once, in the order of Transaction.add.                      *)
THEOREM AppliedOnceInOrderHolds == Spec => []AppliedOnceInOrder
<1>1. IndInv /\ OrderInv => AppliedOnceInOrder
  <2>. SUFFICES ASSUME IndInv, OrderInv PROVE AppliedOnceInOrder
    OBVIOUS
  <2>0. server \in Seq(Seq(Entry))
    BY DEF IndInv, TypeOK
  <2>1. \A b \in DOMAIN server : Ascending(server[b])
    BY DEF OrderInv, Filled
  <2>2. ASSUME NEW b \in DOMAIN server, NEW c \in DOMAIN server,
               NEW i \in DOMAIN server[b], NEW j \in DOMAIN server[c],
               server[b][i].id = server[c][j].id
        PROVE  b = c /\ i = j
    <3>1. server[b][i].id \in Ids(server[b]) /\ server[c][j].id \in Ids(server[c])
      BY DEF Ids
    <3>2. b = c
      BY <2>2, <3>1 DEF OrderInv, ServerApart
    <3>3. server[b] \in Seq(Entry)
      BY <2>0
    <3>4. i \in Nat /\ j \in Nat /\ server[b][i].id \in Nat
      <4>1. i \in 1..Len(server[b]) /\ j \in 1..Len(server[b])
            /\ Len(server[b]) \in Nat
        BY <3>2, <3>3
      <4>2. server[b][i] \in Entry
        BY <3>3
      <4>. QED  BY <4>1, <4>2 DEF Entry
    <3>5. ~(i < j) /\ ~(j < i)
      BY <2>1, <2>2, <3>2, <3>4 DEF Ascending
    <3>. QED  BY <3>2, <3>4, <3>5
  <2>. QED  BY <2>1, <2>2 DEF AppliedOnceInOrder, Ascending
<1>. QED  BY <1>1, IndInvHolds, OrderInvHolds, PTL

-----------------------------------------------------------------------------
(* A program that keeps the rules: DisciplinedSession.                     *)

(* Tree t has a block of its own (NodeTree.set_transaction).               *)
OwnBlock(t) ==
  \E i \in DOMAIN blocks : blocks[i].kind = "tree" /\ blocks[i].tree = t

(* Under the rules a transaction is in progress exactly while a block is   *)
(* open that started it: a session block has those of all its trees, and a *)
(* tree that is started is in a session block or has a block of its own.   *)
Discipline ==
  /\ InSession => SessionTrees \subseteq started \cap forward
  /\ Multi \in started => InSession
  /\ \A t \in SessionTrees \cap started : InSession \/ OwnBlock(t)

LEMMA RuledIsNext ==
  ASSUME TypeOK, [RuledNext]_vars
  PROVE  [Next]_vars
<1>1. SessionTrees \subseteq Handle
  BY Identifiers
<1>2. CASE RuledDeviceStep
  BY <1>2 DEF RuledDeviceStep, DeviceStep, Next
<1>3. CASE RuledSetStep
  BY <1>1, <1>3 DEF RuledSetStep, SetStep, Next
<1>4. CASE RuledBlockStep
  BY <1>1, <1>4 DEF RuledBlockStep, BlockStep, Next
<1>. QED  BY <1>2, <1>3, <1>4 DEF RuledNext

-----------------------------------------------------------------------------
(* The discipline.                                                         *)

(* A device operation within a session block adds only devices that join   *)
(* it: an HF2 data server adds none there (rule 4).                        *)
LEMMA RuledDevices ==
  ASSUME TypeOK, RuledDeviceStep
  PROVE  /\ \/ DropsDevices
            \/ AddsDevice /\ (HF2 => ~InSession)
         /\ UNCHANGED <<blocks, issued, server, ended>>
<1>1. DeviceStep
  BY DEF RuledDeviceStep, DeviceStep
<1>2. (DropsDevices \/ AddsDevice) /\ UNCHANGED <<blocks, issued, server, ended>>
  BY <1>1, DeviceStepShape
<1>3. CASE ~HF2
  BY <1>2, <1>3
<1>4. CASE HF2
  <2>1. ASSUME NEW s \in Serial, GetItem(s)
        PROVE  DropsDevices
    <3>1. CASE UNCHANGED <<devs, made, txVars>>
      BY <3>1 DEF DropsDevices, SessionTrees, Created, txVars
    <3>2. CASE devs' = Without(devs, s) /\ UNCHANGED <<made, txVars>>
      BY <3>2, WithoutShape
    <3>. QED  BY <1>4, <2>1, <3>1, <3>2 DEF GetItem, Reported
  <2>2. PICK s \in Serial :
          \/ Lookup(s)
          \/ ConnectDevice(s) /\ (HF2 => ~InSession)
          \/ \E lowerCase \in BOOLEAN : DisconnectDevice(s, lowerCase)
          \/ OtherClient(s)
    BY DEF RuledDeviceStep
  <2>3. CASE Lookup(s)
    BY <1>2, <2>1, <2>3 DEF Lookup
  <2>4. CASE ConnectDevice(s) /\ (HF2 => ~InSession)
    BY <1>2, <2>4
  <2>5. CASE \E lowerCase \in BOOLEAN : DisconnectDevice(s, lowerCase)
    BY <1>2, <2>1, <2>5, WithoutShape DEF DisconnectDevice
  <2>6. CASE OtherClient(s)
    BY <1>2, <2>6 DEF OtherClient, DropsDevices, SessionTrees, Created, txVars
  <2>. QED  BY <2>2, <2>3, <2>4, <2>5, <2>6
<1>. QED  BY <1>3, <1>4

(* What is open after a block was entered, and after one was left.         *)
LEMMA EnteredBlocks ==
  ASSUME TypeOK, NEW k \in {"session", "tree", "join"}, NEW t \in Tree,
         Enter(k, t)
  PROVE  /\ InSession' <=> (InSession \/ k = "session")
         /\ \A u : OwnBlock(u)' <=> (OwnBlock(u) \/ (k = "tree" /\ u = t))
<1>1. /\ Len(blocks) \in Nat
      /\ DOMAIN blocks = 1..Len(blocks)
      /\ DOMAIN blocks' = 1..(Len(blocks) + 1)
      /\ \A i \in DOMAIN blocks : blocks'[i] = blocks[i]
      /\ blocks'[Len(blocks) + 1] = [kind |-> k, tree |-> t]
  BY EnterShape
<1>2. /\ Len(blocks) + 1 \in DOMAIN blocks'
      /\ DOMAIN blocks \subseteq DOMAIN blocks'
      /\ \A i \in DOMAIN blocks' : i \in DOMAIN blocks \/ i = Len(blocks) + 1
      /\ blocks'[Len(blocks) + 1].kind = k /\ blocks'[Len(blocks) + 1].tree = t
  BY <1>1
<1>3. InSession' <=> (InSession \/ k = "session")
  BY <1>1, <1>2 DEF InSession
<1>4. ASSUME NEW u
      PROVE  OwnBlock(u)' <=> (OwnBlock(u) \/ (k = "tree" /\ u = t))
  BY <1>1, <1>2 DEF OwnBlock
<1>. QED  BY <1>3, <1>4

LEMMA LeftBlocks ==
  ASSUME TypeOK, BlocksNest, blocks # <<>>, Leave
  PROVE  LET b == blocks[Len(blocks)]
         IN  /\ InSession' <=> (InSession /\ b.kind # "session")
             /\ \A u : OwnBlock(u) => (OwnBlock(u)' \/ (b.kind = "tree" /\ b.tree = u))
<1>. DEFINE b == blocks[Len(blocks)]
<1>1. /\ blocks \in Seq(Block) /\ Len(blocks) \in Nat \ {0}
      /\ DOMAIN blocks = 1..Len(blocks)
      /\ DOMAIN blocks' = 1..(Len(blocks) - 1)
      /\ \A i \in DOMAIN blocks' : blocks'[i] = blocks[i] /\ i \in DOMAIN blocks
  BY LeaveKeepsOuter DEF Leave, TypeOK
<1>2. \A i \in DOMAIN blocks : i \in DOMAIN blocks' \/ i = Len(blocks)
  BY <1>1
<1>3. InSession' <=> (InSession /\ b.kind # "session")
  <2>1. ASSUME InSession, b.kind # "session" PROVE InSession'
    BY <1>1, <1>2, <2>1 DEF InSession
  <2>2. ASSUME InSession' PROVE InSession /\ b.kind # "session"
    <3>1. PICK i \in DOMAIN blocks' : blocks'[i].kind = "session"
      BY <2>2 DEF InSession
    <3>2. i \in DOMAIN blocks /\ blocks[i].kind = "session" /\ i < Len(blocks)
          /\ Len(blocks) \in DOMAIN blocks
      BY <1>1, <3>1
    <3>. QED  BY <3>2 DEF InSession, BlocksNest
  <2>. QED  BY <2>1, <2>2
<1>4. ASSUME NEW u, OwnBlock(u)
      PROVE  OwnBlock(u)' \/ (b.kind = "tree" /\ b.tree = u)
  BY <1>1, <1>2, <1>4 DEF OwnBlock
<1>. QED  BY <1>3, <1>4

LEMMA RuledDeviceDiscipline ==
  ASSUME IndInv, Discipline, RuledDeviceStep
  PROVE  Discipline'
<1>0. TypeOK
  BY DEF IndInv
<1>1. (InSession' <=> InSession) /\ \A u : OwnBlock(u)' <=> OwnBlock(u)
  BY <1>0, RuledDevices DEF InSession, OwnBlock
<1>2. CASE DropsDevices
  BY <1>1, <1>2 DEF DropsDevices, Discipline
<1>3. CASE AddsDevice /\ (HF2 => ~InSession)
  <2>1. Multi # made + 1 /\ made + 1 \notin started
    BY <1>0, Identifiers DEF IndInv, TransactionsWellFormed
  <2>2. CASE Multi \in started /\ Start({made + 1}, {made + 1})
    <3>1. InSession
      BY <2>2 DEF Discipline
    <3>2. SessionTrees' \subseteq started' \cap forward'
      BY <1>3, <2>2, <3>1 DEF AddsDevice, Start, Discipline
    <3>. QED  BY <1>1, <3>1, <3>2 DEF Discipline
  <2>3. CASE (HF2 \/ Multi \notin started) /\ UNCHANGED <<started, queue, forward>>
    <3>1. ~InSession
      BY <1>3, <2>3 DEF IndInv, BlocksKeepTheirTransaction, InSession
    <3>. QED  BY <1>1, <1>3, <2>1, <2>3, <3>1 DEF AddsDevice, Discipline
  <2>. QED  BY <1>3, <2>2, <2>3 DEF AddsDevice
<1>. QED  BY <1>0, <1>2, <1>3, RuledDevices

LEMMA RuledBlockDiscipline ==
  ASSUME IndInv, Discipline, RuledBlockStep
  PROVE  Discipline'
<1>0. TypeOK /\ BlocksNest
  BY DEF IndInv
<1>1. CASE BeginSession
  <2>1. InSession'
    BY <1>0, <1>1, EnteredBlocks, Identifiers DEF BeginSession
  <2>2. SessionTrees' = SessionTrees
    BY <1>1, TreesUnchanged DEF BeginSession
  <2>. QED  BY <1>1, <2>1, <2>2 DEF BeginSession, Start, Discipline
<1>2. CASE CommitSession \/ AbortSession
  <2>1. /\ blocks # <<>> /\ Leave /\ blocks[Len(blocks)].kind = "session"
        /\ Stop({Multi} \cup SessionTrees) /\ UNCHANGED devVars
    BY <1>2 DEF CommitSession, AbortSession, Innermost
  <2>2. ~InSession'
    BY <1>0, <2>1, LeftBlocks
  <2>3. SessionTrees' = SessionTrees
    BY <2>1, TreesUnchanged
  <2>. QED  BY <2>1, <2>2, <2>3 DEF Stop, Discipline
<1>3. CASE \E t \in SessionTrees : BeginTree(t)
  <2>1. PICK t \in SessionTrees : BeginTree(t)
    BY <1>3
  <2>2. t \in Tree /\ t # Multi /\ SessionTrees' = SessionTrees
    BY <1>0, <2>1, Identifiers, TreesUnchanged DEF BeginTree
  <2>3. ~InSession
    BY <2>1 DEF BeginTree, Discipline
  <2>4. (InSession' <=> InSession) /\ \A u : OwnBlock(u)' <=> (OwnBlock(u) \/ u = t)
    BY <1>0, <2>1, <2>2, EnteredBlocks DEF BeginTree
  <2>. QED  BY <2>1, <2>2, <2>3, <2>4 DEF BeginTree, Start, Discipline
<1>4. CASE \E t \in SessionTrees : BeginJoin(t)
  <2>1. PICK t \in SessionTrees : BeginJoin(t)
    BY <1>4
  <2>2. t \in Tree /\ SessionTrees' = SessionTrees /\ UNCHANGED <<started, forward>>
    BY <1>0, <2>1, Identifiers, TreesUnchanged DEF BeginJoin, txVars
  <2>3. (InSession' <=> InSession) /\ \A u : OwnBlock(u)' <=> OwnBlock(u)
    BY <1>0, <2>1, <2>2, EnteredBlocks DEF BeginJoin
  <2>. QED  BY <2>2, <2>3 DEF Discipline
<1>5. CASE CommitTree \/ AbortTree
  <2>. DEFINE t == blocks[Len(blocks)].tree
  <2>1. /\ Innermost("tree") /\ Leave /\ UNCHANGED devVars /\ Stop({t})
        /\ blocks # <<>> /\ blocks[Len(blocks)].kind = "tree"
    BY <1>5 DEF CommitTree, AbortTree, Innermost
  <2>2. t \notin forward /\ t # Multi /\ SessionTrees' = SessionTrees
    BY <1>0, <2>1, InnermostTree, TreesUnchanged, Identifiers
  <2>3. (InSession' <=> InSession) /\ \A u : OwnBlock(u) => (OwnBlock(u)' \/ u = t)
    BY <1>0, <2>1, LeftBlocks
  <2>. HIDE DEF t
  <2>. QED  BY <2>1, <2>2, <2>3 DEF Stop, Discipline
<1>6. CASE EndJoin
  <2>1. /\ blocks # <<>> /\ Leave /\ blocks[Len(blocks)].kind = "join"
        /\ SessionTrees' = SessionTrees /\ UNCHANGED <<started, forward>>
    BY <1>6, TreesUnchanged DEF EndJoin, Innermost, txVars
  <2>2. (InSession' <=> InSession) /\ \A u : OwnBlock(u) => OwnBlock(u)'
    BY <1>0, <2>1, LeftBlocks
  <2>. QED  BY <2>1, <2>2 DEF Discipline
<1>. QED  BY <1>1, <1>2, <1>3, <1>4, <1>5, <1>6 DEF RuledBlockStep

LEMMA RuledStep ==
  ASSUME IndInv, Discipline, [RuledNext]_vars
  PROVE  IndInv' /\ Discipline'
<1>0. TypeOK
  BY DEF IndInv
<1>1. IndInv'
  BY <1>0, RuledIsNext, IndInvStep
<1>2. CASE RuledSetStep
  <2>1. SetStep
    BY <1>0, <1>2, Identifiers DEF RuledSetStep, SetStep
  <2>2. UNCHANGED <<started, forward, devs, made, blocks>>
    BY <2>1, SetStepShape DEF SetShape
  <2>. QED  BY <1>1, <2>2
            DEF Discipline, InSession, OwnBlock, SessionTrees, Created
<1>3. CASE UNCHANGED vars
  BY <1>1, <1>3 DEF vars, Discipline, InSession, OwnBlock, SessionTrees, Created
<1>. QED  BY <1>1, <1>2, <1>3, RuledDeviceDiscipline, RuledBlockDiscipline
          DEF RuledNext

(* The discipline holds in every state of a program that keeps the rules.  *)
THEOREM DisciplineHolds == RuledSpec => [](IndInv /\ Discipline)
<1>1. Init => IndInv /\ Discipline
  <2>. HAVE Init
  <2>1. DOMAIN blocks = {} /\ started = {}
    BY DEF Init
  <2>. QED  BY <2>1, IndInvInit DEF Discipline, InSession
<1>. QED  BY <1>1, RuledStep, PTL DEF RuledSpec

(* Once the last block has ended nothing is left in progress that a later  *)
(* set on the session or one of its devices could fall into.               *)
THEOREM NothingLeftStartedHolds == RuledSpec => []NothingLeftStarted
<1>1. Discipline => NothingLeftStarted
  <2>. SUFFICES ASSUME Discipline, blocks = <<>>
                PROVE  started \cap ({Multi} \cup SessionTrees) = {}
    BY DEF NothingLeftStarted
  <2>1. DOMAIN blocks = {}
    OBVIOUS
  <2>. QED  BY <2>1 DEF Discipline, InSession, OwnBlock
<1>. QED  BY <1>1, DisciplineHolds, PTL

-----------------------------------------------------------------------------
(* The open blocks as SettingBlocks sees them.                             *)

AbsBlock(b) == [scope |-> Scope(b), held |-> Held(b)]

AbsOpen == [i \in DOMAIN blocks |-> AbsBlock(blocks[i])]

AbsBlocks == [scope : SUBSET Tree, held : Seq(Entry)]

LEMMA BlockFacts ==
  ASSUME TypeOK
  PROVE  /\ blocks \in Seq(Block)
         /\ \A i \in DOMAIN blocks : blocks[i] \in Block
         /\ \A b \in Block : AbsBlock(b) \in AbsBlocks
         /\ AbsOpen \in Seq(AbsBlocks) /\ Len(AbsOpen) = Len(blocks)
         /\ DOMAIN AbsOpen = DOMAIN blocks
<1>1. blocks \in Seq(Block) /\ \A x \in Tx : queue[x] \in Seq(Entry)
  BY DEF TypeOK
<1>2. \A i \in DOMAIN blocks : blocks[i] \in Block
  BY <1>1
<1>3. ASSUME NEW b \in Block
      PROVE  AbsBlock(b) \in AbsBlocks
  <2>1. b.kind \in {"session", "tree", "join"} /\ b.tree \in Tree
    BY DEF Block
  <2>2. queue[Multi] \in Seq(Entry) /\ queue[b.tree] \in Seq(Entry)
    BY <1>1, <2>1, Identifiers
  <2>3. Held(b) \in Seq(Entry)
    <3>1. <<>> \in Seq(Entry)
      OBVIOUS
    <3>. QED  BY <2>1, <2>2, <3>1 DEF Held
  <2>4. Scope(b) \subseteq Tree
    BY <2>1 DEF Scope
  <2>. QED  BY <2>3, <2>4 DEF AbsBlock, AbsBlocks
<1>4. DOMAIN blocks = 1..Len(blocks) /\ Len(blocks) \in Nat
  BY <1>1
<1>5. AbsOpen \in [1..Len(blocks) -> AbsBlocks]
  BY <1>2, <1>3, <1>4 DEF AbsOpen
<1>6. AbsOpen \in Seq(AbsBlocks) /\ Len(AbsOpen) = Len(blocks)
  BY <1>4, <1>5
<1>7. DOMAIN AbsOpen = DOMAIN blocks
  BY DEF AbsOpen
<1>. QED  BY <1>1, <1>2, <1>3, <1>6, <1>7

(* A block keeps what it holds while its queue is left alone.              *)
Undisturbed(b) ==
  /\ b.kind = "session" => queue'[Multi] = queue[Multi]
  /\ b.kind = "tree" => queue'[b.tree] = queue[b.tree]

LEMMA UndisturbedBlock ==
  ASSUME NEW b \in Block, Undisturbed(b)
  PROVE  AbsBlock(b)' = AbsBlock(b)
<1>1. b.kind \in {"session", "tree", "join"}
  BY DEF Block
<1>2. Held(b)' = Held(b)
  BY <1>1 DEF Held, Undisturbed
<1>. QED  BY <1>2 DEF AbsBlock, Scope

(* The steps of SettingBlocks, in terms of AbsOpen.                        *)
LEMMA StutterStep ==
  ASSUME UNCHANGED <<issued, server, ended>>, AbsOpen' = AbsOpen
  PROVE  [Abstract!AbsNext]_(Abstract!absVars)
BY DEF Abstract!absVars, AbsOpen, AbsBlock

LEMMA OpenStep ==
  ASSUME NEW scope \in SUBSET Tree, UNCHANGED <<issued, server, ended>>,
         AbsOpen' = Append(AbsOpen, [scope |-> scope, held |-> <<>>])
  PROVE  Abstract!AbsNext
BY DEF Abstract!AbsNext, Abstract!OpenBlock, AbsOpen, AbsBlock

LEMMA CloseStep ==
  ASSUME blocks # <<>>, blocks \in Seq(Block), UNCHANGED issued,
         AbsOpen' = SubSeq(AbsOpen, 1, Len(AbsOpen) - 1),
         \/ server' = Applied(AbsOpen[Len(AbsOpen)].held) /\ ended' = "done"
         \/ UNCHANGED server /\ ended' \in {"refused", "raised"}
  PROVE  Abstract!AbsNext
<1>1. AbsOpen # <<>>
  BY DEF AbsOpen
<1>2. Abstract!LeaveBlock
  BY <1>1 DEF Abstract!LeaveBlock, AbsOpen, AbsBlock
<1>3. CASE server' = Applied(AbsOpen[Len(AbsOpen)].held) /\ ended' = "done"
  BY <1>2, <1>3
     DEF Abstract!AbsNext, Abstract!CommitBlock, AbsOpen, AbsBlock, Applied
<1>4. CASE UNCHANGED server /\ ended' \in {"refused", "raised"}
  BY <1>2, <1>4 DEF Abstract!AbsNext, Abstract!RefuseBlock, Abstract!AbortBlock
<1>. QED  BY <1>3, <1>4

AbsCommand == [id : 1..MaxSet, tree : Tree, list : BOOLEAN]

LEMMA HoldStep ==
  ASSUME NEW c \in AbsCommand, NEW i \in DOMAIN AbsOpen, i \in Nat,
         \A j \in DOMAIN AbsOpen : c.tree \in AbsOpen[j].scope <=> j = i,
         AbsOpen' = [AbsOpen EXCEPT ![i].held = Append(@, c)],
         issued' = issued + 1, UNCHANGED server, ended' = "done"
  PROVE  Abstract!AbsNext
<1>1. Abstract!Covering(c.tree) = {i}
  BY DEF Abstract!Covering, AbsOpen, AbsBlock
<1>2. Abstract!InnermostCovering(c.tree) = i
  BY <1>1 DEF Abstract!InnermostCovering
<1>3. Abstract!Hold(c)
  BY <1>1, <1>2 DEF Abstract!Hold, AbsOpen, AbsBlock
<1>. QED  BY <1>3 DEF Abstract!AbsNext, AbsCommand

LEMMA ApplyStep ==
  ASSUME NEW c \in AbsCommand,
         \A j \in DOMAIN AbsOpen : c.tree \notin AbsOpen[j].scope,
         AbsOpen' = AbsOpen, issued' = issued + 1,
         \/ server' = Append(server, <<c>>) /\ ended' = "done"
         \/ UNCHANGED server /\ ended' = "refused"
  PROVE  Abstract!AbsNext
<1>1. Abstract!Covering(c.tree) = {}
  BY DEF Abstract!Covering, AbsOpen, AbsBlock
<1>2. Abstract!ApplyNow(c)
  BY <1>1 DEF Abstract!ApplyNow, AbsOpen, AbsBlock
<1>. QED  BY <1>2 DEF Abstract!AbsNext, AbsCommand

(* Blocks that are entered and left, and blocks that stay.                 *)
LEMMA SameBlocks ==
  ASSUME TypeOK, UNCHANGED blocks, \A i \in DOMAIN blocks : Undisturbed(blocks[i])
  PROVE  AbsOpen' = AbsOpen
<1>1. \A i \in DOMAIN blocks : AbsBlock(blocks[i])' = AbsBlock(blocks[i])
  <2>. TAKE i \in DOMAIN blocks
  <2>. DEFINE b == blocks[i]
  <2>1. b \in Block /\ Undisturbed(b) /\ blocks'[i] = blocks[i]
    BY BlockFacts
  <2>2. Held(b)' = Held(b) /\ Scope(b)' = Scope(b)
    BY <2>1 DEF Held, Scope, Undisturbed, Block
  <2>. QED  BY <2>2 DEF AbsBlock
<1>. QED  BY <1>1 DEF AbsOpen

LEMMA AppendForm ==
  ASSUME NEW S, NEW s \in Seq(S), NEW e \in S
  PROVE  Append(s, e) = [i \in 1..(Len(s) + 1) |-> IF i = Len(s) + 1 THEN e ELSE s[i]]
<1>. DEFINE f == [i \in 1..(Len(s) + 1) |-> IF i = Len(s) + 1 THEN e ELSE s[i]]
            g == Append(s, e)
<1>1. /\ g \in Seq(S) /\ Len(g) = Len(s) + 1
      /\ \A i \in 1..(Len(s) + 1) : g[i] = IF i = Len(s) + 1 THEN e ELSE s[i]
  OBVIOUS
<1>. HIDE DEF g
<1>2. g \in [1..(Len(s) + 1) -> S]
  BY <1>1
<1>3. g = [i \in 1..(Len(s) + 1) |-> g[i]]
  BY <1>2
<1>4. \A i \in 1..(Len(s) + 1) : g[i] = f[i]
  BY <1>1
<1>. QED  BY <1>3, <1>4 DEF g

LEMMA EnteredOpen ==
  ASSUME TypeOK, TypeOK', NEW k \in {"session", "tree", "join"}, NEW t \in Tree,
         Enter(k, t), \A i \in DOMAIN blocks : Undisturbed(blocks[i]),
         k = "session" => queue'[Multi] = <<>>,
         k = "tree" => queue'[t] = <<>>
  PROVE  AbsOpen' = Append(AbsOpen,
                           [scope |-> Scope([kind |-> k, tree |-> t]),
                            held |-> <<>>])
<1>n. PICK n \in Nat : n = Len(blocks)
  BY EnterShape
<1>. DEFINE b == [kind |-> k, tree |-> t]
            a == [scope |-> Scope(b), held |-> <<>>]
<1>1. /\ n \in Nat /\ DOMAIN blocks = 1..n /\ DOMAIN blocks' = 1..(n + 1)
      /\ \A i \in DOMAIN blocks : blocks'[i] = blocks[i]
      /\ blocks'[n + 1] = b
  BY <1>n, EnterShape
<1>2. AbsBlock(blocks[n + 1])' = a
  <2>0. /\ blocks'[n + 1].kind = k /\ blocks'[n + 1].tree = t
        /\ b.kind = k /\ b.tree = t
    BY <1>1
  <2>. HIDE DEF b
  <2>1. Held(blocks[n + 1])' = <<>>
    BY <2>0 DEF Held
  <2>2. Scope(blocks[n + 1])' = Scope(b)
    BY <2>0 DEF Scope
  <2>. QED  BY <2>1, <2>2 DEF AbsBlock
<1>3. \A i \in DOMAIN blocks : AbsBlock(blocks[i])' = AbsBlock(blocks[i])
  <2>. TAKE i \in DOMAIN blocks
  <2>1. blocks[i] \in Block /\ Undisturbed(blocks[i]) /\ blocks'[i] = blocks[i]
    BY <1>1, BlockFacts
  <2>2. Held(blocks[i])' = Held(blocks[i]) /\ Scope(blocks[i])' = Scope(blocks[i])
    BY <2>1 DEF Held, Scope, Undisturbed, Block
  <2>. QED  BY <2>2 DEF AbsBlock
<1>4. /\ AbsOpen \in Seq(AbsBlocks) /\ Len(AbsOpen) = n
      /\ DOMAIN AbsOpen = DOMAIN blocks
      /\ \A i \in 1..n : AbsOpen[i] = AbsBlock(blocks[i])
  BY <1>1, <1>n, BlockFacts DEF AbsOpen
<1>5. AbsOpen' = [i \in 1..(n + 1) |-> AbsBlock(blocks[i])']
  BY <1>1 DEF AbsOpen
<1>0. a \in AbsBlocks
  <2>1. <<>> \in Seq(Entry) /\ Scope(b) \subseteq Tree
    BY DEF Scope
  <2>. QED  BY <2>1 DEF AbsBlocks
<1>. HIDE DEF a, b
<1>6. Append(AbsOpen, a) = [i \in 1..(n + 1) |-> IF i = n + 1 THEN a ELSE AbsOpen[i]]
  BY <1>0, <1>1, <1>4, AppendForm
<1>7. ASSUME NEW i \in 1..(n + 1)
      PROVE  AbsBlock(blocks[i])' = IF i = n + 1 THEN a ELSE AbsOpen[i]
  <2>1. CASE i = n + 1
    BY <1>2, <2>1
  <2>2. CASE i # n + 1
    <3>1. i \in 1..n
      BY <1>1, <2>2
    <3>. QED  BY <1>1, <1>3, <1>4, <2>2, <3>1
  <2>. QED  BY <2>1, <2>2
<1>. QED  BY <1>5, <1>6, <1>7 DEF a, b

LEMMA LeftOpen ==
  ASSUME TypeOK, blocks # <<>>, Leave,
         \A i \in DOMAIN blocks : i < Len(blocks) => Undisturbed(blocks[i])
  PROVE  AbsOpen' = SubSeq(AbsOpen, 1, Len(AbsOpen) - 1)
<1>. DEFINE n == Len(blocks)
<1>1. /\ n \in Nat \ {0} /\ DOMAIN blocks = 1..n /\ DOMAIN blocks' = 1..(n - 1)
      /\ \A i \in 1..(n - 1) : blocks'[i] = blocks[i] /\ i \in DOMAIN blocks /\ i < n
  BY LeaveKeepsOuter DEF Leave, TypeOK
<1>2. \A i \in 1..(n - 1) : AbsBlock(blocks[i])' = AbsBlock(blocks[i])
  <2>. TAKE i \in 1..(n - 1)
  <2>1. blocks[i] \in Block /\ Undisturbed(blocks[i]) /\ blocks'[i] = blocks[i]
    BY <1>1, BlockFacts
  <2>2. Held(blocks[i])' = Held(blocks[i]) /\ Scope(blocks[i])' = Scope(blocks[i])
    BY <2>1 DEF Held, Scope, Undisturbed, Block
  <2>. QED  BY <2>2 DEF AbsBlock
<1>3. /\ AbsOpen \in Seq(AbsBlocks) /\ Len(AbsOpen) = n
      /\ \A i \in 1..(n - 1) : AbsOpen[i] = AbsBlock(blocks[i])
  BY <1>1, BlockFacts DEF AbsOpen
<1>4. AbsOpen' = [i \in 1..(n - 1) |-> AbsBlock(blocks[i])']
  BY <1>1 DEF AbsOpen
<1>. HIDE DEF n
<1>5. SubSeq(AbsOpen, 1, n - 1) = [i \in 1..(n - 1) |-> AbsOpen[i]]
  BY <1>1, <1>3
<1>. QED  BY <1>2, <1>3, <1>4, <1>5

LEMMA RecordHeld ==
  ASSUME NEW r, NEW s, NEW h, NEW v, r = [scope |-> s, held |-> h]
  PROVE  [r EXCEPT !.held = v] = [scope |-> s, held |-> v]
OBVIOUS

LEMMA HeldOpen ==
  ASSUME TypeOK, UNCHANGED blocks, NEW i \in DOMAIN blocks, NEW c,
         Held(blocks[i])' = Append(Held(blocks[i]), c),
         \A j \in DOMAIN blocks : j # i => Undisturbed(blocks[j])
  PROVE  AbsOpen' = [AbsOpen EXCEPT ![i].held = Append(@, c)]
<1>1. \A j \in DOMAIN blocks : j # i => AbsBlock(blocks[j])' = AbsBlock(blocks[j])
  <2>. TAKE j \in DOMAIN blocks
  <2>. HAVE j # i
  <2>1. blocks[j] \in Block /\ Undisturbed(blocks[j]) /\ blocks'[j] = blocks[j]
    BY BlockFacts
  <2>2. Held(blocks[j])' = Held(blocks[j]) /\ Scope(blocks[j])' = Scope(blocks[j])
    BY <2>1 DEF Held, Scope, Undisturbed, Block
  <2>. QED  BY <2>2 DEF AbsBlock
<1>2. AbsBlock(blocks[i])' =
        [scope |-> Scope(blocks[i]), held |-> Append(Held(blocks[i]), c)]
  <2>1. Scope(blocks[i])' = Scope(blocks[i])
    BY DEF Scope
  <2>. QED  BY <2>1 DEF AbsBlock
<1>3. /\ AbsOpen[i] = [scope |-> Scope(blocks[i]), held |-> Held(blocks[i])]
      /\ DOMAIN AbsOpen = DOMAIN blocks
      /\ \A j \in DOMAIN blocks : AbsOpen[j] = AbsBlock(blocks[j])
  BY DEF AbsOpen, AbsBlock
<1>4. [AbsOpen EXCEPT ![i].held = Append(@, c)] =
        [j \in DOMAIN blocks |->
           IF j = i
             THEN [scope |-> Scope(blocks[i]), held |-> Append(Held(blocks[i]), c)]
             ELSE AbsBlock(blocks[j])]
  <2>1. [AbsOpen[i] EXCEPT !.held = Append(@, c)] =
          [scope |-> Scope(blocks[i]), held |-> Append(Held(blocks[i]), c)]
    <3>1. AbsOpen[i].held = Held(blocks[i])
      BY <1>3
    <3>2. \A v : [AbsOpen[i] EXCEPT !.held = v] =
                   [scope |-> Scope(blocks[i]), held |-> v]
      BY <1>3, RecordHeld
    <3>. QED  BY <3>1, <3>2, Zenon
  <2>2. [AbsOpen EXCEPT ![i] = [AbsOpen[i] EXCEPT !.held = Append(@, c)]] =
          [j \in DOMAIN AbsOpen |->
             IF j = i THEN [AbsOpen[i] EXCEPT !.held = Append(@, c)]
                      ELSE AbsOpen[j]]
    BY Zenon
  <2>. QED  BY <1>3, <2>1, <2>2
<1>. QED  BY <1>1, <1>2, <1>4 DEF AbsOpen

-----------------------------------------------------------------------------
(* Every step of a program that keeps the rules is one of SettingBlocks.   *)

LEMMA OpenBlockFacts ==
  ASSUME IndInv, NEW i \in DOMAIN blocks
  PROVE  /\ blocks[i].kind \in {"session", "tree", "join"}
         /\ blocks[i].tree \in Handle /\ blocks[i].tree \in Tx
         /\ blocks[i].tree # Multi
         /\ blocks[i].kind = "session" => Multi \in started
         /\ blocks[i].kind = "tree" =>
              blocks[i].tree \in started /\ blocks[i].tree \notin forward
<1>1. TypeOK /\ BlocksNest /\ BlocksKeepTheirTransaction
  BY DEF IndInv
<1>2. blocks[i] \in Block
  BY <1>1, BlockFacts
<1>. QED  BY <1>1, <1>2, Identifiers
          DEF Block, BlocksNest, BlocksKeepTheirTransaction

LEMMA DeviceRefines ==
  ASSUME IndInv, RuledDeviceStep
  PROVE  [Abstract!AbsNext]_(Abstract!absVars)
<1>0. TypeOK
  BY DEF IndInv
<1>1. UNCHANGED <<blocks, issued, server, ended>>
  BY <1>0, RuledDevices
<1>2. \A i \in DOMAIN blocks : Undisturbed(blocks[i])
  <2>1. CASE UNCHANGED queue
    BY <2>1 DEF Undisturbed
  <2>2. CASE Start({made + 1}, {made + 1})
    <3>1. \A x \in Tx : x # made + 1 => queue'[x] = queue[x]
      BY <2>2 DEF Start
    <3>2. Multi # made + 1 /\ Multi \in Tx /\ made + 1 \notin Handle
      BY <1>0, Identifiers
    <3>. QED  BY <3>1, <3>2, OpenBlockFacts DEF Undisturbed
  <2>. QED  BY <1>0, <2>1, <2>2, RuledDevices DEF DropsDevices, AddsDevice
<1>. QED  BY <1>0, <1>1, <1>2, SameBlocks, StutterStep

(* The block a set falls into: the session block, or the tree's own.       *)
LEMMA HoldingBlock ==
  ASSUME IndInv, Discipline, NEW t \in SessionTrees, t \in started
  PROVE  \E i \in DOMAIN blocks :
           /\ IF InSession THEN blocks[i].kind = "session" /\ t \in forward
                           ELSE /\ blocks[i].kind = "tree" /\ blocks[i].tree = t
                                /\ t \notin forward
           /\ \A j \in DOMAIN blocks : j # i =>
                /\ blocks[j].kind # "session"
                /\ blocks[j].kind = "tree" => blocks[j].tree # t
<1>0. TypeOK /\ BlocksNest
  BY DEF IndInv
<1>1. \A i \in DOMAIN blocks : i \in Nat
  BY <1>0, BlockFacts
<1>2. CASE InSession
  <2>1. PICK i \in DOMAIN blocks : blocks[i].kind = "session"
    BY <1>2 DEF InSession
  <2>2. t \in forward
    BY <1>2 DEF Discipline
  <2>3. ASSUME NEW j \in DOMAIN blocks, j # i
        PROVE  blocks[j].kind # "session"
    <3>1. i < j \/ j < i
      BY <1>1, <2>3
    <3>. QED  BY <1>0, <2>1, <3>1 DEF BlocksNest
  <2>4. \A j \in DOMAIN blocks : blocks[j].kind = "tree" => blocks[j].tree # t
    BY <2>2, OpenBlockFacts
  <2>. QED  BY <1>2, <2>1, <2>2, <2>3, <2>4
<1>3. CASE ~InSession
  <2>1. PICK i \in DOMAIN blocks : blocks[i].kind = "tree" /\ blocks[i].tree = t
    BY <1>3 DEF Discipline, OwnBlock
  <2>2. t \notin forward
    BY <2>1, OpenBlockFacts
  <2>3. ASSUME NEW j \in DOMAIN blocks, j # i, blocks[j].kind = "tree"
        PROVE  blocks[j].tree # t
    <3>1. i < j \/ j < i
      BY <1>1, <2>3
    <3>. QED  BY <1>0, <2>1, <2>3, <3>1 DEF BlocksNest
  <2>. QED  BY <1>3, <2>1, <2>2, <2>3 DEF InSession
<1>. QED  BY <1>2, <1>3

(* A command that is buffered in the queues T.                             *)
LEMMA BufferRefines ==
  ASSUME IndInv, Discipline, NEW t \in SessionTrees, t \in started,
         NEW c \in AbsCommand, c.tree = t, NEW T, Buffer(T, c),
         UNCHANGED <<blocks, server>>, issued' = issued + 1, ended' = "done",
         T = IF InSession THEN {t, Multi} ELSE {t}
  PROVE  Abstract!AbsNext
<1>0. TypeOK
  BY DEF IndInv
<1>1. PICK i \in DOMAIN blocks :
        /\ IF InSession THEN blocks[i].kind = "session" /\ t \in forward
                        ELSE /\ blocks[i].kind = "tree" /\ blocks[i].tree = t
                             /\ t \notin forward
        /\ \A j \in DOMAIN blocks : j # i =>
             /\ blocks[j].kind # "session"
             /\ blocks[j].kind = "tree" => blocks[j].tree # t
  BY HoldingBlock
<1>2. t \in Tx /\ Multi \in Tx /\ t # Multi /\ t \in Tree
  BY <1>0, Identifiers
<1>3. \A x \in Tx : queue'[x] = IF x \in T THEN Append(queue[x], c) ELSE queue[x]
  BY DEF Buffer
<1>4. Held(blocks[i])' = Append(Held(blocks[i]), c)
  BY <1>1, <1>2, <1>3 DEF Held
<1>5. ASSUME NEW j \in DOMAIN blocks, j # i
      PROVE  Undisturbed(blocks[j]) /\ t \notin Scope(blocks[j])
  BY <1>1, <1>3, <1>5, OpenBlockFacts DEF Undisturbed, Scope
<1>6. t \in Scope(blocks[i])
  BY <1>1, <1>2 DEF Scope
<1>7. AbsOpen' = [AbsOpen EXCEPT ![i].held = Append(@, c)]
  BY <1>0, <1>4, <1>5, HeldOpen
<1>8. \A j \in DOMAIN AbsOpen : c.tree \in AbsOpen[j].scope <=> j = i
  BY <1>5, <1>6 DEF AbsOpen, AbsBlock
<1>9. i \in DOMAIN AbsOpen /\ i \in Nat
  BY <1>0, BlockFacts
<1>. QED  BY <1>7, <1>8, <1>9, HoldStep

(* A command that is sent at once.                                         *)
LEMMA SendRefines ==
  ASSUME IndInv, Discipline, NEW t \in SessionTrees, t \notin started,
         NEW c \in AbsCommand, c.tree = t, Send(<<c>>), UNCHANGED txVars,
         UNCHANGED blocks, issued' = issued + 1
  PROVE  Abstract!AbsNext
<1>0. TypeOK
  BY DEF IndInv
<1>1. \A i \in DOMAIN blocks :
        blocks[i].kind # "session" /\ (blocks[i].kind = "tree" => blocks[i].tree # t)
  BY OpenBlockFacts DEF Discipline, InSession
<1>2. \A i \in DOMAIN blocks : t \notin Scope(blocks[i])
  BY <1>1, OpenBlockFacts DEF Scope
<1>3. \A j \in DOMAIN AbsOpen : c.tree \notin AbsOpen[j].scope
  BY <1>2 DEF AbsOpen, AbsBlock
<1>4. AbsOpen' = AbsOpen
  BY <1>0, SameBlocks DEF Undisturbed, txVars
<1>5. \/ server' = Append(server, <<c>>) /\ ended' = "done"
      \/ UNCHANGED server /\ ended' = "refused"
  BY DEF Send, Applied
<1>. QED  BY <1>3, <1>4, <1>5, ApplyStep

LEMMA SetRefines ==
  ASSUME IndInv, Discipline, RuledSetStep
  PROVE  Abstract!AbsNext
<1>0. TypeOK
  BY DEF IndInv
<1>1. PICK t \in SessionTrees : \/ SetNode(t)
                                \/ SendSetList(t) /\ ~InSession
  BY DEF RuledSetStep
<1>2. ASSUME NEW isList \in BOOLEAN, issued < MaxSet
      PROVE  NewEntry(t, isList) \in AbsCommand /\ NewEntry(t, isList).tree = t
  <2>1. t \in Tree /\ issued + 1 \in 1..MaxSet
    BY <1>0, <1>2, Identifiers, SessionAssumption DEF TypeOK
  <2>. QED  BY <2>1 DEF NewEntry, AbsCommand
<1>3. t \in started => (t \in forward <=> InSession)
  BY HoldingBlock
<1>4. Multi \in started <=> InSession
  BY OpenBlockFacts DEF Discipline, InSession
<1>5. CASE SetNode(t)
  <2>. DEFINE c == NewEntry(t, FALSE)
  <2>1. /\ c \in AbsCommand /\ c.tree = t
        /\ issued' = issued + 1 /\ UNCHANGED blocks
    BY <1>2, <1>5 DEF SetNode
  <2>2. CASE t \in started
    <3>1. Buffer(AddTargets(t), c) /\ UNCHANGED server /\ ended' = "done"
      BY <1>5, <2>2 DEF SetNode
    <3>2. AddTargets(t) = IF InSession THEN {t, Multi} ELSE {t}
      BY <1>3, <1>4, <2>2 DEF AddTargets
    <3>. HIDE DEF c
    <3>. QED  BY <2>1, <2>2, <3>1, <3>2, BufferRefines
  <2>3. CASE t \notin started
    <3>1. Send(<<c>>) /\ UNCHANGED txVars
      BY <1>5, <2>3 DEF SetNode
    <3>. HIDE DEF c
    <3>. QED  BY <2>1, <2>3, <3>1, SendRefines
  <2>. QED  BY <2>2, <2>3
<1>6. CASE SendSetList(t) /\ ~InSession
  <2>. DEFINE c == NewEntry(t, TRUE)
  <2>1. /\ c \in AbsCommand /\ c.tree = t
        /\ issued' = issued + 1 /\ UNCHANGED blocks
    BY <1>2, <1>6 DEF SendSetList
  <2>2. CASE t \in started
    <3>1. Buffer(AddListTargets(t), c) /\ UNCHANGED server /\ ended' = "done"
      BY <1>6, <2>2 DEF SendSetList
    <3>2. AddListTargets(t) = IF InSession THEN {t, Multi} ELSE {t}
      BY <1>6 DEF AddListTargets
    <3>. HIDE DEF c
    <3>. QED  BY <2>1, <2>2, <3>1, <3>2, BufferRefines
  <2>3. CASE t \notin started
    <3>1. Send(<<c>>) /\ UNCHANGED txVars
      BY <1>6, <2>3 DEF SendSetList
    <3>. HIDE DEF c
    <3>. QED  BY <2>1, <2>3, <3>1, SendRefines
  <2>. QED  BY <2>2, <2>3
<1>. QED  BY <1>1, <1>5, <1>6

(* Entering blocks.                                                        *)
LEMMA BeginRefines ==
  ASSUME IndInv, IndInv', RuledBlockStep,
         BeginSession \/ \E t \in SessionTrees : BeginTree(t) \/ BeginJoin(t)
  PROVE  Abstract!AbsNext
<1>0. TypeOK /\ TypeOK'
  BY DEF IndInv
<1>1. CASE BeginSession
  <2>1. \A x \in Tx : queue'[x] = IF x \in {Multi} \cup SessionTrees THEN <<>>
                                                                     ELSE queue[x]
    BY <1>1 DEF BeginSession, Start
  <2>2. \A i \in DOMAIN blocks : Undisturbed(blocks[i])
    BY <1>1, <2>1, OpenBlockFacts DEF BeginSession, Undisturbed
  <2>3. Enter("session", Root) /\ Root \in Tree /\ queue'[Multi] = <<>>
    BY <1>0, <1>1, <2>1, Identifiers DEF BeginSession
  <2>4. Scope([kind |-> "session", tree |-> Root]) = Tree
    BY DEF Scope
  <2>5. AbsOpen' = Append(AbsOpen, [scope |-> Tree, held |-> <<>>])
    BY <1>0, <2>2, <2>3, <2>4, EnteredOpen
  <2>6. UNCHANGED <<issued, server, ended>>
    BY <1>1 DEF BeginSession
  <2>. QED  BY <2>5, <2>6, OpenStep
<1>2. ASSUME NEW t \in SessionTrees, BeginTree(t)
      PROVE  Abstract!AbsNext
  <2>1. t \in Tree /\ t \in Tx /\ t # Multi
    BY <1>0, Identifiers
  <2>2. \A x \in Tx : queue'[x] = IF x = t THEN <<>> ELSE queue[x]
    BY <1>2 DEF BeginTree, Start
  <2>3. \A i \in DOMAIN blocks : Undisturbed(blocks[i])
    BY <1>0, <1>2, <2>1, <2>2, OpenBlockFacts, Identifiers DEF BeginTree, Undisturbed
  <2>4. Enter("tree", t) /\ queue'[t] = <<>>
    BY <1>2, <2>1, <2>2 DEF BeginTree
  <2>5. Scope([kind |-> "tree", tree |-> t]) = {t}
    BY DEF Scope
  <2>6. AbsOpen' = Append(AbsOpen, [scope |-> {t}, held |-> <<>>])
    BY <1>0, <2>1, <2>3, <2>4, <2>5, EnteredOpen
  <2>7. UNCHANGED <<issued, server, ended>>
    BY <1>2 DEF BeginTree
  <2>8. {t} \in SUBSET Tree
    BY <2>1
  <2>. QED  BY <2>6, <2>7, <2>8, OpenStep
<1>3. ASSUME NEW t \in SessionTrees, BeginJoin(t)
      PROVE  Abstract!AbsNext
  <2>1. t \in Tree
    BY <1>0, Identifiers
  <2>2. \A i \in DOMAIN blocks : Undisturbed(blocks[i])
    BY <1>3 DEF BeginJoin, Undisturbed, txVars
  <2>3. Scope([kind |-> "join", tree |-> t]) = {}
    BY DEF Scope
  <2>4. AbsOpen' = Append(AbsOpen, [scope |-> {}, held |-> <<>>])
    BY <1>0, <1>3, <2>1, <2>2, <2>3, EnteredOpen DEF BeginJoin
  <2>5. UNCHANGED <<issued, server, ended>>
    BY <1>3 DEF BeginJoin
  <2>6. {} \in SUBSET Tree
    OBVIOUS
  <2>. QED  BY <2>4, <2>5, <2>6, OpenStep
<1>. QED  BY <1>1, <1>2, <1>3

(* Leaving blocks: the innermost one was in the way of none of the others. *)
LEMMA LastBlock ==
  ASSUME IndInv, blocks # <<>>
  PROVE  LET b == blocks[Len(blocks)]
         IN  /\ blocks \in Seq(Block) /\ Len(blocks) \in DOMAIN blocks
             /\ AbsOpen[Len(AbsOpen)].held = Held(b)
             /\ \A i \in DOMAIN blocks : i < Len(blocks) =>
                  /\ b.kind = "session" =>
                       blocks[i].kind # "session" /\ blocks[i].tree \notin SessionTrees
                  /\ b.kind = "tree" /\ blocks[i].kind = "tree" =>
                       blocks[i].tree # b.tree
<1>1. TypeOK /\ BlocksNest
  BY DEF IndInv
<1>2. blocks \in Seq(Block) /\ Len(blocks) \in DOMAIN blocks
  BY <1>1, LeaveKeepsOuter DEF TypeOK
<1>3. AbsOpen[Len(AbsOpen)].held = Held(blocks[Len(blocks)])
  <2>1. Len(AbsOpen) = Len(blocks)
    BY <1>1, BlockFacts
  <2>. QED  BY <1>2, <2>1 DEF AbsOpen, AbsBlock
<1>4. \A i \in DOMAIN blocks : i < Len(blocks) =>
        /\ blocks[Len(blocks)].kind = "session" =>
             blocks[i].kind # "session" /\ blocks[i].tree \notin SessionTrees
        /\ blocks[Len(blocks)].kind = "tree" /\ blocks[i].kind = "tree" =>
             blocks[i].tree # blocks[Len(blocks)].tree
  BY <1>1, <1>2 DEF BlocksNest
<1>. QED  BY <1>2, <1>3, <1>4

LEMMA EndRefines ==
  ASSUME IndInv, blocks # <<>>, Leave, UNCHANGED issued,
         \A i \in DOMAIN blocks : i < Len(blocks) => Undisturbed(blocks[i]),
         \/ Send(Held(blocks[Len(blocks)]))
         \/ UNCHANGED server /\ ended' = "raised"
  PROVE  Abstract!AbsNext
<1>1. TypeOK
  BY DEF IndInv
<1>2. AbsOpen' = SubSeq(AbsOpen, 1, Len(AbsOpen) - 1)
  BY <1>1, LeftOpen
<1>3. \/ server' = Applied(AbsOpen[Len(AbsOpen)].held) /\ ended' = "done"
      \/ UNCHANGED server /\ ended' \in {"refused", "raised"}
  BY LastBlock DEF Send
<1>. QED  BY <1>2, <1>3, LastBlock, CloseStep

LEMMA EndBlockRefines ==
  ASSUME IndInv, CommitSession \/ AbortSession \/ CommitTree \/ AbortTree \/ EndJoin
  PROVE  Abstract!AbsNext
<1>. DEFINE b == blocks[Len(blocks)]
<1>0. TypeOK
  BY DEF IndInv
<1>1. CASE CommitSession \/ AbortSession
  <2>1. /\ blocks # <<>> /\ Leave /\ b.kind = "session" /\ UNCHANGED issued
        /\ Stop({Multi} \cup SessionTrees)
        /\ Send(queue[Multi]) \/ (UNCHANGED server /\ ended' = "raised")
    BY <1>1 DEF CommitSession, AbortSession, Innermost
  <2>2. \A x \in Tx : x \notin {Multi} \cup SessionTrees => queue'[x] = queue[x]
    BY <2>1 DEF Stop
  <2>3. ASSUME NEW i \in DOMAIN blocks, i < Len(blocks)
        PROVE  Undisturbed(blocks[i])
    BY <2>1, <2>2, <2>3, LastBlock, OpenBlockFacts DEF Undisturbed
  <2>4. Held(b) = queue[Multi]
    BY <2>1 DEF Held
  <2>. QED  BY <2>1, <2>3, <2>4, EndRefines
<1>2. CASE CommitTree \/ AbortTree
  <2>1. /\ blocks # <<>> /\ Leave /\ b.kind = "tree" /\ UNCHANGED issued
        /\ Stop({b.tree})
        /\ Send(queue[b.tree]) \/ (UNCHANGED server /\ ended' = "raised")
    BY <1>2 DEF CommitTree, AbortTree, Innermost
  <2>2. \A x \in Tx : x # b.tree => queue'[x] = queue[x]
    BY <2>1 DEF Stop
  <2>3. Len(blocks) \in DOMAIN blocks /\ b.tree # Multi
    BY <2>1, LastBlock, OpenBlockFacts
  <2>4. ASSUME NEW i \in DOMAIN blocks, i < Len(blocks)
        PROVE  Undisturbed(blocks[i])
    BY <1>0, <2>1, <2>2, <2>3, <2>4, LastBlock, OpenBlockFacts, Identifiers
       DEF Undisturbed
  <2>5. Held(b) = queue[b.tree]
    BY <2>1 DEF Held
  <2>. QED  BY <2>1, <2>4, <2>5, EndRefines
<1>3. CASE EndJoin
  <2>1. blocks # <<>> /\ Leave /\ b.kind = "join"
        /\ UNCHANGED <<issued, server, queue>> /\ ended' \in {"done", "raised"}
    BY <1>3 DEF EndJoin, Innermost, txVars
  <2>2. \A i \in DOMAIN blocks : Undisturbed(blocks[i])
    BY <2>1 DEF Undisturbed
  <2>3. Held(b) = <<>>
    BY <2>1 DEF Held
  <2>4. Send(Held(b)) \/ (UNCHANGED server /\ ended' = "raised")
    BY <2>1, <2>3 DEF Send, Applied
  <2>. QED  BY <2>1, <2>2, <2>4, EndRefines
<1>. QED  BY <1>1, <1>2, <1>3

LEMMA StepRefines ==
  ASSUME IndInv, IndInv', Discipline, [RuledNext]_vars
  PROVE  [Abstract!AbsNext]_(Abstract!absVars)
<1>1. CASE RuledDeviceStep
  BY <1>1, DeviceRefines
<1>2. CASE RuledSetStep
  BY <1>2, SetRefines
<1>3. CASE RuledBlockStep
  BY <1>3, BeginRefines, EndBlockRefines DEF RuledBlockStep
<1>4. CASE UNCHANGED vars
  <2>1. TypeOK /\ UNCHANGED <<blocks, queue, issued, server, ended>>
    BY <1>4 DEF IndInv, vars
  <2>. QED  BY <2>1, SameBlocks, StutterStep DEF Undisturbed
<1>. QED  BY <1>1, <1>2, <1>3, <1>4 DEF RuledNext

(* A program that keeps the rules gets the blocks set_transaction promises *)
(* of a device and of a session: commands are held back in order, applied  *)
(* as one list when the block ends normally, and not at all when the       *)
(* program raises within it, however the blocks nest.                      *)
THEOREM ImplementsSettingBlocksHolds == RuledSpec => ImplementsSettingBlocks
<1>1. Init => Abstract!AbsInit
  <2>. HAVE Init
  <2>1. blocks = <<>> /\ DOMAIN blocks = {}
    BY DEF Init
  <2>2. [i \in DOMAIN blocks |-> [scope |-> Scope(blocks[i]),
                                 held |-> Held(blocks[i])]] = <<>>
    BY <2>1
  <2>. QED  BY <2>2 DEF Init, Abstract!AbsInit
<1>2. (IndInv /\ Discipline) /\ (IndInv /\ Discipline)' /\ [RuledNext]_vars
        => [Abstract!AbsNext]_(Abstract!absVars)
  BY StepRefines
<1>. QED  BY <1>1, <1>2, DisciplineHolds, PTL
          DEF RuledSpec, ImplementsSettingBlocks, Abstract!AbsSpec

=============================================================================
