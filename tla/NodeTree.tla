------------------------------ MODULE NodeTree ------------------------------
(***************************************************************************)
(* NodeTree (nodetree/nodetree.py): the dictionary of the nodes of a       *)
(* device or module, the prefix it hides, and the information cached for   *)
(* the nodes a program has looked at (NodeInfo in nodetree/node.py), while   *)
(* nodes are updated and added.                                            *)
(*                                                                         *)
(* A path is the sequence of its elements: a raw path as the data server   *)
(* knows it, or the tree of a Node, where the hidden prefix is left out    *)
(* and Python keywords are escaped with an underscore.  On the way back    *)
(* every underscore at the end of an element is stripped, its own as well  *)
(* as that of an escape.  Of the information on a node only its *)
(* version is kept: which update wrote to it last.  Dynamic nodes (waves), *)
(* which are looked up in the data server, are left out, and so is what a  *)
(* Node object keeps for itself (is_valid, its next layer).                *)
(***************************************************************************)
EXTENDS Integers, Sequences, Functions

CONSTANTS
  Hide,        \* the prefix that is hidden
  Keyword,     \* the elements that are Python keywords ...
  Escaped,     \* ... and what each is in the tree of a Node
  Trimmed,     \* what is left of the elements that end in underscores
  Begins,      \* <<a, b>>: the text of element b begins with that of a
  Known,       \* raw paths the connection may list at first
  Addable,     \* raw paths the program updates or adds
  Asked,       \* trees of the Nodes the program asks about
  MaxTargets,  \* bound: nodes updated in one call
  MaxUpdates   \* bound: nodes updated in one behaviour

Element == UNION {Range(p) : p \in Known \cup Addable \cup Asked}

ASSUME NodeTreeAssumption ==
  /\ Hide \notin Keyword
  /\ \A k \in Keyword : Escaped[k] \in DOMAIN Trimmed /\ Trimmed[Escaped[k]] = k
  /\ \A e \in DOMAIN Trimmed : Trimmed[e] \notin DOMAIN Trimmed
  /\ Known \cup Addable \cup Asked \subseteq Seq(Element)
  /\ \A p \in Known \cup Addable : Len(p) > 1
  /\ MaxTargets \in Nat /\ MaxUpdates \in Nat

VARIABLES
  flat,        \* _flat_dict: raw path -> the update that wrote to it last
  keep,        \* _prefixes_keep
  firstLayer,  \* _first_layer
  infos,       \* _node_infos: Node -> NodeInfo
  todo,        \* the nodes update_nodes has not come to yet
  call,        \* its arguments, and the number of updates before it
  outcome,     \* how it ended
  updates      \* number of nodes updated
vars == <<flat, keep, firstLayer, infos, todo, call, outcome, updates>>
treeVars == <<flat, keep, firstLayer>>

-----------------------------------------------------------------------------
(* Paths.                                                                  *)

Escape(e) == IF e \in Keyword THEN Escaped[e] ELSE e
\* rstrip("_")
Strip(e) == IF e \in DOMAIN Trimmed THEN Trimmed[e] ELSE e
Each(Op(_), path) == [i \in DOMAIN path |-> Op(path[i])]

\* raw_path_to_node
ToNode(raw) ==
  IF raw[1] = Hide THEN Tail(Each(Escape, raw)) ELSE Each(Escape, raw)

\* Mutant of ToRaw: the escapes stay.
ToRawEscaped(node) ==
  IF node # << >> /\ node[1] \in keep THEN node ELSE <<Hide>> \o node

\* node_to_raw_path
ToRaw(node) ==
  IF node # << >> /\ Strip(node[1]) \in keep THEN Each(Strip, node)
  ELSE <<Hide>> \o Each(Strip, node)

\* Node.is_child_node: the text of the child begins with the text of the node.
LooksLikeChild(node, child) ==
  \/ node = << >>
  \/ /\ Len(node) <= Len(child)
     /\ \A i \in 1..Len(node) - 1 : child[i] = node[i]
     /\ LET a == node[Len(node)]  b == child[Len(node)] IN a = b \/ <<a, b>> \in Begins

\* What NodeInfo finds out on a node when it is created.
Kind(node) ==
  CASE ToRaw(node) \in DOMAIN flat -> "leaf"
    [] ToRaw(node) \notin DOMAIN flat /\ \E p \in DOMAIN flat :
         LooksLikeChild(node, ToNode(p)) /\ Each(Strip, ToNode(p)) # Each(Strip, node)
       -> "partial"
    [] OTHER -> "absent"

-----------------------------------------------------------------------------
\* __init__ and _generate_first_layer
Foreign(paths) == {p[1] : p \in paths} \ {Hide}
Hidden(paths)  == {p[2] : p \in {q \in paths : q[1] = Hide}}

NoCall == [targets |-> << >>, add |-> FALSE, lenient |-> FALSE, begun |-> 0]

Init ==
  /\ \E paths \in SUBSET Known : flat = [p \in paths |-> 0]
  /\ keep = Foreign(DOMAIN flat)
  /\ firstLayer = Hidden(DOMAIN flat) \cup keep
  /\ infos = << >>
  /\ todo = << >> /\ call = NoCall /\ outcome = "none"
  /\ updates = 0

\* Two nodes are equal when their trees are, apart from underscores at the end.
Key(node) == Each(Strip, node)
With(f, k, v) == [x \in DOMAIN f \cup {k} |-> IF x = k THEN v ELSE f[x]]

\* get_node_info, and NodeInfo.enum, which is computed when it is read first.
Unread == -1
InfoOf(node) ==
  IF Key(node) \in DOMAIN infos THEN infos[Key(node)]
  ELSE [path |-> ToRaw(node), kind |-> Kind(node), enum |-> Unread]

GetNodeInfo(node) ==
  /\ todo = << >>
  /\ infos' = With(infos, Key(node), InfoOf(node))
  /\ call' = NoCall /\ outcome' = "none"
  /\ UNCHANGED <<treeVars, todo, updates>>

ReadEnum(node) ==
  /\ todo = << >> /\ InfoOf(node).kind = "leaf"
  /\ LET info == InfoOf(node) IN
     infos' = With(infos, Key(node),
       IF info.enum = Unread THEN [info EXCEPT !.enum = flat[info.path]] ELSE info)
  /\ call' = NoCall /\ outcome' = "none"
  /\ UNCHANGED <<treeVars, todo, updates>>

-----------------------------------------------------------------------------
(* update_nodes, one node per step; update_node is that with one node.     *)

AnyNode == <<"*">>
Matching(target) ==
  IF target = AnyNode THEN DOMAIN flat ELSE {target} \cap DOMAIN flat

UpdateNodes(targets, add, lenient) ==
  /\ todo = << >> /\ updates + Len(targets) <= MaxUpdates
  /\ todo' = targets
  /\ call' = [targets |-> targets, add |-> add, lenient |-> lenient, begun |-> updates]
  /\ outcome' = "none"
  /\ UNCHANGED <<treeVars, infos, updates>>

Target == Head(todo)
StepTo(rest) ==
  /\ todo' = rest
  /\ outcome' = IF rest = << >> THEN "done" ELSE "none"
  /\ UNCHANGED call
Raise(how) == todo' = << >> /\ outcome' = how /\ UNCHANGED call

\* Mutant of UpdateExisting: the cache is kept.
UpdateExistingCached ==
  /\ todo # << >> /\ Matching(Target) # {}
  /\ updates' = updates + 1
  /\ flat' = [p \in DOMAIN flat |-> IF p \in Matching(Target) THEN updates' ELSE flat[p]]
  /\ StepTo(Tail(todo))
  /\ UNCHANGED <<keep, firstLayer, infos>>

UpdateExisting ==
  /\ todo # << >> /\ Matching(Target) # {}
  /\ updates' = updates + 1
  /\ flat' = [p \in DOMAIN flat |-> IF p \in Matching(Target) THEN updates' ELSE flat[p]]
  /\ infos' = << >>
  /\ StepTo(Tail(todo))
  /\ UNCHANGED <<keep, firstLayer>>

\* A new node under a prefix that is not hidden makes it one to keep.
Registered(raw) == {raw[1]} \ {Hide}

AddNode ==
  /\ todo # << >> /\ Matching(Target) = {} /\ call.add /\ Target # AnyNode
  /\ updates' = updates + 1
  /\ flat' = With(flat, Target, updates')
  /\ keep' = keep \cup Registered(Target)
  /\ firstLayer' = firstLayer \cup Registered(Target)
  /\ infos' = << >>
  /\ StepTo(Tail(todo))

\* Mutant of Unknown: raise_for_invalid_node = False ends the update as well.
UnknownEndsAll ==
  /\ todo # << >> /\ Matching(Target) = {} /\ ~call.add
  /\ IF call.lenient THEN StepTo(<< >>) ELSE Raise("KeyError")
  /\ UNCHANGED <<treeVars, infos, updates>>

\* KeyError, which update_nodes passes on or not.
Unknown ==
  /\ todo # << >> /\ Matching(Target) = {} /\ ~call.add
  /\ IF call.lenient THEN StepTo(Tail(todo)) ELSE Raise("KeyError")
  /\ UNCHANGED <<treeVars, infos, updates>>

\* A wildcard cannot be added: RuntimeError, which is always passed on.
UnknownWildcard ==
  /\ todo # << >> /\ Matching(Target) = {} /\ call.add /\ Target = AnyNode
  /\ Raise("RuntimeError")
  /\ UNCHANGED <<treeVars, infos, updates>>

Targets == UNION {[1..n -> Known \cup Addable \cup {AnyNode}] : n \in 1..MaxTargets}

Next ==
  \/ \E n \in Asked : GetNodeInfo(n) \/ ReadEnum(n)
  \/ \E targets \in Targets, add, lenient \in BOOLEAN : UpdateNodes(targets, add, lenient)
  \/ UpdateExisting \/ AddNode \/ Unknown \/ UnknownWildcard
Spec == Init /\ [][Next]_vars

-----------------------------------------------------------------------------
(* Properties.                                                             *)

TypeOK ==
  /\ DOMAIN flat \subseteq Known \cup Addable
  /\ \A p \in DOMAIN flat : flat[p] \in 0..updates
  /\ keep = Foreign(DOMAIN flat) /\ keep \subseteq firstLayer
  /\ outcome \in {"none", "done", "KeyError", "RuntimeError"}
  /\ updates \in 0..MaxUpdates

\* What the tree has cached of a node is what it would find out now: no update,
\* also none of several of which a later one fails, leaves an entry behind that
\* has another path or another enumeration, that is a leaf of a node the tree
\* does not have, or no leaf of one it has.  (Whether a node that is no leaf is
\* partial or absent is not claimed: the text of "10" begins with "1".)
InfoIsCurrent ==
  \A k \in DOMAIN infos :
    /\ infos[k].path = ToRaw(k)
    /\ infos[k].kind = "leaf" <=> ToRaw(k) \in DOMAIN flat
    /\ infos[k].enum \in {Unread} \cup {flat[p] : p \in {ToRaw(k)} \cap DOMAIN flat}

\* A node of the hidden prefix is out of reach once another prefix is kept that
\* has the name of its first element.
Shadowed(raw) == raw[1] = Hide /\ raw[2] \in keep

\* A node with an underscore at the end of an element is out of reach, too: the
\* way back strips it.
Stripped(raw) == Range(raw) \cap DOMAIN Trimmed # {}

\* raw_path_to_node: "if the node exist the returned node does correspond also
\* to that node": the way to a Node and back ends where it began, for every
\* node of the tree, the added ones included, that is neither shadowed nor has
\* an element that ends in an underscore; keywords are escaped and come back.
RoundTrip ==
  \A p \in DOMAIN flat : Shadowed(p) \/ Stripped(p) \/ ToRaw(ToNode(p)) = p

\* update_nodes(raise_for_invalid_node = False) "will issue a warning and
\* continue adding the valid nodes".
LenientReachesAll ==
  outcome = "done" => \A i \in DOMAIN call.targets :
    \A p \in Matching(call.targets[i]) : flat[p] > call.begun

=============================================================================
