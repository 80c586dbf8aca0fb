--------------------------- MODULE NodeTree_proof ---------------------------
(***************************************************************************)
(* Proofs about the node tree, for any paths, any prefix to hide, any      *)
(* keywords with their escapes, and any bounds.                            *)
(***************************************************************************)
EXTENDS NodeTree, TLAPS

Path   == Known \cup Addable
Place  == Path \cup {AnyNode}
Update == [targets : Seq(Place), add : BOOLEAN, lenient : BOOLEAN, begun : Nat]

\* The nodes, each with the update that wrote to it last, and the prefixes that
\* are kept because of them.
TreeInv ==
  /\ DOMAIN flat \subseteq Path
  /\ \A p \in DOMAIN flat : flat[p] \in 0..updates
  /\ keep = Foreign(DOMAIN flat) /\ keep \subseteq firstLayer
  /\ updates \in Nat

\* What is cached of a node describes it.
Info(raw) == [path : {raw}, kind : {"leaf", "partial", "absent"}, enum : Int]
Describes(info, raw) ==
  /\ info \in Info(raw)
  /\ info.kind = "leaf" <=> raw \in DOMAIN flat
  /\ info.enum = Unread \/ (raw \in DOMAIN flat /\ info.enum = flat[raw])
CacheInv == \A k \in DOMAIN infos : Describes(infos[k], ToRaw(k))

\* Of the nodes of the call, the first m were reached and the others are to do.
Reached(target) == \A p \in Matching(target) : flat[p] > call.begun
ReachedUpTo(m) ==
  /\ Len(todo) = Len(call.targets) - m
  /\ \A i \in 1..Len(todo) : todo[i] = call.targets[m + i]
  /\ \A i \in 1..m : Reached(call.targets[i])
CallInv ==
  /\ todo \in Seq(Place) /\ call \in Update /\ call.begun <= updates
  /\ updates + Len(todo) <= MaxUpdates
  /\ outcome \in {"none", "done", "KeyError", "RuntimeError"}
  /\ todo # << >> => outcome = "none"
  /\ outcome \in {"none", "done"} => \E m \in 0..Len(call.targets) : ReachedUpTo(m)

NodeTreeInv == TreeInv /\ CacheInv /\ CallInv

-----------------------------------------------------------------------------
(* Paths: the escapes come off again, and only once.                       *)

LEMMA StripEscape ==
  ASSUME NEW e, e \notin DOMAIN Trimmed
  PROVE  Strip(Escape(e)) = e
<1>1. CASE e \in Keyword
  BY <1>1, NodeTreeAssumption DEF Escape, Strip
<1>2. CASE e \notin Keyword
  BY <1>2 DEF Escape, Strip
<1>. QED BY <1>1, <1>2

LEMMA StripTwice ==
  ASSUME NEW e PROVE Strip(Strip(e)) = Strip(e)
BY NodeTreeAssumption DEF Strip

\* The tree of an equal Node is the same path.
LEMMA KeyIsSamePath ==
  ASSUME NEW node \in Seq(Element)
  PROVE  ToRaw(Key(node)) = ToRaw(node)
<1>1. DOMAIN Key(node) = DOMAIN node /\ \A i \in DOMAIN node : Key(node)[i] = Strip(node[i])
  BY DEF Key, Each
<1>2. Each(Strip, Key(node)) = Each(Strip, node)
  <2>1. Each(Strip, Key(node)) = [i \in DOMAIN Key(node) |-> Strip(Key(node)[i])]
    BY DEF Each
  <2>2. Each(Strip, node) = [i \in DOMAIN node |-> Strip(node[i])]
    BY DEF Each
  <2>3. \A i \in DOMAIN node : Strip(Key(node)[i]) = Strip(node[i])
    BY <1>1, StripTwice
  <2>. QED BY <1>1, <2>1, <2>2, <2>3
<1>3. CASE node = << >>
  <2>1. Key(node) = << >>
    BY <1>3 DEF Key, Each
  <2>. QED BY <1>3, <2>1
<1>4. CASE node # << >>
  <2>1. 1 \in DOMAIN node
    BY <1>4
  <2>2. Key(node) # << >>
    BY <1>1, <2>1
  <2>3. Strip(Key(node)[1]) = Strip(node[1])
    BY <1>1, <2>1, StripTwice
  <2>. QED BY <1>2, <1>4, <2>2, <2>3 DEF ToRaw
<1>. QED BY <1>3, <1>4

\* A path of the data server is found again.
LEMMA WayBack ==
  ASSUME NEW p \in Seq(Element), Len(p) > 1, ~Shadowed(p), ~Stripped(p),
         p[1] # Hide => p[1] \in keep
  PROVE  ToRaw(ToNode(p)) = p
<1> DEFINE escaped == Each(Escape, p)
           Text == {Escape(e) : e \in Element}
<1>1. \A i \in 1..Len(p) : Strip(Escape(p[i])) = p[i]
  <2>. SUFFICES ASSUME NEW i \in 1..Len(p) PROVE Strip(Escape(p[i])) = p[i]
    OBVIOUS
  <2>1. p[i] \in Range(p)
    BY DEF Range
  <2>2. p[i] \notin DOMAIN Trimmed
    BY <2>1 DEF Stripped
  <2>. QED BY <2>2, StripEscape
<1>2. /\ escaped \in Seq(Text) /\ Len(escaped) = Len(p)
      /\ \A i \in 1..Len(p) : escaped[i] = Escape(p[i])
  <2>1. escaped = [i \in 1..Len(p) |-> Escape(p[i])]
    BY DEF Each
  <2>2. \A i \in 1..Len(p) : Escape(p[i]) \in Text
    OBVIOUS
  <2>. HIDE DEF Text, escaped
  <2>. QED BY <2>1, <2>2
<1>. HIDE DEF escaped, Text
<1>3. CASE p[1] # Hide
  <2>1. ToNode(p) = escaped
    BY <1>3 DEF ToNode, escaped
  <2>2. escaped # << >> /\ Strip(escaped[1]) = p[1]
    BY <1>1, <1>2
  <2>3. ToRaw(escaped) = Each(Strip, escaped)
    BY <1>3, <2>2 DEF ToRaw
  <2>4. Each(Strip, escaped) = [i \in 1..Len(p) |-> Strip(escaped[i])]
    BY <1>2 DEF Each
  <2>5. \A i \in 1..Len(p) : Strip(escaped[i]) = p[i]
    BY <1>1, <1>2
  <2>6. p = [i \in 1..Len(p) |-> p[i]]
    OBVIOUS
  <2>. QED BY <2>1, <2>3, <2>4, <2>5, <2>6
<1>4. CASE p[1] = Hide
  <2> DEFINE node == Tail(escaped)
  <2>1. ToNode(p) = node
    BY <1>4 DEF ToNode, escaped
  <2>2. /\ node \in Seq(Text) /\ Len(node) = Len(p) - 1
        /\ \A i \in 1..Len(p) - 1 : node[i] = escaped[i + 1]
    BY <1>2
  <2>. HIDE DEF node
  <2>3. \A i \in 1..Len(p) - 1 : Strip(node[i]) = p[i + 1]
    <3>. SUFFICES ASSUME NEW i \in 1..Len(p) - 1 PROVE Strip(node[i]) = p[i + 1]
      OBVIOUS
    <3>1. i + 1 \in 1..Len(p)
      OBVIOUS
    <3>. QED BY <1>1, <1>2, <2>2, <3>1
  <2>4. Strip(node[1]) = p[2] /\ node # << >>
    BY <2>2, <2>3
  <2>5. p[2] \notin keep
    BY <1>4 DEF Shadowed
  <2>6. ToRaw(node) = <<Hide>> \o Each(Strip, node)
    BY <2>4, <2>5 DEF ToRaw
  <2> DEFINE rest == Each(Strip, node)
  <2>7. rest = [i \in 1..Len(p) - 1 |-> p[i + 1]]
    <3>1. rest = [i \in 1..Len(p) - 1 |-> Strip(node[i])]
      BY <2>2 DEF Each
    <3>. QED BY <3>1, <2>3
  <2>8. rest = Tail(p)
    <3> DEFINE tail == Tail(p)
    <3>1. /\ tail \in Seq(Element) /\ Len(tail) = Len(p) - 1
          /\ \A i \in 1..Len(p) - 1 : tail[i] = p[i + 1]
      OBVIOUS
    <3>. HIDE DEF tail, rest
    <3>2. tail = [i \in 1..Len(tail) |-> tail[i]]
      BY <3>1
    <3>3. rest = tail
      BY <2>7, <3>1, <3>2
    <3>. QED BY <3>3 DEF tail
  <2>. HIDE DEF rest
  <2>9. p = <<Hide>> \o Tail(p)
    BY <1>4
  <2>. QED BY <2>1, <2>6, <2>8, <2>9 DEF rest
<1>. QED BY <1>3, <1>4

LEMMA TreeRoundTrip == TreeInv => RoundTrip
<1>. SUFFICES ASSUME TreeInv, NEW p \in DOMAIN flat, ~Shadowed(p), ~Stripped(p)
     PROVE  ToRaw(ToNode(p)) = p
  BY DEF RoundTrip
<1>1. p \in Seq(Element) /\ Len(p) > 1
  BY NodeTreeAssumption DEF TreeInv, Path
<1>2. p[1] # Hide => p[1] \in keep
  BY DEF TreeInv, Foreign
<1>. QED BY <1>1, <1>2, WayBack

LEMMA CallReaches == NodeTreeInv => LenientReachesAll
<1>. SUFFICES ASSUME NodeTreeInv, outcome = "done",
                     NEW i \in DOMAIN call.targets, NEW p \in Matching(call.targets[i])
     PROVE  flat[p] > call.begun
  BY DEF LenientReachesAll
<1>1. PICK m \in 0..Len(call.targets) : ReachedUpTo(m)
  BY DEF NodeTreeInv, CallInv
<1>2. todo = << >> /\ call.targets \in Seq(Place)
  BY DEF NodeTreeInv, CallInv, Update
<1>3. m = Len(call.targets) /\ i \in 1..m
  BY <1>1, <1>2 DEF ReachedUpTo
<1>. QED BY <1>1, <1>3 DEF ReachedUpTo, Reached

LEMMA CacheCurrent == CacheInv => InfoIsCurrent
<1>. SUFFICES ASSUME CacheInv, NEW k \in DOMAIN infos
     PROVE  /\ infos[k].path = ToRaw(k)
            /\ infos[k].kind = "leaf" <=> ToRaw(k) \in DOMAIN flat
            /\ infos[k].enum \in {Unread} \cup {flat[p] : p \in {ToRaw(k)} \cap DOMAIN flat}
  BY DEF InfoIsCurrent
<1>1. Describes(infos[k], ToRaw(k))
  BY DEF CacheInv
<1>. QED BY <1>1 DEF Describes, Info

-----------------------------------------------------------------------------
(* The steps.                                                              *)

LEMMA InitInv == Init => NodeTreeInv
<1>. SUFFICES ASSUME Init PROVE NodeTreeInv
  OBVIOUS
<1>1. TreeInv
  BY DEF Init, TreeInv, Path
<1>2. CacheInv
  BY DEF Init, CacheInv
<1>3. call \in Update /\ todo \in Seq(Place) /\ ReachedUpTo(0) /\ 0 \in 0..Len(call.targets)
  BY DEF Init, NoCall, Update, ReachedUpTo
<1>4. CallInv
  BY <1>3, NodeTreeAssumption DEF Init, NoCall, CallInv
<1>. QED BY <1>1, <1>2, <1>4 DEF NodeTreeInv

\* Nothing in the tree changed.
LEMMA SameTree ==
  ASSUME TreeInv, UNCHANGED <<treeVars, updates>>
  PROVE  /\ TreeInv'
         /\ \A node : ToRaw(node)' = ToRaw(node)
         /\ \A info, raw : Describes(info, raw) => Describes(info, raw)'
         /\ \A target : Reached(target) /\ UNCHANGED call => Reached(target)'
BY DEF TreeInv, treeVars, Foreign, ToRaw, Describes, Reached, Matching

\* No call is in progress.
LEMMA Idle ==
  ASSUME todo' = << >>, call' = NoCall, outcome' = "none",
         updates' \in Nat, updates' <= MaxUpdates
  PROVE  CallInv'
<1>1. call' \in Update /\ todo' \in Seq(Place) /\ Len(call'.targets) = 0
  BY DEF NoCall, Update
<1>2. ReachedUpTo(0)'
  BY DEF NoCall, ReachedUpTo
<1>3. 0 \in 0..Len(call'.targets)
  BY <1>1
<1>. QED BY <1>1, <1>2, <1>3 DEF CallInv, NoCall

LEMMA LookedUp ==
  ASSUME TreeInv, CacheInv, NEW node \in Seq(Element)
  PROVE  Describes(InfoOf(node), ToRaw(Key(node)))
<1>1. CASE Key(node) \in DOMAIN infos
  BY <1>1 DEF InfoOf, CacheInv
<1>2. CASE Key(node) \notin DOMAIN infos
  <2>1. InfoOf(node) = [path |-> ToRaw(node), kind |-> Kind(node), enum |-> Unread]
    BY <1>2 DEF InfoOf
  <2>2. /\ Kind(node) \in {"leaf", "partial", "absent"}
        /\ Kind(node) = "leaf" <=> ToRaw(node) \in DOMAIN flat
    BY DEF Kind
  <2>. QED BY <2>1, <2>2, KeyIsSamePath DEF Describes, Info, Unread
<1>. QED BY <1>1, <1>2

LEMMA LookInv ==
  ASSUME NodeTreeInv, NEW node \in Asked, GetNodeInfo(node) \/ ReadEnum(node)
  PROVE  NodeTreeInv'
<1> DEFINE old == InfoOf(node)
           new == infos'[Key(node)]
<1>1. node \in Seq(Element)
  BY NodeTreeAssumption
<1>2. /\ UNCHANGED <<treeVars, updates>>
      /\ todo' = << >> /\ call' = NoCall /\ outcome' = "none"
  BY DEF GetNodeInfo, ReadEnum
<1>3. TreeInv'
  BY <1>2, SameTree DEF NodeTreeInv
<1>4. CallInv'
  <2>1. updates \in Nat /\ updates <= MaxUpdates
    BY NodeTreeAssumption DEF NodeTreeInv, TreeInv, CallInv
  <2>. QED BY <1>2, <2>1, Idle
<1>5. Describes(old, ToRaw(Key(node)))
  BY <1>1, LookedUp DEF NodeTreeInv
<1>6. infos' = With(infos, Key(node), new) /\ Describes(new, ToRaw(Key(node)))
  <2>. HIDE DEF old
  <2>1. CASE GetNodeInfo(node)
    <3>1. infos' = With(infos, Key(node), old)
      BY <2>1 DEF GetNodeInfo, old
    <3>2. new = old
      BY <3>1 DEF With
    <3>. QED BY <1>5, <3>1, <3>2
  <2>2. CASE ReadEnum(node) /\ old.enum # Unread
    <3>1. infos' = With(infos, Key(node), old)
      BY <2>2 DEF ReadEnum, old
    <3>2. new = old
      BY <3>1 DEF With
    <3>. QED BY <1>5, <3>1, <3>2
  <2>3. CASE ReadEnum(node) /\ old.enum = Unread
    <3> DEFINE read == [old EXCEPT !.enum = flat[old.path]]
    <3>1. infos' = With(infos, Key(node), read)
      BY <2>3 DEF ReadEnum, old
    <3>2. old.kind = "leaf"
      BY <2>3 DEF ReadEnum, old
    <3>3. old.path = ToRaw(Key(node)) /\ old \in Info(old.path) /\ old.path \in DOMAIN flat
      BY <1>5, <3>2 DEF Describes, Info
    <3>4. flat[old.path] \in Int
      BY <3>3 DEF NodeTreeInv, TreeInv
    <3>5. read \in Info(old.path) /\ read.kind = "leaf" /\ read.enum = flat[old.path]
      BY <3>2, <3>3, <3>4 DEF Info
    <3>. HIDE DEF read
    <3>6. Describes(read, ToRaw(Key(node)))
      BY <3>3, <3>5 DEF Describes
    <3>7. new = read
      BY <3>1 DEF With
    <3>. QED BY <3>1, <3>6, <3>7
  <2>. QED BY <2>1, <2>2, <2>3
<1>7. CacheInv'
  <2>. HIDE DEF new, old
  <2>. SUFFICES ASSUME NEW k \in DOMAIN infos' PROVE Describes(infos'[k], ToRaw(k))
    BY <1>2, SameTree DEF CacheInv, NodeTreeInv
  <2>1. CASE k = Key(node)
    BY <1>6, <2>1 DEF new
  <2>2. CASE k # Key(node)
    BY <1>6, <2>2 DEF With, NodeTreeInv, CacheInv
  <2>. QED BY <2>1, <2>2
<1>. QED BY <1>3, <1>4, <1>7 DEF NodeTreeInv

LEMMA BeginInv ==
  ASSUME NodeTreeInv,
         NEW targets \in Targets, NEW add \in BOOLEAN, NEW lenient \in BOOLEAN,
         UpdateNodes(targets, add, lenient)
  PROVE  NodeTreeInv'
<1>1. /\ UNCHANGED <<treeVars, infos, updates>> /\ todo' = targets /\ outcome' = "none"
      /\ call' = [targets |-> targets, add |-> add, lenient |-> lenient, begun |-> updates]
      /\ updates + Len(targets) <= MaxUpdates
  BY DEF UpdateNodes
<1>2. targets \in Seq(Place)
  <2>1. PICK n \in 1..MaxTargets : targets \in [1..n -> Known \cup Addable \cup {AnyNode}]
    BY DEF Targets
  <2>. QED BY <2>1, NodeTreeAssumption DEF Place, Path
<1>3. TreeInv' /\ CacheInv'
  BY <1>1, SameTree DEF NodeTreeInv, CacheInv
<1>4. call' \in Update /\ call'.begun = updates /\ call'.targets = targets
  BY <1>1, <1>2 DEF Update, NodeTreeInv, TreeInv
<1>5. ReachedUpTo(0)' /\ 0 \in 0..Len(call'.targets)
  BY <1>1, <1>2, <1>4 DEF ReachedUpTo
<1>6. CallInv'
  BY <1>1, <1>2, <1>4, <1>5 DEF CallInv, NodeTreeInv, TreeInv
<1>. QED BY <1>3, <1>6 DEF NodeTreeInv

\* The call goes on to the next of its nodes: those reached before still are, and
\* the one it comes from is.
LEMMA Onwards ==
  ASSUME NodeTreeInv, todo # << >>, StepTo(Tail(todo)),
         updates' \in {updates, updates + 1},
         \A target \in Place : Reached(target) => Reached(target)',
         NEW reached \in Place, reached = Target, Reached(reached)'
  PROVE  CallInv'
<1> DEFINE n == Len(todo)
           rest == Tail(todo)
<1>1. /\ todo \in Seq(Place) /\ call \in Update /\ call.begun <= updates
      /\ updates \in Nat /\ updates + n <= MaxUpdates /\ outcome = "none"
  BY DEF NodeTreeInv, TreeInv, CallInv
<1>2. /\ rest \in Seq(Place) /\ Len(rest) = n - 1 /\ n \in Nat \ {0}
      /\ \A i \in 1..n - 1 : rest[i] = todo[i + 1]
  BY <1>1
<1>3. todo' = rest /\ call' = call /\ outcome' \in {"none", "done"}
  BY DEF StepTo
<1>4. rest # << >> => outcome' = "none"
  BY DEF StepTo
<1>5. /\ todo' \in Seq(Place) /\ call' \in Update /\ call'.begun <= updates'
      /\ updates' + Len(todo') <= MaxUpdates
  <2>1. call.begun \in Nat /\ MaxUpdates \in Nat
    BY <1>1, NodeTreeAssumption DEF Update
  <2>. HIDE DEF rest, n
  <2>. QED BY <1>1, <1>2, <1>3, <2>1
<1>6. \E m \in 0..Len(call'.targets) : ReachedUpTo(m)'
  <2>1. PICK m \in 0..Len(call.targets) : ReachedUpTo(m)
    BY <1>1 DEF NodeTreeInv, CallInv
  <2>2. /\ n = Len(call.targets) - m
        /\ \A i \in 1..n : todo[i] = call.targets[m + i]
        /\ \A i \in 1..m : Reached(call.targets[i])
    BY <2>1 DEF ReachedUpTo
  <2>3. call.targets \in Seq(Place) /\ Len(call.targets) \in Nat
    BY <1>1 DEF Update
  <2>. HIDE DEF n, rest
  <2>4. m + 1 \in 0..Len(call.targets) /\ n - 1 = Len(call.targets) - (m + 1)
    BY <1>2, <2>2, <2>3
  <2>5. \A i \in 1..n - 1 : rest[i] = call.targets[m + 1 + i]
    <3>. SUFFICES ASSUME NEW i \in 1..n - 1 PROVE rest[i] = call.targets[m + 1 + i]
      OBVIOUS
    <3>1. i + 1 \in 1..n /\ m + (i + 1) = m + 1 + i
      BY <1>2
    <3>. QED BY <1>2, <2>2, <3>1
  <2>6. reached = call.targets[m + 1]
    <3>1. Target = todo[1] /\ 1 \in 1..n
      BY <1>2 DEF Target
    <3>. QED BY <2>2, <3>1
  <2>7. \A i \in 1..m + 1 : Reached(call.targets[i])'
    <3>. SUFFICES ASSUME NEW i \in 1..m + 1 PROVE Reached(call.targets[i])'
      OBVIOUS
    <3>1. CASE i = m + 1
      <4>1. call'.targets[i] = reached
        BY <1>3, <2>6, <3>1
      <4>. QED BY <4>1 DEF Reached, Matching
    <3>2. CASE i # m + 1
      <4>1. i \in 1..m /\ i \in 1..Len(call.targets)
        BY <3>2
      <4>2. call.targets[i] \in Place
        BY <2>3, <4>1
      <4>3. Reached(call.targets[i])
        BY <2>2, <4>1
      <4>. QED BY <1>3, <4>2, <4>3
    <3>. QED BY <3>1, <3>2
  <2>8. ReachedUpTo(m + 1)'
    BY <1>2, <1>3, <2>4, <2>5, <2>7 DEF ReachedUpTo
  <2>. QED BY <1>3, <2>4, <2>8
<1>. QED BY <1>3, <1>4, <1>5, <1>6 DEF CallInv

LEMMA TargetType ==
  ASSUME NodeTreeInv, todo # << >>
  PROVE  Target \in Place /\ updates + 1 <= MaxUpdates /\ call.begun < updates + 1
<1>1. /\ todo \in Seq(Place) /\ updates \in Nat /\ updates + Len(todo) <= MaxUpdates
      /\ call.begun \in Nat /\ call.begun <= updates
  BY DEF NodeTreeInv, TreeInv, CallInv, Update
<1>2. Target \in Place /\ Len(todo) \in Nat \ {0}
  BY <1>1 DEF Target
<1>3. MaxUpdates \in Nat
  BY NodeTreeAssumption
<1>. QED BY <1>1, <1>2, <1>3

LEMMA UpdateExistingInv ==
  ASSUME NodeTreeInv, UpdateExisting
  PROVE  NodeTreeInv'
<1>0. todo # << >>
  BY DEF UpdateExisting
<1>t. PICK node \in Place : node = Target
  BY <1>0, TargetType
<1>1. /\ todo # << >> /\ updates' = updates + 1 /\ infos' = << >>
      /\ flat' = [p \in DOMAIN flat |-> IF p \in Matching(node) THEN updates' ELSE flat[p]]
      /\ StepTo(Tail(todo)) /\ UNCHANGED <<keep, firstLayer, call>>
  BY <1>t DEF UpdateExisting, StepTo
<1>2. node \in Place /\ call.begun < updates'
  BY <1>1, <1>t, TargetType
<1>3. TreeInv'
  BY <1>1 DEF NodeTreeInv, TreeInv
<1>4. CacheInv'
  BY <1>1 DEF CacheInv
<1>5. \A target : Matching(target)' = Matching(target)
  BY <1>1 DEF Matching
<1>6. \A target \in Place : Reached(target) => Reached(target)'
  <2>. SUFFICES ASSUME NEW target \in Place, Reached(target),
                       NEW p \in Matching(target)
       PROVE  flat'[p] > call.begun
    BY <1>1, <1>5 DEF Reached
  <2>1. p \in DOMAIN flat /\ flat[p] > call.begun
    BY DEF Matching, Reached
  <2>2. flat'[p] = updates' \/ flat'[p] = flat[p]
    BY <1>1, <2>1
  <2>. QED BY <1>1, <1>2, <2>1, <2>2 DEF NodeTreeInv, TreeInv, CallInv, Update
<1>7. Reached(node)'
  <2>. SUFFICES ASSUME NEW p \in Matching(node) PROVE flat'[p] > call.begun
    BY <1>1, <1>5 DEF Reached
  <2>1. flat'[p] = updates'
    BY <1>1 DEF Matching
  <2>. QED BY <1>1, <1>2, <2>1 DEF NodeTreeInv, TreeInv, CallInv, Update
<1>8. CallInv'
  BY <1>1, <1>2, <1>t, <1>6, <1>7, Onwards
<1>. QED BY <1>3, <1>4, <1>8 DEF NodeTreeInv

LEMMA AddNodeInv ==
  ASSUME NodeTreeInv, AddNode
  PROVE  NodeTreeInv'
<1>0. todo # << >>
  BY DEF AddNode
<1>t. PICK node \in Place : node = Target
  BY <1>0, TargetType
<1>1. /\ todo # << >> /\ updates' = updates + 1 /\ infos' = << >>
      /\ node # AnyNode /\ Matching(node) = {}
      /\ flat' = With(flat, node, updates')
      /\ keep' = keep \cup Registered(node)
      /\ firstLayer' = firstLayer \cup Registered(node)
      /\ StepTo(Tail(todo)) /\ UNCHANGED call
  BY <1>t DEF AddNode, StepTo
<1>2. node \in Path /\ node \in Place /\ call.begun < updates'
  BY <1>1, <1>t, TargetType DEF Place
<1>3. /\ DOMAIN flat' = DOMAIN flat \cup {node} /\ flat'[node] = updates'
      /\ \A p \in DOMAIN flat : p # node => flat'[p] = flat[p]
  BY <1>1 DEF With
<1>4. TreeInv'
  <2>1. DOMAIN flat' \subseteq Path /\ updates' \in Nat
    BY <1>1, <1>2, <1>3 DEF NodeTreeInv, TreeInv
  <2>2. \A p \in DOMAIN flat' : flat'[p] \in 0..updates'
    BY <1>1, <1>3 DEF NodeTreeInv, TreeInv
  <2>3. keep' = Foreign(DOMAIN flat')
    BY <1>1, <1>3 DEF NodeTreeInv, TreeInv, Foreign, Registered
  <2>4. keep' \subseteq firstLayer'
    BY <1>1 DEF NodeTreeInv, TreeInv
  <2>. QED BY <2>1, <2>2, <2>3, <2>4 DEF TreeInv
<1>5. CacheInv'
  BY <1>1 DEF CacheInv
<1>6. \A target \in Place : Reached(target) => Reached(target)'
  <2>. SUFFICES ASSUME NEW target \in Place, Reached(target),
                       NEW p \in Matching(target)'
       PROVE  flat'[p] > call.begun
    BY <1>1 DEF Reached
  <2>1. CASE p = node
    BY <1>1, <1>2, <1>3, <2>1 DEF NodeTreeInv, TreeInv, CallInv, Update
  <2>2. CASE p # node
    <3>1. p \in Matching(target)
      BY <1>3, <2>2 DEF Matching
    <3>2. p \in DOMAIN flat
      BY <3>1 DEF Matching
    <3>. QED BY <1>3, <2>2, <3>1, <3>2 DEF Reached
  <2>. QED BY <2>1, <2>2
<1>7. Reached(node)'
  <2>1. \A p \in Matching(node)' : p = node
    BY <1>1 DEF Matching
  <2>. QED BY <1>1, <1>2, <1>3, <2>1 DEF Reached, NodeTreeInv, TreeInv, CallInv, Update
<1>8. CallInv'
  BY <1>1, <1>2, <1>t, <1>6, <1>7, Onwards
<1>. QED BY <1>4, <1>5, <1>8 DEF NodeTreeInv

\* A call that raises ends there.
LEMMA Raised ==
  ASSUME NodeTreeInv, todo # << >>, NEW how \in {"KeyError", "RuntimeError"}, Raise(how),
         UNCHANGED <<treeVars, infos, updates>>
  PROVE  NodeTreeInv'
<1>1. TreeInv' /\ CacheInv'
  BY SameTree DEF NodeTreeInv, CacheInv
<1>2. /\ todo' = << >> /\ call' = call /\ outcome' = how
  BY DEF Raise
<1>3. todo' \in Seq(Place) /\ Len(todo') = 0
  BY <1>2
<1>4. updates' + Len(todo') <= MaxUpdates
  BY <1>3, TargetType, NodeTreeAssumption DEF NodeTreeInv, TreeInv
<1>5. call' \in Update /\ call'.begun <= updates'
  BY <1>2 DEF NodeTreeInv, CallInv
<1>6. CallInv'
  BY <1>2, <1>3, <1>4, <1>5 DEF CallInv
<1>. QED BY <1>1, <1>6 DEF NodeTreeInv

LEMMA UnknownInv ==
  ASSUME NodeTreeInv, Unknown \/ UnknownWildcard
  PROVE  NodeTreeInv'
<1>0. todo # << >>
  BY DEF Unknown, UnknownWildcard
<1>t. PICK node \in Place : node = Target
  BY <1>0, TargetType
<1>1. todo # << >> /\ Matching(node) = {} /\ UNCHANGED <<treeVars, infos, updates>>
  BY <1>t DEF Unknown, UnknownWildcard
<1>2. CASE StepTo(Tail(todo))
  <2>2. UNCHANGED call
    BY <1>2 DEF StepTo
  <2>3. Reached(node)'
    BY <1>1, <2>2 DEF treeVars, Reached, Matching
  <2>4. \A target \in Place : Reached(target) => Reached(target)'
    BY <1>1, SameTree, <2>2 DEF NodeTreeInv
  <2>5. CallInv'
    BY <1>1, <1>2, <1>t, <2>3, <2>4, Onwards
  <2>. QED BY <1>1, <2>5, SameTree DEF NodeTreeInv, CacheInv
<1>3. CASE Raise("KeyError") \/ Raise("RuntimeError")
  BY <1>1, <1>3, Raised
<1>. QED BY <1>2, <1>3 DEF Unknown, UnknownWildcard

LEMMA NextInv == NodeTreeInv /\ [Next]_vars => NodeTreeInv'
<1>. SUFFICES ASSUME NodeTreeInv, [Next]_vars PROVE NodeTreeInv'
  OBVIOUS
<1>1. ASSUME NEW node \in Asked, GetNodeInfo(node) \/ ReadEnum(node) PROVE NodeTreeInv'
  BY <1>1, LookInv
<1>2. ASSUME NEW targets \in Targets, NEW add \in BOOLEAN, NEW lenient \in BOOLEAN,
             UpdateNodes(targets, add, lenient)
      PROVE  NodeTreeInv'
  BY <1>2, BeginInv
<1>3. CASE UpdateExisting
  BY <1>3, UpdateExistingInv
<1>4. CASE AddNode
  BY <1>4, AddNodeInv
<1>5. CASE Unknown \/ UnknownWildcard
  BY <1>5, UnknownInv
<1>6. CASE UNCHANGED vars
  <2>1. UNCHANGED <<treeVars, infos, todo, call, outcome, updates>>
    BY <1>6 DEF vars, treeVars
  <2>2. TreeInv' /\ CacheInv'
    BY <2>1, SameTree DEF NodeTreeInv, CacheInv
  <2>3. \A m : ReachedUpTo(m) => ReachedUpTo(m)'
    BY <2>1 DEF treeVars, ReachedUpTo, Reached, Matching
  <2>4. CallInv'
    BY <2>1, <2>3 DEF NodeTreeInv, CallInv
  <2>. QED BY <2>2, <2>4 DEF NodeTreeInv
<1>. QED BY <1>1, <1>2, <1>3, <1>4, <1>5, <1>6 DEF Next

-----------------------------------------------------------------------------
\* NodeTreeInv is an invariant: what is cached describes the tree as it is, and a
\* call in progress has reached the nodes it came to.
THEOREM NodeTreeInvariance == Spec => []NodeTreeInv
BY InitInv, NextInv, PTL DEF Spec

\* The prefixes that are kept are those of the nodes, in every tree the updates of
\* a program make.
THEOREM TypeCorrect == Spec => []TypeOK
<1>1. NodeTreeInv => TypeOK
  BY NodeTreeAssumption DEF NodeTreeInv, TreeInv, CallInv, Path, TypeOK
<1>. QED BY <1>1, NodeTreeInvariance, PTL

\* No update leaves information behind that is not that of the tree: every update
\* empties the cache, and nothing else changes the tree.
THEOREM InfoStaysCurrent == Spec => []InfoIsCurrent
<1>1. NodeTreeInv => InfoIsCurrent
  BY CacheCurrent DEF NodeTreeInv
<1>. QED BY <1>1, NodeTreeInvariance, PTL

\* The Node of a raw path leads back to that path, for every node the tree has.
THEOREM PathsRoundTrip == Spec => []RoundTrip
<1>1. NodeTreeInv => RoundTrip
  BY TreeRoundTrip DEF NodeTreeInv
<1>. QED BY <1>1, NodeTreeInvariance, PTL

\* A call of update_nodes that ends without an error has written to every node it
\* was given that the tree has, however many it was given.
THEOREM LenientReaching == Spec => []LenientReachesAll
<1>1. NodeTreeInv => LenientReachesAll
  BY CallReaches
<1>. QED BY <1>1, NodeTreeInvariance, PTL
=============================================================================
