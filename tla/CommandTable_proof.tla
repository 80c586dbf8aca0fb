-------------------------- MODULE CommandTable_proof --------------------------
(***************************************************************************)
(* Proofs about CommandTable: the flags of entries and children, and what  *)
(* an update leaves behind, for every set of indices, children, attributes *)
(* and documents.                                                          *)
(***************************************************************************)
EXTENDS CommandTable, TLAPS

-----------------------------------------------------------------------------
(* The inductive invariant.                                                *)

Entries == [Number -> EntryType \cup {NoEntry}]

\* A child of an entry that validates validates as well, and holds no value
\* that it would refuse.
Guarded(es) ==
  \A i \in Number : es[i] # NoEntry /\ es[i].active =>
    \A c \in Child : es[i].childs[c] # NoChild =>
      /\ es[i].childs[c].active
      /\ \A a \in Attr : es[i].childs[c].props[a] # "invalid"

\* The value that w writes is in the table.
Holds(es, w) ==
  /\ es[w.number] # NoEntry /\ es[w.number].childs[w.child] # NoChild
  /\ w.attr \in Attr /\ es[w.number].childs[w.child].props[w.attr] = w.val

Sound(w) == w.number \in InRange /\ w.attr \in Attr /\ w.val = "valid"

\* What is left of an update: items come last, and nothing else once one was
\* written; if the document was validated, validation is on until the end and
\* the items left are sound.
Remaining(u) ==
  /\ \A k, l \in DOMAIN u.todo : k < l /\ IsItem(u.todo[k]) => IsItem(u.todo[l])
  /\ u.touched => \A k \in DOMAIN u.todo : IsItem(u.todo[k])
  /\ u.validated => /\ active
                    /\ \A k \in DOMAIN u.todo : IsItem(u.todo[k]) => Sound(u.todo[k])

\* The writes of an update are those done, of which the table has the last ones
\* of each place, and those left.
NDone(u) == Len(u.writes) - Len(u.todo)
Split(u) ==
  /\ NDone(u) >= 0
  /\ \A k \in DOMAIN u.todo : u.todo[k] = u.writes[NDone(u) + k]
LastOf(u, k, n) ==
  /\ IsItem(u.writes[k])
  /\ \A l \in 1..n : l > k /\ IsItem(u.writes[l]) => ~SamePlace(u.writes[k], u.writes[l])
Arrived(es, u) == \A k \in 1..NDone(u) : LastOf(u, k, NDone(u)) => Holds(es, u.writes[k])

UpdateInv ==
  /\ update.running => /\ result = "done" /\ Remaining(update)
                       /\ Split(update) /\ Arrived(entries, update)
  /\ result = "updated" => /\ ~update.running /\ update.todo = << >>
                           /\ Split(update) /\ Arrived(entries, update)
  /\ ValidatedUpdateIsWhole

TableInv == TableOK /\ Guarded(entries) /\ UpdateInv

-----------------------------------------------------------------------------
(* Reading and writing of single objects.                                  *)

\* What is in a table stays in it when an entry or a child is read.
Keeps(es, fs) ==
  \A i \in Number, c \in Child :
    es[i] # NoEntry =>
      /\ fs[i] # NoEntry /\ fs[i].active = es[i].active
      /\ es[i].childs[c] # NoChild => fs[i].childs[c] = es[i].childs[c]

LEMMA WithEntryReads ==
  ASSUME NEW es \in Entries, Guarded(es), NEW i \in Number, table \in BOOLEAN
  PROVE  /\ WithEntry(es, i) \in Entries /\ Guarded(WithEntry(es, i))
         /\ WithEntry(es, i)[i] # NoEntry
         /\ Keeps(es, WithEntry(es, i))
<1> DEFINE new == [active |-> table, childs |-> Unread]
<1>1. new \in EntryType /\ new # NoEntry
  BY SchemaAssumption DEF EntryType, Unread
<1>2. \A c \in Child : new.childs[c] = NoChild
  BY DEF Unread
<1>3. CASE es[i] # NoEntry
  BY <1>3 DEF WithEntry, Keeps, Entries
<1>4. CASE es[i] = NoEntry
  <2> DEFINE fs == [es EXCEPT ![i] = new]
  <2>1. WithEntry(es, i) = fs
    BY <1>4 DEF WithEntry
  <2>2. fs \in Entries /\ fs[i] = new /\ \A j \in Number : j # i => fs[j] = es[j]
    BY <1>1 DEF Entries
  <2> HIDE DEF fs, new
  <2>3. Guarded(fs)
    BY <1>2, <2>2 DEF Guarded
  <2>4. Keeps(es, fs)
    BY <1>4, <2>2 DEF Keeps
  <2> QED BY <1>1, <2>1, <2>2, <2>3, <2>4
<1> QED BY <1>3, <1>4

LEMMA WithChildReads ==
  ASSUME NEW es \in Entries, Guarded(es), NEW i \in Number, es[i] # NoEntry, NEW c \in Child
  PROVE  /\ WithChild(es, i, c) \in Entries /\ Guarded(WithChild(es, i, c))
         /\ WithChild(es, i, c)[i] # NoEntry
         /\ WithChild(es, i, c)[i].childs[c] \in ChildType
         /\ Keeps(es, WithChild(es, i, c))
<1>1. es[i] \in EntryType
  BY DEF Entries
<1>2. CASE es[i].childs[c] # NoChild
  BY <1>1, <1>2 DEF WithChild, Keeps, Entries, EntryType
<1>3. CASE es[i].childs[c] = NoChild
  <2> DEFINE new == [active |-> es[i].active, props |-> Bare]
             entry == [active |-> es[i].active, childs |-> [es[i].childs EXCEPT ![c] = new]]
             fs == [es EXCEPT ![i] = entry]
  <2>1. new \in ChildType /\ new.active = es[i].active /\ \A a \in Attr : new.props[a] # "invalid"
    BY <1>1 DEF EntryType, ChildType, Bare, Absent
  <2> HIDE DEF new
  <2>2. /\ entry \in EntryType /\ entry.active = es[i].active /\ entry.childs[c] = new
        /\ \A d \in Child : d # c => entry.childs[d] = es[i].childs[d]
    BY <1>1, <2>1 DEF EntryType
  <2>3. WithChild(es, i, c) = fs
    <3>1. es[i] = [active |-> es[i].active, childs |-> es[i].childs]
      BY <1>1 DEF EntryType
    <3>2. [es[i] EXCEPT !.childs[c] = new] = entry
      BY <3>1
    <3>3. WithChild(es, i, c) = [es EXCEPT ![i] = [@ EXCEPT !.childs[c] = new]]
      BY <1>3 DEF WithChild, new
    <3> QED BY <3>2, <3>3 DEF Entries
  <2> HIDE DEF entry
  <2>4. fs \in Entries /\ fs[i] = entry /\ \A j \in Number : j # i => fs[j] = es[j]
    BY <2>2 DEF Entries
  <2>5. entry # NoEntry
    BY <2>2, SchemaAssumption
  <2> HIDE DEF fs
  <2>6. Guarded(fs)
    <3> SUFFICES ASSUME NEW j \in Number, fs[j] # NoEntry, fs[j].active,
                        NEW d \in Child, fs[j].childs[d] # NoChild
                 PROVE  /\ fs[j].childs[d].active
                        /\ \A a \in Attr : fs[j].childs[d].props[a] # "invalid"
      BY DEF Guarded
    <3>1. CASE j # i
      BY <2>4, <3>1 DEF Guarded
    <3>2. CASE j = i /\ d # c
      BY <2>2, <2>4, <3>2 DEF Guarded
    <3>3. CASE j = i /\ d = c
      BY <2>1, <2>2, <2>4, <3>3
    <3> QED BY <3>1, <3>2, <3>3
  <2>7. Keeps(es, fs)
    BY <1>3, <2>2, <2>4, <2>5 DEF Keeps
  <2> QED BY <2>1, <2>2, <2>3, <2>4, <2>5, <2>6, <2>7
<1> QED BY <1>2, <1>3

LEMMA WithAttrWrites ==
  ASSUME NEW es \in Entries, Guarded(es), NEW i \in Number, es[i] # NoEntry,
         NEW c \in Child, es[i].childs[c] # NoChild,
         NEW a \in Attr, NEW v \in Value \cup {Absent},
         ~Refused(es[i].childs[c].active, v)
  PROVE  /\ WithAttr(es, i, c, a, v) \in Entries /\ Guarded(WithAttr(es, i, c, a, v))
         /\ WithAttr(es, i, c, a, v)[i] # NoEntry
         /\ WithAttr(es, i, c, a, v)[i].childs[c] # NoChild
         /\ WithAttr(es, i, c, a, v)[i].childs[c].props[a] = v
         /\ \A j \in Number, d \in Child, b \in Attr :
              /\ <<j, d, b>> # <<i, c, a>> /\ es[j] # NoEntry /\ es[j].childs[d] # NoChild
              => /\ WithAttr(es, i, c, a, v)[j] # NoEntry
                 /\ WithAttr(es, i, c, a, v)[j].childs[d] # NoChild
                 /\ WithAttr(es, i, c, a, v)[j].childs[d].props[b] = es[j].childs[d].props[b]
<1>1. es[i] \in EntryType
  BY DEF Entries
<1>2. es[i].childs[c] \in ChildType
  BY <1>1 DEF EntryType
<1> DEFINE child == [active |-> es[i].childs[c].active,
                     props |-> [es[i].childs[c].props EXCEPT ![a] = v]]
           entry == [active |-> es[i].active, childs |-> [es[i].childs EXCEPT ![c] = child]]
           fs == [es EXCEPT ![i] = entry]
<1>3. /\ child \in ChildType /\ child.active = es[i].childs[c].active /\ child.props[a] = v
      /\ \A b \in Attr : b # a => child.props[b] = es[i].childs[c].props[b]
  BY <1>2 DEF ChildType
<1>4. WithAttr(es, i, c, a, v) = fs
  <2>1. es[i] = [active |-> es[i].active, childs |-> es[i].childs]
    BY <1>1 DEF EntryType
  <2>2. es[i].childs[c] = [active |-> es[i].childs[c].active, props |-> es[i].childs[c].props]
    BY <1>2 DEF ChildType
  <2>3. [es[i].childs[c] EXCEPT !.props[a] = v] = child
    BY <2>2
  <2>4. es[i].childs \in [Child -> ChildType \cup {NoChild}]
    BY <1>1 DEF EntryType
  <2>5. [es[i].childs EXCEPT ![c].props[a] = v] = [es[i].childs EXCEPT ![c] = child]
    BY <2>3, <2>4
  <2>6. [es[i] EXCEPT !.childs[c].props[a] = v] = entry
    BY <2>1, <2>5
  <2> QED BY <2>6 DEF WithAttr, Entries
<1> HIDE DEF child
<1>5. /\ entry \in EntryType /\ entry.active = es[i].active /\ entry.childs[c] = child
      /\ \A d \in Child : d # c => entry.childs[d] = es[i].childs[d]
  BY <1>1, <1>3 DEF EntryType
<1> HIDE DEF entry
<1>6. fs \in Entries /\ fs[i] = entry /\ \A j \in Number : j # i => fs[j] = es[j]
  BY <1>5 DEF Entries
<1>7. entry # NoEntry /\ child # NoChild
  BY <1>3, <1>5, SchemaAssumption
<1> HIDE DEF fs
<1>8. Guarded(fs)
  <2> SUFFICES ASSUME NEW j \in Number, fs[j] # NoEntry, fs[j].active,
                      NEW d \in Child, fs[j].childs[d] # NoChild
               PROVE  /\ fs[j].childs[d].active
                      /\ \A b \in Attr : fs[j].childs[d].props[b] # "invalid"
    BY DEF Guarded
  <2>1. CASE j # i
    BY <1>6, <2>1 DEF Guarded
  <2>2. CASE j = i /\ d # c
    BY <1>5, <1>6, <2>2 DEF Guarded
  <2>3. CASE j = i /\ d = c
    <3>1. /\ es[i].childs[c].active
          /\ \A b \in Attr : es[i].childs[c].props[b] # "invalid"
      BY <1>5, <1>6, <2>3 DEF Guarded
    <3>2. v # "invalid"
      BY <3>1 DEF Refused
    <3> QED BY <1>3, <1>5, <1>6, <2>3, <3>1, <3>2
  <2> QED BY <2>1, <2>2, <2>3
<1>9. ASSUME NEW j \in Number, NEW d \in Child, NEW b \in Attr,
             <<j, d, b>> # <<i, c, a>>, es[j] # NoEntry, es[j].childs[d] # NoChild
      PROVE  /\ fs[j] # NoEntry /\ fs[j].childs[d] # NoChild
             /\ fs[j].childs[d].props[b] = es[j].childs[d].props[b]
  <2>1. CASE j # i
    BY <1>6, <1>9, <2>1
  <2>2. CASE j = i /\ d # c
    BY <1>5, <1>6, <1>7, <1>9, <2>2
  <2>3. CASE j = i /\ d = c /\ b # a
    BY <1>3, <1>5, <1>6, <1>7, <2>3
  <2> QED BY <1>9, <2>1, <2>2, <2>3
<1> QED BY <1>3, <1>4, <1>5, <1>6, <1>7, <1>8, <1>9

-----------------------------------------------------------------------------
(* The writes of an update.                                                *)

UpdateType == [running : BOOLEAN, todo : Seq(WriteType), writes : Seq(WriteType),
               validated : BOOLEAN, touched : BOOLEAN]

LEMMA Kinds ==
  /\ \A w \in TableItem : IsItem(w) /\ ~IsTable(w)
  /\ \A w \in HeaderItem : ~IsItem(w) /\ ~IsTable(w)
  /\ \A w \in TableStep : ~IsItem(w) /\ IsTable(w)
BY DEF TableItem, HeaderItem, TableStep, IsItem, IsTable

LEMMA KindOf ==
  ASSUME NEW w \in WriteType
  PROVE  /\ IsItem(w) => w \in TableItem
         /\ IsTable(w) => w \in TableStep
         /\ ~IsItem(w) /\ ~IsTable(w) => w \in HeaderItem
BY Kinds DEF WriteType

LEMMA NoUpdateType == NoUpdate \in UpdateType
<1>1. << >> \in Seq(WriteType)
  OBVIOUS
<1> QED BY <1>1 DEF NoUpdate, UpdateType

LEMMA Concatenation ==
  ASSUME NEW S, NEW a \in Seq(S), NEW b \in Seq(S)
  PROVE  /\ a \o b \in Seq(S) /\ Len(a \o b) = Len(a) + Len(b)
         /\ \A k \in 1..Len(a) : (a \o b)[k] = a[k]
         /\ \A k \in 1..(Len(a) + Len(b)) : k > Len(a) => (a \o b)[k] = b[k - Len(a)]
OBVIOUS

\* The writes of a document, items last.
LEMMA WritesOfDocument ==
  ASSUME NEW doc \in Document
  PROVE  /\ Writes(doc) \in Seq(WriteType)
         /\ \A k, l \in DOMAIN Writes(doc) :
              k < l /\ IsItem(Writes(doc)[k]) => IsItem(Writes(doc)[l])
         /\ \A k \in DOMAIN Writes(doc) : IsItem(Writes(doc)[k]) =>
              \E j \in DOMAIN doc.items : Writes(doc)[k] = doc.items[j]
<1> DEFINE h == doc.header
           t == <<[hasTable |-> doc.hasTable]>>
           n == doc.items
<1>1. /\ h \in Seq(HeaderItem) /\ n \in Seq(TableItem)
      /\ [hasTable |-> doc.hasTable] \in TableStep
  BY DocumentAssumption DEF TableStep
<1>2. /\ h \in Seq(WriteType) /\ n \in Seq(WriteType)
      /\ [hasTable |-> doc.hasTable] \in WriteType
  BY <1>1 DEF WriteType
<1>3. t \in Seq(WriteType) /\ Len(t) = 1 /\ t[1] = [hasTable |-> doc.hasTable]
  BY <1>2
<1>4. \A k \in 1..Len(h) : ~IsItem(h[k])
  BY <1>1, Kinds
<1>5. ~IsItem(t[1])
  BY <1>1, <1>3, Kinds
<1>6. \A k \in 1..Len(n) : IsItem(n[k])
  BY <1>1, Kinds
<1>7. Writes(doc) = (h \o t) \o n
  BY DEF Writes
<1> HIDE DEF h, t, n
<1>8. /\ h \o t \in Seq(WriteType) /\ Len(h \o t) = Len(h) + 1
      /\ \A k \in 1..Len(h) : (h \o t)[k] = h[k]
      /\ (h \o t)[Len(h) + 1] = t[1]
  <2>1. /\ h \o t \in Seq(WriteType) /\ Len(h \o t) = Len(h) + Len(t)
        /\ \A k \in 1..Len(h) : (h \o t)[k] = h[k]
        /\ \A k \in 1..(Len(h) + Len(t)) : k > Len(h) => (h \o t)[k] = t[k - Len(h)]
    BY <1>2, <1>3, Concatenation, Zenon
  <2>2. PICK m \in Nat : m = Len(h)
    BY <1>2
  <2>3. m + 1 \in 1..(m + 1) /\ m + 1 > m /\ (m + 1) - m = 1
    BY <2>2
  <2> QED BY <1>3, <2>1, <2>2, <2>3
<1> DEFINE ht == h \o t
<1> HIDE DEF ht
<1>9. \A k \in 1..Len(ht) : ~IsItem(ht[k])
  <2> SUFFICES ASSUME NEW k \in 1..Len(ht) PROVE ~IsItem(ht[k])
    OBVIOUS
  <2>1. k \in 1..Len(h) \/ k = Len(h) + 1
    BY <1>2, <1>8 DEF ht
  <2> QED BY <2>1, <1>4, <1>5, <1>8 DEF ht
<1> DEFINE ws == Writes(doc)
<1> HIDE DEF ws
<1>10. ht \in Seq(WriteType) /\ ws = ht \o n
  BY <1>7, <1>8 DEF ht, ws
<1>11. /\ ws \in Seq(WriteType) /\ Len(ws) = Len(ht) + Len(n)
       /\ \A k \in 1..Len(ht) : ws[k] = ht[k]
       /\ \A k \in 1..(Len(ht) + Len(n)) : k > Len(ht) => ws[k] = n[k - Len(ht)]
  BY <1>2, <1>10
<1>12. \A k \in DOMAIN ws :
         \/ k \in 1..Len(ht) /\ ~IsItem(ws[k])
         \/ /\ k > Len(ht) /\ k - Len(ht) \in 1..Len(n)
            /\ ws[k] = n[k - Len(ht)] /\ IsItem(ws[k])
  <2> SUFFICES ASSUME NEW k \in DOMAIN ws
               PROVE  \/ k \in 1..Len(ht) /\ ~IsItem(ws[k])
                      \/ /\ k > Len(ht) /\ k - Len(ht) \in 1..Len(n)
                         /\ ws[k] = n[k - Len(ht)] /\ IsItem(ws[k])
    OBVIOUS
  <2>1. Len(ht) \in Nat /\ Len(n) \in Nat /\ k \in 1..(Len(ht) + Len(n))
    BY <1>2, <1>10, <1>11
  <2>2. CASE k \in 1..Len(ht)
    BY <1>9, <1>11, <2>2
  <2>3. CASE ~(k \in 1..Len(ht))
    <3>1. k > Len(ht) /\ k - Len(ht) \in 1..Len(n)
      BY <2>1, <2>3
    <3>2. ws[k] = n[k - Len(ht)]
      BY <1>11, <2>1, <3>1
    <3> QED BY <1>6, <3>1, <3>2
  <2> QED BY <2>2, <2>3
<1>13. DOMAIN n = 1..Len(n) /\ Len(ht) \in Nat /\ DOMAIN ws = 1..Len(ws)
  BY <1>2, <1>10, <1>11
<1>14. \A k, l \in DOMAIN ws :
         k < l /\ IsItem(ws[k]) => IsItem(ws[l])
  BY <1>12, <1>13
<1>15. \A k \in DOMAIN ws : IsItem(ws[k]) =>
         \E j \in DOMAIN n : ws[k] = n[j]
  BY <1>12, <1>13
<1>16. ws = Writes(doc) /\ n = doc.items
  BY DEF n, ws
<1>17. ws \in Seq(WriteType)
  BY <1>11
<1> QED BY <1>14, <1>15, <1>16, <1>17, Zenon

\* An update after its next write.
After(u) == [u EXCEPT !.todo = Tail(@), !.touched = @ \/ IsItem(Head(u.todo))]

LEMMA Advance ==
  ASSUME NEW u \in UpdateType, Remaining(u), Split(u), u.todo # << >>,
         NEW v, v = After(u)
  PROVE  /\ v \in UpdateType /\ Remaining(v) /\ Split(v)
         /\ v.writes = u.writes /\ v.running = u.running /\ v.validated = u.validated
         /\ v.touched <=> u.touched \/ IsItem(Head(u.todo))
         /\ NDone(u) \in Nat /\ NDone(v) = NDone(u) + 1
         /\ NDone(v) \in 1..Len(u.writes) /\ u.writes[NDone(v)] = Head(u.todo)
         /\ Head(u.todo) \in WriteType
<1>1. u.todo \in Seq(WriteType) /\ u.writes \in Seq(WriteType)
  BY DEF UpdateType
<1> DEFINE td == u.todo  w == Head(u.todo)
<1>2. /\ Len(td) \in Nat /\ Len(td) > 0 /\ w = td[1] /\ w \in WriteType
      /\ Tail(td) \in Seq(WriteType) /\ Len(Tail(td)) = Len(td) - 1
      /\ DOMAIN td = 1..Len(td) /\ DOMAIN Tail(td) = 1..(Len(td) - 1)
      /\ \A k \in 1..(Len(td) - 1) : Tail(td)[k] = td[k + 1]
      /\ Len(u.writes) \in Nat
  BY <1>1
<1>3. (u.touched \/ IsItem(w)) \in BOOLEAN
  BY DEF IsItem
<1>4. v = [u EXCEPT !.todo = Tail(td), !.touched = u.touched \/ IsItem(w)]
  BY DEF After, UpdateType
<1> DEFINE tail == Tail(td)  flag == u.touched \/ IsItem(w)
<1>5. tail \in Seq(WriteType) /\ flag \in BOOLEAN
  BY <1>2, <1>3
<1>6. v = [u EXCEPT !.todo = tail, !.touched = flag]
  BY <1>4
<1> HIDE DEF tail, flag
<1>7. /\ v \in UpdateType /\ v.todo = tail /\ v.touched = flag /\ v.writes = u.writes
      /\ v.running = u.running /\ v.validated = u.validated
  BY <1>5, <1>6 DEF UpdateType
<1>8. v.todo = Tail(td) /\ (v.touched <=> u.touched \/ IsItem(w))
  BY <1>7 DEF tail, flag
<1>9. Len(v.todo) = Len(u.todo) - 1
  BY <1>2, <1>8
<1>10. NDone(u) \in Nat /\ NDone(v) = NDone(u) + 1 /\ NDone(v) \in 1..Len(u.writes)
  <2>1. NDone(u) = Len(u.writes) - Len(u.todo) /\ NDone(v) = Len(u.writes) - Len(v.todo)
    BY <1>7 DEF NDone
  <2>2. NDone(u) >= 0
    BY DEF Split
  <2>3. Len(u.todo) \in Nat /\ Len(u.todo) > 0 /\ Len(u.writes) \in Nat
    BY <1>2
  <2>4. PICK m \in Nat : m = Len(u.todo) /\ m > 0
    BY <2>3
  <2>5. PICK n \in Nat : n = Len(u.writes)
    BY <2>3
  <2>6. NDone(u) = n - m /\ NDone(v) = n - (m - 1)
    BY <1>9, <2>1, <2>4, <2>5
  <2>7. n - m >= 0
    BY <2>2, <2>6
  <2>8. n - m \in Nat /\ n - (m - 1) = (n - m) + 1 /\ n - (m - 1) \in 1..n
    BY <2>4, <2>7
  <2> QED BY <2>5, <2>6, <2>8
<1>11. u.writes[NDone(v)] = w
  BY <1>2, <1>10 DEF Split
<1>12. Split(v)
  <2> SUFFICES ASSUME NEW k \in DOMAIN v.todo
               PROVE  v.todo[k] = v.writes[NDone(v) + k]
    BY <1>10 DEF Split
  <2>1. k \in 1..(Len(td) - 1) /\ v.todo[k] = td[k + 1] /\ k + 1 \in DOMAIN td
    BY <1>2, <1>8
  <2>2. td[k + 1] = u.writes[NDone(u) + (k + 1)]
    BY <2>1 DEF Split
  <2>3. NDone(u) + (k + 1) = NDone(v) + k
    BY <1>2, <1>10, <2>1
  <2> QED BY <1>7, <2>1, <2>2, <2>3
<1>13. Remaining(v)
  <2>1. \A k \in DOMAIN v.todo :
          k \in 1..(Len(td) - 1) /\ v.todo[k] = td[k + 1] /\ k + 1 \in DOMAIN td
    BY <1>2, <1>8
  <2>2. ASSUME NEW k \in DOMAIN v.todo, NEW l \in DOMAIN v.todo, k < l, IsItem(v.todo[k])
        PROVE  IsItem(v.todo[l])
    <3>1. k + 1 < l + 1
      BY <1>2, <2>1, <2>2
    <3> QED BY <2>1, <2>2, <3>1 DEF Remaining
  <2>3. ASSUME v.touched, NEW k \in DOMAIN v.todo
        PROVE  IsItem(v.todo[k])
    <3>1. CASE u.touched
      BY <2>1, <3>1 DEF Remaining
    <3>2. CASE IsItem(w)
      <4>1. 1 \in DOMAIN td /\ 1 < k + 1
        BY <1>2, <2>1
      <4> QED BY <1>2, <2>1, <3>2, <4>1 DEF Remaining
    <3> QED BY <1>8, <2>3, <3>1, <3>2
  <2>4. ASSUME v.validated
        PROVE  active /\ \A k \in DOMAIN v.todo : IsItem(v.todo[k]) => Sound(v.todo[k])
    BY <1>7, <2>1, <2>4 DEF Remaining
  <2> QED BY <2>2, <2>3, <2>4 DEF Remaining
<1> QED BY <1>2, <1>7, <1>8, <1>10, <1>11, <1>12, <1>13

-----------------------------------------------------------------------------
(* The initial states and the calls.                                       *)

Results == {"done", "dict", "is valid", "is invalid", "updated",
            "ValidationError", "AttributeError", "KeyError"}

LEMMA TableOKFolded ==
  TableOK <=> /\ active \in BOOLEAN /\ table = active
             /\ header \in [active : {active}, version : Value \cup {Absent}]
             /\ entries \in Entries /\ update \in UpdateType /\ result \in Results
BY DEF TableOK, Entries, UpdateType, Results

LEMMA TableOKAfter ==
  ASSUME active' \in BOOLEAN, table' = active',
         header' \in [active : {active'}, version : Value \cup {Absent}],
         entries' \in Entries, update' \in UpdateType, result' \in Results
  PROVE  TableOK'
BY DEF TableOK, Entries, UpdateType, Results

LEMMA InitTableInv == Init => TableInv
<1> SUFFICES ASSUME Init PROVE TableInv
  OBVIOUS
<1>1. entries \in Entries /\ \A i \in Number : entries[i] = NoEntry
  BY DEF Init, Entries
<1>2. update \in UpdateType /\ ~update.running /\ ~update.validated /\ result = "done"
  BY NoUpdateType DEF Init, NoUpdate
<1>3. header \in [active : {active}, version : Value \cup {Absent}]
  BY DEF Init, Value
<1>4. TableOK
  BY <1>1, <1>2, <1>3, TableOKFolded DEF Init, Results
<1>5. Guarded(entries)
  BY <1>1 DEF Guarded
<1>6. UpdateInv
  BY <1>2 DEF UpdateInv, ValidatedUpdateIsWhole
<1> QED BY <1>4, <1>5, <1>6 DEF TableInv

\* A call other than update leaves no update behind.
LEMMA NoUpdateLeft ==
  ASSUME update' = NoUpdate, result' # "updated"
  PROVE  update' \in UpdateType /\ UpdateInv'
<1>1. ~update'.running /\ ~update'.validated
  BY DEF NoUpdate
<1> QED BY <1>1, NoUpdateType DEF UpdateInv, ValidatedUpdateIsWhole

\* A call that leaves the flags of the table and the header alone.
LEMMA EntryCall ==
  ASSUME TableInv, update' = NoUpdate, result' \in Results \ {"updated"},
         UNCHANGED <<active, header, table>>,
         entries' \in Entries, Guarded(entries')
  PROVE  TableInv'
<1>1. update' \in UpdateType /\ UpdateInv'
  BY NoUpdateLeft
<1>2. TableOK'
  BY <1>1, TableOKFolded, TableOKAfter DEF TableInv
<1> QED BY <1>1, <1>2 DEF TableInv

LEMMA FlagCalls ==
  ASSUME TableInv,
         \/ \E v \in BOOLEAN : SetActiveValidation(v)
         \/ Clear
         \/ \E v \in Value \cup {Absent} : WriteHeader(v)
  PROVE  TableInv'
<1>1. /\ active \in BOOLEAN /\ table = active
      /\ header \in [active : {active}, version : Value \cup {Absent}]
      /\ entries \in Entries /\ Guarded(entries)
  BY TableOKFolded DEF TableInv
<1>2. update' = NoUpdate /\ result' \in Results /\ result' # "updated"
  BY DEF SetActiveValidation, Clear, WriteHeader, Ends, Results
<1>3. update' \in UpdateType /\ UpdateInv'
  BY <1>2, NoUpdateLeft
<1>4. ASSUME NEW v \in BOOLEAN, SetActiveValidation(v) PROVE TableOK' /\ Guarded(entries')
  <2>1. active' = v /\ table' = v /\ entries' = entries
    BY <1>4 DEF SetActiveValidation
  <2>2. header' \in [active : {active'}, version : Value \cup {Absent}]
    BY <1>1, <1>4 DEF SetActiveValidation
  <2> QED BY <1>1, <1>2, <1>3, <2>1, <2>2, TableOKAfter
<1>5. ASSUME Clear PROVE TableOK' /\ Guarded(entries')
  <2>1. /\ active' = active /\ table' = active
        /\ header' = [active |-> active, version |-> "valid"]
        /\ entries' = [i \in Number |-> NoEntry]
    BY <1>5 DEF Clear
  <2>2. header' \in [active : {active'}, version : Value \cup {Absent}]
    BY <2>1 DEF Value
  <2>3. entries' \in Entries /\ Guarded(entries')
    BY <2>1 DEF Entries, Guarded
  <2> QED BY <1>1, <1>2, <1>3, <2>1, <2>2, <2>3, TableOKAfter
<1>6. ASSUME NEW v \in Value \cup {Absent}, WriteHeader(v) PROVE TableOK' /\ Guarded(entries')
  <2>1. active' = active /\ table' = table /\ entries' = entries
    BY <1>6 DEF WriteHeader
  <2>2. header' = header \/ header' = [header EXCEPT !.version = v]
    BY <1>6 DEF WriteHeader
  <2>3. header' \in [active : {active}, version : Value \cup {Absent}]
    BY <1>1, <2>2
  <2> QED BY <1>1, <1>2, <1>3, <2>1, <2>3, TableOKAfter
<1>7. TableOK' /\ Guarded(entries')
  BY <1>4, <1>5, <1>6
<1> QED BY <1>3, <1>7 DEF TableInv

\* The calls on entries and children, and those that only look.
LEMMA EntryCalls ==
  ASSUME TableInv,
         \/ \E i \in Number :
              \/ GetEntry(i)
              \/ \E c \in Child : GetChild(i, c) \/ RemoveChild(i, c)
              \/ \E c \in Child, a \in Attr, v \in Value \cup {Absent} : SetAttr(i, c, a, v)
              \/ ClearObject(i)
              \/ DeleteEntry(i)
         \/ AsDict
         \/ IsValid
  PROVE  TableInv'
<1> DEFINE Kept == entries' \in Entries /\ Guarded(entries')
<1>1. /\ table \in BOOLEAN /\ entries \in Entries /\ Guarded(entries)
  BY TableOKFolded DEF TableInv
<1>2. /\ update' = NoUpdate /\ result' \in Results \ {"updated"}
      /\ UNCHANGED <<active, header, table>>
  BY DEF GetEntry, GetChild, RemoveChild, SetAttr, ClearObject, DeleteEntry, AsDict,
         IsValid, Ends, Results
<1>3. ASSUME NEW i \in Number, GetEntry(i) PROVE Kept
  <2>1. entries' = entries \/ entries' = WithEntry(entries, i)
    BY <1>3 DEF GetEntry
  <2> QED BY <1>1, <2>1, WithEntryReads
<1>4. ASSUME NEW i \in Number, NEW c \in Child, GetChild(i, c) PROVE Kept
  <2>1. entries[i] # NoEntry /\ entries' = WithChild(entries, i, c)
    BY <1>4 DEF GetChild
  <2> QED BY <1>1, <2>1, WithChildReads
<1>5. ASSUME NEW i \in Number, NEW c \in Child, RemoveChild(i, c) PROVE Kept
  <2>1. /\ entries[i] # NoEntry
        /\ entries' = [entries EXCEPT ![i].childs[c] = NoChild]
    BY <1>5 DEF RemoveChild
  <2> DEFINE entry == [active |-> entries[i].active,
                       childs |-> [entries[i].childs EXCEPT ![c] = NoChild]]
  <2>2. entries[i] \in EntryType
    BY <1>1, <2>1 DEF Entries
  <2>3. entries' = [entries EXCEPT ![i] = entry]
    <3>1. [entries[i] EXCEPT !.childs[c] = NoChild] = entry
      BY <2>2 DEF EntryType
    <3> QED BY <1>1, <2>1, <3>1 DEF Entries
  <2>4. /\ entry \in EntryType /\ entry.active = entries[i].active
        /\ entry.childs[c] = NoChild
        /\ \A d \in Child : d # c => entry.childs[d] = entries[i].childs[d]
    BY <2>2 DEF EntryType
  <2> HIDE DEF entry
  <2>5. /\ entries' \in Entries /\ entries'[i] = entry
        /\ \A j \in Number : j # i => entries'[j] = entries[j]
    BY <1>1, <2>3, <2>4 DEF Entries
  <2>6. Guarded(entries')
    BY <1>1, <2>1, <2>4, <2>5 DEF Guarded
  <2> QED BY <2>5, <2>6
<1>6. ASSUME NEW i \in Number, NEW c \in Child, NEW a \in Attr, NEW v \in Value \cup {Absent},
             SetAttr(i, c, a, v)
      PROVE  Kept
  <2>1. /\ entries[i] # NoEntry /\ entries[i].childs[c] # NoChild
        /\ \/ entries' = entries
           \/ /\ ~Refused(entries[i].childs[c].active, v)
              /\ entries' = WithAttr(entries, i, c, a, v)
    BY <1>6 DEF SetAttr
  <2> QED BY <1>1, <2>1, WithAttrWrites
<1>7. ASSUME NEW i \in Number, ClearObject(i) PROVE Kept
  <2>1. entries[i] # NoEntry /\ entries[i] \in EntryType
    BY <1>1, <1>7 DEF ClearObject, Entries
  <2>2. CASE entries' = [entries EXCEPT ![i].childs = Unread]
    <3> DEFINE entry == [active |-> entries[i].active, childs |-> Unread]
    <3>1. /\ entry \in EntryType /\ \A c \in Child : entry.childs[c] = NoChild
      BY <2>1 DEF EntryType, Unread
    <3>2. entries' = [entries EXCEPT ![i] = entry]
      <4>1. [entries[i] EXCEPT !.childs = Unread] = entry
        BY <2>1 DEF EntryType
      <4> QED BY <1>1, <2>2, <4>1 DEF Entries
    <3> HIDE DEF entry
    <3>3. /\ entries' \in Entries /\ entries'[i] = entry
          /\ \A j \in Number : j # i => entries'[j] = entries[j]
      BY <1>1, <3>1, <3>2 DEF Entries
    <3> QED BY <1>1, <3>1, <3>3 DEF Guarded
  <2>3. ASSUME NEW c \in Child, entries[i].childs[c] # NoChild,
               entries' = [entries EXCEPT ![i].childs[c].props = Bare]
        PROVE  Kept
    <3> DEFINE child == [active |-> entries[i].childs[c].active, props |-> Bare]
               entry == [active |-> entries[i].active,
                         childs |-> [entries[i].childs EXCEPT ![c] = child]]
    <3>1. entries[i].childs \in [Child -> ChildType \cup {NoChild}]
      BY <2>1 DEF EntryType
    <3>2. entries[i].childs[c] \in ChildType
      BY <2>3, <3>1
    <3>3. /\ child \in ChildType /\ child.active = entries[i].childs[c].active
          /\ \A b \in Attr : child.props[b] # "invalid"
      BY <3>2 DEF ChildType, Bare, Absent
    <3>4. [entries[i].childs EXCEPT ![c].props = Bare] = [entries[i].childs EXCEPT ![c] = child]
      BY <3>1, <3>2 DEF ChildType
    <3>5. [entries[i] EXCEPT !.childs[c].props = Bare] = entry
      BY <2>1, <3>4 DEF EntryType
    <3>6. entries' = [entries EXCEPT ![i] = entry]
      BY <1>1, <2>3, <3>5 DEF Entries
    <3> HIDE DEF child
    <3>7. /\ entry \in EntryType /\ entry.active = entries[i].active /\ entry.childs[c] = child
          /\ \A d \in Child : d # c => entry.childs[d] = entries[i].childs[d]
      BY <2>1, <3>3 DEF EntryType
    <3> HIDE DEF entry
    <3>8. /\ entries' \in Entries /\ entries'[i] = entry
          /\ \A j \in Number : j # i => entries'[j] = entries[j]
      BY <1>1, <3>6, <3>7 DEF Entries
    <3>9. entries[i].active =>
            \A d \in Child : entries[i].childs[d] # NoChild =>
              /\ entries[i].childs[d].active
              /\ \A b \in Attr : entries[i].childs[d].props[b] # "invalid"
      BY <1>1, <2>1 DEF Guarded
    <3>10. entry.active =>
             \A d \in Child : entry.childs[d] # NoChild =>
               /\ entry.childs[d].active
               /\ \A b \in Attr : entry.childs[d].props[b] # "invalid"
      BY <2>3, <3>3, <3>7, <3>9
    <3>11. Guarded(entries')
      BY <1>1, <3>8, <3>10 DEF Guarded
    <3> QED BY <3>8, <3>11
  <2> QED BY <1>7, <2>2, <2>3 DEF ClearObject
<1>8. ASSUME NEW i \in Number, DeleteEntry(i) PROVE Kept
  <2>1. entries' = [entries EXCEPT ![i] = NoEntry]
    BY <1>8 DEF DeleteEntry
  <2> QED BY <1>1, <2>1 DEF Entries, Guarded
<1>9. ASSUME AsDict \/ IsValid PROVE Kept
  <2>1. entries' = entries
    BY <1>9 DEF AsDict, IsValid
  <2> QED BY <1>1, <2>1
<1>10. Kept
  BY <1>3, <1>4, <1>5, <1>6, <1>7, <1>8, <1>9
<1> QED BY <1>2, <1>10, EntryCall

-----------------------------------------------------------------------------
(* The steps of update.                                                    *)

LEMMA StartUpdateStep ==
  ASSUME TableInv, NEW doc \in Document, StartUpdate(doc)
  PROVE  TableInv'
<1>1. /\ active \in BOOLEAN /\ table = active
      /\ header \in [active : {active}, version : Value \cup {Absent}]
      /\ entries \in Entries /\ Guarded(entries)
  BY TableOKFolded DEF TableInv
<1>2. UNCHANGED <<active, header, table, entries>>
  BY DEF StartUpdate
<1>3. CASE update' = NoUpdate /\ result' = "ValidationError"
  <2>1. result' \in Results \ {"updated"}
    BY <1>3 DEF Results
  <2> QED BY <1>1, <1>2, <1>3, <2>1, EntryCall
<1>4. CASE /\ update' = [running |-> TRUE, todo |-> Writes(doc), writes |-> Writes(doc),
                         validated |-> active, touched |-> FALSE]
           /\ result' = "done" /\ (active => ValidDocument(doc))
  <2> DEFINE ws == Writes(doc)
  <2>1. /\ ws \in Seq(WriteType)
        /\ \A k, l \in DOMAIN ws : k < l /\ IsItem(ws[k]) => IsItem(ws[l])
        /\ \A k \in DOMAIN ws : IsItem(ws[k]) => \E j \in DOMAIN doc.items : ws[k] = doc.items[j]
    BY WritesOfDocument
  <2> HIDE DEF ws
  <2>2. update' = [running |-> TRUE, todo |-> ws, writes |-> ws,
                   validated |-> active, touched |-> FALSE]
    BY <1>4 DEF ws
  <2>3. /\ update' \in UpdateType /\ update'.running /\ ~update'.touched
        /\ update'.todo = ws /\ update'.writes = ws /\ (update'.validated <=> active)
    BY <1>1, <2>1, <2>2 DEF UpdateType
  <2>4. TableOK'
    BY <1>1, <1>2, <1>4, <2>3, TableOKAfter DEF Results
  <2>5. active => \A k \in DOMAIN ws : IsItem(ws[k]) => Sound(ws[k])
    BY <1>4, <2>1 DEF ValidDocument, Sound
  <2>6. Remaining(update')
    BY <2>1, <2>3, <2>5 DEF Remaining
  <2>7. Remaining(update)'
    BY <1>2, <2>6 DEF Remaining
  <2>8. NDone(update') = 0
    BY <2>1, <2>3 DEF NDone
  <2>9. Split(update)'
    <3>1. \A k \in DOMAIN ws : 0 + k = k
      BY <2>1
    <3> QED BY <2>3, <2>8, <3>1 DEF Split, NDone
  <2>10. Arrived(entries, update)'
    BY <2>8 DEF Arrived, NDone
  <2>11. UpdateInv'
    BY <1>4, <2>3, <2>7, <2>9, <2>10 DEF UpdateInv, ValidatedUpdateIsWhole
  <2> QED BY <1>1, <1>2, <2>4, <2>11 DEF TableInv
<1> QED BY <1>3, <1>4 DEF StartUpdate, Ends

\* What a step of an update knows of the write it comes to, and what follows if
\* that write succeeds or raises.
LEMMA WriteFacts ==
  ASSUME TableInv, More
  PROVE  /\ Write \in WriteType /\ update.running /\ result = "done"
         /\ update \in UpdateType /\ Remaining(update) /\ Split(update)
         /\ Arrived(entries, update) /\ update.todo # << >>
         /\ update.touched => IsItem(Write)
         /\ update.validated /\ IsItem(Write) => active /\ Sound(Write)
<1>1. /\ update.running /\ update.todo # << >> /\ update \in UpdateType /\ result = "done"
      /\ Remaining(update) /\ Split(update) /\ Arrived(entries, update)
  BY TableOKFolded DEF TableInv, UpdateInv, More
<1>2. update.todo \in Seq(WriteType)
  BY <1>1 DEF UpdateType
<1>3. Write = update.todo[1] /\ Write \in WriteType /\ 1 \in DOMAIN update.todo
  BY <1>1, <1>2 DEF Write
<1> QED BY <1>1, <1>3 DEF Remaining

LEMMA ProceedStep ==
  ASSUME TableInv, More, Proceed, active' = active, result' = result
  PROVE  /\ update' \in UpdateType /\ Remaining(update)' /\ Split(update)'
         /\ update'.writes = update.writes /\ update'.running
         /\ NDone(update) \in Nat /\ NDone(update') = NDone(update) + 1
         /\ NDone(update') \in 1..Len(update.writes)
         /\ update.writes[NDone(update')] = Write
         /\ Arrived(entries, update)' => UpdateInv'
<1>1. /\ update.running /\ result = "done" /\ update \in UpdateType
      /\ Remaining(update) /\ Split(update) /\ update.todo # << >>
  BY WriteFacts
<1>2. update' = After(update)
  BY DEF Proceed, After, Write
<1>3. /\ update' \in UpdateType /\ Remaining(update') /\ Split(update')
      /\ update'.writes = update.writes /\ update'.running = update.running
      /\ NDone(update) \in Nat /\ NDone(update') = NDone(update) + 1
      /\ NDone(update') \in 1..Len(update.writes)
      /\ update.writes[NDone(update')] = Head(update.todo)
  BY <1>1, <1>2, Advance
<1>4. Remaining(update)'
  BY <1>3 DEF Remaining
<1>5. Split(update)'
  BY <1>3 DEF Split, NDone
<1>6. ASSUME Arrived(entries, update)' PROVE UpdateInv'
  BY <1>1, <1>3, <1>4, <1>5, <1>6 DEF UpdateInv, ValidatedUpdateIsWhole
<1> QED BY <1>1, <1>3, <1>4, <1>5, <1>6 DEF Write

LEMMA FailStep ==
  ASSUME TableInv, More, NEW how, how \in Results \ {"updated"}, Fail(how),
         ~(update.validated /\ (update.touched \/ IsItem(Write)))
  PROVE  result' \in Results /\ update' \in UpdateType /\ UpdateInv'
<1>1. update \in UpdateType
  BY WriteFacts
<1> DEFINE flag == update.touched \/ IsItem(Write)
<1>2. flag \in BOOLEAN
  BY DEF IsItem
<1>3. update' = [update EXCEPT !.running = FALSE, !.touched = update.touched \/ IsItem(Write)]
  BY <1>1 DEF Fail, UpdateType
<1>4. result' = how
  BY DEF Fail, Ends
<1>5. update' = [update EXCEPT !.running = FALSE, !.touched = flag]
  BY <1>3
<1> HIDE DEF flag
<1>6. /\ update' \in UpdateType /\ update'.running = FALSE /\ update'.touched = flag
      /\ update'.validated = update.validated
  BY <1>1, <1>2, <1>5 DEF UpdateType
<1>7. ~(update'.validated /\ update'.touched)
  BY <1>6 DEF flag
<1> QED BY <1>4, <1>6, <1>7 DEF UpdateInv, ValidatedUpdateIsWhole

\* A step that succeeds and writes to no entry.
LEMMA SkipStep ==
  ASSUME TableInv, More, ~IsItem(Write), Proceed, UNCHANGED <<active, entries, result>>
  PROVE  update' \in UpdateType /\ UpdateInv'
<1>1. /\ update' \in UpdateType /\ NDone(update) \in Nat
      /\ NDone(update') = NDone(update) + 1 /\ update'.writes = update.writes
      /\ update.writes[NDone(update')] = Write
      /\ Arrived(entries, update)' => UpdateInv'
  BY ProceedStep
<1>2. Arrived(entries, update')
  <2> SUFFICES ASSUME NEW k \in 1..NDone(update'), LastOf(update', k, NDone(update'))
               PROVE  Holds(entries, update'.writes[k])
    BY DEF Arrived
  <2>1. k # NDone(update')
    BY <1>1 DEF LastOf
  <2>2. k \in 1..NDone(update)
    BY <1>1, <2>1
  <2>3. LastOf(update, k, NDone(update))
    BY <1>1 DEF LastOf
  <2> QED BY <1>1, <2>2, <2>3, WriteFacts DEF Arrived
<1>3. Arrived(entries, update)'
  BY <1>2 DEF Arrived, NDone, LastOf, Holds
<1> QED BY <1>1, <1>3

LEMMA BuildHeaderStep == ASSUME TableInv, BuildHeader PROVE TableInv'
<1>1. /\ active \in BOOLEAN /\ table = active
      /\ header \in [active : {active}, version : Value \cup {Absent}]
      /\ entries \in Entries /\ Guarded(entries)
  BY TableOKFolded DEF TableInv
<1>2. More /\ ~IsItem(Write) /\ ~IsTable(Write) /\ UNCHANGED <<active, table, entries>>
  BY DEF BuildHeader
<1>3. Write \in HeaderItem /\ update.todo # << >> /\ ~update.touched /\ result = "done"
  BY <1>2, WriteFacts, KindOf
<1>4. ASSUME Fail("AttributeError") \/ Fail("ValidationError"), UNCHANGED header
      PROVE  TableInv'
  <2>1. result' \in Results /\ update' \in UpdateType /\ UpdateInv'
    BY <1>2, <1>3, <1>4, FailStep DEF Results
  <2>2. TableOK'
    BY <1>1, <1>2, <1>4, <2>1, TableOKAfter
  <2> QED BY <1>1, <1>2, <2>1, <2>2 DEF TableInv
<1>5. ASSUME Proceed, header' = [header EXCEPT !.version = Write.val], UNCHANGED result
      PROVE  TableInv'
  <2>1. update' \in UpdateType /\ UpdateInv'
    BY <1>2, <1>5, SkipStep
  <2>2. header' \in [active : {active}, version : Value \cup {Absent}]
    BY <1>1, <1>3, <1>5 DEF HeaderItem
  <2>3. result' \in Results
    BY <1>3, <1>5 DEF Results
  <2>4. TableOK'
    BY <1>1, <1>2, <2>1, <2>2, <2>3, TableOKAfter
  <2> QED BY <1>1, <1>2, <2>1, <2>4 DEF TableInv
<1> QED BY <1>4, <1>5 DEF BuildHeader

LEMMA FindTableStep == ASSUME TableInv, FindTable PROVE TableInv'
<1>1. /\ active \in BOOLEAN /\ table = active
      /\ header \in [active : {active}, version : Value \cup {Absent}]
      /\ entries \in Entries /\ Guarded(entries)
  BY TableOKFolded DEF TableInv
<1>2. More /\ IsTable(Write) /\ UNCHANGED <<active, header, table, entries>>
  BY DEF FindTable
<1>3. ~IsItem(Write) /\ ~update.touched /\ result = "done"
  BY <1>2, WriteFacts, KindOf, Kinds
<1>4. ASSUME Fail("KeyError") PROVE TableInv'
  <2>1. result' \in Results /\ update' \in UpdateType /\ UpdateInv'
    BY <1>2, <1>3, <1>4, FailStep DEF Results
  <2>2. TableOK'
    BY <1>1, <1>2, <1>4, <2>1, TableOKAfter
  <2> QED BY <1>1, <1>2, <2>1, <2>2 DEF TableInv
<1>5. ASSUME Proceed, UNCHANGED result PROVE TableInv'
  <2>1. update' \in UpdateType /\ UpdateInv'
    BY <1>2, <1>3, <1>5, SkipStep
  <2>2. result' \in Results
    BY <1>3, <1>5 DEF Results
  <2>3. TableOK'
    BY <1>1, <1>2, <2>1, <2>2, TableOKAfter
  <2> QED BY <1>1, <1>2, <2>1, <2>3 DEF TableInv
<1> QED BY <1>2, <1>4, <1>5 DEF FindTable

LEMMA BuildNodeStep == ASSUME TableInv, BuildNode PROVE TableInv'
<1>1. /\ active \in BOOLEAN /\ table = active
      /\ header \in [active : {active}, version : Value \cup {Absent}]
      /\ entries \in Entries /\ Guarded(entries)
  BY TableOKFolded DEF TableInv
<1>2. More /\ IsItem(Write) /\ UNCHANGED <<active, header, table>>
  BY DEF BuildNode
<1>3. /\ Write \in TableItem /\ update.todo # << >> /\ result = "done"
      /\ update.validated => active /\ Sound(Write)
  BY <1>2, WriteFacts, KindOf
<1> DEFINE i == Write.number
           c == Write.child
           a == Write.attr
           v == Write.val
           es == WithChild(WithEntry(entries, i), i, c)
<1>4. /\ i \in Number /\ c \in Child /\ v \in Value \cup {Absent}
  BY <1>3 DEF TableItem
<1>5. ASSUME Fail("AttributeError") \/ Fail("ValidationError"), ~update.validated,
             entries' \in Entries, Guarded(entries')
      PROVE  TableInv'
  <2>1. result' \in Results /\ update' \in UpdateType /\ UpdateInv'
    BY <1>2, <1>5, FailStep DEF Results
  <2>2. TableOK'
    BY <1>1, <1>2, <1>5, <2>1, TableOKAfter
  <2> QED BY <1>5, <2>1, <2>2 DEF TableInv
<1>6. CASE IndexRefused(i)
  <2>1. Fail("ValidationError") /\ entries' = entries
    BY <1>6 DEF BuildNode
  <2>2. ~update.validated
    BY <1>3, <1>6 DEF IndexRefused, Sound
  <2> QED BY <1>1, <1>5, <2>1, <2>2
<1>7. CASE ~IndexRefused(i)
  <2>1. /\ WithEntry(entries, i) \in Entries /\ Guarded(WithEntry(entries, i))
        /\ WithEntry(entries, i)[i] # NoEntry /\ Keeps(entries, WithEntry(entries, i))
    BY <1>1, <1>4, WithEntryReads
  <2>2. /\ es \in Entries /\ Guarded(es) /\ es[i] # NoEntry
        /\ es[i].childs[c] \in ChildType /\ Keeps(WithEntry(entries, i), es)
    BY <1>4, <2>1, WithChildReads
  <2>3. es[i].childs[c] # NoChild
    BY <2>2, SchemaAssumption
  <2>4. CASE a \notin Attr
    <3>1. Fail("AttributeError") /\ entries' = es
      BY <1>7, <2>4 DEF BuildNode
    <3>2. ~update.validated
      BY <1>3, <2>4 DEF Sound
    <3> QED BY <1>5, <2>2, <3>1, <3>2
  <2>5. CASE a \in Attr /\ Refused(es[i].childs[c].active, v)
    <3>1. Fail("ValidationError") /\ entries' = es
      BY <1>7, <2>5 DEF BuildNode
    <3>2. ~update.validated
      BY <1>3, <2>5 DEF Sound, Refused
    <3> QED BY <1>5, <2>2, <3>1, <3>2
  <2>6. CASE a \in Attr /\ ~Refused(es[i].childs[c].active, v)
    <3> DEFINE fs == WithAttr(es, i, c, a, v)
    <3>1. entries' = fs /\ Proceed /\ UNCHANGED result
      BY <1>7, <2>6 DEF BuildNode
    <3>2. /\ fs \in Entries /\ Guarded(fs)
          /\ fs[i] # NoEntry /\ fs[i].childs[c] # NoChild /\ fs[i].childs[c].props[a] = v
          /\ \A j \in Number, d \in Child, b \in Attr :
              /\ <<j, d, b>> # <<i, c, a>> /\ es[j] # NoEntry /\ es[j].childs[d] # NoChild
              => /\ fs[j] # NoEntry /\ fs[j].childs[d] # NoChild
                 /\ fs[j].childs[d].props[b] = es[j].childs[d].props[b]
      <4> HIDE DEF i, c, a, v, es
      <4> QED BY <1>4, <2>2, <2>3, <2>6, WithAttrWrites
    <3> HIDE DEF fs
    <3>3. Holds(fs, Write)
      BY <2>6, <3>2 DEF Holds
    <3>4. ASSUME NEW w \in TableItem, Holds(entries, w), ~SamePlace(w, Write)
          PROVE  Holds(fs, w)
      <4> DEFINE j == w.number
                 d == w.child
                 b == w.attr
                 ds == WithEntry(entries, i)
      <4>1. j \in Number /\ d \in Child /\ b \in Attr
        BY <3>4 DEF TableItem, Holds
      <4>2. ds[j] # NoEntry /\ ds[j].childs[d] = entries[j].childs[d]
        BY <2>1, <3>4, <4>1 DEF Keeps, Holds
      <4>3. es[j] # NoEntry /\ es[j].childs[d] = entries[j].childs[d]
        BY <2>2, <3>4, <4>1, <4>2 DEF Keeps, Holds
      <4>4. <<j, d, b>> # <<i, c, a>>
        BY <3>4 DEF SamePlace
      <4>5. fs[j] # NoEntry /\ fs[j].childs[d] # NoChild
            /\ fs[j].childs[d].props[b] = es[j].childs[d].props[b]
        BY <3>2, <3>4, <4>1, <4>3, <4>4 DEF Holds
      <4> QED BY <3>4, <4>3, <4>5 DEF Holds
    <3>5. /\ update' \in UpdateType /\ NDone(update) \in Nat
          /\ NDone(update') = NDone(update) + 1 /\ update'.writes = update.writes
          /\ NDone(update') \in 1..Len(update.writes)
          /\ update.writes[NDone(update')] = Write
          /\ Arrived(entries, update)' => UpdateInv'
      BY <1>2, <3>1, ProceedStep
    <3>6. update \in UpdateType /\ Arrived(entries, update)
      BY <1>2, WriteFacts
    <3>7. Arrived(fs, update')
      <4> SUFFICES ASSUME NEW k \in 1..NDone(update'), LastOf(update', k, NDone(update'))
                   PROVE  Holds(fs, update'.writes[k])
        BY DEF Arrived
      <4>1. CASE k = NDone(update')
        BY <3>3, <3>5, <4>1
      <4>2. CASE k # NDone(update')
        <5>1. k \in 1..NDone(update) /\ k < NDone(update') /\ NDone(update') \in 1..NDone(update')
          BY <3>5, <4>2
        <5>2. LastOf(update, k, NDone(update))
          BY <3>5 DEF LastOf
        <5>3. Holds(entries, update.writes[k])
          BY <3>6, <5>1, <5>2 DEF Arrived
        <5>4. ~SamePlace(update.writes[k], Write)
          BY <1>2, <3>5, <5>1 DEF LastOf
        <5>5. update.writes[k] \in TableItem
          <6>1. update.writes \in Seq(WriteType)
            BY <3>6 DEF UpdateType
          <6>2. update.writes[k] \in WriteType
            BY <3>5, <5>1, <6>1
          <6> QED BY <5>2, <6>2, KindOf DEF LastOf
        <5> QED BY <3>4, <3>5, <5>3, <5>4, <5>5
      <4> QED BY <4>1, <4>2
    <3>8. Arrived(entries, update)'
      BY <3>1, <3>7 DEF Arrived, NDone, LastOf, Holds, fs
    <3>9. result' \in Results
      BY <1>3, <3>1 DEF Results
    <3>10. TableOK'
      BY <1>1, <1>2, <3>1, <3>2, <3>5, <3>9, TableOKAfter
    <3> QED BY <3>1, <3>2, <3>5, <3>8, <3>10 DEF TableInv
  <2> QED BY <2>4, <2>5, <2>6
<1> QED BY <1>6, <1>7

LEMMA EndUpdateStep == ASSUME TableInv, EndUpdate PROVE TableInv'
<1>1. /\ active \in BOOLEAN /\ table = active
      /\ header \in [active : {active}, version : Value \cup {Absent}]
      /\ entries \in Entries /\ Guarded(entries) /\ update \in UpdateType
      /\ update.running /\ update.todo = << >> /\ Split(update) /\ Arrived(entries, update)
  BY TableOKFolded DEF TableInv, UpdateInv, EndUpdate
<1>2. /\ UNCHANGED <<active, header, table, entries>> /\ result' = "updated"
      /\ update' = [update EXCEPT !.running = FALSE]
  BY DEF EndUpdate, Ends
<1>3. /\ update' \in UpdateType /\ ~update'.running /\ update'.todo = << >>
      /\ update'.todo = update.todo /\ update'.writes = update.writes
  BY <1>1, <1>2 DEF UpdateType
<1>4. NDone(update') = NDone(update)
  BY <1>3 DEF NDone
<1>5. Split(update)'
  BY <1>1, <1>3, <1>4 DEF Split, NDone
<1>6. Arrived(entries, update')
  BY <1>1, <1>3, <1>4 DEF Arrived, LastOf
<1>7. Arrived(entries, update)'
  BY <1>2, <1>6 DEF Arrived, NDone, LastOf, Holds
<1>8. UpdateInv'
  BY <1>2, <1>3, <1>5, <1>7 DEF UpdateInv, ValidatedUpdateIsWhole
<1>9. TableOK'
  BY <1>1, <1>2, <1>3, TableOKAfter DEF Results
<1> QED BY <1>1, <1>2, <1>8, <1>9 DEF TableInv

-----------------------------------------------------------------------------
(* Theorems.                                                               *)

LEMMA NextTableInv == TableInv /\ [Next]_vars => TableInv'
<1> SUFFICES ASSUME TableInv, [Next]_vars PROVE TableInv'
  OBVIOUS
<1>1. CASE UNCHANGED vars
  <2>1. /\ active' = active /\ table' = table /\ header' = header /\ entries' = entries
        /\ update' = update /\ result' = result
    BY <1>1 DEF vars, calls
  <2>2. TableOK'
    BY <2>1 DEF TableInv, TableOK
  <2>3. Guarded(entries)'
    BY <2>1 DEF TableInv, Guarded
  <2>4. /\ Remaining(update)' <=> Remaining(update)
        /\ Split(update)' <=> Split(update)
    BY <2>1 DEF Remaining, Split, NDone
  <2>5. Arrived(entries, update)' <=> Arrived(entries, update)
    BY <2>1 DEF Arrived, LastOf, NDone, Holds
  <2>6. UpdateInv'
    BY <2>1, <2>4, <2>5 DEF TableInv, UpdateInv, ValidatedUpdateIsWhole
  <2>. QED BY <2>2, <2>3, <2>6 DEF TableInv
<1>2. CASE Next
  <2>1. CASE \/ \E v \in BOOLEAN : SetActiveValidation(v)
             \/ Clear
             \/ \E v \in Value \cup {Absent} : WriteHeader(v)
    BY <2>1, FlagCalls
  <2>2. CASE \/ \E i \in Number :
                  \/ GetEntry(i)
                  \/ \E c \in Child : GetChild(i, c) \/ RemoveChild(i, c)
                  \/ \E c \in Child, a \in Attr, v \in Value \cup {Absent} : SetAttr(i, c, a, v)
                  \/ ClearObject(i)
                  \/ DeleteEntry(i)
             \/ AsDict
             \/ IsValid
    BY <2>2, EntryCalls
  <2>3. CASE \E doc \in Document : StartUpdate(doc)
    BY <2>3, StartUpdateStep
  <2>4. CASE BuildHeader
    BY <2>4, BuildHeaderStep
  <2>5. CASE FindTable
    BY <2>5, FindTableStep
  <2>6. CASE BuildNode
    BY <2>6, BuildNodeStep
  <2>7. CASE EndUpdate
    BY <2>7, EndUpdateStep
  <2> QED BY <1>2, <2>1, <2>2, <2>3, <2>4, <2>5, <2>6, <2>7 DEF Next, Calls
<1> QED BY <1>1, <1>2

\* The inductive invariant holds: every object has its type, the flags of the
\* header and of the list are those of the table, and entries created under
\* validation and running updates are as Guarded and UpdateInv say.
THEOREM TableInvariance == Spec => []TableInv
BY InitTableInv, NextTableInv, PTL DEF Spec

-----------------------------------------------------------------------------
(* The entries created since validation was switched.                      *)

\* Entries keep their flag, and a new one has that of the table.
FlagsKept(es, fs) ==
  \A j \in Number : fs[j] # NoEntry =>
    fs[j].active = IF es[j] # NoEntry THEN es[j].active ELSE table

FreshInv ==
  /\ fresh \subseteq Number
  /\ active => \A i \in fresh : entries[i] # NoEntry /\ entries[i].active

\* Another value for an entry, with the same flag or that of the table.
LEMMA EntryReplaced ==
  ASSUME NEW es \in Entries, NEW i \in Number, NEW e,
         e.active = IF es[i] # NoEntry THEN es[i].active ELSE table
  PROVE  FlagsKept(es, [es EXCEPT ![i] = e])
<1> DEFINE fs == [es EXCEPT ![i] = e]
<1>1. fs[i] = e /\ \A j \in Number : j # i => fs[j] = es[j]
  BY DEF Entries
<1> HIDE DEF fs
<1>2. FlagsKept(es, fs)
  BY <1>1 DEF FlagsKept
<1> QED BY <1>2 DEF fs

\* Other children for an entry.
LEMMA ChildsReplaced ==
  ASSUME NEW es \in Entries, NEW i \in Number, es[i] # NoEntry, NEW cs
  PROVE  /\ [es EXCEPT ![i].childs = cs] = [es EXCEPT ![i] = [@ EXCEPT !.childs = cs]]
         /\ FlagsKept(es, [es EXCEPT ![i].childs = cs])
<1>1. es[i] \in EntryType
  BY DEF Entries
<1>2. [es[i] EXCEPT !.childs = cs].active = es[i].active
  BY <1>1 DEF EntryType
<1>3. [es EXCEPT ![i].childs = cs] = [es EXCEPT ![i] = [es[i] EXCEPT !.childs = cs]]
  OBVIOUS
<1> QED BY <1>2, <1>3, EntryReplaced

\* Reading an entry or a child and writing an attribute keep the flags.
LEMMA HelpersKeepFlags ==
  ASSUME NEW es \in Entries, NEW i \in Number, NEW c \in Child, NEW a, NEW v
  PROVE  /\ FlagsKept(es, WithEntry(es, i))
         /\ es[i] # NoEntry => FlagsKept(es, WithChild(es, i, c))
         /\ es[i] # NoEntry => FlagsKept(es, WithAttr(es, i, c, a, v))
<1>1. FlagsKept(es, es)
  BY DEF FlagsKept
<1>2. FlagsKept(es, WithEntry(es, i))
  BY <1>1, EntryReplaced DEF WithEntry
<1>3. ASSUME es[i] # NoEntry PROVE FlagsKept(es, WithChild(es, i, c))
  <2> DEFINE cs == [es[i].childs EXCEPT ![c] = [active |-> es[i].active, props |-> Bare]]
  <2>1. FlagsKept(es, [es EXCEPT ![i].childs = cs])
    BY <1>3, ChildsReplaced
  <2>2. \/ WithChild(es, i, c) = es
        \/ WithChild(es, i, c) = [es EXCEPT ![i].childs = cs]
    BY DEF WithChild
  <2> QED BY <1>1, <2>1, <2>2
<1>4. ASSUME es[i] # NoEntry PROVE FlagsKept(es, WithAttr(es, i, c, a, v))
  <2> DEFINE cs == [es[i].childs EXCEPT ![c] = [es[i].childs[c] EXCEPT
                     !.props = [es[i].childs[c].props EXCEPT ![a] = v]]]
  <2>1. FlagsKept(es, [es EXCEPT ![i].childs = cs])
    BY <1>3, <1>4, ChildsReplaced
  <2>2. WithAttr(es, i, c, a, v) = [es EXCEPT ![i].childs = cs]
    BY DEF WithAttr
  <2> QED BY <2>1, <2>2
<1> QED BY <1>2, <1>3, <1>4

\* No call changes the flag of an entry.
LEMMA CallsKeepFlags ==
  ASSUME TableInv, Calls
  PROVE  FlagsKept(entries, entries')
<1>1. table \in BOOLEAN /\ entries \in Entries /\ Guarded(entries) /\ update \in UpdateType
  BY TableOKFolded DEF TableInv
<1>2. FlagsKept(entries, entries)
  BY DEF FlagsKept
<1>3. CASE UNCHANGED entries
  BY <1>2, <1>3
<1>4. CASE Clear
  BY <1>4 DEF Clear, FlagsKept
<1>5. ASSUME NEW i \in Number, GetEntry(i) PROVE FlagsKept(entries, entries')
  <2>1. FlagsKept(entries, WithEntry(entries, i))
    BY <1>1, <1>2, EntryReplaced DEF WithEntry
  <2> QED BY <1>2, <1>5, <2>1 DEF GetEntry
<1>6. ASSUME NEW i \in Number, NEW c \in Child, GetChild(i, c)
      PROVE  FlagsKept(entries, entries')
  BY <1>1, <1>6, HelpersKeepFlags DEF GetChild
<1>7. ASSUME NEW i \in Number, NEW c \in Child, RemoveChild(i, c)
      PROVE  FlagsKept(entries, entries')
  <2> DEFINE cs == [entries[i].childs EXCEPT ![c] = NoChild]
  <2>1. FlagsKept(entries, [entries EXCEPT ![i].childs = cs])
    BY <1>1, <1>7, ChildsReplaced DEF RemoveChild
  <2>2. entries' = [entries EXCEPT ![i].childs = cs]
    BY <1>7 DEF RemoveChild
  <2> QED BY <2>1, <2>2
<1>8. ASSUME NEW i \in Number, NEW c \in Child, NEW a \in Attr,
             NEW v \in Value \cup {Absent}, SetAttr(i, c, a, v)
      PROVE  FlagsKept(entries, entries')
  BY <1>1, <1>2, <1>8, HelpersKeepFlags DEF SetAttr
<1>9. ASSUME NEW i \in Number, ClearObject(i) PROVE FlagsKept(entries, entries')
  <2>1. CASE entries' = [entries EXCEPT ![i].childs = Unread]
    BY <1>1, <1>9, <2>1, ChildsReplaced DEF ClearObject
  <2>2. ASSUME NEW c \in Child, entries' = [entries EXCEPT ![i].childs[c].props = Bare]
        PROVE  FlagsKept(entries, entries')
    <3> DEFINE cs == [entries[i].childs EXCEPT ![c] =
                        [entries[i].childs[c] EXCEPT !.props = Bare]]
    <3>1. FlagsKept(entries, [entries EXCEPT ![i].childs = cs])
      BY <1>1, <1>9, ChildsReplaced DEF ClearObject
    <3>2. entries' = [entries EXCEPT ![i].childs = cs]
      BY <2>2
    <3> QED BY <3>1, <3>2
  <2> QED BY <1>9, <2>1, <2>2 DEF ClearObject
<1>10. ASSUME NEW i \in Number, DeleteEntry(i) PROVE FlagsKept(entries, entries')
  <2>1. entries'[i] = NoEntry /\ \A j \in Number : j # i => entries'[j] = entries[j]
    BY <1>1, <1>10 DEF DeleteEntry, Entries
  <2> QED BY <2>1 DEF FlagsKept
<1>11. ASSUME BuildNode PROVE FlagsKept(entries, entries')
  <2> DEFINE read == WithChild(WithEntry(entries, Write.number), Write.number, Write.child)
             written == WithAttr(read, Write.number, Write.child, Write.attr, Write.val)
             found == WithEntry(entries, Write.number)
  <2>1. Write \in TableItem
    BY <1>1, <1>11, WriteFacts, KindOf DEF BuildNode
  <2>2. Write.number \in Number /\ Write.child \in Child
    BY <2>1 DEF TableItem
  <2>3. found \in Entries /\ Guarded(found) /\ found[Write.number] # NoEntry /\ Keeps(entries, found)
    BY <1>1, <2>2, WithEntryReads
  <2>4. read \in Entries /\ read[Write.number] # NoEntry /\ Keeps(found, read)
    BY <2>2, <2>3, WithChildReads
  <2>5. FlagsKept(entries, found)
    BY <1>1, <2>2, HelpersKeepFlags
  <2>6. FlagsKept(found, read)
    BY <2>2, <2>3, HelpersKeepFlags
  <2>7. FlagsKept(read, written)
    BY <2>2, <2>4, HelpersKeepFlags
  <2>8. \A j \in Number : /\ entries[j] # NoEntry => found[j] # NoEntry
                          /\ found[j] # NoEntry => read[j] # NoEntry
    BY <2>2, <2>3, <2>4 DEF Keeps
  <2>9. entries' \in {entries, read, written}
    BY <1>11 DEF BuildNode
  <2> HIDE DEF read, written, found
  <2>10. FlagsKept(entries, read)
    BY <2>5, <2>6, <2>8 DEF FlagsKept
  <2>11. FlagsKept(entries, written)
    BY <2>7, <2>8, <2>10 DEF FlagsKept
  <2> QED BY <1>2, <2>9, <2>10, <2>11
<1>12. \/ UNCHANGED entries \/ Clear \/ BuildNode
       \/ \E i \in Number :
            \/ GetEntry(i) \/ ClearObject(i) \/ DeleteEntry(i)
            \/ \E c \in Child : GetChild(i, c) \/ RemoveChild(i, c)
            \/ \E c \in Child, a \in Attr, v \in Value \cup {Absent} : SetAttr(i, c, a, v)
  BY DEF Calls, SetActiveValidation, WriteHeader, AsDict, IsValid, StartUpdate,
         BuildHeader, FindTable, EndUpdate
<1> QED BY <1>3, <1>4, <1>5, <1>6, <1>7, <1>8, <1>9, <1>10, <1>11, <1>12

\* The entries in fresh validate while the table does.
LEMMA FreshNext == TableInv /\ FreshInv /\ [Next]_vars => FreshInv'
<1> SUFFICES ASSUME TableInv, FreshInv, [Next]_vars PROVE FreshInv'
  OBVIOUS
<1>1. CASE UNCHANGED vars
  BY <1>1 DEF vars, calls, FreshInv
<1>2. CASE Next /\ active' # active
  BY <1>2 DEF Next, Remember, FreshInv
<1>3. CASE Next /\ active' = active
  <2>1. fresh' = {i \in Number : entries'[i] # NoEntry /\ (entries[i] = NoEntry \/ i \in fresh)}
    BY <1>3 DEF Next, Remember
  <2>2. FlagsKept(entries, entries')
    BY <1>3, CallsKeepFlags DEF Next
  <2>3. table = active
    BY TableOKFolded DEF TableInv
  <2>4. ASSUME active, NEW i \in fresh'
        PROVE  entries'[i] # NoEntry /\ entries'[i].active
    <3>1. i \in Number /\ entries'[i] # NoEntry /\ (entries[i] = NoEntry \/ i \in fresh)
      BY <2>1, <2>4
    <3>2. entries'[i].active = IF entries[i] # NoEntry THEN entries[i].active ELSE table
      BY <2>2, <3>1 DEF FlagsKept
    <3>3. CASE entries[i] = NoEntry
      BY <2>3, <2>4, <3>1, <3>2, <3>3
    <3>4. CASE entries[i] # NoEntry
      BY <2>4, <3>1, <3>2, <3>4 DEF FreshInv
    <3> QED BY <3>3, <3>4
  <2> QED BY <1>3, <2>1, <2>4 DEF FreshInv
<1> QED BY <1>1, <1>2, <1>3

\* Entries created since validation was switched on validate, until it is
\* switched again.
THEOREM FreshInvariance == Spec => []FreshInv
<1>1. Init => FreshInv
  BY DEF Init, FreshInv
<1> QED BY <1>1, FreshNext, TableInvariance, PTL DEF Spec

\* Every object of a command table is what the program takes it for, and the
\* flags of the table and of the header are those of the CommandTable.
THEOREM TypeCorrect == Spec => []TypeOK
<1>1. TableInv /\ FreshInv => TypeOK
  BY DEF TableInv, FreshInv, TypeOK
<1> QED BY <1>1, TableInvariance, FreshInvariance, PTL

\* While a table validates, no entry created since validation was switched on
\* holds a value that the schema refuses.
THEOREM ActiveEntries == Spec => []ActiveEntriesHoldValid
<1>1. TableInv /\ FreshInv => ActiveEntriesHoldValid
  BY DEF TableInv, FreshInv, Guarded, ActiveEntriesHoldValid
<1> QED BY <1>1, TableInvariance, FreshInvariance, PTL

\* Once update has validated its document it does not stop between two entries:
\* no index, name or value of it is refused later.
THEOREM ValidatedUpdate == Spec => []ValidatedUpdateIsWhole
<1>1. TableInv => ValidatedUpdateIsWhole
  BY DEF TableInv, UpdateInv
<1> QED BY <1>1, TableInvariance, PTL

\* When update returns, the last value its document has for each place is in the
\* table, for documents of any length.
THEOREM UpdateArriving == Spec => []UpdateArrives
<1>1. TableInv => UpdateArrives
  <2> SUFFICES ASSUME TableInv, result = "updated", NEW k \in DOMAIN update.writes,
                      IsItem(update.writes[k]),
                      \A l \in DOMAIN update.writes :
                        l > k /\ IsItem(update.writes[l]) =>
                          ~SamePlace(update.writes[k], update.writes[l])
               PROVE  Holds(entries, update.writes[k])
    BY DEF UpdateArrives, Holds
  <2>1. update.todo = << >> /\ Arrived(entries, update) /\ update \in UpdateType
    BY TableOKFolded DEF TableInv, UpdateInv
  <2>2. Len(update.todo) = 0
    BY <2>1
  <2>3. update.writes \in Seq(WriteType) /\ Len(update.writes) \in Nat
    BY <2>1 DEF UpdateType
  <2>4. NDone(update) = Len(update.writes) /\ DOMAIN update.writes = 1..Len(update.writes)
    BY <2>2, <2>3 DEF NDone
  <2>5. LastOf(update, k, NDone(update))
    BY <2>4 DEF LastOf
  <2> QED BY <2>1, <2>4, <2>5 DEF Arrived
<1> QED BY <1>1, TableInvariance, PTL

-----------------------------------------------------------------------------
(* Reading creates objects that as_dict does not show.                     *)

\* What as_dict lists of a table fs.
Shown(fs, i) == {c \in Child : fs[i].childs[c] # NoChild /\ fs[i].childs[c].props # Bare}
Shows(fs, i) == fs[i] # NoEntry /\ Shown(fs, i) # {}

LEMMA SameDict ==
  ASSUME header' = header,
         \A i \in Number : Shows(entries', i) <=> Shows(entries, i),
         \A i \in Number : Shows(entries, i) =>
            /\ Shown(entries', i) = Shown(entries, i)
            /\ \A c \in Shown(entries, i) :
                 entries'[i].childs[c].props = entries[i].childs[c].props
  PROVE  Dict' = Dict
<1> DEFINE Listing == {n \in Number : Shows(entries, n)}
           Table == [i \in Listing |-> [c \in Shown(entries, i) |-> entries[i].childs[c].props]]
<1>1. Dict = [version |-> header.version, table |-> Table]
  BY DEF Dict, Listed, ListedChilds, Shows, Shown
<1>2. Dict' = [version |-> header'.version,
               table |-> [i \in {n \in Number : Shows(entries', n)} |->
                            [c \in Shown(entries', i) |-> entries'[i].childs[c].props]]]
  BY DEF Dict, Listed, ListedChilds, Shows, Shown
<1>3. {n \in Number : Shows(entries', n)} = Listing
  OBVIOUS
<1>4. \A i \in Listing :
        [c \in Shown(entries', i) |-> entries'[i].childs[c].props]
        = [c \in Shown(entries, i) |-> entries[i].childs[c].props]
  OBVIOUS
<1>5. [i \in {n \in Number : Shows(entries', n)} |->
         [c \in Shown(entries', i) |-> entries'[i].childs[c].props]] = Table
  BY <1>3, <1>4
<1> QED BY <1>1, <1>2, <1>5

LEMMA ReadingStep ==
  ASSUME TableInv,
         \E i \in Number : GetEntry(i) \/ \E c \in Child : GetChild(i, c)
  PROVE  Dict' = Dict
<1>1. entries \in Entries
  BY TableOKFolded DEF TableInv
<1>2. CASE entries' = entries /\ header' = header
  BY <1>2 DEF Dict, Listed, ListedChilds
<1>3. ASSUME NEW i \in Number, GetEntry(i) PROVE Dict' = Dict
  <2>1. CASE entries' = entries
    BY <1>2, <1>3, <2>1 DEF GetEntry
  <2>2. CASE entries' # entries
    <3> DEFINE new == [active |-> table, childs |-> Unread]
    <3>1. /\ header' = header /\ entries[i] = NoEntry
          /\ entries' = [entries EXCEPT ![i] = new]
      BY <1>3, <2>2 DEF GetEntry, WithEntry
    <3>2. \A c \in Child : new.childs[c] = NoChild
      BY DEF Unread
    <3> HIDE DEF new
    <3>3. entries'[i] = new /\ \A j \in Number : j # i => entries'[j] = entries[j]
      BY <1>1, <3>1 DEF Entries
    <3>4. ~Shows(entries, i) /\ ~Shows(entries', i)
      BY <3>1, <3>2, <3>3 DEF Shows, Shown
    <3>5. \A j \in Number : j # i =>
            /\ Shows(entries', j) <=> Shows(entries, j)
            /\ Shown(entries', j) = Shown(entries, j)
            /\ \A c \in Child : entries'[j].childs[c].props = entries[j].childs[c].props
      BY <3>3 DEF Shows, Shown
    <3>6. \A j \in Number : Shown(entries, j) \subseteq Child
      BY DEF Shown
    <3> QED BY <3>1, <3>4, <3>5, <3>6, SameDict
  <2> QED BY <2>1, <2>2
<1>4. ASSUME NEW i \in Number, NEW c \in Child, GetChild(i, c) PROVE Dict' = Dict
  <2>1. CASE entries' = entries
    BY <1>2, <1>4, <2>1 DEF GetChild
  <2>2. CASE entries' # entries
    <3> DEFINE new == [active |-> entries[i].active, props |-> Bare]
               entry == [active |-> entries[i].active,
                         childs |-> [entries[i].childs EXCEPT ![c] = new]]
    <3>1. /\ header' = header /\ entries[i] # NoEntry /\ entries[i].childs[c] = NoChild
          /\ entries' = [entries EXCEPT ![i].childs[c] = new]
      BY <1>4, <2>2 DEF GetChild, WithChild
    <3>2. entries[i] \in EntryType
      BY <1>1, <3>1 DEF Entries
    <3>3. [entries[i] EXCEPT !.childs[c] = new] = entry
      <4> HIDE DEF new
      <4> QED BY <3>2 DEF EntryType
    <3>4. entries' = [entries EXCEPT ![i] = entry]
      BY <1>1, <3>1, <3>3 DEF Entries
    <3>5. new.props = Bare /\ new \in ChildType
      BY <3>2 DEF EntryType, ChildType, Bare
    <3> HIDE DEF new
    <3>6. /\ entry \in EntryType /\ entry.childs[c] = new
          /\ \A d \in Child : d # c => entry.childs[d] = entries[i].childs[d]
      BY <3>2, <3>5 DEF EntryType
    <3>7. entry # NoEntry
      BY <3>6, SchemaAssumption
    <3> HIDE DEF entry
    <3>8. entries'[i] = entry /\ \A j \in Number : j # i => entries'[j] = entries[j]
      BY <1>1, <3>4 DEF Entries
    <3>9. \A d \in Child : d # c => entries'[i].childs[d] = entries[i].childs[d]
      BY <3>6, <3>8
    <3>10. c \notin Shown(entries, i) /\ c \notin Shown(entries', i)
      BY <3>1, <3>5, <3>6, <3>8 DEF Shown
    <3>11. Shown(entries', i) = Shown(entries, i)
      BY <3>9, <3>10 DEF Shown
    <3>12. Shows(entries', i) <=> Shows(entries, i)
      BY <3>1, <3>7, <3>8, <3>11 DEF Shows
    <3>13. \A d \in Shown(entries, i) :
             entries'[i].childs[d].props = entries[i].childs[d].props
      BY <3>9, <3>10 DEF Shown
    <3>14. \A j \in Number : j # i =>
             /\ Shows(entries', j) <=> Shows(entries, j)
             /\ Shown(entries', j) = Shown(entries, j)
             /\ \A d \in Child : entries'[j].childs[d].props = entries[j].childs[d].props
      BY <3>8 DEF Shows, Shown
    <3>15. \A j \in Number : Shown(entries, j) \subseteq Child
      BY DEF Shown
    <3> QED BY <3>1, <3>11, <3>12, <3>13, <3>14, <3>15, SameDict
  <2> QED BY <2>1, <2>2
<1> QED BY <1>3, <1>4

\* Looking at an entry or a child creates it, with flags of its own, but never
\* shows in what as_dict returns.
THEOREM ReadingIsInvisible == Spec => ReadingLeavesNoTrace
<1> DEFINE Reading == \E i \in Number : GetEntry(i) \/ \E c \in Child : GetChild(i, c)
<1>1. TableInv => [Reading => Dict' = Dict]_vars
  BY ReadingStep
<1> QED BY <1>1, TableInvariance, PTL DEF ReadingLeavesNoTrace

=============================================================================
