---------------------------- MODULE CommandTable ----------------------------
(***************************************************************************)
(* The command table of an AWG: command_table.py of the toolkit.           *)
(*                                                                         *)
(* A CommandTable is a header and a list of entries; an entry has children *)
(* (amplitude, phase, waveform, ...) and a child has attributes.  Entries  *)
(* and children are created when they are first read.  Every object has a  *)
(* flag of its own that says whether it validates what is written to it:   *)
(* it is copied from the parent when the object is created, and switching  *)
(* active_validation reaches the table and the header only.                *)
(*                                                                         *)
(* A value is reduced to whether the schema of its attribute accepts it.   *)
(* An update is taken step by step: one attribute of the given JSON        *)
(* document is written per step, and any of them may raise.                *)
(***************************************************************************)
EXTENDS Naturals, Sequences

CONSTANTS
  Number,      \* the indices the program uses ...
  InRange,     \* ... and those the schema accepts
  Child,       \* the children of an entry
  Attr,        \* the attributes of a child ...
  Required,    \* ... and those the schema requires
  Document,    \* the JSON documents given to update
  NoEntry,     \* what is at the number of an entry ...
  NoChild      \* ... and the name of a child that was never read

Absent == "absent"
Value == {"valid", "invalid"}

\* A child and an entry once they were read; and what a document writes to the
\* header and to the entries, where any name may be one that is not known.
ChildType == [active : BOOLEAN, props : [Attr -> Value \cup {Absent}]]
EntryType == [active : BOOLEAN, childs : [Child -> ChildType \cup {NoChild}]]
HeaderItem == [attr : {"version", "unknown"}, val : Value \cup {Absent}]
TableStep == [hasTable : BOOLEAN]
TableItem == [number : Number, child : Child, attr : Attr \cup {"unknown"},
              val : Value \cup {Absent}]
WriteType == HeaderItem \cup TableStep \cup TableItem

ASSUME SchemaAssumption ==
  /\ InRange \subseteq Number /\ Required \subseteq Attr
  /\ NoChild \notin ChildType /\ NoEntry \notin EntryType

ASSUME DocumentAssumption ==
  \A doc \in Document : /\ doc.header \in Seq(HeaderItem)
                        /\ doc.hasTable \in BOOLEAN
                        /\ doc.items \in Seq(TableItem)

Unread == [c \in Child |-> NoChild]
Bare == [a \in Attr |-> Absent]

VARIABLES
  active,      \* CommandTable._active_validation
  header,      \* the flag of the header and its version
  table,       \* the flag of the list of entries
  entries,     \* the entries by number
  update,      \* the update in progress, or the last one
  result,      \* how the last call ended
  fresh        \* the entries created since active_validation was switched
calls == <<active, header, table, entries, update, result>>
vars == <<calls, fresh>>

\* An update: what is left to write, what was asked for, whether the document
\* was validated at the start, and whether an entry has been written to.
NoUpdate == [running |-> FALSE, todo |-> << >>, writes |-> << >>,
             validated |-> FALSE, touched |-> FALSE]

Init ==
  /\ active \in BOOLEAN
  /\ header = [active |-> active, version |-> "valid"]
  /\ table = active
  /\ entries = [i \in Number |-> NoEntry]
  /\ update = NoUpdate
  /\ result = "done"
  /\ fresh = {}

-----------------------------------------------------------------------------
(* Reading and writing of single objects.  Each returns the entries after. *)

WithEntry(es, i) ==
  IF es[i] # NoEntry THEN es
  ELSE [es EXCEPT ![i] = [active |-> table, childs |-> Unread]]

WithChild(es, i, c) ==
  IF es[i].childs[c] # NoChild THEN es
  ELSE [es EXCEPT ![i].childs[c] = [active |-> es[i].active, props |-> Bare]]

\* Mutant of WithAttr: existing attributes are kept.
WithAttrKept(es, i, c, a, v) ==
  IF es[i].childs[c].props[a] # Absent /\ v # Absent THEN es
  ELSE [es EXCEPT ![i].childs[c].props[a] = v]

WithAttr(es, i, c, a, v) == [es EXCEPT ![i].childs[c].props[a] = v]

\* An index is validated when the entry is created, never afterwards.
IndexRefused(i) == entries[i] = NoEntry /\ table /\ i \notin InRange

\* A value is validated by the flag of the object it is written to; None
\* (Absent) removes the attribute and is not validated.
Refused(flag, v) == flag /\ v = "invalid"

\* What as_dict gives: children without attributes and entries without such
\* children are left out.
ListedChilds(i) ==
  {c \in Child : entries[i].childs[c] # NoChild /\ entries[i].childs[c].props # Bare}
\* Mutant of Listed: as_list keeps the entries that are empty.
ListedEmpty(i) == entries[i] # NoEntry
Listed(i) == entries[i] # NoEntry /\ ListedChilds(i) # {}
Dict ==
  [version |-> header.version,
   table   |-> [i \in {n \in Number : Listed(n)} |->
                  [c \in ListedChilds(i) |-> entries[i].childs[c].props]]]

ValidChild(props) ==
  /\ \A a \in Attr : props[a] # "invalid"
  /\ \A a \in Required : props[a] # Absent
ValidDict(dict) ==
  /\ dict.version = "valid"
  /\ \A i \in DOMAIN dict.table :
       i \in InRange /\ \A c \in DOMAIN dict.table[i] : ValidChild(dict.table[i][c])

-----------------------------------------------------------------------------
(* The calls of a program.  None is made while an update runs.             *)

Idle == ~update.running
Ends(how) == result' = how

\* Mutant of SetActiveValidation: the list of entries is not reached.
SetActiveValidationHeaderOnly(v) ==
  /\ Idle
  /\ active' = v
  /\ header' = [header EXCEPT !.active = v]
  /\ Ends("done")
  /\ update' = NoUpdate /\ UNCHANGED <<table, entries>>

SetActiveValidation(v) ==
  /\ Idle
  /\ active' = v /\ table' = v
  /\ header' = [header EXCEPT !.active = v]
  /\ Ends("done")
  /\ update' = NoUpdate /\ UNCHANGED entries

Clear ==
  /\ Idle
  /\ header' = [active |-> active, version |-> "valid"]
  /\ table' = active
  /\ entries' = [i \in Number |-> NoEntry]
  /\ Ends("done")
  /\ update' = NoUpdate /\ UNCHANGED active

\* header.version = v, header.version = None and header.clear().
WriteHeader(v) ==
  /\ Idle
  /\ IF Refused(header.active, v)
     THEN Ends("ValidationError") /\ UNCHANGED header
     ELSE Ends("done") /\ header' = [header EXCEPT !.version = v]
  /\ update' = NoUpdate /\ UNCHANGED <<active, table, entries>>

GetEntry(i) ==
  /\ Idle
  /\ IF IndexRefused(i)
     THEN Ends("ValidationError") /\ UNCHANGED entries
     ELSE Ends("done") /\ entries' = WithEntry(entries, i)
  /\ update' = NoUpdate /\ UNCHANGED <<active, header, table>>

GetChild(i, c) ==
  /\ Idle /\ entries[i] # NoEntry
  /\ entries' = WithChild(entries, i, c)
  /\ Ends("done")
  /\ update' = NoUpdate /\ UNCHANGED <<active, header, table>>

SetAttr(i, c, a, v) ==
  /\ Idle /\ entries[i] # NoEntry /\ entries[i].childs[c] # NoChild
  /\ IF Refused(entries[i].childs[c].active, v)
     THEN Ends("ValidationError") /\ UNCHANGED entries
     ELSE Ends("done") /\ entries' = WithAttr(entries, i, c, a, v)
  /\ update' = NoUpdate /\ UNCHANGED <<active, header, table>>

\* entry.child = None
RemoveChild(i, c) ==
  /\ Idle /\ entries[i] # NoEntry /\ entries[i].childs[c] # NoChild
  /\ entries' = [entries EXCEPT ![i].childs[c] = NoChild]
  /\ Ends("done")
  /\ update' = NoUpdate /\ UNCHANGED <<active, header, table>>

\* ParentEntry.clear of an entry, or of one of its children: the flag stays.
ClearObject(i) ==
  /\ Idle /\ entries[i] # NoEntry
  /\ \/ entries' = [entries EXCEPT ![i].childs = Unread]
     \/ \E c \in Child :
          /\ entries[i].childs[c] # NoChild
          /\ entries' = [entries EXCEPT ![i].childs[c].props = Bare]
  /\ Ends("done")
  /\ update' = NoUpdate /\ UNCHANGED <<active, header, table>>

DeleteEntry(i) ==
  /\ Idle /\ entries[i] # NoEntry
  /\ entries' = [entries EXCEPT ![i] = NoEntry]
  /\ Ends("done")
  /\ update' = NoUpdate /\ UNCHANGED <<active, header, table>>

AsDict ==
  /\ Idle
  /\ Ends(IF active /\ ~ValidDict(Dict) THEN "ValidationError" ELSE "dict")
  /\ update' = NoUpdate /\ UNCHANGED <<active, header, table, entries>>

\* is_valid forces the flag on around as_dict and puts it back.
IsValid ==
  /\ Idle
  /\ Ends(IF ValidDict(Dict) THEN "is valid" ELSE "is invalid")
  /\ update' = NoUpdate /\ UNCHANGED <<active, header, table, entries>>

-----------------------------------------------------------------------------
(* update: a document has a header, written first, and items, each with    *)
(* an index, a child, an attribute and a value, in the order of the JSON   *)
(* text.  The schema requires neither the table nor that a name in the     *)
(* header is known, but update does.                                       *)

\* Mutant of ValidDocument: the items are not looked at.
ValidDocumentHeaderOnly(doc) ==
  /\ \A k \in DOMAIN doc.header : doc.header[k].val = "valid"
  /\ \E k \in DOMAIN doc.header : doc.header[k].attr = "version"

ValidDocument(doc) ==
  /\ \A k \in DOMAIN doc.header : doc.header[k].val = "valid"
  /\ \E k \in DOMAIN doc.header : doc.header[k].attr = "version"
  /\ \A k \in DOMAIN doc.items :
       LET w == doc.items[k] IN
       /\ w.number \in InRange /\ w.attr \in Attr /\ w.val = "valid"
       /\ \A a \in Required : \E l \in DOMAIN doc.items :
            doc.items[l] = [w EXCEPT !.attr = a]

\* The writes of a document; the step between header and items reads "table".
Writes(doc) == doc.header \o <<[hasTable |-> doc.hasTable]>> \o doc.items

StartUpdate(doc) ==
  /\ Idle
  /\ IF active /\ ~ValidDocument(doc)
     THEN Ends("ValidationError") /\ update' = NoUpdate
     ELSE /\ update' = [running |-> TRUE, todo |-> Writes(doc), writes |-> Writes(doc),
                        validated |-> active, touched |-> FALSE]
          /\ Ends("done")
  /\ UNCHANGED <<active, header, table, entries>>

Write == Head(update.todo)
IsItem(w) == "number" \in DOMAIN w
IsTable(w) == "hasTable" \in DOMAIN w
SamePlace(w, x) == w.number = x.number /\ w.child = x.child /\ w.attr = x.attr
More == update.running /\ update.todo # << >>
Proceed == update' = [update EXCEPT !.todo = Tail(@), !.touched = @ \/ IsItem(Write)]
Fail(how) ==
  Ends(how) /\ update' = [update EXCEPT !.running = FALSE, !.touched = @ \/ IsItem(Write)]

BuildHeader ==
  /\ More /\ ~IsItem(Write) /\ ~IsTable(Write)
  /\ IF Write.attr # "version"
     THEN Fail("AttributeError") /\ UNCHANGED header
     ELSE IF Refused(header.active, Write.val)
     THEN Fail("ValidationError") /\ UNCHANGED header
     ELSE Proceed /\ header' = [header EXCEPT !.version = Write.val] /\ UNCHANGED result
  /\ UNCHANGED <<active, table, entries>>

FindTable ==
  /\ More /\ IsTable(Write)
  /\ IF Write.hasTable THEN Proceed /\ UNCHANGED result ELSE Fail("KeyError")
  /\ UNCHANGED <<active, header, table, entries>>

\* self._table[index], getattr of the child, setattr of the attribute: the
\* objects stay created although the last of them may raise.
BuildNode ==
  /\ More /\ IsItem(Write)
  /\ IF IndexRefused(Write.number)
     THEN Fail("ValidationError") /\ UNCHANGED entries
     ELSE LET es == WithChild(WithEntry(entries, Write.number), Write.number, Write.child)
              child == es[Write.number].childs[Write.child] IN
          IF Write.attr \notin Attr
          THEN Fail("AttributeError") /\ entries' = es
          ELSE IF Refused(child.active, Write.val)
          THEN Fail("ValidationError") /\ entries' = es
          ELSE /\ entries' = WithAttr(es, Write.number, Write.child, Write.attr, Write.val)
               /\ Proceed /\ UNCHANGED result
  /\ UNCHANGED <<active, header, table>>

EndUpdate ==
  /\ update.running /\ update.todo = << >>
  /\ Ends("updated")
  /\ update' = [update EXCEPT !.running = FALSE]
  /\ UNCHANGED <<active, header, table, entries>>

Calls ==
  \/ \E v \in BOOLEAN : SetActiveValidation(v)
  \/ Clear
  \/ \E v \in Value \cup {Absent} : WriteHeader(v)
  \/ \E i \in Number :
       \/ GetEntry(i)
       \/ \E c \in Child : GetChild(i, c) \/ RemoveChild(i, c)
       \/ \E c \in Child, a \in Attr, v \in Value \cup {Absent} : SetAttr(i, c, a, v)
       \/ ClearObject(i)
       \/ DeleteEntry(i)
  \/ AsDict
  \/ IsValid
  \/ \E doc \in Document : StartUpdate(doc)
  \/ BuildHeader
  \/ FindTable
  \/ BuildNode
  \/ EndUpdate

\* fresh is a history variable: the step it observes does not look at it.
Remember ==
  fresh' = IF active' # active THEN {}
           ELSE {i \in Number : entries'[i] # NoEntry /\ (entries[i] = NoEntry \/ i \in fresh)}

Next == Calls /\ Remember
Spec == Init /\ [][Next]_vars

-----------------------------------------------------------------------------
(* Properties.                                                             *)

\* Every object is what the program takes it for, and the flags of the table
\* and of the header are those of the CommandTable.
TableOK ==
  /\ active \in BOOLEAN /\ table = active
  /\ header \in [active : {active}, version : Value \cup {Absent}]
  /\ entries \in [Number -> EntryType \cup {NoEntry}]
  /\ update \in [running : BOOLEAN, todo : Seq(WriteType), writes : Seq(WriteType),
                validated : BOOLEAN, touched : BOOLEAN]
  /\ result \in {"done", "dict", "is valid", "is invalid", "updated",
                "ValidationError", "AttributeError", "KeyError"}

TypeOK == TableOK /\ fresh \subseteq Number

\* While a table validates, the entries created since validation was switched
\* on hold no value that the schema refuses, whichever of their children are
\* read, written, removed or updated, and wherever an update fails ("each time
\* a table entry is accessed, the values are validated").
ActiveEntriesHoldValid ==
  active => \A i \in fresh, c \in Child : entries[i].childs[c] # NoChild =>
              \A a \in Attr : entries[i].childs[c].props[a] # "invalid"

\* An update that was validated writes to no entry unless it writes them all:
\* once validated it can only fail at the header or for want of a table.
ValidatedUpdateIsWhole ==
  update.validated /\ update.touched /\ ~update.running => result = "updated"

\* After an update the table has every value of the document, the last one where
\* the document has several for one place, whatever was there before.
UpdateArrives ==
  result = "updated" => \A k \in DOMAIN update.writes :
    LET w == update.writes[k] IN
    IsItem(w) /\ (\A l \in DOMAIN update.writes :
                    l > k /\ IsItem(update.writes[l]) => ~SamePlace(w, update.writes[l]))
      => entries[w.number].childs[w.child].props[w.attr] = w.val

\* Looking at an entry or a child creates it, but as_dict gives the same table
\* as before.
ReadingLeavesNoTrace ==
  [][(\E i \in Number : GetEntry(i) \/ \E c \in Child : GetChild(i, c)) => Dict' = Dict]_vars

=============================================================================
