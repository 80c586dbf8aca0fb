--------------------------- MODULE MCCommandTable ---------------------------
(* Two indices, one of them out of range, one child with two attributes of *)
(* which one is required.  The documents: any header of at most two names, *)
(* no item, one of any kind, or two for one child, also for one attribute. *)
EXTENDS CommandTable
Version == [attr : {"version"}, val : Value]
Unknown == [attr : {"unknown"}, val : {"valid"}]
Headers == {<< >>} \cup {<<v>> : v \in Version} \cup {<<v, u>> : v \in Version, u \in Unknown}
Item == [number : Number, child : Child, attr : Attr \cup {"unknown"}, val : Value]
ItemOf(a, v) == [number |-> 0, child |-> "amplitude", attr |-> a, val |-> v]
Items == {<< >>} \cup {<<w>> : w \in Item}
         \cup {<<ItemOf("value", "valid"), ItemOf("increment", v)>> : v \in Value}
         \cup {<<ItemOf("value", u), ItemOf("value", v)>> : u, v \in Value}
MCDocument == {[header |-> h, hasTable |-> TRUE, items |-> s] : h \in Headers, s \in Items}
              \cup {[header |-> h, hasTable |-> FALSE, items |-> << >>] : h \in Headers}
MCNumber == {0, 4096}
MCInRange == {0}
MCChild == {"amplitude"}
MCAttr == {"value", "increment"}
MCRequired == {"value"}
=============================================================================
