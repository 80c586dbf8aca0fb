------------------------- MODULE DisciplinedSession -------------------------
(***************************************************************************)
(* SessionTransactions used by a program that keeps four rules, and the    *)
(* proof obligation that under them set_transaction is what SettingBlocks  *)
(* promises.  Each rule avoids one way in which the code breaks that       *)
(* promise (SessionDocClaims shows what happens without the third):        *)
(*                                                                         *)
(*   1. a session block is not opened while a tree it would start has a    *)
(*      transaction of its own;                                            *)
(*   2. device objects are taken from session.devices each time, so that   *)
(*      an object the session has dropped is not used any more;            *)
(*   3. functions that hand over a settings list (_send_set_list) are not  *)
(*      called within a session block;                                     *)
(*   4. an HF2 device is not connected within a session block.             *)
(***************************************************************************)
EXTENDS SessionTransactions

RuledDeviceStep ==
  \E s \in Serial :
    \/ Lookup(s)
    \/ ConnectDevice(s) /\ (HF2 => ~InSession)
    \/ \E lowerCase \in BOOLEAN : DisconnectDevice(s, lowerCase)
    \/ OtherClient(s)

RuledSetStep ==
  \E t \in SessionTrees :
    \/ SetNode(t)
    \/ SendSetList(t) /\ ~InSession

RuledBlockStep ==
  \/ BeginSession \/ CommitSession \/ AbortSession
  \/ \E t \in SessionTrees : BeginTree(t) \/ BeginJoin(t)
  \/ CommitTree \/ AbortTree \/ EndJoin

RuledNext == RuledDeviceStep \/ RuledSetStep \/ RuledBlockStep

RuledSpec == Init /\ [][RuledNext]_vars

-----------------------------------------------------------------------------
(* Refinement mapping: a session block covers every tree and holds what is *)
(* in the multi transaction, a tree block covers its tree and holds the    *)
(* queue of that tree, a joined block covers nothing.                      *)

Scope(b) == CASE b.kind = "session" -> Tree
              [] b.kind = "tree"    -> {b.tree}
              [] b.kind = "join"    -> {}

Held(b) == CASE b.kind = "session" -> queue[Multi]
             [] b.kind = "tree"    -> queue[b.tree]
             [] b.kind = "join"    -> <<>>

Abstract == INSTANCE SettingBlocks
  WITH Trees <- Tree,
       Commands <- [id : 1..MaxSet, tree : Tree, list : BOOLEAN],
       open <- [i \in DOMAIN blocks |->
                  [scope |-> Scope(blocks[i]), held |-> Held(blocks[i])]],
       count <- issued,
       applied <- server,
       ending <- ended

\* A program that keeps the rules gets exactly the blocks it was promised:
\* a command issued in a block is held back with the others, in order; all of
\* them are applied when the block ends normally, and none when the program
\* raises within it or the data server refuses them.
ImplementsSettingBlocks == Abstract!AbsSpec

\* Once the last block has ended no transaction is left in progress that a
\* later set on the session or on one of its devices could fall into.
NothingLeftStarted ==
  blocks = <<>> => started \cap ({Multi} \cup SessionTrees) = {}

=============================================================================
