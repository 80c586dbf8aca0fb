--------------------------- MODULE SettingBlocks ---------------------------
(***************************************************************************)
(* What "with set_transaction()" promises its user, for a device block and *)
(* for a session block alike (the docstrings of NodeTree.set_transaction   *)
(* and Session.set_transaction): the set commands issued within the block  *)
(* are held back and handed to the data server as one list when the block  *)
(* ends normally; none of them is applied when the block raises; outside   *)
(* of a block a command goes to the data server at once.  The exception is *)
(* that the data server refuses the list, which raises.                    *)
(*                                                                         *)
(* A block covers a set of node trees.  A command belongs to the innermost *)
(* open block that covers its tree.                                        *)
(***************************************************************************)
EXTENDS Naturals, Sequences

CONSTANTS
  Trees,    \* the node trees commands are issued on
  Commands  \* the set commands, records with the tree they are issued on

VARIABLES
  open,     \* blocks entered and not left: the trees covered, the commands held
  count,    \* number of commands issued
  applied,  \* lists of commands the data server has applied, in order
  ending    \* how the last command, or the last block, ended

absVars == <<open, count, applied, ending>>

Covering(t) == {i \in DOMAIN open : t \in open[i].scope}

InnermostCovering(t) ==
  CHOOSE i \in Covering(t) : \A j \in Covering(t) : j <= i

AbsInit == open = <<>> /\ count = 0 /\ applied = <<>> /\ ending = "none"

OpenBlock(scope) ==
  /\ open' = Append(open, [scope |-> scope, held |-> <<>>])
  /\ UNCHANGED <<count, applied, ending>>

Hold(c) ==
  /\ Covering(c.tree) # {}
  /\ open' = [open EXCEPT ![InnermostCovering(c.tree)].held = Append(@, c)]
  /\ count' = count + 1 /\ ending' = "done"
  /\ UNCHANGED applied

\* The data server may refuse a command, or a list.  Then nothing of it is
\* applied, and the program is told.
ApplyNow(c) ==
  /\ Covering(c.tree) = {}
  /\ \/ applied' = Append(applied, <<c>>) /\ ending' = "done"
     \/ UNCHANGED applied /\ ending' = "refused"
  /\ count' = count + 1
  /\ UNCHANGED open

LeaveBlock ==
  /\ open # <<>>
  /\ open' = SubSeq(open, 1, Len(open) - 1)
  /\ UNCHANGED count

\* The block ends normally: all it held is applied.
CommitBlock ==
  /\ LeaveBlock
  /\ LET held == open[Len(open)].held
     IN  applied' = IF held = <<>> THEN applied ELSE Append(applied, held)
  /\ ending' = "done"

RefuseBlock == LeaveBlock /\ UNCHANGED applied /\ ending' = "refused"

\* The program raises within the block: nothing it held is applied.
AbortBlock == LeaveBlock /\ UNCHANGED applied /\ ending' = "raised"

AbsNext ==
  \/ \E scope \in SUBSET Trees : OpenBlock(scope)
  \/ \E c \in Commands : Hold(c) \/ ApplyNow(c)
  \/ CommitBlock \/ RefuseBlock \/ AbortBlock

AbsSpec == AbsInit /\ [][AbsNext]_absVars

=============================================================================
