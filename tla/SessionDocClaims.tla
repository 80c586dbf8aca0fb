-------------------------- MODULE SessionDocClaims --------------------------
(***************************************************************************)
(* What a docstring says of set transactions and the code does not do: the *)
(* property is expected to be violated.                                    *)
(***************************************************************************)
EXTENDS SessionTransactions, TLC

Symmetry == Permutations(Serial)

\* Session.set_transaction "bundles all node set commands into a single
\* transaction": whatever the queue of a tree of the session has received
\* within the block is in the bundle, the settings lists of _send_set_list
\* ("In case of an active transaction, the settings will be put into it")
\* included.  Transaction.add_raw_list does not call the callback, so that a
\* list is in the queue of its tree alone, which is thrown away when the
\* block ends.
BundleHoldsEverySet ==
  Multi \in started =>
    \A t \in SessionTrees \cap forward : Entries(t) \subseteq Entries(Multi)

=============================================================================
