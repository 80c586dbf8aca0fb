----------------------- MODULE MCSessionTransactions -----------------------
(* Two devices, small bounds: instances of SessionTransactions for TLC. *)
EXTENDS SessionTransactions, TLC

Symmetry == Permutations(Serial)

=============================================================================
