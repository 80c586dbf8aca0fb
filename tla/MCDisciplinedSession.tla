------------------------ MODULE MCDisciplinedSession ------------------------
(* Instances of DisciplinedSession for TLC. *)
EXTENDS DisciplinedSession, TLC

Symmetry == Permutations(Serial)

=============================================================================
