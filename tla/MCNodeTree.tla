----------------------------- MODULE MCNodeTree -----------------------------
(* A tree that hides "dev", with two numbered nodes, one of which begins    *)
(* with the text of the other, a Python keyword, two nodes of another       *)
(* prefix, one of which ends in an underscore, and a node whose prefix is   *)
(* the first element of others.                                             *)
EXTENDS NodeTree
MCKeyword == {"in"}
MCEscaped == [k \in MCKeyword |-> "in_"]
MCTrimmed == [e \in {"in_", "aux_"} |-> IF e = "in_" THEN "in" ELSE "aux"]
MCBegins == {<<"1", "10">>, <<"in", "in_">>, <<"aux", "aux_">>}
MCKnown == {<<"dev", "demods", "10">>, <<"dev", "in", "1">>, <<"zi", "1">>}
MCAddable == {<<"demods", "1">>, <<"dev", "demods", "1">>, <<"zi", "aux_">>}
MCAsked == {<<"demods", "1">>, <<"demods", "10">>, <<"in_", "1">>, <<"in">>}
=============================================================================
