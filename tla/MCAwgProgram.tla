---------------------------- MODULE MCAwgProgram ----------------------------
(* Two slots, lengths 0 to 3 and compiled lengths in steps of 2. *)
EXTENDS AwgProgram

Array(n, c, b) == [is |-> "array", len |-> n, complex |-> c, bits |-> b]
List(n)        == [Array(n, FALSE, {}) EXCEPT !.is = "list"]

\* A wave, a pair, markers on both channels, a complex wave with markers as
\* second part, one that does not fit a multiple of 2, an empty one with empty
\* markers; a list, markers of another length, a complex pair, four parts.
MCValue == {
  <<Array(2, FALSE, {})>>,
  <<Array(2, FALSE, {}), Array(2, FALSE, {}), Array(2, FALSE, {1, 2})>>,
  <<Array(2, TRUE, {}), Array(2, FALSE, {1})>>,
  <<Array(3, FALSE, {}), NoPart, Array(3, FALSE, {2})>>,
  <<Array(0, FALSE, {}), NoPart, Array(0, FALSE, {})>>,
  <<Array(2, FALSE, {}), List(2)>>,
  <<Array(2, FALSE, {}), NoPart, Array(3, FALSE, {1})>>,
  <<Array(2, TRUE, {}), Array(2, FALSE, {}), NoPart>>,
  <<NoPart, NoPart, NoPart, NoPart>>}

MCCode == {[lines |-> <<>>, own |-> <<>>],
           [lines |-> << <<<<"a", 1>>>>, <<<<"b", 1>>>>, <<<<"a", 1>>>> >>,
            own |-> <<"playWave">>],
           [lines |-> << <<<<"a", 1>>, <<"b", 1>>>> >>, own |-> <<"wave">>]}

MCConstants == {<< <<"a", 2>>, <<"b", 2>> >>}

=============================================================================
