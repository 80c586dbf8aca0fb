---------------------------- MODULE MCStateWait ----------------------------
(* Small instances of StateWait for TLC: numbered values, of which the last *)
(* one is no option of the enumeration.                                    *)
EXTENDS StateWait
=============================================================================
