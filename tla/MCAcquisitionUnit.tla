------------------------- MODULE MCAcquisitionUnit -------------------------
(* Instances of AcquisitionUnit for TLC. *)
EXTENDS AcquisitionUnit
=============================================================================
