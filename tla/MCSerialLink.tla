---------------------------- MODULE MCSerialLink ----------------------------
(***************************************************************************)
(* Instances of SerialLink for TLC.  The configurations give the constants *)
(* small sets of model values; ports and wait objects are interchangeable. *)
(***************************************************************************)
EXTENDS SerialLink, TLC

Interchangeable == Permutations(Ports) \cup Permutations(Handles)
=============================================================================
