--------------------------- MODULE MCPortResources ---------------------------
(***************************************************************************)
(* Instance of PortResources for TLC.                                      *)
(***************************************************************************)
EXTENDS PortResources
=============================================================================
