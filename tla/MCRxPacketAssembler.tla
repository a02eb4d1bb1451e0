------------------------ MODULE MCRxPacketAssembler ------------------------
(***************************************************************************)
(* Instance of RxPacketAssembler for TLC.                                  *)
(***************************************************************************)
EXTENDS RxPacketAssembler
=============================================================================
