----------------------------- MODULE MCPtydFlow -----------------------------
(* Instances of PtydFlow for TLC.                                          *)
EXTENDS PtydFlow

AllHearAll == Client \X Term
=============================================================================
