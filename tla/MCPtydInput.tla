---------------------------- MODULE MCPtydInput ----------------------------
(* Instances of PtydInput for TLC.                                         *)
EXTENDS PtydInput

ChunkSizes == {1, 2}
=============================================================================
