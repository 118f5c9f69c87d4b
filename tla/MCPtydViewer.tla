---------------------------- MODULE MCPtydViewer ----------------------------
(* Instances of PtydViewer for TLC.                                        *)
EXTENDS PtydViewer

OneSize == {1}
TwoSizes == {1, 2}

\* What the daemon is observed to have told is not what the views show.
Unobserved == <<threadVars, clientVars, handler, pipe>>
=============================================================================
