----------------------------- MODULE MCPblogTool -----------------------------
(* Instances of PblogTool for TLC: -n invalid, left out, in range and above *)
(* the cap; or -n 5.                                                        *)
EXTENDS PblogTool

AnyN   == {-1, 0, 2, 5}
AskFive == {5}
=============================================================================
