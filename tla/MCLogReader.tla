----------------------------- MODULE MCLogReader -----------------------------
(* Instances of LogReader for TLC: the second record of file 2 does not     *)
(* decode.                                                                  *)
EXTENDS LogReader

OneBad == {<<2, 3>>}
=============================================================================
