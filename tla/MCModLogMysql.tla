---------------------------- MODULE MCModLogMysql ----------------------------
(* Instances of ModLogMysql for TLC: records are numbers; 4 is a session    *)
(* log, 7 makes no row; 1 and 3 share a key, and so do 2 and 5; 6 has none. *)
EXTENDS ModLogMysql

MCLog == 1 .. 7
MCRequest == MCLog \ {4}
MCUnconvertible == {7}
MCKeyOf == [r \in MCLog |-> IF r = 3 THEN 1 ELSE IF r = 5 THEN 2 ELSE r]

MCKeyless == {6}

\* Two goroutines that overfill the channel and fill a batch of two twice.
TwoUpdaters == 1 .. 2
ManyLogs == <<<<1, 4, 6>>, <<7, 3, 5>>>>
=============================================================================
