----------------------------- MODULE MCModKafka ------------------------------
(* Instances of ModKafka for TLC: records are numbers; 4 is a session log,  *)
(* 7 does not convert.                                                      *)
EXTENDS ModKafka

MCLog == 1 .. 7
MCRequest == MCLog \ {4}
MCUnconvertible == {7}

\* Three goroutines that together overfill a channel for two.
ThreeUpdaters == 1 .. 3
FewLogs == <<<<1, 4>>, <<2, 7>>, <<3>>>>

\* Two goroutines that fill a batch of two twice.
TwoUpdaters == 1 .. 2
ManyLogs == <<<<1, 2, 3>>, <<5>>>>

\* Two goroutines that leave an incomplete batch of two.
LiveLog == 1 .. 3
LiveLogs == <<<<1, 2>>, <<3>>>>
=============================================================================
