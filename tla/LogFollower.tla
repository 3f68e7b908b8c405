----------------------------- MODULE LogFollower -----------------------------
(***************************************************************************)
(* What a follower of a growing log promises: the log is totally ordered   *)
(* by Before and grows at its end; the follower hands on entries of the    *)
(* log, each step entries later than all it has handed on in this pass, so *)
(* that within a pass nothing comes twice or out of order.  Where it may   *)
(* start over, a new pass begins anywhere in the log; but what no pass has *)
(* handed on yet is still later than all that was.  A follower may leave   *)
(* entries out (the daemon starts at the end of the file).                 *)
(***************************************************************************)
EXTENDS Naturals

CONSTANTS
  Entry,         (* the entries the log can have                           *)
  Before(_, _),  (* their order                                            *)
  MayStartOver   (* the follower may begin a new pass                      *)

VARIABLES
  written,       (* entries in the log                                     *)
  handed,        (* handed[e]: how often e was handed on, in all passes    *)
  pass           (* entries handed on in this pass                         *)

Init == written \subseteq Entry /\ handed = [e \in Entry |-> 0] /\ pass = {}

\* The log grows by an entry later than all it holds.
Grow ==
  \E e \in Entry \ written :
    /\ \A w \in written : Before(w, e)
    /\ written' = written \cup {e}
    /\ UNCHANGED <<handed, pass>>

\* Entries are handed on, later than those of this pass, and those among them
\* that are new later than all that were ever handed on.
HandOn ==
  \E es \in SUBSET written :
    /\ \A e \in es : \A s \in pass : Before(s, e)
    /\ \A e \in es : \A s \in Entry : handed[e] = 0 /\ handed[s] > 0 => Before(s, e)
    /\ handed' = [e \in Entry |-> IF e \in es THEN handed[e] + 1 ELSE handed[e]]
    /\ pass' = pass \cup es
    /\ UNCHANGED written

\* The next entry handed on may be any of the log.
StartOver ==
  /\ MayStartOver
  /\ pass' = {}
  /\ UNCHANGED <<written, handed>>

Next == Grow \/ HandOn \/ StartOver

Spec == Init /\ [][Next]_<<written, handed, pass>>
=============================================================================
