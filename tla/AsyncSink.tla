------------------------------ MODULE AsyncSink ------------------------------
(***************************************************************************)
(* What an output module promises the read loop: offering a message never  *)
(* blocks and may be refused; an accepted message is handled once, in the  *)
(* order of acceptance; and once the module has been asked to close, its   *)
(* worker does not end before everything accepted by then is handled.      *)
(* ("Handled" is an attempt to store it downstream: that attempt may fail.) *)
(***************************************************************************)
EXTENDS Naturals, Sequences

CONSTANT Msg

VARIABLES
  accepted,   (* messages accepted so far, in order                        *)
  handled,    (* messages handled so far, in order                         *)
  due,        (* set of lengths: {} while open, {Len(accepted)} at closing *)
  ended       (* the worker has ended                                      *)

Init == accepted = <<>> /\ handled = <<>> /\ due = {} /\ ended = FALSE

Accept ==
  /\ \E m \in Msg : accepted' = Append(accepted, m)
  /\ UNCHANGED <<handled, due, ended>>

Handle ==
  /\ ~ended
  /\ \E n \in (Len(handled) + 1) .. Len(accepted) : handled' = SubSeq(accepted, 1, n)
  /\ UNCHANGED <<accepted, due, ended>>

RequestClose ==
  /\ due = {}
  /\ due' = {Len(accepted)}
  /\ UNCHANGED <<accepted, handled, ended>>

\* The last batch may be handled in the step in which the worker ends.
End ==
  /\ ~ended /\ ended'
  /\ due # {}
  /\ \E n \in Len(handled) .. Len(accepted) : handled' = SubSeq(accepted, 1, n)
  /\ \A n \in due : n <= Len(handled')
  /\ UNCHANGED <<accepted, due>>

Next == Accept \/ Handle \/ RequestClose \/ End

Spec == Init /\ [][Next]_<<accepted, handled, due, ended>>
=============================================================================
