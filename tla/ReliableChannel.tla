-------------------------- MODULE ReliableChannel --------------------------
(***************************************************************************)
(* What a reliable XRCE stream promises its user, without sequence         *)
(* numbers, windows, heartbeats or acknowledgements: the messages accepted *)
(* by push_submessage are handed to the other side's message handler each  *)
(* exactly once, in the order they were accepted, and after they were      *)
(* accepted.  One push accepts a burst (the fragments of one submessage),  *)
(* and one arrival may release several messages that were waiting for it.  *)
(***************************************************************************)
EXTENDS Naturals, Sequences

VARIABLES
    accepted,   \* every message push_submessage took, in order
    handed      \* every message process_input_message was given, in order

Init == accepted = <<>> /\ handed = <<>>

Accept == /\ Len(accepted') > Len(accepted)
          /\ SubSeq(accepted', 1, Len(accepted)) = accepted
          /\ UNCHANGED handed

Hand == /\ Len(handed') \in (Len(handed) + 1) .. Len(accepted)
        /\ handed' = SubSeq(accepted, 1, Len(handed'))
        /\ UNCHANGED accepted

Next == Accept \/ Hand

Spec == Init /\ [][Next]_<<accepted, handed>>
=============================================================================
