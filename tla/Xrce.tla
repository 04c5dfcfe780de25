-------------------------------- MODULE Xrce --------------------------------
(***************************************************************************)
(* What travels over XRCE and what it asks for, side by side: single       *)
(* objects of every class of the wire types (XrceCodec), whole messages    *)
(* (XrceMessage), and the objects a client creates (XrceObjects).  They    *)
(* share no variable; part names the one that moves.                       *)
(***************************************************************************)
EXTENDS XrceCodec, XrceMessage, MCXrceObjects

VARIABLE part

xrce_vars == <<part, codec_vars, message_vars, objects_vars>>

\* The codec is at rest while another part moves.
CodecRests ==
    /\ cls = "Time_t" /\ v = <<>> /\ at = 0 /\ e = "little"
    /\ pc = "built" /\ size = 0 /\ buf = <<>> /\ back = Nothing /\ copy = <<>>

XrceInit ==
    /\ part \in {"type", "message", "objects"}
    /\ IF part = "type" THEN CodecInit ELSE CodecRests
    /\ MessageInit
    /\ ObjectsInit

XrceNext ==
    \/ part = "type" /\ CodecNext /\ UNCHANGED <<part, message_vars, objects_vars>>
    \/ part = "message" /\ MessageNext /\ UNCHANGED <<part, codec_vars, objects_vars>>
    \/ part = "objects" /\ ObjectsNext /\ UNCHANGED <<part, codec_vars, message_vars>>

XrceSpec == XrceInit /\ [][XrceNext]_xrce_vars
=============================================================================
