---------------------------- MODULE MCThreadView ----------------------------
(* One message composed here, in a conversation of three. *)
EXTENDS ThreadView

CONSTANT k1
=============================================================================
