-------------------------- MODULE MCNativeMailbox --------------------------
(* Three native writes on one mailbox, one of them refused by the control, *)
(* over a sequence space of three numbers.                                 *)
EXTENDS NativeMailbox

CONSTANTS w1, w2, w3
=============================================================================
