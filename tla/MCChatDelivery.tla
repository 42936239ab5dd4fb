--------------------------- MODULE MCChatDelivery ---------------------------
(* ChatDelivery for TLC. *)
EXTENDS ChatDelivery
=============================================================================
