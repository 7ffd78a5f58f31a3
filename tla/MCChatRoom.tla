----------------------------- MODULE MCChatRoom -----------------------------
(* ChatRoom on a small instance; the .cfg gives the constants. *)
EXTENDS ChatRoom

=============================================================================
