--------------------------- MODULE MCLynxShutdown ---------------------------
(* LynxShutdown with every kind of byte the keyboard thread distinguishes. *)
EXTENDS LynxShutdown

MCByte == AllBytes

=============================================================================
