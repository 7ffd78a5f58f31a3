--------------------------- MODULE MCReplSessions ---------------------------
(* ReplSessions on small instances; the .cfg gives the constants. *)
EXTENDS ReplSessions

=============================================================================
