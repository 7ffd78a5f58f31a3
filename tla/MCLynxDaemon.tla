---------------------------- MODULE MCLynxDaemon ----------------------------
(* LynxDaemon with a bound on the signals. *)
EXTENDS LynxDaemon

=============================================================================
