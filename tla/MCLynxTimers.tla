---------------------------- MODULE MCLynxTimers ----------------------------
(* LynxTimers with the first count of the code and a short second one. *)
EXTENDS LynxTimers

=============================================================================
