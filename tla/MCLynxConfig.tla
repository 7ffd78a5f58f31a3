---------------------------- MODULE MCLynxConfig ----------------------------
(* LynxConfig with a port inside and one outside the range, a value of pi   *)
(* with seven digits beside the default with five, and one environment.     *)
EXTENDS LynxConfig

MCPort == {80, 8888}
MCPi == {3141593}
MCEnv == {"", "dev"}

=============================================================================
