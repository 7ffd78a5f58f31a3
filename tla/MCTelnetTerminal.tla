-------------------------- MODULE MCTelnetTerminal --------------------------
(* TelnetTerminal on small instances. *)
EXTENDS TelnetTerminal

\* "A" also ends the up key.
MCChar == {"A", " "}
MCSuggestions == {<<"A">>, <<"A", " ", "A">>}

=============================================================================
