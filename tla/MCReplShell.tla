---------------------------- MODULE MCReplShell ----------------------------
(* ReplShell on small instances: two sessions, one with the smaller history. *)
EXTENDS ReplShell

MCSize == [s \in Session |-> IF s = "s1" THEN 2 ELSE 3]
MCLines == {<<"color">>, <<"nocolor">>, <<"removecmds">>, <<"sub", "subsub">>, <<"..">>,
            <<"!", "0">>, <<"!", "1">>, <<"exit">>}
MCDrafts == {<<>>, <<"!", "0">>}

=============================================================================
