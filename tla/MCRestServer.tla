---------------------------- MODULE MCRestServer ----------------------------
(***************************************************************************)
(* RestServer on small instances: c1 waits for its answers, c2 does not    *)
(* and sends everything the parser tells apart.                            *)
(***************************************************************************)
EXTENDS RestServer

MCKind == [c \in Client |-> IF c \in Patient THEN {"get", "post", "bad"} ELSE AllKinds]

=============================================================================
