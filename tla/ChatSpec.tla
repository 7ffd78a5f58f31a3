------------------------------ MODULE ChatSpec ------------------------------
(***************************************************************************)
(* What the chat server of src/cppdemo/asio_demo2.cc promises to the       *)
(* clients of one port, whatever its coroutines do inside: the lines form  *)
(* one history; a client that joins is sent a contiguous stretch of it, in *)
(* order and without holes, that starts at most Backlog lines before the   *)
(* moment it joined; once its session has left it is sent nothing more.    *)
(***************************************************************************)
EXTENDS Integers, Sequences

CONSTANTS
    Session,    \* the connections that may be accepted
    Message,    \* the lines that may be posted
    Backlog     \* how many old lines a newcomer is shown

VARIABLES
    running,    \* the server has not been told to stop
    history,    \* every line posted so far, oldest first
    members,    \* the sessions in the room
    start,      \* session -> how many lines of history precede its stretch, or NotJoined
    delivered   \* session -> the lines its client has been sent

vars == <<running, history, members, start, delivered>>

NotJoined == -1

Init ==
    /\ running = TRUE
    /\ history = <<>>
    /\ members = {}
    /\ start = [s \in Session |-> NotJoined]
    /\ delivered = [s \in Session |-> <<>>]

Join(s) ==
    /\ running
    /\ start[s] = NotJoined
    /\ members' = members \cup {s}
    /\ start' = [start EXCEPT ![s] = IF Len(history) > Backlog
                                     THEN Len(history) - Backlog ELSE 0]
    /\ UNCHANGED <<running, history, delivered>>

Post(m) ==
    /\ running
    /\ history' = Append(history, m)
    /\ UNCHANGED <<running, members, start, delivered>>

\* The next line of its stretch reaches the client of s.
Receive(s) ==
    LET next == start[s] + Len(delivered[s]) + 1 IN
    /\ running
    /\ s \in members
    /\ next \in 1..Len(history)
    /\ delivered' = [delivered EXCEPT ![s] = Append(@, history[next])]
    /\ UNCHANGED <<running, history, members, start>>

Leave(s) ==
    /\ running
    /\ s \in members
    /\ members' = members \ {s}
    /\ UNCHANGED <<running, history, start, delivered>>

Shutdown ==
    /\ running
    /\ running' = FALSE
    /\ UNCHANGED <<history, members, start, delivered>>

Next ==
    \/ \E s \in Session : Join(s) \/ Receive(s) \/ Leave(s)
    \/ \E m \in Message : Post(m)
    \/ Shutdown

Safety == Init /\ [][Next]_vars

\* A member is not left behind for ever.
Spec == Safety /\ \A s \in Session : WF_vars(Receive(s))

=============================================================================
