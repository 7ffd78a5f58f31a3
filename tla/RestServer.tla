----------------------------- MODULE RestServer -----------------------------
(***************************************************************************)
(* The REST server of lynx: src/lynx/rest_server.cpp gives it two routes,  *)
(* both found by a pattern, and 3rd/include/cinatra accepts connections    *)
(* (coro_http_server.hpp) and serves each in a coroutine of its own        *)
(* (coro_http_connection.hpp).  All of it runs on the thread of the        *)
(* io_context: a step is what runs from one suspension to the next.        *)
(*                                                                         *)
(* Requests arrive as the byte stream delivers them.  A head is two        *)
(* pieces, the second one ending in the blank line; a body is one piece.   *)
(* What matters of a piece is the request it belongs to.                   *)
(***************************************************************************)
EXTENDS Integers, Sequences, FiniteSets, SequencesExt

CONSTANTS
    Client,
    Patient,       \* clients that wait for an answer before the next request
    Kind,          \* Client -> the requests it sends, of AllKinds
    MaxOpen,       \* descriptors that are left for connections
    MaxRequests    \* bound: requests of one client

\* "last" asks for Connection: close; "post" has a body, "post0" an empty one;
\* the parser refuses "bad".
AllKinds == {"get", "last", "post", "post0", "bad"}

ASSUME RestAssumption ==
    /\ Patient \subseteq Client /\ Kind \in [Client -> SUBSET AllKinds]
    /\ MaxOpen \in Nat \ {0} /\ MaxRequests \in Nat

VARIABLES
    phase,        \* "running", or "stopped": stop(), and the event loop ends
    accepting,    \* the loop of accept() goes on
    client,       \* Client -> "idle", "connected", "closed", "reset"
    sent,         \* Client -> the kinds of its requests
    flight,       \* Client -> pieces the server has not read
    answers,      \* Client -> answers the server wrote, [n, status]
    open,         \* connections whose socket is open
    connections,  \* coro_http_server::connections_
    pc,           \* Client -> where start() of its connection is: "none" before it is
                  \* accepted, "start", "read", "body", "write", "done"
    buf,          \* Client -> head_buf_
    reply,        \* Client -> the answers of the write that is outstanding
    keepAlive     \* Client -> keep_alive_

netVars == <<client, sent, flight>>
connVars == <<pc, buf, reply, keepAlive>>
serverVars == <<phase, accepting>>
vars == <<serverVars, netVars, answers, open, connections, connVars>>

Piece(n, part) == [n |-> n, part |-> part]
Pieces(n, kind) ==
    <<Piece(n, "head"), Piece(n, "blank")>>
    \o (IF kind = "post" THEN <<Piece(n, "body")>> ELSE <<>>)
Answered(n, status) == [n |-> n, status |-> status]

Init ==
    /\ phase = "running" /\ accepting = TRUE
    /\ client = [c \in Client |-> "idle"]
    /\ sent = [c \in Client |-> <<>>]
    /\ flight = [c \in Client |-> <<>>]
    /\ answers = [c \in Client |-> <<>>]
    /\ open = {} /\ connections = {}
    /\ pc = [c \in Client |-> "none"]
    /\ buf = [c \in Client |-> <<>>]
    /\ reply = [c \in Client |-> <<>>]
    /\ keepAlive = [c \in Client |-> TRUE]

-----------------------------------------------------------------------------
(* The clients.                                                             *)

\* The kernel completes the connection; accept() takes it later.
Connect(c) ==
    /\ phase = "running" /\ client[c] = "idle"
    /\ client' = [client EXCEPT ![c] = "connected"]
    /\ UNCHANGED <<serverVars, sent, flight, answers, open, connections, connVars>>

Send(c, kind) ==
    /\ phase = "running" /\ client[c] = "connected"
    /\ pc[c] # "none" => c \in open
    /\ Len(sent[c]) < MaxRequests
    /\ c \in Patient => Len(answers[c]) = Len(sent[c])
    /\ sent' = [sent EXCEPT ![c] = Append(@, kind)]
    /\ flight' = [flight EXCEPT ![c] = @ \o Pieces(Len(sent[c]) + 1, kind)]
    /\ UNCHANGED <<serverVars, client, answers, open, connections, connVars>>

\* Closing lets what was sent arrive; a reset loses it.
Leave(c, how) ==
    /\ phase = "running" /\ client[c] = "connected"
    /\ client' = [client EXCEPT ![c] = how]
    /\ flight' = [flight EXCEPT ![c] = IF how = "reset" THEN <<>> ELSE @]
    /\ UNCHANGED <<serverVars, sent, answers, open, connections, connVars>>

-----------------------------------------------------------------------------
(* coro_http_server.                                                        *)

\* One turn of the loop of accept().
Accept(c) ==
    /\ accepting /\ client[c] # "idle" /\ pc[c] = "none"
    /\ Cardinality(open) < MaxOpen
    /\ open' = open \cup {c}
    /\ connections' = connections \cup {c}
    /\ pc' = [pc EXCEPT ![c] = "start"]
    /\ UNCHANGED <<serverVars, netVars, answers, buf, reply, keepAlive>>

\* Mutant: any error ends the loop.
AcceptGivesUp ==
    /\ accepting /\ Cardinality(open) >= MaxOpen
    /\ \E c \in Client : client[c] # "idle" /\ pc[c] = "none"
    /\ accepting' = FALSE
    /\ UNCHANGED <<phase, netVars, answers, open, connections, connVars>>

\* Without a descriptor async_accept fails, and the loop tries again at once.
AcceptFails ==
    /\ accepting /\ Cardinality(open) >= MaxOpen
    /\ \E c \in Client : client[c] # "idle" /\ pc[c] = "none"
    /\ UNCHANGED vars

\* stop() in the handler of a signal, which then stops the io_context.
Stop ==
    /\ phase = "running"
    /\ phase' = "stopped" /\ accepting' = FALSE
    /\ open' = open \ connections
    /\ connections' = {}
    /\ UNCHANGED <<netVars, answers, connVars>>

-----------------------------------------------------------------------------
(* coro_http_connection::start().                                           *)

\* Mutant: the quit callback is not called.
CloseQuietly(c) ==
    /\ open' = open \ {c}
    /\ UNCHANGED connections

\* close(): the socket, and the quit callback; a second call does nothing.
Close(c) ==
    /\ open' = open \ {c}
    /\ connections' = connections \ {c}

Go(c, where) == pc' = [pc EXCEPT ![c] = where]

Start(c) ==
    /\ phase = "running" /\ pc[c] = "start"
    /\ Go(c, "read")
    /\ UNCHANGED <<serverVars, netVars, answers, open, connections, buf, reply, keepAlive>>

\* Positions of pieces that end a head; a head is parsed up to the first one.
BlankAt(b) == {i \in DOMAIN b : b[i].part = "blank"}
HeadEnd(b) == CHOOSE i \in BlankAt(b) : \A j \in BlankAt(b) : i <= j
WellFormed(c, b) ==
    /\ HeadEnd(b) = 2 /\ b[1] = Piece(b[2].n, "head")
    /\ sent[c][b[2].n] # "bad"

\* Mutant: the request stays in the buffer.
ReplyKeeps(c, what, alive) ==
    /\ reply' = [reply EXCEPT ![c] = what]
    /\ keepAlive' = [keepAlive EXCEPT ![c] = alive]
    /\ UNCHANGED buf
    /\ Go(c, "write")

\* The answer to the request that was read goes out; it is the last one when
\* the connection is not kept alive.
Reply(c, what, alive) ==
    /\ reply' = [reply EXCEPT ![c] = what]
    /\ keepAlive' = [keepAlive EXCEPT ![c] = alive]
    /\ buf' = [buf EXCEPT ![c] = <<>>]
    /\ Go(c, "write")

\* Mutant: the answer that is there already is written last.
GatheredLast(ready, more) == more \o ready

\* resp_str_ with what one turn of the loop appends.
Gathered(ready, more) == ready \o more

\* The loop over what follows a GET in the buffer.  It finds handlers by the
\* exact key only; neither route has one.  The first head that does not parse
\* has its refusal written at once and the connection closed, which loses the
\* answers that were gathered; all before it are two pieces each.
Follow(c, rest, first) ==
    LET ends == BlankAt(rest)
        parses(i) ==
            /\ i > 1 /\ i - 2 \in ends \cup {0}
            /\ rest[i - 1] = Piece(rest[i].n, "head")
            /\ sent[c][rest[i].n] # "bad"
        refused == {i \in ends : ~parses(i)}
    IN  IF refused = {}
        THEN [answers |-> Gathered(<<first>>,
                                   [k \in 1..Cardinality(ends) |-> Answered(rest[2 * k].n, 404)]),
              parsed |-> TRUE]
        ELSE [answers |-> <<Answered(rest[Min(refused)].n, 400)>>, parsed |-> FALSE]

\* What start() does with a buffer that holds a head.
Request(c, b) ==
    LET n == b[HeadEnd(b)].n
        kind == sent[c][n]
        rest == SubSeq(b, HeadEnd(b) + 1, Len(b))
        ok == Answered(n, 200)
        alive == kind # "last"
    IN  IF ~WellFormed(c, b) THEN Reply(c, <<Answered(n, 400)>>, FALSE)
        ELSE IF kind = "post" /\ rest = <<>>
        THEN /\ buf' = [buf EXCEPT ![c] = <<Piece(n, "blank")>>]
             /\ Go(c, "body") /\ UNCHANGED <<reply, keepAlive>>
        ELSE IF kind = "post" \/ rest = <<>> THEN Reply(c, <<ok>>, alive)
        ELSE IF kind = "post0" THEN Reply(c, <<Answered(n, 405)>>, alive)
        ELSE LET f == Follow(c, rest, ok) IN Reply(c, f.answers, alive /\ f.parsed)

\* async_read_until: some of what arrived is read; without a blank line in it
\* the read goes on.
Read(c) ==
    /\ phase = "running" /\ pc[c] = "read" /\ c \in open
    /\ flight[c] # <<>>
    /\ \E k \in 1..Len(flight[c]) :
        LET b == buf[c] \o SubSeq(flight[c], 1, k)
        IN  /\ flight' = [flight EXCEPT ![c] = SubSeq(@, k + 1, Len(@))]
            /\ IF BlankAt(b) = {}
               THEN buf' = [buf EXCEPT ![c] = b] /\ UNCHANGED <<pc, reply, keepAlive>>
               ELSE Request(c, b)
    /\ UNCHANGED <<serverVars, client, sent, answers, open, connections>>

\* Mutant: one piece more than is missing.
ReadBodyMore(c) ==
    /\ phase = "running" /\ pc[c] = "body"
    /\ Len(flight[c]) > 1
    /\ flight' = [flight EXCEPT ![c] = Tail(@)]
    /\ Reply(c, <<Answered(buf[c][1].n, 200)>>, TRUE)
    /\ UNCHANGED <<serverVars, client, sent, answers, open, connections>>

\* async_read of the body: exactly what is missing.
ReadBody(c) ==
    /\ phase = "running" /\ pc[c] = "body"
    /\ flight[c] # <<>>
    /\ flight' = [flight EXCEPT ![c] = Tail(@)]
    /\ Reply(c, <<Answered(buf[c][1].n, 200)>>, TRUE)
    /\ UNCHANGED <<serverVars, client, sent, answers, open, connections>>

\* A read fails: the socket was closed, or the client left.
ReadEnds(c) ==
    /\ phase = "running" /\ pc[c] \in {"read", "body"}
    /\ c \notin open \/ (flight[c] = <<>> /\ client[c] # "connected")
    /\ Close(c)
    /\ Go(c, "done")
    /\ buf' = [buf EXCEPT ![c] = <<>>]
    /\ UNCHANGED <<serverVars, netVars, answers, reply, keepAlive>>

\* The write completes; it may fail once the client has left, and then the
\* connection is closed as it is after the last answer.
Written(c) ==
    /\ phase = "running" /\ pc[c] = "write"
    /\ \E fails \in BOOLEAN :
        /\ fails => client[c] # "connected"
        /\ client[c] = "reset" => fails
        /\ answers' = [answers EXCEPT ![c] = IF fails THEN @ ELSE @ \o reply[c]]
        /\ IF fails \/ ~keepAlive[c] THEN Close(c) ELSE UNCHANGED <<open, connections>>
    /\ reply' = [reply EXCEPT ![c] = <<>>]
    /\ Go(c, "read")
    /\ UNCHANGED <<serverVars, netVars, buf, keepAlive>>

Serve(c) == Start(c) \/ Read(c) \/ ReadBody(c) \/ ReadEnds(c) \/ Written(c)

Next ==
    \/ \E c \in Client :
        \/ Connect(c)
        \/ \E kind \in Kind[c] : Send(c, kind)
        \/ \E how \in {"closed", "reset"} : Leave(c, how)
        \/ Accept(c)
        \/ Serve(c)
    \/ AcceptFails
    \/ Stop

Spec == Init /\ [][Next]_vars

\* The event loop runs what is ready: reads that have data, completed writes,
\* and the accept that is always outstanding.
FairSpec == Spec /\ \A c \in Client : WF_vars(Accept(c)) /\ WF_vars(Serve(c))

-----------------------------------------------------------------------------
(* Properties.                                                              *)

\* The map holds the connections whose socket is open, however they end: by
\* the client, by the last answer, by a refusal or by an error.  So stop() closes
\* every socket, at whatever point its coroutine is.
MapIsExact ==
    IF phase = "running" THEN connections = open ELSE open = {}

\* A client gets its answers in the order of its requests, and none twice, even
\* when it does not wait for them.
AnswersAreInOrder ==
    \A c \in Client : \A i, j \in DOMAIN answers[c] :
        i < j => answers[c][i].n < answers[c][j].n

\* A client that waits gets the answer of the route to each request, however
\* its pieces arrive, and a refusal only for one the parser refuses.
WaitingClientsGetTheirAnswer ==
    \A c \in Patient : \A i \in DOMAIN answers[c] :
        answers[c][i] = Answered(i, IF sent[c][i] = "bad" THEN 400 ELSE 200)

\* And it does get one, unless it leaves or the server stops.
WaitingClientsAreAnswered ==
    \A c \in Patient :
        (pc[c] # "none" /\ Len(sent[c]) > Len(answers[c]))
            ~> (Len(answers[c]) = Len(sent[c]) \/ client[c] # "connected" \/ phase = "stopped")

\* A client that the lack of descriptors keeps waiting is accepted once no
\* other client holds on to one: what a client that left had is given back, in
\* whatever state it left, and the loop of accept() survives its failures.
FullServerRecovers ==
    \A c \in Client :
        (accepting /\ client[c] # "idle" /\ pc[c] = "none")
            ~> (\/ pc[c] # "none" \/ phase = "stopped"
                \/ \E d \in open : client[d] = "connected")

=============================================================================
