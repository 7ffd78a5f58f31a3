---------------------------- MODULE ReplSessions ----------------------------
(***************************************************************************)
(* The REPL sessions of lynx (src/lynx/repl.cpp, main.cpp), the streams    *)
(* they print on, and the two lists that refer to those streams: the ones  *)
(* Cli::cout() broadcasts to, and the sinks that the monitor command adds  *)
(* to the logger (src/lynx/log.cpp).                                       *)
(*                                                                         *)
(* All of it runs on the thread of one io_context.  ready is the queue of  *)
(* handlers that thread runs, first in first out: completions of a read,   *)
(* and the key events that a read posts, one per key.  A stream belongs to *)
(* a session object and dies with it, except that of the file session,     *)
(* which is a local variable of main.                                      *)
(***************************************************************************)
EXTENDS Integers, Sequences, FiniteSets

CONSTANTS
    Conn,         \* telnet connections
    Command,      \* what users enter: a subset of AllCommands
    HasLocal,     \* foreground run: there is a local terminal session
    HasFile,      \* etc/repl.in and etc/repl.out can be opened
    MaxKeys       \* bound: commands entered by all clients, the terminal and the file

(* "eof" is the end-of-file key; the others are command lines.  "other" is any
   command whose effect stays out of this module: one that only prints on its
   own session, throws (Feed catches it), or changes colours or the menu. *)
AllCommands == {"monitor", "nomonitor", "hello_everysession", "exit", "eof", "other"}

ASSUME ReplAssumption ==
    /\ Command \subseteq AllCommands
    /\ HasLocal \in BOOLEAN /\ HasFile \in BOOLEAN
    /\ MaxKeys \in Nat
    /\ {"local", "file"} \cap Conn = {}

VARIABLES
    phase,     \* main(): "setup", "running" (io_ctx.run()), "stopped" (scheduler.Stop),
               \* "escaped" (an exception left a handler), "deadLog" or "deadCout" (a
               \* write to a stream that is gone)
    ready,     \* handlers queued on the io_context
    session,   \* Conn -> "none", "alive", "dead": the CliTelnetSession object
    socket,    \* Conn -> "none", "open", "closed": its socket.is_open()
    peerReset, \* Conn -> the peer has reset the connection
    reading,   \* Conn -> an async_read_some is outstanding
    fileOut,   \* "none", "alive", "dead": the ofstream of the file session
    cout,      \* the streams registered in Cli::cout()
    sinks,     \* the ostream sinks of the default logger, by stream, in order
    keys       \* bound: commands entered so far

vars == <<phase, ready, session, socket, peerReset, reading, fileOut, cout, sinks, keys>>
connVars == <<session, socket, peerReset, reading>>

Alive(x) ==
    CASE x = "local" -> TRUE
      [] x = "file" -> fileOut = "alive"
      [] OTHER -> session[x] = "alive"

Key(c, cmd) == [kind |-> "key", src |-> c, cmds |-> <<cmd>>]
ReadDone(c, cmds) == [kind |-> "data", src |-> c, cmds |-> cmds]
ReadEnd(c) == [kind |-> "end", src |-> c, cmds |-> <<>>]

Init ==
    /\ phase = "setup"
    /\ ready = <<>>
    /\ session = [c \in Conn |-> "none"]
    /\ socket = [c \in Conn |-> "none"]
    /\ peerReset = [c \in Conn |-> FALSE]
    /\ reading = [c \in Conn |-> FALSE]
    /\ fileOut = "none"
    /\ cout = IF HasLocal THEN {"local"} ELSE {}
    /\ sinks = <<>>
    /\ keys = 0

-----------------------------------------------------------------------------
(* Commands.  Each takes the source that runs it.                           *)

\* add_stream_sink(out): no test for a sink that is already there.
Monitor(src) ==
    /\ sinks' = Append(sinks, src)
    /\ UNCHANGED <<phase, cout, connVars>>

\* remove_all_stream_sink(): the sinks of every session.
NoMonitor ==
    /\ sinks' = <<>>
    /\ UNCHANGED <<phase, cout, connVars>>

\* Cli::cout() << ...: a write to each registered stream.
HelloEverySession ==
    /\ phase' = IF \A x \in cout : Alive(x) THEN phase ELSE "deadCout"
    /\ UNCHANGED <<sinks, cout, connVars>>

\* Session::Disconnect throws on a socket that is closed or that the peer reset.
CanDisconnect(c) == socket[c] = "open" /\ ~peerReset[c]

\* Mutant: the outstanding read is not cancelled.
AbortedNever(c) == <<>>

\* What closing the socket of c adds to the queue: the aborted read.
Aborted(c) == IF reading[c] THEN <<ReadEnd(c)>> ELSE <<>>

Disconnect(c) ==
    /\ socket' = [socket EXCEPT ![c] = "closed"]
    /\ reading' = [reading EXCEPT ![c] = FALSE]
    /\ UNCHANGED <<phase, cout, sinks, session, peerReset>>

\* CliSession::Exit of a telnet session.  The exit command runs inside Feed,
\* which catches what Disconnect throws; the end-of-file key does not.
TelnetExit(c, cmd) ==
    IF CanDisconnect(c)
    THEN Disconnect(c)
    ELSE /\ phase' = IF cmd = "eof" THEN "escaped" ELSE phase
         /\ UNCHANGED <<cout, sinks, connVars>>

\* CliSession::Exit of the local session: the REST server and the scheduler stop.
LocalExit ==
    /\ phase' = "stopped"
    /\ UNCHANGED <<cout, sinks, connVars>>

Exec(src, cmd) ==
    CASE cmd = "monitor" -> Monitor(src)
      [] cmd = "nomonitor" -> NoMonitor
      [] cmd = "hello_everysession" -> HelloEverySession
      [] cmd \in {"exit", "eof"} ->
            IF src = "local" THEN LocalExit ELSE TelnetExit(src, cmd)
      [] OTHER -> UNCHANGED <<phase, cout, sinks, connVars>>

-----------------------------------------------------------------------------
(* main() before io_ctx.run(): the file session.                            *)

StartFileSession ==
    /\ phase = "setup" /\ HasFile /\ fileOut = "none"
    /\ fileOut' = "alive"
    /\ cout' = cout \cup {"file"}
    /\ UNCHANGED <<phase, ready, connVars, sinks, keys>>

\* One turn of CliFileSession::Start; an exit line ends its loop only.
FileLine(cmd) ==
    /\ phase = "setup" /\ fileOut = "alive"
    /\ keys < MaxKeys
    /\ cmd \notin {"exit", "eof"}
    /\ Exec("file", cmd)
    /\ keys' = keys + 1
    /\ UNCHANGED <<ready, fileOut>>

\* The end of the block that declares outfile destroys it; the file_session
\* object stays in repl, and its stream stays registered.
EndOfSetup ==
    /\ phase = "setup"
    /\ HasFile => fileOut = "alive"
    /\ fileOut' = IF HasFile THEN "dead" ELSE "none"
    /\ phase' = "running"
    /\ UNCHANGED <<ready, connVars, cout, sinks, keys>>

-----------------------------------------------------------------------------
(* The network and the terminal.                                            *)

\* Server::Accept's handler: CreateSession, then Start.
Connect(c) ==
    /\ phase = "running" /\ session[c] = "none"
    /\ session' = [session EXCEPT ![c] = "alive"]
    /\ socket' = [socket EXCEPT ![c] = "open"]
    /\ reading' = [reading EXCEPT ![c] = TRUE]
    /\ cout' = cout \cup {c}
    /\ UNCHANGED <<phase, ready, peerReset, fileOut, sinks, keys>>

\* The client's bytes arrive: one read may carry several commands.
Data(c, cmds) ==
    /\ phase = "running" /\ reading[c] /\ ~peerReset[c]
    /\ keys + Len(cmds) <= MaxKeys
    /\ keys' = keys + Len(cmds)
    /\ reading' = [reading EXCEPT ![c] = FALSE]
    /\ ready' = Append(ready, ReadDone(c, cmds))
    /\ UNCHANGED <<phase, session, socket, peerReset, fileOut, cout, sinks>>

\* The client closes its side: the read ends with eof.
PeerCloses(c) ==
    /\ phase = "running" /\ reading[c]
    /\ reading' = [reading EXCEPT ![c] = FALSE]
    /\ ready' = Append(ready, ReadEnd(c))
    /\ UNCHANGED <<phase, session, socket, peerReset, fileOut, cout, sinks, keys>>

\* The client resets the connection, while a read is outstanding or not.
PeerResets(c) ==
    /\ phase = "running" /\ socket[c] = "open" /\ session[c] = "alive" /\ ~peerReset[c]
    /\ peerReset' = [peerReset EXCEPT ![c] = TRUE]
    /\ reading' = [reading EXCEPT ![c] = FALSE]
    /\ ready' = ready \o Aborted(c)
    /\ UNCHANGED <<phase, session, socket, fileOut, cout, sinks, keys>>

\* The keyboard thread posts a key event of the local session.
TerminalKey(cmd) ==
    /\ phase = "running" /\ HasLocal
    /\ keys < MaxKeys
    /\ keys' = keys + 1
    /\ ready' = Append(ready, Key("local", cmd))
    /\ UNCHANGED <<phase, connVars, fileOut, cout, sinks>>

-----------------------------------------------------------------------------
(* The handlers.                                                            *)

\* Mutant: the streams of sessions that go away stay registered.
StayRegistered(c) == cout

\* ~CliSession: UnRegister.
UnRegister(c) == cout \ {c}

\* The last shared_ptr to the session goes away with the handler of its read.
DestroySession(c) ==
    /\ session' = [session EXCEPT ![c] = "dead"]
    /\ socket' = [socket EXCEPT ![c] = "closed"]
    /\ cout' = UnRegister(c)
    /\ ready' = Tail(ready)
    /\ UNCHANGED <<phase, peerReset, reading, fileOut, sinks, keys>>

\* Mutant: Read() is called before OnDataReceived().
RunReadKeysLast ==
    LET h == Head(ready)
        c == h.src
        again == IF peerReset[c] THEN <<ReadEnd(c)>> ELSE <<>>
    IN  /\ phase = "running" /\ ready # <<>> /\ h.kind = "data"
        /\ socket[c] = "open"
        /\ ready' = Tail(ready) \o again \o [i \in 1..Len(h.cmds) |-> Key(c, h.cmds[i])]
        /\ reading' = [reading EXCEPT ![c] = ~peerReset[c]]
        /\ UNCHANGED <<phase, session, socket, peerReset, fileOut, cout, sinks, keys>>

\* Session::Read's handler with data: post the keys, then read again; a socket
\* that was closed in the meantime ends the session, and the data is dropped.
RunRead ==
    LET h == Head(ready)
        c == h.src
        again == IF peerReset[c] THEN <<ReadEnd(c)>> ELSE <<>>
    IN  /\ phase = "running" /\ ready # <<>> /\ h.kind = "data"
        /\ IF socket[c] = "closed"
           THEN DestroySession(c)
           ELSE /\ ready' = Tail(ready) \o [i \in 1..Len(h.cmds) |-> Key(c, h.cmds[i])] \o again
                /\ reading' = [reading EXCEPT ![c] = ~peerReset[c]]
                /\ UNCHANGED <<phase, session, socket, peerReset, fileOut, cout, sinks, keys>>

\* Session::Read's handler with an error: OnDisconnect or OnError, both empty.
RunReadEnd ==
    /\ phase = "running" /\ ready # <<>> /\ Head(ready).kind = "end"
    /\ DestroySession(Head(ready).src)

\* A posted key event; the lambda holds a raw pointer to the session.
RunKey ==
    LET h == Head(ready)
        closes == /\ h.cmds[1] \in {"exit", "eof"} /\ h.src \in Conn
                  /\ CanDisconnect(h.src)
    IN  /\ phase = "running" /\ ready # <<>> /\ h.kind = "key"
        /\ Exec(h.src, h.cmds[1])
        /\ ready' = Tail(ready) \o (IF closes THEN Aborted(h.src) ELSE <<>>)
        /\ UNCHANGED <<fileOut, keys>>

\* The timers of main log a line: it goes to every sink, flushed.
LogLine ==
    /\ phase = "running"
    /\ \E i \in 1..Len(sinks) : ~Alive(sinks[i])
    /\ phase' = "deadLog"
    /\ UNCHANGED <<ready, connVars, fileOut, cout, sinks, keys>>

\* SIGINT or SIGTERM: rest.server().stop(); repl.stop().
Signal ==
    /\ phase = "running"
    /\ phase' = "stopped"
    /\ UNCHANGED <<ready, connVars, fileOut, cout, sinks, keys>>

-----------------------------------------------------------------------------
Batches == {<<a>> : a \in Command} \cup {<<a, b>> : a \in Command, b \in Command}

Handler == RunRead \/ RunReadEnd \/ RunKey

Next ==
    \/ StartFileSession \/ EndOfSetup
    \/ \E cmd \in Command : FileLine(cmd) \/ TerminalKey(cmd)
    \/ \E c \in Conn : \/ Connect(c) \/ PeerCloses(c) \/ PeerResets(c)
                       \/ \E cmds \in Batches : Data(c, cmds)
    \/ Handler
    \/ LogLine
    \/ Signal

Spec == Init /\ [][Next]_vars

\* io_ctx.run() runs the handlers that are queued.
FairSpec == Spec /\ WF_vars(Handler)

-----------------------------------------------------------------------------
(* Properties.                                                              *)

\* A handler never finds its session destroyed: the key events, which hold raw
\* pointers, are all queued before the completion that releases the session.
HandlersFindTheirSession ==
    \A i \in 1..Len(ready) :
        ready[i].src \in Conn => session[ready[i].src] = "alive"

\* Cli::cout() reaches every live telnet session and no destroyed one.
CoutListsLiveSessions ==
    \A c \in Conn : c \in cout <=> session[c] = "alive"

\* Once the socket of a session is closed the session is destroyed, unless
\* the program ends first.
ClosedSessionsAreDestroyed ==
    \A c \in Conn : socket[c] = "closed" ~> (session[c] = "dead" \/ phase # "running")

\* doc/lynx/lynx.md:118: leaving a telnet session only disconnects it; it does
\* not end the program.
TelnetExitOnlyDisconnects == phase # "escaped"

=============================================================================
