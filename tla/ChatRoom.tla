------------------------------ MODULE ChatRoom ------------------------------
(***************************************************************************)
(* The coroutine chat server of src/cppdemo/asio_demo2.cc: one chat_room   *)
(* (one listening port), the chat_session of every accepted connection,    *)
(* and the single thread of the io_context that resumes their coroutines.  *)
(*                                                                         *)
(* A step of the thread runs a coroutine from one co_await to the next; no *)
(* other coroutine runs in between.  What is outside the thread, the       *)
(* kernel completing a read or a write of a socket, is a step of its own.  *)
(* A co_await that is outstanding, and one whose completion is queued for  *)
(* the thread, are different control states, so every order in which the   *)
(* completions can be handed to the thread is explored.                    *)
(***************************************************************************)
EXTENDS Integers, Sequences

CONSTANTS
    Session,      \* the connections the listener may accept
    MaxRecent,    \* chat_room::max_recent_msgs (100 in the code)
    MaxLines      \* bound: lines a client sends in its lifetime

ASSUME ChatAssumption ==
    /\ MaxRecent \in Nat
    /\ MaxLines \in Nat

VARIABLES
    running,      \* io_context.run() has not been stopped
    participants, \* chat_room::participants_
    recent,       \* chat_room::recent_msgs_
    queue,        \* chat_session::write_msgs_
    open,         \* chat_session::socket_.is_open()
    reader,       \* where reader() is
    writer,       \* where writer() is
    unread,       \* complete lines held in reader()'s read_msg
    typed,        \* lines read from the connection so far
    log,          \* history: every line passed to chat_room::deliver
    first,        \* history: lines posted before the first one queued for a session
    received      \* history: lines whose async_write has completed

roomVars == <<participants, recent, queue>>
sessionVars == <<open, reader, writer, unread, typed>>
historyVars == <<log, first, received>>
vars == <<running, roomVars, sessionVars, historyVars>>

\* The no-th line that the client of session by typed.
Line == [by : Session, no : 1..MaxLines]

(* reader(): no connection yet; async_read_until outstanding; its completion
   queued with a line, or with an error; the coroutine has returned.
   writer(): likewise for async_wait on timer_ and async_write. *)
ReaderState == {"none", "reading", "line", "error", "done"}
WriterState == {"none", "waiting", "woken", "writing", "sent", "failed", "done"}

NotJoined == -1

Init ==
    /\ running = TRUE
    /\ participants = {}
    /\ recent = <<>>
    /\ queue = [s \in Session |-> <<>>]
    /\ open = [s \in Session |-> FALSE]
    /\ reader = [s \in Session |-> "none"]
    /\ writer = [s \in Session |-> "none"]
    /\ unread = [s \in Session |-> 0]
    /\ typed = [s \in Session |-> 0]
    /\ log = <<>>
    /\ first = [s \in Session |-> NotJoined]
    /\ received = [s \in Session |-> <<>>]

-----------------------------------------------------------------------------
(* Pieces of the handlers.                                                  *)

\* Mutant: pop_back instead of pop_front keeps the oldest lines.
TrimNewest(msgs) ==
    IF Len(msgs) > MaxRecent THEN SubSeq(msgs, 1, MaxRecent) ELSE msgs

\* deliver()'s push_back and the loop that keeps max_recent_msgs of them.
Trim(msgs) ==
    IF Len(msgs) > MaxRecent
    THEN SubSeq(msgs, Len(msgs) - MaxRecent + 1, Len(msgs))
    ELSE msgs

\* Where writer() suspends after a turn of its loop.
WriterAwait(isOpen, msgs) ==
    IF ~isOpen THEN "done" ELSE IF msgs = <<>> THEN "waiting" ELSE "writing"

\* Where async_read_until leaves reader(): a line that read_msg already holds
\* completes it without using the socket, even a closed one.
ReaderAwait(isOpen, lines) ==
    IF lines > 0 THEN "line" ELSE IF isOpen THEN "reading" ELSE "error"

\* Mutants: the whole buffer is erased; the line after the posted one, too.
EraseAll(lines) == 0
EraseTwo(lines) == lines - 2

\* read_msg.erase(0, n): the lines left after the first one is posted.
Erased(lines) == lines - 1

\* Mutant: the timer is never cancelled.
WakeNobody(state) == state

\* timer_.cancel_one() or timer_.cancel(): only writer() ever waits on timer_.
Wake(state) == IF state = "waiting" THEN "woken" ELSE state

\* Mutant: closing leaves the read outstanding.
AbortNoRead(state) == state

\* socket_.close() completes what is outstanding on it with an error.
AbortRead(state) == IF state = "reading" THEN "error" ELSE state
AbortWrite(state) == IF state = "writing" THEN "failed" ELSE state

\* chat_session::stop(): room_.leave, socket_.close, timer_.cancel.  It is
\* called by a coroutine that then returns, and may be called by both.
StopByReader(s) ==
    /\ participants' = participants \ {s}
    /\ open' = [open EXCEPT ![s] = FALSE]
    /\ reader' = [reader EXCEPT ![s] = "done"]
    /\ writer' = [writer EXCEPT ![s] = AbortWrite(Wake(@))]

\* Mutant: the writer's exception closes the socket but does not leave.
StopWithoutLeaving(s) ==
    /\ open' = [open EXCEPT ![s] = FALSE]
    /\ reader' = [reader EXCEPT ![s] = AbortRead(@)]
    /\ writer' = [writer EXCEPT ![s] = "done"]
    /\ UNCHANGED participants

StopByWriter(s) ==
    /\ participants' = participants \ {s}
    /\ open' = [open EXCEPT ![s] = FALSE]
    /\ reader' = [reader EXCEPT ![s] = AbortRead(@)]
    /\ writer' = [writer EXCEPT ![s] = "done"]

-----------------------------------------------------------------------------
(* The listener and the two coroutines of a session.                        *)

\* listener(): a connection is accepted, and start() joins the room, which
\* queues the recent lines, and runs both coroutines to their first co_await.
Accept(s) ==
    /\ running
    /\ reader[s] = "none"
    /\ participants' = participants \cup {s}
    /\ queue' = [queue EXCEPT ![s] = recent]
    /\ open' = [open EXCEPT ![s] = TRUE]
    /\ reader' = [reader EXCEPT ![s] = ReaderAwait(TRUE, 0)]
    /\ writer' = [writer EXCEPT ![s] = WriterAwait(TRUE, recent)]
    /\ first' = [first EXCEPT ![s] = Len(log) - Len(recent)]
    /\ UNCHANGED <<running, recent, unread, typed, log, received>>

\* reader() resumes with a line: room_.deliver gives it to every participant,
\* whether or not the session of this reader is still one of them.
ReaderLine(s) ==
    LET msg == [by |-> s, no |-> typed[s] - unread[s] + 1] IN
    /\ running
    /\ reader[s] = "line"
    /\ recent' = Trim(Append(recent, msg))
    /\ queue' = [p \in Session |->
                    IF p \in participants THEN Append(queue[p], msg) ELSE queue[p]]
    /\ writer' = [p \in Session |->
                    IF p \in participants THEN Wake(writer[p]) ELSE writer[p]]
    /\ unread' = [unread EXCEPT ![s] = Erased(@)]
    /\ reader' = [reader EXCEPT ![s] = ReaderAwait(open[s], Erased(unread[s]))]
    /\ log' = Append(log, msg)
    /\ UNCHANGED <<running, participants, open, typed, first, received>>

\* reader() resumes with an exception.
ReaderError(s) ==
    /\ running
    /\ reader[s] = "error"
    /\ StopByReader(s)
    /\ UNCHANGED <<running, recent, queue, unread, typed, historyVars>>

\* writer() resumes from its wait on timer_; the error code is ignored.
WriterWoken(s) ==
    /\ running
    /\ writer[s] = "woken"
    /\ writer' = [writer EXCEPT ![s] = WriterAwait(open[s], queue[s])]
    /\ UNCHANGED <<running, roomVars, open, reader, unread, typed, historyVars>>

\* writer() resumes from a completed write, and pops the line it wrote.
WriterSent(s) ==
    /\ running
    /\ writer[s] = "sent"
    /\ queue' = [queue EXCEPT ![s] = Tail(@)]
    /\ writer' = [writer EXCEPT ![s] = WriterAwait(open[s], Tail(queue[s]))]
    /\ UNCHANGED <<running, participants, recent, open, reader, unread, typed, historyVars>>

\* writer() resumes with an exception.
WriterFailed(s) ==
    /\ running
    /\ writer[s] = "failed"
    /\ StopByWriter(s)
    /\ UNCHANGED <<running, recent, queue, unread, typed, historyVars>>

-----------------------------------------------------------------------------
(* The kernel and the clients.                                              *)

\* One read brings n complete lines (a part of a line does not end the read).
ReadLines(s, n) ==
    /\ running
    /\ reader[s] = "reading"
    /\ typed[s] + n <= MaxLines
    /\ typed' = [typed EXCEPT ![s] = @ + n]
    /\ unread' = [unread EXCEPT ![s] = @ + n]
    /\ reader' = [reader EXCEPT ![s] = "line"]
    /\ UNCHANGED <<running, roomVars, open, writer, historyVars>>

\* End of file, a reset, or 1024 characters without a newline.
ReadFails(s) ==
    /\ running
    /\ reader[s] = "reading"
    /\ reader' = [reader EXCEPT ![s] = "error"]
    /\ UNCHANGED <<running, roomVars, open, writer, unread, typed, historyVars>>

WriteCompletes(s) ==
    /\ running
    /\ writer[s] = "writing"
    /\ writer' = [writer EXCEPT ![s] = "sent"]
    /\ received' = [received EXCEPT ![s] = Append(@, Head(queue[s]))]
    /\ UNCHANGED <<running, roomVars, open, reader, unread, typed, log, first>>

WriteFails(s) ==
    /\ running
    /\ writer[s] = "writing"
    /\ writer' = [writer EXCEPT ![s] = "failed"]
    /\ UNCHANGED <<running, roomVars, open, reader, unread, typed, historyVars>>

\* SIGINT or SIGTERM: io_context.stop(); no handler runs any more.
Signal ==
    /\ running
    /\ running' = FALSE
    /\ UNCHANGED <<roomVars, sessionVars, historyVars>>

-----------------------------------------------------------------------------
Kernel(s) ==
    \/ \E n \in 1..MaxLines : ReadLines(s, n)
    \/ ReadFails(s)
    \/ WriteCompletes(s)
    \/ WriteFails(s)

Reader(s) == ReaderLine(s) \/ ReaderError(s)
Writer(s) == WriterWoken(s) \/ WriterSent(s) \/ WriterFailed(s)

Next ==
    \/ \E s \in Session : Accept(s) \/ Reader(s) \/ Writer(s) \/ Kernel(s)
    \/ Signal

Spec == Init /\ [][Next]_vars

(* The io_context resumes every coroutine whose completion is queued, and a
   write of an open connection is answered, with success or with an error. *)
Fairness ==
    \A s \in Session :
        /\ WF_vars(Reader(s))
        /\ WF_vars(Writer(s))
        /\ WF_vars(WriteCompletes(s) \/ WriteFails(s))

FairSpec == Spec /\ Fairness

-----------------------------------------------------------------------------
(* Properties.                                                              *)

\* The type invariant.
TypeOK ==
    /\ running \in BOOLEAN
    /\ participants \subseteq Session
    /\ recent \in Seq(Line)
    /\ queue \in [Session -> Seq(Line)]
    /\ open \in [Session -> BOOLEAN]
    /\ reader \in [Session -> ReaderState]
    /\ writer \in [Session -> WriterState]
    /\ unread \in [Session -> 0..MaxLines]
    /\ typed \in [Session -> 0..MaxLines]
    /\ log \in Seq(Line)
    /\ first \in [Session -> Nat \cup {NotJoined}]
    /\ received \in [Session -> Seq(Line)]

\* A writer sleeps on its timer only when it has nothing to write and its
\* socket is open: no deliver() and no stop() can slip in between the test of
\* write_msgs_ and the wait and leave a line, or a closed session, behind.
NoLostWakeup ==
    \A s \in Session :
        writer[s] = "waiting" => open[s] /\ queue[s] = <<>>

\* The two coroutines of a session and the room agree on whether it lives:
\* once either coroutine has returned, the socket is closed and the room holds
\* no reference through which write_msgs_ would grow for ever.
NoHalfSession ==
    \A s \in Session :
        /\ s \in participants <=> open[s]
        /\ "done" \in {reader[s], writer[s]} => ~open[s]

\* The lines still owed to s: writer() pops a line after it is written.
Pending(s) == IF writer[s] = "sent" THEN Tail(queue[s]) ELSE queue[s]

\* For a participant, what its client got and what is still queued make one
\* stretch of the room's history, up to its last line, with no hole, no
\* repetition and no change of order, across join, deliver and both coroutines.
InOrderDelivery ==
    \A s \in participants :
        received[s] \o Pending(s) = SubSeq(log, first[s] + 1, Len(log))

\* Each line a client typed is posted once and in the order it was typed; the
\* ones not posted yet are exactly those that read_msg still holds.
LinesPostedOnceInOrder ==
    /\ \A i, j \in 1..Len(log) :
            i < j /\ log[i].by = log[j].by => log[i].no < log[j].no
    /\ \A s \in Session : \A n \in 1..MaxLines :
            (\E i \in 1..Len(log) : log[i] = [by |-> s, no |-> n])
                <=> n <= typed[s] - unread[s]

\* A session whose socket is closed comes to rest: both coroutines return, so
\* that the shared_ptrs they hold go away and the session is destroyed.
ClosedSessionsUnwind ==
    \A s \in Session :
        (reader[s] # "none" /\ ~open[s])
            ~> (~running \/ (reader[s] = "done" /\ writer[s] = "done"))

\* The server implements the room's promise, its liveness included.
Abstract == INSTANCE ChatSpec WITH
    Message <- Line, Backlog <- MaxRecent, history <- log,
    members <- participants, start <- first, delivered <- received

ImplementsChatSpec == Abstract!Spec

=============================================================================
