----------------------------- MODULE LynxTimers -----------------------------
(***************************************************************************)
(* The two timers of src/lynx/main.cpp: t, whose handler print counts down *)
(* and re-arms t one second after its last expiry, and timer, which fires  *)
(* once after 1.5 s, cancels t, sets the count to 100 and starts t again   *)
(* two seconds later.  Both handlers run on the io_context's thread.       *)
(*                                                                         *)
(* The scheduler takes completions from its queue and, when the marker     *)
(* "task" comes to the front, runs the reactor, which queues every timer   *)
(* that is due and then the marker again.  A completion that is already    *)
(* queued can no longer be cancelled: when the handler of timer runs,      *)
(* print may be queued behind it with success.  Time advances in half      *)
(* seconds, whether or not the thread keeps up.                            *)
(***************************************************************************)
EXTENDS Integers, Sequences, FiniteSets

CONSTANTS
    FirstCount,   \* count before timer fires (5 in the code)
    SecondCount,  \* count that timer sets (100 in the code)
    MaxLag        \* bound: half seconds that pass while work is due

ASSUME TimersAssumption ==
    /\ FirstCount \in Nat
    /\ SecondCount \in Nat \ {0}
    /\ MaxLag \in Nat

VARIABLES
    now,          \* the steady clock, in half seconds
    late,         \* half seconds for which the thread has left work undone
    count,        \* the int that both handlers share
    expiry,       \* t.expiry()
    waiting,      \* how many async_waits of t are outstanding
    timerWaiting, \* the async_wait of timer is outstanding
    ready,        \* op_queue_ of the scheduler: completions and the marker
    resetAt,      \* history: when the handler of timer ran, or Never
    lines         \* history: when print logged, since then

vars == <<now, late, count, expiry, waiting, timerWaiting, ready, resetAt, lines>>

Second == 2
TimerExpiry == 3
Never == -1
Idle == <<"task">>

Init ==
    /\ now = 0
    /\ late = 0
    /\ count = FirstCount
    /\ expiry = 0
    /\ waiting = 1
    /\ timerWaiting = TRUE
    /\ ready = Idle
    /\ resetAt = Never
    /\ lines = <<>>

-----------------------------------------------------------------------------
(* The timer queue of the io_context.                                       *)

TDue == waiting > 0 /\ expiry <= now
TimerDue == timerWaiting /\ TimerExpiry <= now

Tick ==
    /\ IF TDue \/ TimerDue \/ ready # Idle
       THEN late < MaxLag /\ late' = late + 1
       ELSE late' = 0
    /\ waiting > 0 \/ timerWaiting \/ ready # Idle
    /\ now' = now + 1
    /\ UNCHANGED <<count, expiry, waiting, timerWaiting, ready, resetAt, lines>>

\* What get_ready_timers queues, with success: all waits on the timers that are
\* due, the earliest timer first.
ReadyTimers ==
    LET prints == IF TDue THEN [i \in 1..waiting |-> "print"] ELSE <<>>
        timers == IF TimerDue THEN <<"timer">> ELSE <<>>
    IN  {q \in {prints \o timers, timers \o prints} :
            TDue /\ TimerDue =>
                \/ q = prints \o timers /\ expiry <= TimerExpiry
                \/ q = timers \o prints /\ TimerExpiry <= expiry}

\* The marker is taken: the reactor runs, and does not block when there is work.
React ==
    /\ Head(ready) = "task"
    /\ TDue \/ TimerDue \/ Tail(ready) # <<>>
    /\ \E due \in ReadyTimers : ready' = Tail(ready) \o due \o Idle
    /\ waiting' = IF TDue THEN 0 ELSE waiting
    /\ timerWaiting' = (timerWaiting /\ ~TimerDue)
    /\ UNCHANGED <<now, late, count, expiry, resetAt, lines>>

\* Mutant: the new wait is started beside the outstanding ones.
RearmBeside == [queued |-> <<>>, outstanding |-> waiting + 1]

\* expires_at and expires_after queue the outstanding waits as aborted; then
\* async_wait starts one.
Rearm == [queued |-> [i \in 1..waiting |-> "aborted"], outstanding |-> 1]

-----------------------------------------------------------------------------
(* The handlers.                                                            *)

\* Mutant: print re-arms relative to the clock, and too soon.
NextExpirySoon == now + 1

\* t->expiry() + asio::chrono::seconds(1)
NextExpiry == expiry + Second

\* Mutant: the test of the count is off by one.
PrintButOne ==
    /\ Head(ready) = "print"
    /\ IF count <= 1
       THEN /\ ready' = Tail(ready)
            /\ UNCHANGED <<count, expiry, waiting, lines>>
       ELSE /\ count' = count - 1
            /\ lines' = Append(lines, now)
            /\ expiry' = NextExpiry
            /\ ready' = Tail(ready) \o Rearm.queued
            /\ waiting' = Rearm.outstanding
    /\ late' = 0
    /\ UNCHANGED <<now, timerWaiting, resetAt>>

\* print with success: nothing at all once the count is used up.
PrintCount ==
    /\ Head(ready) = "print"
    /\ IF count = 0
       THEN /\ ready' = Tail(ready)
            /\ UNCHANGED <<count, expiry, waiting, lines>>
       ELSE /\ count' = count - 1
            /\ lines' = Append(lines, now)
            /\ expiry' = NextExpiry
            /\ ready' = Tail(ready) \o Rearm.queued
            /\ waiting' = Rearm.outstanding
    /\ late' = 0
    /\ UNCHANGED <<now, timerWaiting, resetAt>>

\* print with operation_aborted: it only says so.
PrintAborted ==
    /\ Head(ready) = "aborted"
    /\ ready' = Tail(ready)
    /\ late' = 0
    /\ UNCHANGED <<now, count, expiry, waiting, timerWaiting, resetAt, lines>>

\* The handler of timer.
Timer ==
    /\ Head(ready) = "timer"
    /\ count' = SecondCount
    /\ expiry' = now + 2 * Second
    /\ ready' = Tail(ready) \o Rearm.queued
    /\ waiting' = Rearm.outstanding
    /\ resetAt' = now
    /\ lines' = <<>>
    /\ late' = 0
    /\ UNCHANGED <<now, timerWaiting>>

Handler == PrintCount \/ PrintAborted \/ Timer

Next == Tick \/ React \/ Handler

Spec == Init /\ [][Next]_vars

\* The clock advances, and the thread runs what is queued and, in its turn, the
\* reactor.
FairSpec == Spec /\ WF_vars(Tick) /\ WF_vars(React) /\ WF_vars(Handler)

-----------------------------------------------------------------------------
(* Properties.                                                              *)

\* How many future runs of print can log a line.
Chains == waiting + Cardinality({i \in 1..Len(ready) : ready[i] = "print"})

\* There is one countdown.  When the handler of timer overtakes a print that is
\* already queued there are two for a moment; the first of them to log a line
\* cancels the other.
OneCountdown ==
    Chains <= 1 \/ (Chains = 2 /\ resetAt # Never /\ lines = <<>>)

\* After the reset, the line number n is not logged before its time, even if
\* two countdowns were started: only the first line may come early.
LinesNotEarly ==
    \A n \in 2..Len(lines) :
        resetAt # Never => lines[n] >= resetAt + 2 * Second + (n - 1) * Second

\* The countdown ends: the count reaches zero and neither timer is armed again.
CountdownEnds ==
    <>[](count = 0 /\ waiting = 0 /\ ~timerWaiting /\ ready = Idle)

=============================================================================
