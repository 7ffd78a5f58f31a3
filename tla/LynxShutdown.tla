---------------------------- MODULE LynxShutdown ----------------------------
(***************************************************************************)
(* The foreground run of lynx from the local terminal session to its end:  *)
(* the thread of main (src/lynx/main.cpp), which builds the objects, runs  *)
(* the io_context and destroys the objects in the reverse order, and the   *)
(* keyboard thread of the local session (cli/detail/linuxkeyboard.h),      *)
(* which reads standard input and posts keys.  They share the enabled flag *)
(* (mutex and condition variable), a pipe that stops the thread, the       *)
(* io_context's queue and the mode of the terminal.                        *)
(*                                                                         *)
(* SIGINT and SIGTERM are caught between the construction and the          *)
(* destruction of exit_signals; outside they have their default action.    *)
(***************************************************************************)
EXTENDS Integers, Sequences

CONSTANTS
    Byte,        \* what is typed: a subset of AllBytes
    MaxBytes,    \* bound: bytes typed
    MaxQueue,    \* bound: keys waiting in the io_context
    MaxSignals   \* bound: signals sent

(* "three" continues the sequence ESC [ 3 ~; "eot" is Ctrl-D. *)
AllBytes == {"char", "ret", "eot", "esc", "bracket", "three"}

ASSUME ShutdownAssumption ==
    /\ Byte \subseteq AllBytes
    /\ MaxBytes \in Nat /\ MaxQueue \in Nat \ {0} /\ MaxSignals \in Nat

VARIABLES
    main,     \* where the thread of main is
    kb,       \* where the keyboard thread is
    depth,    \* bytes of an escape sequence it has read
    key,      \* the key it is about to post
    enabled,  \* LinuxKeyboard::enabled
    stopPipe, \* InputSource::Stop() has written to the pipe
    tty,      \* mode of the terminal: "cooked" or "raw"
    oldt,     \* the mode that ToStandardMode restores
    input,    \* bytes typed and not read
    hungUp,   \* the terminal is gone: reads return 0
    queue,    \* keys posted on the io_context and not handled
    stopped,  \* rest.server().stop() and io_context::stop() were called
    pending,  \* exit signals caught and not handled
    typed,    \* bound: number of bytes typed so far
    signals   \* bound: number of signals sent so far

vars == <<main, kb, depth, key, enabled, stopPipe, tty, oldt, input, hungUp,
          queue, stopped, pending, typed, signals>>
keyboard == <<kb, depth, key>>
device == <<enabled, tty, oldt>>
user == <<hungUp, typed>>
sent == <<pending, signals>>

Setup == {"start", "local", "telnet"}
Loop == {"run", "command"}
\* After the loop: exit_signals, the telnet server, ~LinuxKeyboard in three
\* steps and the rest of repl, rest, and last the timers and io_ctx.
TearDown == {"signals", "telnetGone", "stopThread", "join", "replGone", "restGone"}
End == {"ended", "killed"}

Running == main \notin End

Init ==
    /\ main = "start"
    /\ kb = "none" /\ depth = 0 /\ key = "char"
    /\ enabled = FALSE /\ stopPipe = FALSE
    /\ tty = "cooked" /\ oldt = "cooked"
    /\ input = <<>> /\ hungUp = FALSE /\ queue = <<>>
    /\ stopped = FALSE
    /\ pending = 0 /\ typed = 0 /\ signals = 0

-----------------------------------------------------------------------------
(* The modes of the terminal, and the device's two switches.                *)

ToManualMode == oldt' = tty /\ tty' = "raw"
ToStandardMode == tty' = oldt /\ oldt' = oldt

ActivateInput == ToManualMode /\ enabled' = TRUE

\* Mutant: the terminal stays in manual mode while a command runs.
DeactivateFlagOnly == enabled' = FALSE /\ UNCHANGED <<tty, oldt>>

DeactivateInput == ToStandardMode /\ enabled' = FALSE

-----------------------------------------------------------------------------
(* main, up to io_ctx.run().                                                *)

\* repl.start_local_terminal_session(): the thread, then ActivateInput.
StartLocal ==
    /\ main = "start"
    /\ main' = "local"
    /\ kb' = "wait"
    /\ ActivateInput
    /\ UNCHANGED <<depth, key, stopPipe, input, queue, stopped, user, sent>>

\* repl.start_telnet_session(8888): the port may be taken, which throws.
StartTelnet ==
    /\ main = "local"
    /\ main' \in {"telnet", "telnetGone"}
    /\ UNCHANGED <<keyboard, device, stopPipe, input, queue, stopped, user, sent>>

\* exit_signals.async_wait, then io_ctx.run().
StartRun ==
    /\ main = "telnet"
    /\ main' = "run"
    /\ UNCHANGED <<keyboard, device, stopPipe, input, queue, stopped, user, sent>>

-----------------------------------------------------------------------------
(* main, in io_ctx.run().                                                   *)

\* A key: most only edit the line; the end-of-file key is an exit.
RunKey ==
    /\ main = "run" /\ ~stopped /\ queue # <<>>
    /\ Head(queue) # "ret"
    /\ queue' = Tail(queue)
    /\ stopped' = (Head(queue) = "eof")
    /\ UNCHANGED <<main, keyboard, device, stopPipe, input, user, sent>>

\* CommandProcessor::NewCommand with a line: DeactivateInput, then Feed.
CommandBegin ==
    /\ main = "run" /\ ~stopped /\ queue # <<>>
    /\ Head(queue) = "ret"
    /\ queue' = Tail(queue)
    /\ main' = "command"
    /\ DeactivateInput
    /\ UNCHANGED <<keyboard, stopPipe, input, stopped, user, sent>>

\* Mutant: input is not activated again after an exit.
CommandEndExitQuietly ==
    /\ main = "command"
    /\ main' = "run"
    /\ stopped' \in BOOLEAN
    /\ IF stopped' THEN UNCHANGED device ELSE ActivateInput
    /\ UNCHANGED <<keyboard, stopPipe, input, queue, user, sent>>

\* Feed returns, whatever the command throws; an exit has stopped the
\* io_context.  ActivateInput follows in either case.
CommandEnd ==
    /\ main = "command"
    /\ main' = "run"
    /\ stopped' \in BOOLEAN
    /\ ActivateInput
    /\ UNCHANGED <<keyboard, stopPipe, input, queue, user, sent>>

\* Mutant: the handler runs whether or not a signal was read.
HandleAnySignal ==
    /\ main = "run" /\ ~stopped
    /\ pending' = pending - 1
    /\ stopped' = TRUE
    /\ UNCHANGED <<main, keyboard, device, stopPipe, input, queue, user, signals>>

\* The handler of exit_signals: rest.server().stop(), repl.stop().
HandleSignal ==
    /\ main = "run" /\ ~stopped /\ pending > 0
    /\ pending' = pending - 1
    /\ stopped' = TRUE
    /\ UNCHANGED <<main, keyboard, device, stopPipe, input, queue, user, signals>>

\* run() returns once it is stopped; or an exception leaves a handler of a
\* telnet session (see ReplSessions).
LeaveLoop ==
    /\ main = "run"
    /\ main' = "signals"
    /\ UNCHANGED <<keyboard, device, stopPipe, input, queue, stopped, user, sent>>

Return == stopped /\ LeaveLoop
Escape == ~stopped /\ LeaveLoop

-----------------------------------------------------------------------------
(* main: the destructors, in the reverse order of construction.             *)

\* ~signal_set: SIGINT and SIGTERM get their default action back.
DestroySignals ==
    /\ main = "signals"
    /\ main' = "telnetGone"
    /\ pending' = 0
    /\ UNCHANGED <<keyboard, device, stopPipe, input, queue, stopped, user, signals>>

\* ~LinuxKeyboard: ToStandardMode.
RestoreMode ==
    /\ main = "telnetGone"
    /\ main' = "stopThread"
    /\ ToStandardMode
    /\ UNCHANGED <<keyboard, enabled, stopPipe, input, queue, stopped, user, sent>>

\* Mutant: the pipe is closed on this side only.
StopNothing ==
    /\ main = "stopThread"
    /\ main' = "join"
    /\ UNCHANGED <<keyboard, device, stopPipe, input, queue, stopped, user, sent>>

\* is.Stop().
StopInput ==
    /\ main = "stopThread"
    /\ main' = "join"
    /\ stopPipe' = TRUE
    /\ UNCHANGED <<keyboard, device, input, queue, stopped, user, sent>>

\* Mutant: the thread is detached.
Detach ==
    /\ main = "join"
    /\ main' = "replGone"
    /\ UNCHANGED <<keyboard, device, stopPipe, input, queue, stopped, user, sent>>

\* servant.join().
Join ==
    /\ main = "join" /\ kb = "done"
    /\ main' = "replGone"
    /\ UNCHANGED <<keyboard, device, stopPipe, input, queue, stopped, user, sent>>

\* ~coro_http_server calls stop().  If the exit action or the signal handler
\* has called it before, this is an early return.  Otherwise it posts the
\* closing of the acceptor to the io_context and waits for it, for ever: the
\* loop is over.
StopRest ==
    /\ main = "replGone" /\ stopped
    /\ main' = "restGone"
    /\ UNCHANGED <<keyboard, device, stopPipe, input, queue, stopped, user, sent>>

\* The timers and io_ctx, with the keys still queued.
DestroyContext ==
    /\ main = "restGone"
    /\ main' = "ended"
    /\ queue' = <<>>
    /\ UNCHANGED <<keyboard, device, stopPipe, input, stopped, user, sent>>

-----------------------------------------------------------------------------
(* The keyboard thread.                                                     *)

\* cv.wait(enabled).
Awake ==
    /\ Running /\ kb = "wait" /\ enabled
    /\ kb' = "select"
    /\ UNCHANGED <<main, depth, key, device, stopPipe, input, queue, stopped, user, sent>>

\* WaitKbHit: the pipe is tested first.
Select ==
    /\ Running /\ kb = "select"
    /\ stopPipe \/ input # <<>> \/ hungUp
    /\ kb' = IF stopPipe THEN "done" ELSE "read"
    /\ depth' = 0
    /\ UNCHANGED <<main, key, device, stopPipe, input, queue, stopped, user, sent>>

Decoded(b) == CASE b = "ret" -> "ret" [] b = "eot" -> "eof" [] OTHER -> "char"

\* Bytes after which Get() reads another one, without a select.
Continues(b) ==
    \/ depth = 0 /\ b = "esc"
    \/ depth = 1 /\ b = "bracket"
    \/ depth = 2 /\ b = "three"

\* GetChar: a blocking read of one byte.
ReadByte ==
    /\ Running /\ kb = "read" /\ input # <<>>
    /\ input' = Tail(input)
    /\ IF Continues(Head(input))
       THEN depth' = depth + 1 /\ UNCHANGED <<kb, key>>
       ELSE /\ kb' = "notify"
            /\ depth' = 0
            /\ key' = IF depth = 0 THEN Decoded(Head(input)) ELSE "char"
    /\ UNCHANGED <<main, device, stopPipe, queue, stopped, user, sent>>

\* At the end of the file read returns 0 and the byte is 0: a character.
ReadNothing ==
    /\ Running /\ kb = "read" /\ input = <<>> /\ hungUp
    /\ kb' = "notify" /\ depth' = 0 /\ key' = "char"
    /\ UNCHANGED <<main, device, stopPipe, input, queue, stopped, user, sent>>

\* InputDevice::Notify: the key is posted; then the next round.  A key posted
\* when the loop is over is never handled, and is not kept here.
LoopOver == stopped \/ main \in TearDown

Notify ==
    /\ Running /\ kb = "notify" /\ (LoopOver \/ Len(queue) < MaxQueue)
    /\ kb' = "wait"
    /\ queue' = IF LoopOver THEN queue ELSE Append(queue, key)
    /\ UNCHANGED <<main, depth, key, device, stopPipe, input, stopped, user, sent>>

-----------------------------------------------------------------------------
(* The user and other processes.                                            *)

Type(b) ==
    /\ Running /\ ~hungUp /\ typed < MaxBytes
    /\ typed' = typed + 1
    /\ input' = Append(input, b)
    /\ UNCHANGED <<main, keyboard, device, stopPipe, hungUp, queue, stopped, sent>>

\* Mutant: signals are not caught while a command runs.
CaughtAtPrompt == main \in {"run", "signals"}

Caught == main \in Loop \cup {"signals"}

\* A caught signal may run its handler on the keyboard thread.  The select it
\* interrupts returns -1 and leaves both descriptors in the set, which reads
\* as a stop; the read it interrupts leaves the byte 0.
Interrupt ==
    \/ UNCHANGED keyboard
    \/ kb = "select" /\ kb' = "done" /\ UNCHANGED <<depth, key>>
    \/ /\ kb = "read" /\ input = <<>>
       /\ kb' = "notify" /\ depth' = 0 /\ key' = "char"

Kill == main' = "killed" /\ UNCHANGED <<keyboard, pending>>

\* SIGINT or SIGTERM.
Signal ==
    /\ Running /\ signals < MaxSignals
    /\ signals' = signals + 1
    /\ IF Caught THEN pending' = pending + 1 /\ Interrupt /\ UNCHANGED main ELSE Kill
    /\ UNCHANGED <<device, stopPipe, input, queue, stopped, user>>

\* SIGHUP, SIGUSR1 or SIGUSR2: handle_signal prints and waits again.
UserSignal ==
    /\ Running /\ signals < MaxSignals
    /\ signals' = signals + 1
    /\ IF Caught THEN Interrupt /\ UNCHANGED <<main, pending>> ELSE Kill
    /\ UNCHANGED <<device, stopPipe, input, queue, stopped, user>>

\* The terminal goes away, and SIGHUP comes.
HangUp ==
    /\ Running /\ ~hungUp
    /\ hungUp' = TRUE
    /\ IF Caught THEN Interrupt /\ UNCHANGED <<main, pending>> ELSE Kill
    /\ UNCHANGED <<device, stopPipe, input, queue, stopped, typed, signals>>

-----------------------------------------------------------------------------
Teardown == DestroySignals \/ RestoreMode \/ StopInput \/ Join \/ StopRest \/ DestroyContext
Main ==
    \/ StartLocal \/ StartTelnet \/ StartRun
    \/ RunKey \/ CommandBegin \/ CommandEnd \/ Return
    \/ Teardown
Keyboard == Awake \/ Select \/ ReadByte \/ ReadNothing \/ Notify
Environment == (\E b \in Byte : Type(b)) \/ Signal \/ UserSignal \/ HangUp \/ Escape

Next == Main \/ HandleSignal \/ Keyboard \/ Environment

Spec == Init /\ [][Next]_vars

\* Both threads are scheduled, and the io_context looks at its signal pipe in
\* every round.  Nothing makes a user type.
FairSpec == Spec /\ WF_vars(Main) /\ WF_vars(HandleSignal) /\ WF_vars(Keyboard)

-----------------------------------------------------------------------------
(* Properties.                                                              *)

\* The type invariant.
TypeOK ==
    /\ main \in Setup \cup Loop \cup TearDown \cup End
    /\ kb \in {"none", "wait", "select", "read", "notify", "done"}
    /\ depth \in 0..3
    /\ key \in {"char", "ret", "eof"}
    /\ enabled \in BOOLEAN /\ stopPipe \in BOOLEAN /\ hungUp \in BOOLEAN /\ stopped \in BOOLEAN
    /\ tty \in {"cooked", "raw"} /\ oldt \in {"cooked", "raw"}
    /\ \A i \in 1..Len(input) : input[i] \in Byte
    /\ Len(queue) <= MaxQueue
    /\ \A i \in 1..Len(queue) : queue[i] \in {"char", "ret", "eof"}
    /\ pending \in 0..signals
    /\ typed \in 0..MaxBytes /\ signals \in 0..MaxSignals

\* The keyboard thread, which posts through a reference to the scheduler,
\* never outlives the scheduler and the io_context.
ThreadEndsBeforeContext ==
    main \in {"replGone", "restGone", "ended"} => kb = "done"

\* Once repl is gone the terminal is in the mode it began with, whether the
\* loop ended by an exit, a signal or an exception, or the setup failed, with
\* any number of commands before.
TerminalRestored == main \in {"replGone", "restGone", "ended"} => tty = "cooked"

\* ~LinuxKeyboard never waits for a thread that waits to be enabled: the pipe
\* would not wake it.
JoinFindsInputEnabled == main = "join" => enabled

InsideEscape == kb = "read" /\ depth > 0 /\ input = <<>>

\* The program is what ProgramLife promises: whatever is typed or sent, it is
\* not killed while it serves, never stops to serve in the middle of a command,
\* and returns only if asked, with the terminal as it was found.
LifePhase ==
    CASE main \in Setup -> "starting"
      [] main \in Loop -> "serving"
      [] main \in TearDown -> "ending"
      [] OTHER -> main

Life == INSTANCE ProgramLife WITH phase <- LifePhase, mode <- tty, asked <- stopped

ImplementsProgramLife == Life!Spec

\* ~coro_http_server waits for a loop that is over.
RestBlocks == main = "replGone" /\ ~stopped

\* A signal that is caught in the loop ends the program, unless the keyboard
\* thread is in the middle of an escape sequence or an exception was first.
SignalEndsOrEscapePends ==
    (main = "run" /\ pending > 0) ~> (main \in End \/ InsideEscape \/ RestBlocks)

\* src/lynx/main.cpp:188: an exception that leaves the loop, or the setup, is
\* "caught in main" and reported, and the program ends.
ExceptionEndsProgram == (main \in TearDown /\ ~stopped) ~> (main \in End)

=============================================================================
