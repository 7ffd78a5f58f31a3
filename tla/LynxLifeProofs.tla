--------------------------- MODULE LynxLifeProofs ---------------------------
(***************************************************************************)
(* The safety properties of the two ways in which lynx runs.               *)
(*                                                                         *)
(* In the foreground (LynxShutdown), for every set of bytes and all        *)
(* bounds: the terminal gets its mode back, the keyboard thread ends       *)
(* before what it refers to, and the join never waits for a thread that    *)
(* waits to be enabled.  None is inductive: the mode at the end is the one *)
(* ToManualMode saved at the last activation, so the invariant follows the *)
(* mode, the saved mode and the enabled flag through every stage of main.  *)
(*                                                                         *)
(* In the background (LynxDaemon), for any number of signals and whichever *)
(* standard descriptors were open: what the daemon's streams are, that it  *)
(* keeps its resources and has no terminal, and that a failure leaves no   *)
(* server.  None is inductive: each is about the end of daemonize(), and   *)
(* follows from what holds before each of its calls.                       *)
(***************************************************************************)
EXTENDS LynxShutdown, LynxDaemon, TLAPS

\* Where main is while the device is active, and where it was restored.
Active == {"local", "telnet", "run", "signals", "telnetGone"}
Restored == {"stopThread", "join", "replGone", "restGone", "ended"}

\* The terminal is raw exactly while the device is active, what is saved is
\* the mode from before, and the thread may run whenever it is to be stopped.
DeviceInv ==
    /\ main \in {"start", "command"} \cup Restored => tty = "cooked"
    /\ main \in Active => tty = "raw"
    /\ oldt = "cooked"
    /\ main \in Active \cup {"stopThread", "join"} => enabled

\* The control state, with what is gone after the join.
ControlInv ==
    /\ main \in Setup \cup Loop \cup TearDown \cup End
    /\ main \in {"replGone", "restGone", "ended"} => kb = "done"
    /\ main \in {"restGone", "ended"} => stopped
    /\ stopped \in BOOLEAN

IInv == ControlInv /\ DeviceInv

USE DEF ControlInv, Active, Restored, Setup, Loop, TearDown, End

-----------------------------------------------------------------------------
(* Type correctness.  The two queues are typed as sequences, which Tail and *)
(* Append preserve, and a signal is pending only if it was sent.            *)

Keys == {"char", "ret", "eof"}

TInv ==
    /\ main \in Setup \cup Loop \cup TearDown \cup End
    /\ kb \in {"none", "wait", "select", "read", "notify", "done"}
    /\ depth \in 0..3 /\ key \in Keys
    /\ enabled \in BOOLEAN /\ stopPipe \in BOOLEAN /\ hungUp \in BOOLEAN /\ stopped \in BOOLEAN
    /\ tty \in {"cooked", "raw"} /\ oldt \in {"cooked", "raw"}
    /\ input \in Seq(Byte)
    /\ queue \in Seq(Keys) /\ Len(queue) <= MaxQueue
    /\ pending \in Nat /\ pending <= signals
    /\ typed \in 0..MaxBytes /\ signals \in 0..MaxSignals

\* The empty queue is a queue of anything.
LEMMA EmptyType == ASSUME NEW S PROVE <<>> \in Seq(S) /\ Len(<<>>) = 0
OBVIOUS

\* Removing the first element of a queue.
LEMMA TailType ==
    ASSUME NEW S, NEW q \in Seq(S), q # <<>>
    PROVE  /\ Head(q) \in S /\ Tail(q) \in Seq(S) /\ Len(Tail(q)) = Len(q) - 1
           /\ Len(q) \in Nat
OBVIOUS

LEMMA InitType == Init => TInv
<1> SUFFICES ASSUME Init PROVE TInv
  OBVIOUS
<1>1. input \in Seq(Byte) /\ queue \in Seq(Keys) /\ Len(queue) = 0
  BY EmptyType DEF Init
<1>2. Len(queue) <= MaxQueue
  BY <1>1, ShutdownAssumption
<1>3. typed \in 0..MaxBytes /\ signals \in 0..MaxSignals
  BY ShutdownAssumption DEF Init
<1>4. pending \in Nat /\ pending <= signals /\ depth \in 0..3
  BY DEF Init
<1>5. key \in Keys
  BY DEF Init, Keys
<1> QED
  BY <1>1, <1>2, <1>3, <1>4, <1>5 DEF Init, TInv

LEMMA MainType == TInv /\ (Main \/ HandleSignal) => TInv'
<1> SUFFICES ASSUME TInv, Main \/ HandleSignal PROVE TInv'
  OBVIOUS
<1> USE DEF TInv, keyboard, device, user, sent, ToManualMode, ToStandardMode
<1>1. CASE StartLocal \/ StartTelnet \/ StartRun
  BY <1>1, ZenonT(40) DEF StartLocal, ActivateInput, StartTelnet, StartRun
<1>2. CASE RunKey \/ CommandBegin
  <2>1. queue # <<>>
    BY <1>2 DEF RunKey, CommandBegin
  <2>2. queue' = Tail(queue)
    BY <1>2 DEF RunKey, CommandBegin
  <2>3. queue' \in Seq(Keys) /\ Len(queue') <= MaxQueue
    <3>1. Tail(queue) \in Seq(Keys) /\ Len(Tail(queue)) = Len(queue) - 1 /\ Len(queue) \in Nat
      BY <2>1, TailType
    <3> QED
      BY <3>1, <2>2, ShutdownAssumption
  <2> QED
    BY <1>2, <2>3 DEF RunKey, CommandBegin, DeactivateInput
<1>3. CASE CommandEnd \/ Return
  BY <1>3 DEF CommandEnd, ActivateInput, Return, LeaveLoop
<1>4. CASE HandleSignal
  <2>1. pending' \in Nat /\ pending' <= signals'
    <3>1. pending' = pending - 1 /\ pending > 0 /\ signals' = signals
      BY <1>4 DEF HandleSignal
    <3>2. signals \in Int /\ pending \in Nat /\ pending <= signals
      BY ShutdownAssumption
    <3> QED
      BY <3>1, <3>2
  <2> QED
    BY <1>4, <2>1 DEF HandleSignal
<1>5. CASE Teardown
  <2>1. CASE DestroySignals
    <3>1. 0 <= signals
      BY ShutdownAssumption
    <3> QED
      BY <2>1, <3>1 DEF DestroySignals
  <2>2. CASE RestoreMode \/ StopInput \/ Join \/ StopRest
    BY <2>2 DEF RestoreMode, StopInput, Join, StopRest
  <2>3. CASE DestroyContext
    <3>1. queue' \in Seq(Keys) /\ Len(queue') = 0
      BY <2>3, EmptyType DEF DestroyContext
    <3>2. Len(queue') <= MaxQueue
      BY <3>1, ShutdownAssumption
    <3> QED
      BY <2>3, <3>1, <3>2 DEF DestroyContext
  <2> QED
    BY <1>5, <2>1, <2>2, <2>3 DEF Teardown
<1> QED
  BY <1>1, <1>2, <1>3, <1>4, <1>5 DEF Main

LEMMA KeyboardType == TInv /\ Keyboard => TInv'
<1> SUFFICES ASSUME TInv, Keyboard PROVE TInv'
  OBVIOUS
<1> USE DEF TInv, device, user, sent
<1>1. CASE Awake \/ Select \/ ReadNothing
  BY <1>1 DEF Awake, Select, ReadNothing, Keys
<1>2. CASE ReadByte
  <2>1. input' \in Seq(Byte)
    BY <1>2, TailType DEF ReadByte
  <2>2. depth' \in 0..3
    BY <1>2 DEF ReadByte, Continues
  <2>3. kb' \in {"read", "notify"} /\ key' \in Keys
    BY <1>2 DEF ReadByte, Decoded, Keys
  <2> QED
    BY <1>2, <2>1, <2>2, <2>3 DEF ReadByte
<1>3. CASE Notify
  <2>1. queue' \in Seq(Keys) /\ Len(queue') <= MaxQueue
    <3>1. CASE LoopOver
      BY <1>3, <3>1 DEF Notify
    <3>2. CASE ~LoopOver
      <4>1. queue' = Append(queue, key) /\ Len(queue) < MaxQueue
        BY <1>3, <3>2 DEF Notify
      <4>2. Append(queue, key) \in Seq(Keys) /\ Len(Append(queue, key)) = Len(queue) + 1
            /\ Len(queue) \in Nat
        OBVIOUS
      <4> QED
        BY <4>1, <4>2, ShutdownAssumption
    <3> QED
      BY <3>1, <3>2
  <2> QED
    BY <1>3, <2>1 DEF Notify
<1> QED
  BY <1>1, <1>2, <1>3 DEF Keyboard

LEMMA EnvironmentType == TInv /\ Environment => TInv'
<1> SUFFICES ASSUME TInv, Environment PROVE TInv'
  OBVIOUS
<1> USE DEF TInv, device, keyboard, user, sent
<1>1. ASSUME NEW b \in Byte, Type(b) PROVE TInv'
  <2>1. input' \in Seq(Byte)
    BY <1>1 DEF Type
  <2>2. typed' \in 0..MaxBytes
    BY <1>1, ShutdownAssumption DEF Type
  <2> QED
    BY <1>1, <2>1, <2>2 DEF Type
<1>2. CASE Signal
  <2>1. signals' \in 0..MaxSignals /\ pending' \in Nat /\ pending' <= signals'
    BY <1>2, ShutdownAssumption DEF Signal, Kill
  <2>2. kb' \in {"none", "wait", "select", "read", "notify", "done"} /\ depth' \in 0..3
        /\ key' \in Keys
    BY <1>2 DEF Signal, Interrupt, Kill, Keys
  <2>3. main' \in Setup \cup Loop \cup TearDown \cup End
    BY <1>2 DEF Signal, Kill
  <2> QED
    BY <1>2, <2>1, <2>2, <2>3 DEF Signal
<1>3. CASE UserSignal \/ HangUp
  <2>1. signals' \in 0..MaxSignals /\ pending' = pending /\ pending <= signals'
    BY <1>3, ShutdownAssumption DEF UserSignal, HangUp, Kill
  <2>2. kb' \in {"none", "wait", "select", "read", "notify", "done"} /\ depth' \in 0..3
        /\ key' \in Keys
    BY <1>3 DEF UserSignal, HangUp, Interrupt, Kill, Keys
  <2>3. main' \in Setup \cup Loop \cup TearDown \cup End
    BY <1>3 DEF UserSignal, HangUp, Kill
  <2> QED
    BY <1>3, <2>1, <2>2, <2>3 DEF UserSignal, HangUp
<1>4. CASE Escape
  BY <1>4 DEF Escape, LeaveLoop
<1> QED
  BY <1>1, <1>2, <1>3, <1>4 DEF Environment

\* Every variable has its type in every reachable state: the queue keeps its
\* bound and no signal is handled that was not sent.
THEOREM ShutdownTypeCorrect == Spec => []TypeOK
<1>1. Init => TInv
  BY InitType
<1>2. TInv /\ [Next]_vars => TInv'
  <2> SUFFICES ASSUME TInv, [Next]_vars PROVE TInv'
    OBVIOUS
  <2>1. CASE Next
    BY <2>1, MainType, KeyboardType, EnvironmentType DEF Next
  <2>2. CASE UNCHANGED vars
    BY <2>2 DEF TInv, vars
  <2> QED
    BY <2>1, <2>2
<1>3. TInv => TypeOK
  BY ShutdownAssumption DEF TInv, TypeOK, Keys
<1> QED
  BY <1>1, <1>2, <1>3, PTL DEF Spec

-----------------------------------------------------------------------------
\* The initial state satisfies the invariant.
LEMMA InitInv == Init => IInv
BY DEF Init, IInv, DeviceInv

\* Every step of main preserves it: each moves between two stages, and those
\* that change the device move between an active and a restored one.
LEMMA MainInv == IInv /\ (Main \/ HandleSignal) => IInv'
<1> SUFFICES ASSUME IInv, Main \/ HandleSignal PROVE IInv'
  OBVIOUS
<1> USE DEF IInv, DeviceInv, keyboard, device, ToManualMode, ToStandardMode
<1>1. CASE StartLocal
  BY <1>1 DEF StartLocal, ActivateInput
<1>2. CASE StartTelnet
  BY <1>2 DEF StartTelnet
<1>3. CASE StartRun
  BY <1>3 DEF StartRun
<1>4. CASE RunKey
  BY <1>4 DEF RunKey
<1>5. CASE CommandBegin
  BY <1>5 DEF CommandBegin, DeactivateInput
<1>6. CASE CommandEnd
  BY <1>6 DEF CommandEnd, ActivateInput
<1>7. CASE Return
  BY <1>7 DEF Return, LeaveLoop
<1>8. CASE DestroySignals
  BY <1>8 DEF DestroySignals
<1>9. CASE RestoreMode
  BY <1>9 DEF RestoreMode
<1>10. CASE StopInput
  BY <1>10 DEF StopInput
<1>11. CASE Join
  BY <1>11 DEF Join
<1>12. CASE StopRest \/ DestroyContext
  BY <1>12 DEF StopRest, DestroyContext
<1>13. CASE HandleSignal
  BY <1>13 DEF HandleSignal
<1> QED
  BY <1>1, <1>2, <1>3, <1>4, <1>5, <1>6, <1>7, <1>8, <1>9, <1>10, <1>11, <1>12,
     <1>13 DEF Main, Teardown

\* The keyboard thread touches neither main nor the device, and none of its
\* steps starts from "done".
LEMMA KeyboardInv == IInv /\ Keyboard => IInv'
<1> SUFFICES ASSUME IInv, Keyboard PROVE IInv'
  OBVIOUS
<1> USE DEF IInv, DeviceInv, device
<1>1. CASE Awake
  BY <1>1 DEF Awake
<1>2. CASE Select
  BY <1>2 DEF Select
<1>3. CASE ReadByte
  BY <1>3 DEF ReadByte
<1>4. CASE ReadNothing
  BY <1>4 DEF ReadNothing
<1>5. CASE Notify
  BY <1>5 DEF Notify
<1> QED
  BY <1>1, <1>2, <1>3, <1>4, <1>5 DEF Keyboard

\* A signal ends the thread, the program, or neither; it never revives a
\* thread that is done.
LEMMA EnvironmentInv == IInv /\ Environment => IInv'
<1> SUFFICES ASSUME IInv, Environment PROVE IInv'
  OBVIOUS
<1> USE DEF IInv, DeviceInv, device, keyboard
<1>1. ASSUME NEW b \in Byte, Type(b) PROVE IInv'
  BY <1>1 DEF Type
<1>2. CASE Signal
  BY <1>2 DEF Signal, Interrupt, Kill
<1>3. CASE UserSignal
  BY <1>3 DEF UserSignal, Interrupt, Kill
<1>4. CASE HangUp
  BY <1>4 DEF HangUp, Interrupt, Kill
<1>5. CASE Escape
  BY <1>5 DEF Escape, LeaveLoop
<1> QED
  BY <1>1, <1>2, <1>3, <1>4, <1>5 DEF Environment

\* The invariant holds in every reachable state.
THEOREM ShutdownInvariant == Spec => []IInv
<1>1. Init => IInv
  BY InitInv
<1>2. IInv /\ [Next]_vars => IInv'
  <2> SUFFICES ASSUME IInv, [Next]_vars PROVE IInv'
    OBVIOUS
  <2>1. CASE Next
    BY <2>1, MainInv, KeyboardInv, EnvironmentInv DEF Next
  <2>2. CASE UNCHANGED vars
    BY <2>2 DEF IInv, DeviceInv, vars
  <2> QED
    BY <2>1, <2>2
<1> QED
  BY <1>1, <1>2, PTL DEF Spec

\* ~LinuxKeyboard joins the thread before the scheduler and the io_context
\* that it posts to are destroyed, however the program ends.
THEOREM KeyboardThreadEndsFirst == Spec => []ThreadEndsBeforeContext
<1>1. IInv => ThreadEndsBeforeContext
  BY DEF IInv, ThreadEndsBeforeContext
<1> QED
  BY <1>1, ShutdownInvariant, PTL

\* Once repl is destroyed the terminal is as it was found, after any number of
\* commands, keys and signals, and after an exception too.
THEOREM TerminalIsRestored == Spec => []TerminalRestored
<1>1. IInv => TerminalRestored
  BY DEF IInv, DeviceInv, TerminalRestored
<1> QED
  BY <1>1, ShutdownInvariant, PTL

\* servant.join() never waits for a thread that is disabled.
THEOREM JoinIsNotDisabled == Spec => []JoinFindsInputEnabled
<1>1. IInv => JoinFindsInputEnabled
  BY DEF IInv, DeviceInv, JoinFindsInputEnabled
<1> QED
  BY <1>1, ShutdownInvariant, PTL

-----------------------------------------------------------------------------
(* The refinement.  A step of main is the step of ProgramLife of the same   *)
(* meaning; the keyboard thread and the user are invisible there, and a     *)
(* signal is either caught, which is a stutter, or kills outside the loop.  *)

\* Steps of main, and the handler of the signals.
LEMMA MainLife == IInv /\ (Main \/ HandleSignal) => [Life!Next]_(Life!vars)
<1> SUFFICES ASSUME IInv, Main \/ HandleSignal PROVE [Life!Next]_(Life!vars)
  OBVIOUS
<1> USE DEF IInv, DeviceInv, keyboard, device, ToManualMode, ToStandardMode, LifePhase,
            Life!vars
<1>1. CASE StartLocal
  <2>1. Life!Take
    BY <1>1 DEF StartLocal, ActivateInput, Life!Take
  <2> QED
    BY <2>1 DEF Life!Next
<1>2. CASE StartTelnet \/ StartRun
  <2>1. Life!SetUp \/ UNCHANGED Life!vars
    BY <1>2 DEF StartTelnet, StartRun, Life!SetUp
  <2> QED
    BY <2>1 DEF Life!Next
<1>3. CASE RunKey \/ HandleSignal
  <2>1. main = "run" /\ ~stopped /\ UNCHANGED <<main, tty>>
    BY <1>3 DEF RunKey, HandleSignal
  <2>2. stopped' = TRUE \/ stopped' = FALSE
    BY <1>3 DEF RunKey, HandleSignal
  <2>3. stopped = FALSE
    BY <2>1
  <2>4. CASE stopped' = TRUE
    <3>1. Life!Ask
      BY <2>1, <2>4 DEF Life!Ask
    <3> QED
      BY <3>1 DEF Life!Next
  <2>5. CASE stopped' = FALSE
    BY <2>1, <2>3, <2>5
  <2> QED
    BY <2>2, <2>4, <2>5
<1>4. CASE CommandBegin
  <2>1. Life!Lend
    BY <1>4 DEF CommandBegin, DeactivateInput, Life!Lend
  <2> QED
    BY <2>1 DEF Life!Next
<1>5. CASE CommandEnd
  <2>1. Life!TakeBack
    BY <1>5 DEF CommandEnd, ActivateInput, Life!TakeBack
  <2> QED
    BY <2>1 DEF Life!Next
<1>6. CASE Return
  <2>1. Life!Leave
    BY <1>6 DEF Return, LeaveLoop, Life!Leave
  <2> QED
    BY <2>1 DEF Life!Next
<1>7. CASE RestoreMode
  <2>1. Life!GiveBack
    BY <1>7 DEF RestoreMode, Life!GiveBack
  <2> QED
    BY <2>1 DEF Life!Next
<1>8. CASE DestroySignals \/ StopInput \/ Join \/ StopRest
  BY <1>8 DEF DestroySignals, StopInput, Join, StopRest
<1> QED
  <2>1. CASE DestroyContext
    <3>1. stopped
      BY <2>1 DEF DestroyContext
    <3>2. Life!Finish
      BY <2>1, <3>1 DEF DestroyContext, Life!Finish
    <3> QED
      BY <3>2 DEF Life!Next
  <2> QED
    BY <2>1, <1>1, <1>2, <1>3, <1>4, <1>5, <1>6, <1>7, <1>8 DEF Main, Teardown

\* Everything else is invisible or kills.
LEMMA OthersLife == IInv /\ (Keyboard \/ Environment) => [Life!Next]_(Life!vars)
<1> SUFFICES ASSUME IInv, Keyboard \/ Environment PROVE [Life!Next]_(Life!vars)
  OBVIOUS
<1> USE DEF IInv, DeviceInv, device, LifePhase, Life!vars
<1>1. CASE Keyboard
  BY <1>1 DEF Keyboard, Awake, Select, ReadByte, ReadNothing, Notify
<1>2. ASSUME NEW b \in Byte, Type(b) PROVE UNCHANGED Life!vars
  BY <1>2 DEF Type
<1>3. CASE Signal \/ UserSignal \/ HangUp
  <2>1. Life!Kill \/ UNCHANGED Life!vars
    BY <1>3 DEF Signal, UserSignal, HangUp, Caught, Kill, Running, Life!Kill
  <2> QED
    BY <2>1 DEF Life!Next
<1>4. CASE Escape
  <2>1. Life!Leave
    BY <1>4 DEF Escape, LeaveLoop, keyboard, Life!Leave
  <2> QED
    BY <2>1 DEF Life!Next
<1> QED
  BY <1>1, <1>2, <1>3, <1>4 DEF Environment

\* No signal kills the program while it serves, it stops to serve only between
\* commands, and it returns only if it was asked to and has given the terminal
\* back.
THEOREM ShutdownImplementsLife == Spec => ImplementsProgramLife
<1>1. Init => Life!Init
  BY DEF Init, Life!Init, LifePhase
<1>2. IInv /\ [Next]_vars => [Life!Next]_(Life!vars)
  <2> SUFFICES ASSUME IInv, [Next]_vars PROVE [Life!Next]_(Life!vars)
    OBVIOUS
  <2>1. CASE Next
    BY <2>1, MainLife, OthersLife DEF Next
  <2>2. CASE UNCHANGED vars
    BY <2>2 DEF vars, Life!vars, LifePhase
  <2> QED
    BY <2>1, <2>2
<1> QED
  BY <1>1, <1>2, ShutdownInvariant, PTL DEF Spec, ImplementsProgramLife, Life!Spec

-----------------------------------------------------------------------------
(* In the background.                                                       *)

File == {"closed", "inherited", "null", "output"} \cup Resources

Point == {"absent", "fork", "setsid", "chdir", "forkAgain", "leave", "close", "null", "output",
          "dup", "rebuild", "run", "exit0", "exit1"}

DaemonTInv ==
    /\ pc \in [Proc -> Point]
    /\ fd \in [Proc -> [Fd -> File]]
    /\ leader \in [Proc -> BOOLEAN]
    /\ terminal \in [Proc -> BOOLEAN]
    /\ inherited \subseteq Std

\* Where each process can be: a process exists only after its parent has
\* forked, and then the parent can only leave.
ProcessInv ==
    /\ pc["launcher"] \in {"fork", "leave", "exit0", "exit1"}
    /\ pc["child"] \in {"absent", "setsid", "chdir", "forkAgain", "leave", "exit0", "exit1"}
    /\ pc["daemon"] \in {"absent", "close", "null", "output", "dup", "rebuild", "run",
                         "exit0", "exit1"}
    /\ pc["child"] # "absent" => pc["launcher"] \in {"leave", "exit0"}
    /\ pc["daemon"] # "absent" => pc["child"] \in {"leave", "exit0"}

\* The child has no terminal once it leads a session, and the daemon inherits
\* the session and not the lead.
DetachInv ==
    /\ pc["child"] \in {"chdir", "forkAgain", "leave", "exit0"} => ~terminal["child"]
    /\ pc["daemon"] # "absent" => ~terminal["daemon"] /\ ~leader["daemon"]

\* From number m on come the reactor, the sockets and the pipe, after the log if
\* it did not take the number of a missing stream.
Holds(table, m) ==
    /\ m = 4 => table[3] = "log"
    /\ table[m] = "interrupter" /\ table[m + 1] = "epoll" /\ table[m + 2] = "timer"
    /\ table[m + 3] = "http" /\ table[m + 4] = "telnet"
    /\ table[m + 5] = "pipeIn" /\ table[m + 6] = "pipeOut"

\* The program started with at most one of its streams missing: no object that
\* the daemon rebuilds remembers a standard number.
Reserved(m) ==
    /\ Holds(AtStart, m)
    /\ \A n \in Fd : n < m => AtStart[n] \in {"inherited", "log"}
    /\ \A n \in Fd : n > m + 6 => AtStart[n] = "closed"

\* The standard descriptors of the daemon before each call.
StreamInv ==
    LET f == fd["daemon"]
    IN  /\ pc["daemon"] = "null" => f[0] = "closed" /\ f[1] = "closed" /\ f[2] = "closed"
        /\ pc["daemon"] = "output" => f[0] = "null" /\ f[1] = "closed" /\ f[2] = "closed"
        /\ pc["daemon"] = "dup" => f[0] = "null" /\ f[1] = "output" /\ f[2] = "closed"
        /\ pc["daemon"] = "rebuild" \/ (pc["daemon"] = "run" /\ \E m \in {3, 4} : Reserved(m)) =>
                f[0] = "null" /\ f[1] = "output" /\ f[2] = "output"

\* The table of a process that has what it opened at the start.
ResourceInv ==
    \A m \in {3, 4} : Reserved(m) => \A p \in Proc : pc[p] # "absent" => Holds(fd[p], m)

DaemonIInv == DaemonTInv /\ ProcessInv /\ DetachInv /\ StreamInv /\ ResourceInv

-----------------------------------------------------------------------------
(* Opening a file.                                                          *)

\* The lowest free number is the one below which all are taken.
LEMMA LowestFree ==
    ASSUME NEW table, NEW n \in Fd, table[n] = "closed",
           \A k \in Fd : k < n => table[k] # "closed"
    PROVE  Min({k \in Fd : table[k] = "closed"}) = n
<1> DEFINE S == {k \in Fd : table[k] = "closed"}
<1>1. n \in S /\ \A k \in S : n <= k
  BY DEF Fd
<1>2. \A x \in S : (\A y \in S : x <= y) => x = n
  BY <1>1 DEF Fd
<1> HIDE DEF S
<1>3. Min(S) = n
  BY <1>1, <1>2 DEF Min
<1> QED
  BY <1>3 DEF S

LEMMA OpenAt ==
    ASSUME NEW table \in [Fd -> File], NEW file \in File, NEW n \in Fd, table[n] = "closed",
           \A k \in Fd : k < n => table[k] # "closed"
    PROVE  /\ Open(table, file) \in [Fd -> File]
           /\ Open(table, file)[n] = file
           /\ \A k \in Fd \ {n} : Open(table, file)[k] = table[k]
BY LowestFree DEF Open

LEMMA OpenType ==
    ASSUME NEW table \in [Fd -> File], NEW file \in File
    PROVE  Open(table, file) \in [Fd -> File]
BY DEF Open

-----------------------------------------------------------------------------
(* The numbers at the start.                                                *)

FirstFree(table, n) == \A k \in Fd : table[k] = "closed" <=> k >= n

\* With all numbers below n taken, a file gets number n.
LEMMA OpenNext ==
    ASSUME NEW table \in [Fd -> File], NEW file \in File \ {"closed"}, NEW n \in Fd,
           FirstFree(table, n)
    PROVE  /\ Open(table, file) \in [Fd -> File]
           /\ Open(table, file)[n] = file
           /\ \A k \in Fd \ {n} : Open(table, file)[k] = table[k]
           /\ FirstFree(Open(table, file), n + 1)
<1>1. table[n] = "closed" /\ \A k \in Fd : k < n => table[k] # "closed"
  BY DEF FirstFree, Fd
<1>2. /\ Open(table, file) \in [Fd -> File]
      /\ Open(table, file)[n] = file
      /\ \A k \in Fd \ {n} : Open(table, file)[k] = table[k]
  BY <1>1, OpenAt
<1>3. \A k \in Fd : k >= n + 1 <=> (k >= n /\ k # n)
  BY DEF Fd
<1>4. FirstFree(Open(table, file), n + 1)
  BY <1>2, <1>3 DEF FirstFree
<1> QED
  BY <1>2, <1>4

\* What comes after the interrupter.
Rest(table) == OpenPipe(OpenSockets(Open(Open(table, "epoll"), "timer")))

LEMMA RestOpened ==
    ASSUME NEW table \in [Fd -> File], NEW n \in 2..5, FirstFree(table, n)
    PROVE  /\ \A k \in Fd : k < n => Rest(table)[k] = table[k]
           /\ Rest(table)[n] = "epoll" /\ Rest(table)[n + 1] = "timer"
           /\ Rest(table)[n + 2] = "http" /\ Rest(table)[n + 3] = "telnet"
           /\ Rest(table)[n + 4] = "pipeIn" /\ Rest(table)[n + 5] = "pipeOut"
           /\ \A k \in Fd : k > n + 5 => Rest(table)[k] = "closed"
<1> DEFINE t1 == Open(table, "epoll")
           t2 == Open(t1, "timer")
           t3 == Open(t2, "http")
           t4 == Open(t3, "telnet")
           t5 == Open(t4, "pipeIn")
           t6 == Open(t5, "pipeOut")
<1>0. {"epoll", "timer", "http", "telnet", "pipeIn", "pipeOut"} \subseteq File \ {"closed"}
  BY DEF File, Resources
<1>n. /\ n \in Fd /\ n + 1 \in Fd /\ n + 2 \in Fd /\ n + 3 \in Fd /\ n + 4 \in Fd
      /\ n + 5 \in Fd /\ n + 1 + 1 = n + 2 /\ n + 2 + 1 = n + 3 /\ n + 3 + 1 = n + 4
      /\ n + 4 + 1 = n + 5 /\ n + 5 + 1 = n + 6
  BY DEF Fd
<1>1. /\ t1 \in [Fd -> File] /\ t1[n] = "epoll" /\ FirstFree(t1, n + 1)
      /\ \A k \in Fd \ {n} : t1[k] = table[k]
  BY <1>0, <1>n, OpenNext
<1> HIDE DEF t1
<1>2. /\ t2 \in [Fd -> File] /\ t2[n + 1] = "timer" /\ FirstFree(t2, n + 2)
      /\ \A k \in Fd \ {n + 1} : t2[k] = t1[k]
  BY <1>0, <1>n, <1>1, OpenNext
<1> HIDE DEF t2
<1>3. /\ t3 \in [Fd -> File] /\ t3[n + 2] = "http" /\ FirstFree(t3, n + 3)
      /\ \A k \in Fd \ {n + 2} : t3[k] = t2[k]
  BY <1>0, <1>n, <1>2, OpenNext
<1> HIDE DEF t3
<1>4. /\ t4 \in [Fd -> File] /\ t4[n + 3] = "telnet" /\ FirstFree(t4, n + 4)
      /\ \A k \in Fd \ {n + 3} : t4[k] = t3[k]
  BY <1>0, <1>n, <1>3, OpenNext
<1> HIDE DEF t4
<1>5. /\ t5 \in [Fd -> File] /\ t5[n + 4] = "pipeIn" /\ FirstFree(t5, n + 5)
      /\ \A k \in Fd \ {n + 4} : t5[k] = t4[k]
  BY <1>0, <1>n, <1>4, OpenNext
<1> HIDE DEF t5
<1>6. /\ t6[n + 5] = "pipeOut" /\ FirstFree(t6, n + 6)
      /\ \A k \in Fd \ {n + 5} : t6[k] = t5[k]
  BY <1>0, <1>n, <1>5, OpenNext
<1> HIDE DEF t6
<1>7. Rest(table) = t6
  BY DEF Rest, OpenSockets, OpenPipe, t1, t2, t3, t4, t5, t6
<1>8. \A k \in Fd : k < n => t6[k] = table[k]
  BY <1>1, <1>2, <1>3, <1>4, <1>5, <1>6
<1>9. \A k \in Fd : k > n + 5 => t6[k] = "closed"
  BY <1>6 DEF FirstFree, Fd
<1>10. /\ t6[n] = "epoll" /\ t6[n + 1] = "timer" /\ t6[n + 2] = "http"
       /\ t6[n + 3] = "telnet" /\ t6[n + 4] = "pipeIn" /\ t6[n + 5] = "pipeOut"
  BY <1>n, <1>1, <1>2, <1>3, <1>4, <1>5, <1>6
<1> QED
  BY <1>7, <1>8, <1>9, <1>10

LEMMA AtStartIs == AtStart = Rest(Open(Open(AtExec, "log"), "interrupter"))
BY DEF AtStart, OpenReactor, Rest

LEMMA AtExecType ==
    /\ AtExec \in [Fd -> File]
    /\ \A n \in Fd : AtExec[n] = IF n \in inherited THEN "inherited" ELSE "closed"
BY DEF AtExec, File

LEMMA AtStartType == AtStart \in [Fd -> File]
<1>1. {"log", "interrupter", "epoll", "timer", "http", "telnet", "pipeIn", "pipeOut"} \subseteq File
  BY DEF File, Resources
<1> QED
  BY <1>1, AtExecType, OpenType DEF AtStart, OpenReactor, OpenSockets, OpenPipe

\* Whoever remembers a number remembers it until the end.
LEMMA ReservedKept ==
    ASSUME UNCHANGED inherited
    PROVE  \A m \in {3, 4} : Reserved(m)' <=> Reserved(m)
<1>1. AtExec' = AtExec
  BY DEF AtExec
<1>2. AtStart' = AtStart
  BY <1>1 DEF AtStart
<1> QED
  BY <1>2 DEF Reserved, Holds

\* Two missing streams leave one of their numbers to the interrupter.
LEMMA TwoMissing ==
    ASSUME inherited \subseteq Std, NEW h \in Std, NEW i \in Std, NEW n \in {2, 3},
           h < i, i < n, h \notin inherited, i \notin inherited,
           \A k \in Std : (k < i /\ k # h) => k \in inherited,
           \A k \in Std : (k > i /\ k < n) => k \in inherited,
           \A k \in Std : k >= n => k \notin inherited
    PROVE  AtStart[i] = "interrupter"
<1> DEFINE t1 == Open(AtExec, "log")
           t2 == Open(t1, "interrupter")
<1>0. "log" \in File /\ "interrupter" \in File /\ h \in Fd /\ i \in Fd
  BY DEF File, Resources, Fd, Std
<1>1. AtExec[h] = "closed" /\ \A k \in Fd : k < h => AtExec[k] # "closed"
  BY AtExecType, <1>0 DEF Fd, Std
<1>2. /\ t1 \in [Fd -> File] /\ t1[h] = "log"
      /\ \A k \in Fd \ {h} : t1[k] = AtExec[k]
  BY <1>0, <1>1, AtExecType, OpenAt
<1> HIDE DEF t1
<1>3. t1[i] = "closed" /\ \A k \in Fd : k < i => t1[k] # "closed"
  BY <1>0, <1>2, AtExecType DEF Fd, Std
<1>4. /\ t2 \in [Fd -> File] /\ t2[i] = "interrupter"
      /\ \A k \in Fd \ {i} : t2[k] = t1[k]
  BY <1>0, <1>2, <1>3, OpenAt
<1> HIDE DEF t2
<1>5. FirstFree(t2, n)
  BY <1>0, <1>2, <1>4, AtExecType DEF FirstFree, Fd, Std
<1>6. Rest(t2)[i] = t2[i]
  BY <1>0, <1>4, <1>5, RestOpened
<1> QED
  BY <1>4, <1>6, AtStartIs DEF t1, t2

\* With one missing at most, the log takes its number or the first one above.
LEMMA OneMissing ==
    ASSUME inherited \subseteq Std, NEW h \in 0..3, NEW m \in {3, 4},
           h < m, m = 4 <=> h = 3,
           \A k \in Std : k \in inherited <=> k # h
    PROVE  Reserved(m)
<1> DEFINE t1 == Open(AtExec, "log")
           t2 == Open(t1, "interrupter")
<1>0. /\ "log" \in File \ {"closed"} /\ "interrupter" \in File \ {"closed"} /\ h \in Fd
      /\ m \in Fd
  BY DEF File, Resources, Fd
<1>1. AtExec[h] = "closed" /\ \A k \in Fd : k < h => AtExec[k] # "closed"
  BY AtExecType, <1>0 DEF Fd, Std
<1>2. /\ t1 \in [Fd -> File] /\ t1[h] = "log"
      /\ \A k \in Fd \ {h} : t1[k] = AtExec[k]
  BY <1>0, <1>1, AtExecType, OpenAt
<1> HIDE DEF t1
<1>3. FirstFree(t1, m) /\ \A k \in Fd : k < m => t1[k] \in {"inherited", "log"}
  BY <1>0, <1>2, AtExecType DEF FirstFree, Fd, Std
<1>4. /\ t2 \in [Fd -> File] /\ t2[m] = "interrupter" /\ FirstFree(t2, m + 1)
      /\ \A k \in Fd \ {m} : t2[k] = t1[k]
  BY <1>0, <1>2, <1>3, OpenNext
<1> HIDE DEF t2
<1>5. /\ m + 1 \in 2..5 /\ m + 1 + 1 = m + 2 /\ m + 1 + 2 = m + 3 /\ m + 1 + 3 = m + 4
      /\ m + 1 + 4 = m + 5 /\ m + 1 + 5 = m + 6
      /\ \A k \in Fd : k < m => k < m + 1 /\ k # m
      /\ m < m + 1
  BY DEF Fd
<1> DEFINE t == Rest(t2)
<1>6. /\ \A k \in Fd : k < m + 1 => t[k] = t2[k]
      /\ t[m + 1] = "epoll" /\ t[m + 2] = "timer" /\ t[m + 3] = "http"
      /\ t[m + 4] = "telnet" /\ t[m + 5] = "pipeIn" /\ t[m + 6] = "pipeOut"
      /\ \A k \in Fd : k > m + 6 => t[k] = "closed"
  BY <1>4, <1>5, RestOpened
<1>7. t = AtStart
  BY AtStartIs DEF t1, t2
<1> HIDE DEF t
<1>8. t[m] = "interrupter" /\ \A k \in Fd : k < m => t[k] = t1[k]
  BY <1>0, <1>4, <1>5, <1>6
<1>9. m = 4 => t[3] = "log"
  BY <1>2, <1>8 DEF Fd
<1>10. Holds(t, m)
  BY <1>6, <1>8, <1>9 DEF Holds
<1> QED
  BY <1>3, <1>6, <1>7, <1>8, <1>10 DEF Reserved

LEMMA AllInherited == inherited = Std => Reserved(4)
BY OneMissing DEF Std

\* The hypothesis of StandardStreams.
LEMMA StandardNumbersReserved ==
    ASSUME inherited \subseteq Std, \A n \in Std : AtStart[n] \in {"inherited", "log"}
    PROVE  \E m \in {3, 4} : Reserved(m)
<1>1. CASE inherited = Std
  BY <1>1, AllInherited
<1>2. CASE \E h \in Std : \A k \in Std : k \in inherited <=> k # h
  <2>1. PICK h \in Std : \A k \in Std : k \in inherited <=> k # h
    BY <1>2
  <2>2. h \in 0..3 /\ h < 3 /\ (3 = 4 <=> h = 3)
    BY DEF Std
  <2> QED
    BY <2>1, <2>2, OneMissing
<1>3. CASE 0 \notin inherited /\ 1 \notin inherited
  <2>1. AtStart[1] = "interrupter"
    <3>1. CASE 2 \in inherited
      BY <1>3, <3>1, TwoMissing DEF Std
    <3>2. CASE 2 \notin inherited
      BY <1>3, <3>2, TwoMissing DEF Std
    <3> QED
      BY <3>1, <3>2
  <2> QED
    BY <2>1 DEF Std
<1>4. CASE 0 \in inherited /\ 1 \notin inherited /\ 2 \notin inherited
  <2>1. AtStart[2] = "interrupter"
    BY <1>4, TwoMissing DEF Std
  <2> QED
    BY <2>1 DEF Std
<1>5. CASE 0 \notin inherited /\ 1 \in inherited /\ 2 \notin inherited
  <2>1. AtStart[2] = "interrupter"
    BY <1>5, TwoMissing DEF Std
  <2> QED
    BY <2>1 DEF Std
<1> QED
  BY <1>1, <1>2, <1>3, <1>4, <1>5 DEF Std

LEMMA DaemonInitially == DaemonInit => DaemonIInv
<1> SUFFICES ASSUME DaemonInit PROVE DaemonIInv
  OBVIOUS
<1>1. fd \in [Proc -> [Fd -> File]]
  BY AtStartType DEF DaemonInit
<1>2. ResourceInv
  BY DEF DaemonInit, ResourceInv, Reserved
<1> QED
  BY <1>1, <1>2 DEF DaemonInit, DaemonIInv, DaemonTInv, ProcessInv, DetachInv, StreamInv, Proc, Point

-----------------------------------------------------------------------------
(* The calls of daemonize().  A step that leaves the descriptors and the    *)
(* session alone disturbs none of the invariants but those about control.   *)

\* A process that fails, or exits, has no successor that goes on without it
\* but the one it forked.
LEMMA FailureOf ==
    ASSUME DaemonIInv, NEW p \in Proc, Goes(p, "exit1"), UNCHANGED <<fd, session, inherited>>,
           pc[p] \in {"fork", "setsid", "chdir", "forkAgain", "close", "null", "output", "dup",
                     "rebuild"}
    PROVE  DaemonIInv'
<1> USE DEF Goes, session, DaemonIInv, DaemonTInv, Proc, Done, Point
<1>1. DaemonTInv' /\ ProcessInv'
  BY DEF ProcessInv
<1>2. DetachInv' /\ StreamInv'
  BY ReservedKept DEF ProcessInv, DetachInv, StreamInv
<1>3. ResourceInv'
  BY ReservedKept DEF ResourceInv
<1> QED
  BY <1>1, <1>2, <1>3

LEMMA ExitOf ==
    ASSUME DaemonIInv, NEW p \in Proc, Goes(p, "exit0"), UNCHANGED <<fd, session, inherited>>,
           pc[p] = "leave" \/ (p = "daemon" /\ pc[p] = "run")
    PROVE  DaemonIInv'
<1> USE DEF Goes, session, DaemonIInv, DaemonTInv, Proc, Done, Point
<1>1. DaemonTInv' /\ ProcessInv'
  BY DEF ProcessInv
<1>2. DetachInv' /\ StreamInv'
  BY ReservedKept DEF ProcessInv, DetachInv, StreamInv
<1>3. ResourceInv'
  BY ReservedKept DEF ResourceInv
<1> QED
  BY <1>1, <1>2, <1>3

\* fork(): the new process has the descriptors of its parent.
LEMMA ForkKeeps ==
    ASSUME DaemonIInv, Fork
    PROVE  DaemonIInv'
<1> USE DEF DaemonIInv, Fork
<1>1. CASE Fails("launcher")
  BY <1>1, FailureOf DEF Fails, Proc, Done
<1>2. CASE Forks("launcher", "child", "setsid")
  <2>1. DaemonTInv'
    BY <1>2 DEF Forks, DaemonTInv, Proc, Point
  <2>2. ProcessInv' /\ DetachInv' /\ StreamInv'
    BY <1>2 DEF Forks, DaemonTInv, ProcessInv, DetachInv, StreamInv, Proc, Point
  <2>3. ResourceInv'
    BY <1>2, ReservedKept DEF Forks, DaemonTInv, ResourceInv, Proc, Point
  <2> QED
    BY <2>1, <2>2, <2>3
<1> QED
  BY <1>1, <1>2

LEMMA ForkAgainKeeps ==
    ASSUME DaemonIInv, ForkAgain
    PROVE  DaemonIInv'
<1> USE DEF DaemonIInv, ForkAgain
<1>1. CASE Fails("child")
  BY <1>1, FailureOf DEF Fails, Proc, Done
<1>2. CASE Forks("child", "daemon", "close")
  <2>1. DaemonTInv'
    BY <1>2 DEF Forks, DaemonTInv, Proc, Point
  <2>2. ProcessInv' /\ DetachInv' /\ StreamInv'
    BY <1>2 DEF Forks, DaemonTInv, ProcessInv, DetachInv, StreamInv, Proc, Point
  <2>3. ResourceInv'
    BY <1>2, ReservedKept DEF Forks, DaemonTInv, ResourceInv, Proc, Point
  <2> QED
    BY <2>1, <2>2, <2>3
<1> QED
  BY <1>1, <1>2

LEMMA SetSidKeeps ==
    ASSUME DaemonIInv, SetSid
    PROVE  DaemonIInv'
<1> USE DEF DaemonIInv, SetSid
<1>1. CASE leader["child"]
  BY <1>1, FailureOf DEF Fails, Proc, Done
<1>2. CASE ~leader["child"]
  <2>1. DaemonTInv'
    <3>1. /\ pc' = [pc EXCEPT !["child"] = "chdir"] /\ fd' = fd
          /\ leader' = [leader EXCEPT !["child"] = TRUE]
          /\ terminal' = [terminal EXCEPT !["child"] = FALSE]
      BY <1>2 DEF Goes
    <3>2. pc' \in [Proc -> Point]
      BY <3>1 DEF DaemonTInv, Point
    <3>3. leader' \in [Proc -> BOOLEAN] /\ terminal' \in [Proc -> BOOLEAN]
      BY <3>1 DEF DaemonTInv
    <3> QED
      BY <3>1, <3>2, <3>3 DEF DaemonTInv
  <2>3. ProcessInv'
    BY <1>2 DEF Goes, DaemonTInv, ProcessInv, Proc
  <2>2. DetachInv' /\ StreamInv' /\ ResourceInv'
    BY <1>2, ReservedKept DEF Goes, DaemonTInv, ProcessInv, DetachInv, StreamInv, ResourceInv, Proc, Point
  <2> QED
    BY <2>1, <2>2, <2>3
<1> QED
  BY <1>1, <1>2

LEMMA ChDirKeeps ==
    ASSUME DaemonIInv, ChDir
    PROVE  DaemonIInv'
<1> USE DEF DaemonIInv, ChDir
<1>1. CASE Fails("child")
  BY <1>1, FailureOf DEF Fails, Proc, Done
<1>2. CASE Goes("child", "forkAgain") /\ UNCHANGED <<fd, session>>
  BY <1>2, ReservedKept DEF Goes, session, DaemonTInv, ProcessInv, DetachInv, StreamInv, ResourceInv, Proc, Point
<1> QED
  BY <1>1, <1>2

LEMMA CloseStdKeeps ==
    ASSUME DaemonIInv, CloseStd
    PROVE  DaemonIInv'
<1> USE DEF DaemonIInv, CloseStd, Goes, session
<1> DEFINE closed == [n \in Fd |-> IF n \in Std THEN "closed" ELSE fd["daemon"][n]]
<1>1. closed \in [Fd -> File] /\ fd'["daemon"] = closed
  <2>1. fd["daemon"] \in [Fd -> File]
    BY DEF DaemonTInv, Proc
  <2> QED
    BY <2>1 DEF DaemonTInv, Proc, File
<1>2. DaemonTInv'
  BY <1>1 DEF DaemonTInv, Proc, Point
<1>3. ProcessInv' /\ DetachInv'
  BY DEF DaemonTInv, ProcessInv, DetachInv, Proc
<1>4. StreamInv'
  BY <1>1 DEF DaemonTInv, StreamInv, Proc, Fd, Std
<1>5. ResourceInv'
  <2>1. ASSUME NEW m \in {3, 4}, Reserved(m) PROVE Holds(closed, m)
    <3>1. Holds(fd["daemon"], m)
      BY <2>1 DEF ResourceInv, Proc, Point
    <3> QED
      BY <3>1 DEF Holds, Fd, Std
  <2>2. \A p \in Proc \ {"daemon"} : fd'[p] = fd[p] /\ pc'[p] = pc[p]
    BY DEF DaemonTInv, Proc, Point
  <2> HIDE DEF closed
  <2> QED
    BY <1>1, <2>1, <2>2, ReservedKept DEF ResourceInv, Proc, Point
<1> QED
  BY <1>2, <1>3, <1>4, <1>5

\* open() and dup() of the daemon, with standard descriptor n the lowest free
\* one, do not touch the resources.
LEMMA OpensKeeps ==
    ASSUME DaemonIInv, NEW n \in Std, NEW file \in File, NEW next \in Point,
           pc["daemon"] # "absent", Opens(file, next), UNCHANGED inherited,
           fd["daemon"][n] = "closed", \A k \in Std : k < n => fd["daemon"][k] # "closed",
           next \in {"output", "dup", "rebuild"}
    PROVE  /\ DaemonTInv' /\ ProcessInv' /\ DetachInv' /\ ResourceInv'
           /\ pc'["daemon"] = next
           /\ fd'["daemon"][n] = file
           /\ \A k \in Std \ {n} : fd'["daemon"][k] = fd["daemon"][k]
<1> USE DEF DaemonIInv, Opens, Goes, session
<1> DEFINE old == fd["daemon"]
           opened == Open(old, file)
<1>1. old \in [Fd -> File] /\ fd'["daemon"] = opened /\ fd' = [fd EXCEPT !["daemon"] = opened]
  BY DEF DaemonTInv, Proc, Point
<1>2. /\ opened \in [Fd -> File] /\ opened[n] = file
      /\ \A k \in Fd \ {n} : opened[k] = old[k]
  <2>1. n \in Fd /\ \A k \in Fd : k < n => k \in Std
    BY DEF Fd, Std
  <2> HIDE DEF old
  <2>2. old[n] = "closed" /\ \A k \in Fd : k < n => old[k] # "closed"
    BY <2>1 DEF old
  <2> QED
    BY <1>1, <2>1, <2>2, OpenAt
<1>3. DaemonTInv'
  BY <1>1, <1>2 DEF DaemonTInv, Proc, Point
<1>4. ProcessInv' /\ DetachInv' /\ pc'["daemon"] = next
  BY DEF DaemonTInv, ProcessInv, DetachInv, Proc
<1>5. ResourceInv'
  <2>1. ASSUME NEW m \in {3, 4}, Reserved(m) PROVE Holds(opened, m)
    <3>1. Holds(old, m)
      BY <2>1 DEF ResourceInv, Proc, Point
    <3> QED
      BY <3>1, <1>2 DEF Holds, Fd, Std
  <2>2. \A p \in Proc \ {"daemon"} : fd'[p] = fd[p] /\ pc'[p] = pc[p]
    BY DEF DaemonTInv, Proc, Point
  <2> HIDE DEF opened
  <2> QED
    BY <1>1, <2>1, <2>2, ReservedKept DEF ResourceInv, Proc, Point
<1> QED
  BY <1>1, <1>2, <1>3, <1>4, <1>5 DEF Fd, Std

LEMMA OpenNullKeeps ==
    ASSUME DaemonIInv, OpenNull
    PROVE  DaemonIInv'
<1>1. CASE Fails("daemon")
  BY <1>1, FailureOf DEF OpenNull, Fails, Proc, Done
<1>2. CASE Opens("null", "output")
  <2>1. \A k \in Std : fd["daemon"][k] = "closed"
    BY DEF OpenNull, DaemonIInv, StreamInv, Std
  <2>2. /\ DaemonTInv' /\ ProcessInv' /\ DetachInv' /\ ResourceInv'
        /\ pc'["daemon"] = "output" /\ fd'["daemon"][0] = "null"
        /\ \A k \in Std \ {0} : fd'["daemon"][k] = fd["daemon"][k]
    BY <1>2, <2>1, OpensKeeps DEF OpenNull, Std, Point, File, DaemonIInv, DaemonTInv, Proc, Point
  <2> QED
    BY <2>1, <2>2 DEF DaemonIInv, StreamInv, Std
<1> QED
  BY <1>1, <1>2 DEF OpenNull

LEMMA OpenOutputKeeps ==
    ASSUME DaemonIInv, OpenOutput
    PROVE  DaemonIInv'
<1>1. CASE Fails("daemon")
  BY <1>1, FailureOf DEF OpenOutput, Fails, Proc, Done
<1>2. CASE Opens("output", "dup")
  <2>1. fd["daemon"][0] = "null" /\ fd["daemon"][1] = "closed" /\ fd["daemon"][2] = "closed"
    BY DEF OpenOutput, DaemonIInv, StreamInv
  <2>2. /\ DaemonTInv' /\ ProcessInv' /\ DetachInv' /\ ResourceInv'
        /\ pc'["daemon"] = "dup" /\ fd'["daemon"][1] = "output"
        /\ \A k \in Std \ {1} : fd'["daemon"][k] = fd["daemon"][k]
    BY <1>2, <2>1, OpensKeeps DEF OpenOutput, Std, Point, File, DaemonIInv, DaemonTInv, Proc, Point
  <2> QED
    BY <2>1, <2>2 DEF DaemonIInv, StreamInv, Std
<1> QED
  BY <1>1, <1>2 DEF OpenOutput

LEMMA DupKeeps ==
    ASSUME DaemonIInv, Dup
    PROVE  DaemonIInv'
<1>1. CASE Fails("daemon")
  BY <1>1, FailureOf DEF Dup, Fails, Proc, Done
<1>2. CASE Opens(fd["daemon"][1], "rebuild")
  <2>1. fd["daemon"][0] = "null" /\ fd["daemon"][1] = "output" /\ fd["daemon"][2] = "closed"
    BY DEF Dup, DaemonIInv, StreamInv
  <2>2. /\ DaemonTInv' /\ ProcessInv' /\ DetachInv' /\ ResourceInv'
        /\ pc'["daemon"] = "rebuild" /\ fd'["daemon"][2] = "output"
        /\ \A k \in Std \ {2} : fd'["daemon"][k] = fd["daemon"][k]
    BY <1>2, <2>1, OpensKeeps DEF Dup, Std, Point, File, DaemonIInv, DaemonTInv, Proc, Point
  <2> QED
    BY <2>1, <2>2 DEF DaemonIInv, StreamInv, Std
<1> QED
  BY <1>1, <1>2 DEF Dup

\* Where the remembered numbers are still those of the reactor and the pipe,
\* each closes and opens its own.
LEMMA RecreateInPlace ==
    ASSUME NEW table \in [Fd -> File], NEW r \in Resources, NEW n \in Fd, table[n] = r,
           \A k \in Fd : AtStart[k] = r <=> k = n,
           \A k \in Fd : k < n => table[k] # "closed"
    PROVE  Recreate(table, r) = table
<1> DEFINE t == CloseRemembered(table, {r})
<1>1. /\ t \in [Fd -> File] /\ t[n] = "closed"
      /\ \A k \in Fd \ {n} : t[k] = table[k]
  BY DEF CloseRemembered, File
<1>2. \A k \in Fd : k < n => k \in Fd \ {n}
  BY DEF Fd
<1> HIDE DEF t
<1>3. r \in File /\ \A k \in Fd : k < n => t[k] # "closed"
  BY <1>1, <1>2 DEF File
<1>4. /\ Open(t, r) \in [Fd -> File] /\ Open(t, r)[n] = r
      /\ \A k \in Fd \ {n} : Open(t, r)[k] = t[k]
  BY <1>1, <1>3, OpenAt
<1>5. Open(t, r) = table
  BY <1>1, <1>4
<1> QED
  BY <1>5 DEF Recreate, t

LEMMA RebuildPipeInPlace ==
    ASSUME NEW table \in [Fd -> File], NEW n \in Fd, n + 1 \in Fd,
           table[n] = "pipeIn", table[n + 1] = "pipeOut",
           \A k \in Fd : AtStart[k] = "pipeIn" <=> k = n,
           \A k \in Fd : AtStart[k] = "pipeOut" <=> k = n + 1,
           \A k \in Fd : k < n => table[k] # "closed"
    PROVE  RebuildPipe(table) = table
<1> DEFINE t == CloseRemembered(table, {"pipeIn", "pipeOut"})
           t1 == Open(t, "pipeIn")
           t2 == Open(t1, "pipeOut")
<1>0. "pipeIn" \in File /\ "pipeOut" \in File
  BY DEF File, Resources
<1>1. /\ t \in [Fd -> File] /\ t[n] = "closed" /\ t[n + 1] = "closed"
      /\ \A k \in Fd \ {n, n + 1} : t[k] = table[k]
  BY DEF CloseRemembered, File
<1>2. \A k \in Fd : (k < n => k \in Fd \ {n, n + 1}) /\ (k < n + 1 => (k < n \/ k = n))
  BY DEF Fd
<1>9. n + 1 # n
  BY DEF Fd
<1> HIDE DEF t
<1>3. /\ t1 \in [Fd -> File] /\ t1[n] = "pipeIn"
      /\ \A k \in Fd \ {n} : t1[k] = t[k]
  BY <1>0, <1>1, <1>2, OpenAt
<1> HIDE DEF t1
<1>4. \A k \in Fd : k < n + 1 => t1[k] # "closed"
  BY <1>1, <1>2, <1>3
<1>5. /\ t2 \in [Fd -> File] /\ t2[n + 1] = "pipeOut"
      /\ \A k \in Fd \ {n + 1} : t2[k] = t1[k]
  BY <1>0, <1>1, <1>3, <1>4, <1>9, OpenAt
<1> HIDE DEF t2
<1>6. t2 = table
  BY <1>1, <1>3, <1>5
<1> QED
  BY <1>6 DEF RebuildPipe, OpenPipe, t, t1, t2

LEMMA RebuildInPlace ==
    ASSUME NEW table \in [Fd -> File], NEW m \in {3, 4}, Reserved(m), Holds(table, m),
           \A k \in Std : table[k] # "closed"
    PROVE  RebuildPipe(RebuildReactor(table)) = table
<1>1. /\ m \in Fd /\ m + 1 \in Fd /\ m + 2 \in Fd /\ m + 5 \in Fd /\ m + 6 \in Fd
      /\ m + 5 + 1 = m + 6
  BY DEF Fd
<1>2. \A k \in Fd : k < m + 5 => table[k] # "closed"
  BY DEF Holds, Fd, Std
<1>3. \A k \in Fd : k < m \/ k \in {m, m + 1, m + 2, m + 3, m + 4, m + 5, m + 6} \/ k > m + 6
  BY DEF Fd
<1>4. /\ \A k \in Fd : AtStart[k] = "interrupter" <=> k = m
      /\ \A k \in Fd : AtStart[k] = "epoll" <=> k = m + 1
      /\ \A k \in Fd : AtStart[k] = "timer" <=> k = m + 2
      /\ \A k \in Fd : AtStart[k] = "pipeIn" <=> k = m + 5
      /\ \A k \in Fd : AtStart[k] = "pipeOut" <=> k = m + 6
  BY <1>3 DEF Reserved, Holds
<1>5. \A k \in Fd : (k < m \/ k < m + 1 \/ k < m + 2) => k < m + 5
  BY DEF Fd
<1>6. /\ table[m] = "interrupter" /\ table[m + 1] = "epoll" /\ table[m + 2] = "timer"
      /\ table[m + 5] = "pipeIn" /\ table[m + 6] = "pipeOut"
  BY DEF Holds
<1>7. {"interrupter", "epoll", "timer"} \subseteq Resources
  BY DEF Resources
<1>8. Recreate(table, "epoll") = table
  BY <1>1, <1>2, <1>4, <1>5, <1>6, <1>7, RecreateInPlace
<1>9. Recreate(table, "timer") = table
  BY <1>1, <1>2, <1>4, <1>5, <1>6, <1>7, RecreateInPlace
<1>10. Recreate(table, "interrupter") = table
  BY <1>1, <1>2, <1>4, <1>5, <1>6, <1>7, RecreateInPlace
<1>11. RebuildPipe(table) = table
  BY <1>1, <1>2, <1>4, <1>6, RebuildPipeInPlace
<1> QED
  BY <1>8, <1>9, <1>10, <1>11 DEF RebuildReactor

LEMMA RebuildType ==
    ASSUME NEW table \in [Fd -> File]
    PROVE  RebuildPipe(RebuildReactor(table)) \in [Fd -> File]
<1>1. ASSUME NEW t \in [Fd -> File], NEW rs PROVE CloseRemembered(t, rs) \in [Fd -> File]
  BY DEF CloseRemembered, File
<1>2. {"interrupter", "epoll", "timer", "pipeIn", "pipeOut"} \subseteq File
  BY DEF File, Resources
<1> QED
  BY <1>1, <1>2, OpenType DEF RebuildPipe, RebuildReactor, Recreate, OpenPipe

LEMMA RebuildKeeps ==
    ASSUME DaemonIInv, Rebuild
    PROVE  DaemonIInv'
<1> USE DEF DaemonIInv, Rebuild
<1>1. CASE Fails("daemon")
  BY <1>1, FailureOf DEF Fails, Proc, Done
<1>2. CASE Goes("daemon", "run") /\ UNCHANGED session
           /\ fd' = [fd EXCEPT !["daemon"] = RebuildPipe(RebuildReactor(@))]
  <2> DEFINE old == fd["daemon"]
             new == RebuildPipe(RebuildReactor(old))
  <2>1. old \in [Fd -> File] /\ fd' = [fd EXCEPT !["daemon"] = new]
    BY <1>2 DEF DaemonTInv, Proc
  <2>2. new \in [Fd -> File]
    BY <2>1, RebuildType
  <2>3. old[0] = "null" /\ old[1] = "output" /\ old[2] = "output"
    BY DEF StreamInv
  <2>4. ASSUME NEW m \in {3, 4}, Reserved(m) PROVE new = old
    <3>1. Holds(old, m)
      BY <2>4 DEF ResourceInv, Proc
    <3>2. \A k \in Std : old[k] # "closed"
      BY <2>3 DEF Std
    <3> HIDE DEF old
    <3> QED
      BY <2>1, <2>4, <3>1, <3>2, RebuildInPlace
  <2> HIDE DEF new
  <2>5. DaemonTInv'
    BY <1>2, <2>1, <2>2 DEF DaemonTInv, Goes, session, Proc, Point
  <2>6. ProcessInv' /\ DetachInv'
    BY <1>2 DEF Goes, session, DaemonTInv, ProcessInv, DetachInv, Proc
  <2>7. \A m \in {3, 4} : Reserved(m)' <=> Reserved(m)
    BY ReservedKept
  <2>8. ASSUME NEW m \in {3, 4}, Reserved(m)
        PROVE  fd' = fd
    BY <2>1, <2>4, <2>8 DEF DaemonTInv, Proc
  <2>9. /\ pc'["daemon"] = "run" /\ pc["daemon"] = "rebuild"
         /\ \A p \in Proc : pc'[p] # "absent" => pc[p] # "absent"
    BY <1>2 DEF Goes, DaemonTInv, Proc, Point
  <2>10. StreamInv'
    BY <2>3, <2>7, <2>8, <2>9 DEF StreamInv
  <2>11. ResourceInv'
    BY <2>7, <2>8, <2>9 DEF ResourceInv
  <2> QED
    BY <2>5, <2>6, <2>10, <2>11
<1> QED
  BY <1>1, <1>2

\* A signal changes nothing that the invariant speaks of.
LEMMA StutterKeeps ==
    ASSUME DaemonIInv, UNCHANGED <<pc, fd, session, inherited>>
    PROVE  DaemonIInv'
BY ReservedKept
   DEF session, DaemonIInv, DaemonTInv, ProcessInv, DetachInv, StreamInv, ResourceInv

LEMMA DaemonStep == DaemonIInv /\ [DaemonNext]_daemonVars => DaemonIInv'
<1> SUFFICES ASSUME DaemonIInv, [DaemonNext]_daemonVars PROVE DaemonIInv'
  OBVIOUS
<1>1. CASE Launcher
  <2>1. CASE Leave("launcher")
    <3>1. Goes("launcher", "exit0") /\ pc["launcher"] = "leave" /\ UNCHANGED <<fd, session, inherited>>
      BY <2>1 DEF Leave
    <3> QED
      BY <3>1, ExitOf DEF Proc, Done
  <2> QED
    BY <1>1, <2>1, ForkKeeps DEF Launcher
<1>2. CASE Child
  <2>1. CASE Leave("child")
    <3>1. Goes("child", "exit0") /\ pc["child"] = "leave" /\ UNCHANGED <<fd, session, inherited>>
      BY <2>1 DEF Leave
    <3> QED
      BY <3>1, ExitOf DEF Proc, Done
  <2> QED
    BY <1>2, <2>1, SetSidKeeps, ChDirKeeps, ForkAgainKeeps DEF Child
<1>3. CASE Daemon
  <2>1. CASE Stop
    <3>1. Goes("daemon", "exit0") /\ pc["daemon"] = "run" /\ UNCHANGED <<fd, session, inherited>>
      BY <2>1 DEF Stop
    <3> QED
      BY <3>1, ExitOf DEF Proc, Done
  <2> QED
    BY <1>3, <2>1, CloseStdKeeps, OpenNullKeeps, OpenOutputKeeps, DupKeeps, RebuildKeeps DEF Daemon
<1>4. CASE \E p \in Proc : Term(p)
  BY <1>4, StutterKeeps DEF Term, Catch
<1>5. CASE CtrlC
  BY <1>5, StutterKeeps DEF CtrlC, Catch
<1>6. CASE UNCHANGED daemonVars
  BY <1>6, StutterKeeps DEF daemonVars, session
<1> QED
  BY <1>1, <1>2, <1>3, <1>4, <1>5, <1>6 DEF DaemonNext

-----------------------------------------------------------------------------
(* The theorems.                                                            *)

LEMMA DaemonInvariance == DaemonSpec => []DaemonIInv
<1> QED
  BY DaemonInitially, DaemonStep, PTL DEF DaemonSpec

\* Once daemonize() is over, the daemon reads from /dev/null and writes both
\* streams to its output file, whichever standard descriptors the program was
\* started with, unless the reactor got one of the missing ones.
THEOREM StreamsAreRedirected == DaemonSpec => []StandardStreams
<1>1. DaemonIInv => StandardStreams
  <2> SUFFICES ASSUME DaemonIInv, Serving("daemon"),
                      \A n \in Std : AtStart[n] \in {"inherited", "log"}
               PROVE  /\ fd["daemon"][0] = "null" /\ fd["daemon"][1] = "output"
                      /\ fd["daemon"][2] = "output"
    BY DEF StandardStreams
  <2>1. \E m \in {3, 4} : Reserved(m)
    BY StandardNumbersReserved DEF DaemonIInv, DaemonTInv
  <2> QED
    BY <2>1 DEF DaemonIInv, StreamInv, Serving
<1> QED
  BY <1>1, DaemonInvariance, PTL

\* If the three of them were open, closing and opening them again loses no
\* log, no listening socket, no part of the reactor and no signal pipe.
THEOREM ResourcesAreKept == DaemonSpec => []ResourcesSurvive
<1>1. DaemonIInv => ResourcesSurvive
  <2> SUFFICES ASSUME DaemonIInv, Serving("daemon"), inherited = Std, NEW r \in Resources
               PROVE  \E n \in Fd : fd["daemon"][n] = r
    BY DEF ResourcesSurvive
  <2>1. Holds(fd["daemon"], 4)
    BY AllInherited DEF DaemonIInv, ResourceInv, Serving, Proc
  <2>2. {3, 4, 5, 6, 7, 8, 9, 10} \subseteq Fd
    BY DEF Fd
  <2>3. /\ 4 + 1 = 5 /\ 4 + 2 = 6 /\ 4 + 3 = 7 /\ 4 + 4 = 8 /\ 4 + 5 = 9 /\ 4 + 6 = 10
    OBVIOUS
  <2> QED
    BY <2>1, <2>2, <2>3 DEF Holds, Resources
<1> QED
  BY <1>1, DaemonInvariance, PTL

\* The daemon has left the terminal for good.
THEOREM DaemonHasNoTerminal == DaemonSpec => []DetachedFromTerminal
<1>1. DaemonIInv => DetachedFromTerminal
  BY DEF DaemonIInv, DetachInv, DetachedFromTerminal, Serving
<1> QED
  BY <1>1, DaemonInvariance, PTL

\* A process that reports failure is the last of its line: nothing it forked
\* before goes on to serve.
THEOREM FailureIsFinal == DaemonSpec => []FailureLeavesNoServer
<1>1. DaemonIInv => FailureLeavesNoServer
  <2> SUFFICES ASSUME DaemonIInv, NEW p \in Proc, pc[p] = "exit1",
                      NEW q \in Proc, Alive(q), pc[q] # "leave"
               PROVE  FALSE
    BY DEF FailureLeavesNoServer
  <2> QED
    BY DEF DaemonIInv, ProcessInv, Alive, Done, Proc
<1> QED
  BY <1>1, DaemonInvariance, PTL

=============================================================================
