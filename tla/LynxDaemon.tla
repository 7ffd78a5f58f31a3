----------------------------- MODULE LynxDaemon -----------------------------
(***************************************************************************)
(* Daemon::daemonize (src/lynx/daemon.hpp): the process that was started   *)
(* forks, its child leaves the session and forks again, and the last       *)
(* process replaces its standard streams and runs the io_context.  Every   *)
(* process has its own descriptor table, in which open and dup take the    *)
(* lowest free number.  The log, the reactor, the listening sockets and    *)
(* the signal pipe are open before the first fork, and each remembers the  *)
(* numbers it got; the handlers of SIGINT and SIGTERM are installed and    *)
(* write to that pipe.                                                     *)
(***************************************************************************)
EXTENDS Integers, FiniteSetsExt

CONSTANT MaxRaised   \* bound: signals sent

ASSUME DaemonAssumption == MaxRaised \in Nat

VARIABLES
    pc,        \* Proc -> the next step of the process, "leave", "run", or how it ended
    fd,        \* Proc -> descriptor -> "closed", "inherited", "null", "output" or a resource
    leader,    \* Proc -> it leads its session
    terminal,  \* Proc -> it has a controlling terminal
    inherited, \* the standard descriptors that were open at exec
    unread,    \* Proc -> exit signals in the pipe that its own loop will read
    told,      \* Proc -> exit signals that the process caught
    raised     \* bound: number of signals sent so far

daemonVars == <<pc, fd, leader, terminal, inherited, unread, told, raised>>
session == <<leader, terminal>>
caught == <<unread, told, raised>>

Proc == {"launcher", "child", "daemon"}
Std == {0, 1, 2}
\* Opened by LoggerConfig::init, epoll_reactor, RestServer, Repl and
\* signal_set_service, in this order.
Resources == {"log", "interrupter", "epoll", "timer", "http", "telnet", "pipeIn", "pipeOut"}
Fd == 0..11   \* one more than these and the standard streams take

Done == {"exit0", "exit1"}
Alive(p) == pc[p] \notin Done \cup {"absent"}

\* open() and dup().
Open(table, file) ==
    [table EXCEPT ![Min({n \in Fd : table[n] = "closed"})] = file]

OpenReactor(table) == Open(Open(Open(table, "interrupter"), "epoll"), "timer")
OpenSockets(table) == Open(Open(table, "http"), "telnet")
OpenPipe(table) == Open(Open(table, "pipeIn"), "pipeOut")

AtExec == [n \in Fd |-> IF n \in inherited THEN "inherited" ELSE "closed"]

\* The numbers that the objects remember until the daemon rebuilds them.
AtStart == OpenPipe(OpenSockets(OpenReactor(Open(AtExec, "log"))))

DaemonInit ==
    /\ pc = [p \in Proc |-> IF p = "launcher" THEN "fork" ELSE "absent"]
    /\ inherited \in SUBSET Std
    /\ fd = [p \in Proc |-> AtStart]
    /\ leader \in [Proc -> BOOLEAN] /\ \A p \in Proc \ {"launcher"} : ~leader[p]
    /\ terminal \in [Proc -> BOOLEAN] /\ \A p \in Proc \ {"launcher"} : ~terminal[p]
    /\ unread = [p \in Proc |-> 0]
    /\ told = [p \in Proc |-> 0]
    /\ raised = 0

-----------------------------------------------------------------------------
(* The steps of daemonize().                                                *)

Goes(p, next) == pc' = [pc EXCEPT ![p] = next]

\* The parent of a fork goes on to std::exit(EXIT_SUCCESS), the new process
\* has copies of its descriptors and belongs to its session.
Forks(p, q, next) ==
    /\ pc' = [pc EXCEPT ![p] = "leave", ![q] = next]
    /\ fd' = [fd EXCEPT ![q] = fd[p]]
    /\ leader' = [leader EXCEPT ![q] = FALSE]
    /\ terminal' = [terminal EXCEPT ![q] = terminal[p]]

\* The catch clause: the failure is logged, then std::exit(EXIT_FAILURE).
Fails(p) == Goes(p, "exit1") /\ UNCHANGED <<fd, session>>

\* Mutant: one fork only, and no setsid.
ForkOnce ==
    /\ pc["launcher"] = "fork"
    /\ Forks("launcher", "daemon", "close") \/ Fails("launcher")
    /\ UNCHANGED <<inherited, caught>>

\* Mutant: every process identifier but 0 is taken for a failure.
ForkAlwaysFails ==
    /\ pc["launcher"] = "fork"
    /\ pc' = [pc EXCEPT !["launcher"] = "exit1", !["child"] = "setsid"]
    /\ fd' = [fd EXCEPT !["child"] = fd["launcher"]]
    /\ UNCHANGED <<session, inherited, caught>>

\* notify_fork(fork_prepare) and the first fork.
Fork ==
    /\ pc["launcher"] = "fork"
    /\ Forks("launcher", "child", "setsid") \/ Fails("launcher")
    /\ UNCHANGED <<inherited, caught>>

\* setsid() fails for a process that leads already.
SetSid ==
    /\ pc["child"] = "setsid"
    /\ IF leader["child"]
       THEN Fails("child")
       ELSE /\ Goes("child", "chdir")
            /\ leader' = [leader EXCEPT !["child"] = TRUE]
            /\ terminal' = [terminal EXCEPT !["child"] = FALSE]
            /\ UNCHANGED fd
    /\ UNCHANGED <<inherited, caught>>

\* chdir(working_dir) and umask(0).
ChDir ==
    /\ pc["child"] = "chdir"
    /\ Fails("child") \/ (Goes("child", "forkAgain") /\ UNCHANGED <<fd, session>>)
    /\ UNCHANGED <<inherited, caught>>

ForkAgain ==
    /\ pc["child"] = "forkAgain"
    /\ Forks("child", "daemon", "close") \/ Fails("child")
    /\ UNCHANGED <<inherited, caught>>

\* std::exit(EXIT_SUCCESS) of a process that has forked.
Leave(p) ==
    /\ pc[p] = "leave"
    /\ Goes(p, "exit0")
    /\ UNCHANGED <<fd, session, inherited, caught>>

\* Mutant: one descriptor too many.
CloseFour ==
    /\ pc["daemon"] = "close"
    /\ Goes("daemon", "null")
    /\ fd' = [fd EXCEPT !["daemon"] = [n \in Fd |-> IF n \in 0..3 THEN "closed" ELSE @[n]]]
    /\ UNCHANGED <<session, inherited, caught>>

\* close() of the three standard descriptors.
CloseStd ==
    /\ pc["daemon"] = "close"
    /\ Goes("daemon", "null")
    /\ fd' = [fd EXCEPT !["daemon"] = [n \in Fd |-> IF n \in Std THEN "closed" ELSE @[n]]]
    /\ UNCHANGED <<session, inherited, caught>>

Opens(file, next) ==
    /\ Goes("daemon", next)
    /\ fd' = [fd EXCEPT !["daemon"] = Open(@, file)]
    /\ UNCHANGED session

OpenNull ==
    /\ pc["daemon"] = "null"
    /\ Opens("null", "output") \/ Fails("daemon")
    /\ UNCHANGED <<inherited, caught>>

OpenOutput ==
    /\ pc["daemon"] = "output"
    /\ Opens("output", "dup") \/ Fails("daemon")
    /\ UNCHANGED <<inherited, caught>>

\* Mutant: the wrong descriptor is duplicated.
DupInput ==
    /\ pc["daemon"] = "dup"
    /\ Opens(fd["daemon"][0], "rebuild") \/ Fails("daemon")
    /\ UNCHANGED <<inherited, caught>>

\* dup(1).
Dup ==
    /\ pc["daemon"] = "dup"
    /\ (fd["daemon"][1] # "closed" /\ Opens(fd["daemon"][1], "rebuild")) \/ Fails("daemon")
    /\ UNCHANGED <<inherited, caught>>

\* close() of the numbers that rs had at the start, whatever they are now.
CloseRemembered(table, rs) ==
    [n \in Fd |-> IF AtStart[n] \in rs THEN "closed" ELSE table[n]]

Recreate(table, r) == Open(CloseRemembered(table, {r}), r)

\* epoll_reactor::notify_fork and signal_set_service::notify_fork.
RebuildReactor(table) == Recreate(Recreate(Recreate(table, "epoll"), "timer"), "interrupter")
RebuildPipe(table) == OpenPipe(CloseRemembered(table, {"pipeIn", "pipeOut"}))

\* notify_fork(fork_child): what was in the pipe is gone.  The sockets are
\* registered again under numbers above 2, which are still theirs.
Rebuild ==
    /\ pc["daemon"] = "rebuild"
    /\ \/ Fails("daemon")
       \/ /\ Goes("daemon", "run")
          /\ fd' = [fd EXCEPT !["daemon"] = RebuildPipe(RebuildReactor(@))]
          /\ UNCHANGED session
    /\ UNCHANGED <<inherited, caught>>

-----------------------------------------------------------------------------
(* The loop of the daemon, and signals.                                     *)

\* io_ctx.run() reads the pipe; the handler of exit_signals stops it.
Stop ==
    /\ pc["daemon"] = "run" /\ unread["daemon"] > 0
    /\ Goes("daemon", "exit0")
    /\ unread' = [unread EXCEPT !["daemon"] = @ - 1]
    /\ UNCHANGED <<fd, session, inherited, told, raised>>

\* Mutant: without fork_child the loop would read the pipe of the first process.
CatchInOldPipe(ps) ==
    /\ raised < MaxRaised
    /\ raised' = raised + 1
    /\ told' = [p \in Proc |-> told[p] + (IF p \in ps THEN 1 ELSE 0)]
    /\ UNCHANGED <<pc, fd, session, inherited, unread>>

\* asio_signal_handler writes to the pipe of the process, which only the new
\* pipe's loop reads: what is caught between the second fork and fork_child is
\* lost.
Catch(ps) ==
    /\ raised < MaxRaised
    /\ raised' = raised + 1
    /\ told' = [p \in Proc |-> told[p] + (IF p \in ps THEN 1 ELSE 0)]
    /\ unread' = [p \in Proc |->
                    unread[p] + (IF p \in ps /\ pc[p] = "run" THEN 1 ELSE 0)]
    /\ UNCHANGED <<pc, fd, session, inherited>>

\* kill(1) of one process, and Ctrl-C for those on the terminal.
Term(p) == Alive(p) /\ Catch({p})
CtrlC == LET ps == {p \in Proc : Alive(p) /\ terminal[p]} IN ps # {} /\ Catch(ps)

-----------------------------------------------------------------------------
Launcher == Fork \/ Leave("launcher")
Child == SetSid \/ ChDir \/ ForkAgain \/ Leave("child")
Daemon == CloseStd \/ OpenNull \/ OpenOutput \/ Dup \/ Rebuild \/ Stop

DaemonNext ==
    \/ Launcher \/ Child \/ Daemon
    \/ \E p \in Proc : Term(p)
    \/ CtrlC

DaemonSpec == DaemonInit /\ [][DaemonNext]_daemonVars

\* The kernel schedules every process.
DaemonFairSpec ==
    /\ DaemonSpec
    /\ WF_daemonVars(Launcher) /\ WF_daemonVars(Child) /\ WF_daemonVars(Daemon)

-----------------------------------------------------------------------------
(* Properties.                                                              *)

Serving(p) == pc[p] = "run"

\* The daemon reads from /dev/null and writes both streams to the output file,
\* unless the program was started without some of its standard streams and the
\* reactor got one of their numbers: the daemon gives these to the new streams,
\* by lowest free number, and then notify_fork closes them as the reactor's.
StandardStreams ==
    Serving("daemon") /\ (\A n \in Std : AtStart[n] \in {"inherited", "log"}) =>
        fd["daemon"][0] = "null" /\ fd["daemon"][1] = "output" /\ fd["daemon"][2] = "output"

\* If all three were open, the daemon still has the log, the sockets, the
\* reactor and the signal pipe that were opened before the forks.
ResourcesSurvive ==
    Serving("daemon") /\ inherited = Std =>
        \A r \in Resources : \E n \in Fd : fd["daemon"][n] = r

\* The daemon has no terminal and, not leading its session, cannot get one.
DetachedFromTerminal ==
    Serving("daemon") => ~terminal["daemon"] /\ ~leader["daemon"]

\* A process that reports failure leaves no server behind, whichever step of
\* whichever process failed.
FailureLeavesNoServer ==
    (\E p \in Proc : pc[p] = "exit1") => ~\E p \in Proc : Alive(p) /\ pc[p] # "leave"

\* Every process exits or serves.
StartupSettles == <>[](\A p \in Proc : pc[p] \in Done \cup {"absent", "run"})

\* A signal that the daemon catches once it serves ends it, whatever was
\* caught, and lost, while it was set up.
SignalsEndServingDaemon ==
    \A n \in 0..MaxRaised :
        []((Serving("daemon") /\ told["daemon"] = n)
            => [](told["daemon"] > n => <>(pc["daemon"] \in Done)))

\* daemonize() comes to an end whatever fails and whatever is caught, and the
\* daemon that came of it obeys signals.
DaemonSettles == StartupSettles /\ SignalsEndServingDaemon

=============================================================================
