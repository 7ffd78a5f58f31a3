# A verification project for cpp-skeleton

TLA+ models of the programs in `src/src/`, checked by TLC on small instances,
with theorems that TLAPS proves for all values of the constants.  Paths below
are relative to the repository (`src/lynx/main.cpp`), vendored code is under
`3rd/include/`.

Contents: [the system](#1-the-system) · [modules](#2-modules-and-how-they-follow-the-code)
· [runs](#3-runs) · [fairness](#4-fairness) · [proofs](#5-proofs)
· [disagreements found](#6-disagreements-between-the-code-and-what-is-said-of-it)
· [what is not covered](#7-what-is-only-model-checked-and-what-is-not-modelled)
· [plan](#8-plan)

## 1. The system

The repository is a C++20 application skeleton.  Two programs carry logic of
their own; everything else is vendored libraries, exercises that print the
result of library calls, and build files.

**lynx** (`src/lynx/`) is a server with one event-loop thread (an asio
`io_context`) and, in the foreground, one keyboard thread.

| component | state it keeps | operations | talks to |
|---|---|---|---|
| `main` (`main.cpp`) | two timers and a shared count, two signal sets, the objects below | build, run the loop, destroy in reverse order | all of them, by calls; the loop by callbacks |
| timers (`main.cpp:118-134`) | `t`, `timer`, `count` | `print`, the handler of `timer`, cancel and re-arm | the logger (each line goes to every sink) |
| `Config` (`config.hpp`) | `data_`, `toml_root_`, the `CLI::App`, the config file | parse; write, write as, safe write, safe write as | command line, environment, files; read by `main` |
| `LoggerConfig` (`log.cpp`) | the sinks of the global logger | init, add console, add stream, remove streams | streams of REPL sessions (by reference) |
| `Repl` (`repl.cpp`) | the menu, the scheduler, local, telnet and file sessions, the broadcast list | start each kind of session, stop; the commands | logger, scheduler, terminal, sockets |
| a REPL session's shell (`3rd/.../cli.h`, `history.h`) | command history, current menu, the line; shared: the menu and the stored commands | run a line, browse, complete, recall, exit | the menu of `Repl`, the storage |
| telnet terminal (`3rd/.../genericasioremotecli.h`, `terminal.h`) | protocol state, decoder state, line and cursor | bytes in, key events, repainting | socket, loop, the shell |
| keyboard (`3rd/.../linuxkeyboard.h`) | a thread, `enabled` with its mutex and condition variable, a stop pipe, the terminal mode | activate, deactivate, read a key, stop, join | posts keys to the loop |
| `RestServer` (`rest_server.cpp`, `3rd/.../cinatra`) | acceptor, map of connections; per connection a coroutine, its buffer and its socket | start, accept, serve, stop, two routes | the loop; `stop()` waits for a handler |
| `Daemon` (`daemon.hpp`) | none; three processes, their descriptors and sessions | `daemonize()` | the loop's `notify_fork` |

**The chat server** (`src/cppdemo/asio_demo2.cc`, what `cppdemo/main.cc` runs)
is a room per port: a listener coroutine accepts connections, each session runs
a reader and a writer coroutine, the room holds the participants and the last
100 lines.  One thread runs all coroutines.

What makes them hard, and what must hold:

* *Chat*: three kinds of coroutines interleave at every `co_await`; either
  coroutine of a session may fail first.  A writer must not sleep on work; no
  session may be half gone; a client gets a stretch of the room's history in
  order and without holes; a closed session comes to rest.
* *Timers*: a cancelled wait may already have completed.  One countdown, lines
  not early, an end.
* *REPL sessions*: key events hold raw pointers to sessions that another handler
  releases; two global lists refer to streams that belong to sessions.  No
  handler may find its session destroyed, a session is released once and
  eventually, lists follow the sessions.
* *Shell and history*: entries are overwritten while browsing, withdrawn by
  recalls and pushed out by a bound, and yet have numbers a user types; two
  sessions share the menu that one of them changes.  A number means the entry
  that was listed, what is offered can be run, a session's commands are stored.
* *Telnet terminal*: two automata read one stream, and the client's screen is
  repainted by differences.  Negotiation must be invisible, the screen must show
  the line that will run.
* *REST server*: requests arrive in fragments or several at once; connections
  end in five ways; descriptors run out; `stop()` comes at any point.  The map is
  the set of open connections, a client that waits gets its answer, descriptors
  come back.
* *Life cycle*: signals, exits, end-of-file keys and exceptions meet a second
  thread that may be anywhere.  The thread must end before what it uses, the
  terminal must be given back, the program must end.
* *Daemon*: eight calls in three processes may fail; descriptors are allocated
  by lowest free number; what was opened before is closed and opened again by
  number; signals are already caught.  The daemon must have its
  streams, its resources and no terminal; a failure must leave nothing running;
  a signal must end it once it serves.
* *Config*: a value passes through four sources, a document, six-digit text and
  the next run's reader; a run may die while it writes.  Saving and loading must
  agree and be stable.

`PROJECT.json` lists every component, also those left out, and every hazard at
its line with the properties that are about it.

## 2. Modules and how they follow the code

One module per component; the file's first comment says what it models, every
definition is mapped to its lines in `PROJECT.json`.  An action is one handler,
or one coroutine from a `co_await` to the next, or one system call where another
process or thread can come in between.  Operators named *Mutant* are plausible
bugs of a definition; no specification uses them, they show that each property
can fail.

**ChatSpec** is what the clients of a port are promised: a history, members, and
for each member the stretch of history it has been sent.  **ChatRoom** is the
server.  `reader[s]` and `writer[s]` are the points where the coroutines are
suspended, with the pending operation and its queued completion as different
states, so all orders of completions are explored.  `queue` is `write_msgs_`,
`recent` is `recent_msgs_`, `unread` counts the complete lines in `read_msg`.
`socket_.close()` and `timer_.cancel()` complete what is outstanding.  `log`,
`first` and `received` are history variables for the properties and for the
refinement of ChatSpec: `Abstract == INSTANCE ChatSpec WITH ...` maps posted
lines to `log`, participants to members, completed writes to deliveries.

**ReplSessions** has the queue of the `io_context` (`ready`) with the completions
of reads and the key events they post; sessions and their sockets; the broadcast
list (`cout`) and the logger's sinks.  `Disconnect` throws on a socket that is
closed or reset; the exit command runs inside a `try`, the end-of-file key does
not.  A session object dies with the completion of its read, as the last
`shared_ptr` does.  `phase` says whether `run()` goes on, was stopped, or was
left by an exception, and flags writes to destroyed streams.

**HistorySpec** is what a user is promised of the history of a session: a
numbered list.  **CommandHistory** is `history.h` and the storage as operators on
a record, **ReplMenus** the menus of lynx with the two ways they are read,
`Dispatch` for a line and `Completions` for the beginning of one.  **ReplShell**
puts them together: a key that matters to the history (enter, up, down, end of
file) of one of several sessions is one step, with everything `Feed` does under
it, recalls inside recalls included.  The line that is being edited comes with
the key.  `crash` says whether an index left the buffer or a recall recalled
itself.  `HistoriesAreNumberedLists` is the refinement, with the buffer reversed
and `idOfOldest` as the number of its first entry.

**TelnetTerminal** has one session from bytes to screen.  `Byte` is the whole of
`OnDataReceived` for one byte: `Consume` (the telnet automaton), `Output` (the
decoder) and the posting of an event.  `RunKey` is the handler of one event, with
every character that `Terminal` prints applied to `screen`.  The client presses
keys, negotiates between any two bytes, and other sessions print.  `intended` is
the key that is being sent, against which each event is compared.

**RestServer** has clients that send requests in pieces, the accept loop and one
coroutine per connection, cut at its `co_await`s: `Read` is an `async_read_until`
that got some of what arrived, with all that `start()` does up to the next
suspension.  A request is a head of two pieces and maybe a body; what the code
distinguishes of a request is its kind (`AllKinds`).  A head is cut inside a
line, and a body is a text that is no head.  `Close` is `close()` with the
quit callback, which runs at once on the same thread.

**LynxTimers** has a clock in half seconds, the timer queue, and `ready`, the
`op_queue_` of the scheduler: handlers, and the marker (`task_operation_`) whose
turn it is to run the reactor.  `React` takes the marker, queues what is due and
puts the marker behind it, so what the reactor queued is run before it looks at
the clock again.  Time passes whether or not the thread keeps up.

**ProgramLife** is what the user at the terminal is promised of the foreground
run as a whole; **LynxShutdown**, which implements it, composes the thread of `main`, the keyboard thread, signals and
the terminal.  `main` goes through the stages of construction, the loop, and the
destructors in their order; `kb` is the keyboard thread's place in its loop
(condition variable, `select`, `read`, post); `tty` and `oldt` are the mode of
the terminal and the mode that was saved.  A caught signal may interrupt the
keyboard thread's `select` or `read`; outside the life of `exit_signals` it
kills.  `StopRest` is `~coro_http_server`: it returns at once if `stop()` was called, and
otherwise waits for a loop that no longer runs.  Telnet sessions are here only a source of exceptions
(`Escape`); ReplSessions says when they occur.

**LynxDaemon** has three processes with their descriptor tables; `Open` takes the
lowest free number.  Each call of `daemonize()` is a step that may fail.  `AtStart`
is the table before the first fork, hence the numbers that the reactor and the
signal pipe remember; `Rebuild` closes these numbers, whatever they are by then,
and opens new descriptors one after another, as the two `notify_fork` do.

**LynxConfig** has the files, one run at a time with its `data_` and document, and
a crash at any point (`End`).  `Setting` is the order in which CLI11 consults its
sources; `Formatted` is the text that toml11 writes, so doubles keep six significant
digits.  The model rounds to five decimals, which is the same for values of pi
between 1 and 10, and those are the ones `ConfigAssumption` admits.

The `MC*` modules only give values to constants for TLC.

## 3. Runs

| run | instance | shows |
|---|---|---|
| chat | 2 sessions, backlog 1, 2 lines each | ChatRoom implements ChatSpec with its liveness; no lost wake-up, no half session, delivery in order, each line posted once and in order, closed sessions unwind |
| shell | 2 sessions with histories of 2 and 3 entries, a storage of 3, 8 lines, 5 keys | each history is a numbered list, recalls run what is listed, entries shown exist, own commands are stored, completions and dispatch agree |
| terminal | 2 characters, all other keys, 4 keys, 1 negotiation or broadcast | negotiation is transparent at every byte, the screen shows the line, every key is handled |
| rest | 2 clients, 1 descriptor, 2 requests each of 3 and 5 kinds | the map is exact, also after stop, answers in order; a waiting client gets its answer; descriptors come back and a full server recovers |
| repl | 2 telnet clients, a terminal and a file session, 3 keys in total | handlers find their session, closed sessions are released in the end, the broadcast list follows the sessions |
| timers | counts 5 and 4, lag up to 2 s | one countdown, lines not early, it ends |
| shutdown | all kinds of bytes, 3 typed, 2 keys queued, 2 signals | thread ends first, terminal restored, join not blocked by a disabled thread, a signal ends the program (with the exceptions stated in the property), the run implements ProgramLife |
| daemon | 2 signals, every set of inherited descriptors | streams (unless the reactor had their numbers), resources, no terminal, failures leave nothing, start-up settles, a signal ends the daemon once it serves |
| config | a file and what is saved beside it, ports inside and outside the range, pi with seven digits | saved files agree with what was saved, saving is stable, only the default port is refused later |

The three other runs each show one disagreement (section 6).

*Bounds.*  Chat: a backlog of 1 makes the bound bite at the second line; two
lines per client let a read bring two lines at once, and let a line be posted
after the session's writer failed; the proofs (section 5) cover any number of
sessions, lines and any backlog.  REPL: three keys are enough for an exit
followed by an end-of-file key, in one read or two, and a third party that uses
what the first left; the keys are counted over all sessions, so each may enter
all of them.  Shell: with histories of
two and three entries, five keys fill a history, push its oldest entry out and
browse, recall or exit after that; the lines are the ones that change something
(colours, removal, two menu levels, recalls by two numbers, exit), and empty
ones; four nested recalls are one more than the entries there are; the proofs cover any
sizes, lines and depth.  Terminal: four keys put the
cursor inside a line, edit there and act again; "A", the last byte of the up key,
is also a character.  Rest: one descriptor and two clients make the server full;
two requests are enough to be pipelined, to be cut in the second head, and to
follow a refusal; one client sends every kind, the one that waits those that
reach each answer.  Timers: a lag of four half seconds covers the distance between a
due `t` and a due `timer`, so that the completions queue in both orders, and lets
a whole second pass between two handlers; the proofs cover every lag; the
second count stands for 100 (lines differ only by their number).  Shutdown: three
bytes make the longest escape sequence (ESC `[` `3`), two keys fill the queue,
and with two signals one comes in each period before and after the handlers are
gone.  Daemon: a signal in each of two processes or two in one.  Config: a file
and its `.sav` written from it; a second `.sav` repeats the first.

Deadlock is not checked where the system stops by design (program ended, all
sessions gone, all bounds used up).

## 4. Fairness

*Chat*: the `io_context` resumes each coroutine whose completion is queued, and
the kernel answers each write with success or an error; nothing makes a client
type, read or leave.  *REPL*: the loop runs what is queued.
*Terminal*: what has been sent arrives and what is posted is run; a client that
has begun a key sends the rest of its bytes, as a terminal does.  *Rest*: the
loop completes accepts, reads that have data and writes, and runs the coroutine
they resume; clients owe nothing.  *Timers*: time
passes, the reactor collects expired timers, the thread runs handlers.
*Shutdown*: both threads are scheduled, and the loop polls its signal pipe in
every round, so the signal handler has fairness of its own; users, signals and
exceptions have none.  *Daemon*: each process is scheduled.  All of it is weak
fairness of steps that stay possible until taken.  *Config* and the
shell have only safety.

## 5. Proofs

**ChatRoomProofs** (module ChatRoom, any sessions, any `MaxRecent`, `MaxLines`).
`Inductive` shows `Spec => []IInv` with
`IInv == TypeOK /\ ControlInv /\ RecentInv /\ DeliveryInv`.  The properties
alone are not inductive: delivery in order depends on where the writer is (a
line that is written but not popped is counted on both sides, `Base`), and on
`recent_msgs_` being the end of the history (`RecentInv`), from which a newcomer
starts; the control invariant relates the coroutines' states, the socket and the
room, and says that a writer that writes has a line to write.  There is one lemma
per conjunct and, in it, one step per action.  `TypeCorrect`,
`WakeupsAreNotLost`, `SessionsAreWhole` and `DeliveryIsInOrder` follow from
`IInv`.  `ServerImplementsRoom` shows the safety part of the refinement: each
action of the server is the action of ChatSpec of the same meaning or a stutter.

**LynxLifeProofs** has the two ways in which lynx begins and ends.  In the
foreground (LynxShutdown, any bounds, any bytes) `ShutdownInvariant` shows
`Spec => []IInv`, from which `KeyboardThreadEndsFirst`, `TerminalIsRestored` and `JoinIsNotDisabled` follow.  The terminal's mode after
the program is the one saved by the last of any number of switches, so the
invariant says that at every activation the mode is the original one, that it is
raw exactly in the active stages of `main`, and that the stages that lead to the
destructor are active ones.  `ShutdownTypeCorrect` shows `Spec => []TypeOK` from
`TInv`, which types the queues as sequences.  `ShutdownImplementsLife` shows that
the run implements ProgramLife: from the same invariant, each step of `main` is
the abstract step of its meaning, steps of the keyboard thread are invisible, and
a signal is either caught, hence invisible, or comes outside the loop and kills.
As a daemon (LynxDaemon, any number of signals, any set of inherited
descriptors), `StreamsAreRedirected`, `ResourcesAreKept`,
`DaemonHasNoTerminal` and `FailureIsFinal` are about the end of `daemonize()`; the
invariant says what holds before each of its calls: which process can be where
(`ProcessInv`), who leads and has a terminal (`DetachInv`), what the lowest
descriptors are (`StreamInv`), and what follows them (`ResourceInv`).  The two theorems
about descriptors are about starts with at most one stream missing (`Reserved`):
`OneMissing` and `TwoMissing` compute the numbers given out before the forks, and
`RebuildInPlace` shows that then everything the daemon closes and opens again is its
own and gets its old number.  In `StreamsAreRedirected` the hypothesis is that the
three numbers were streams or the log when the forks began, and
`StandardNumbersReserved` turns it into `Reserved`.

**ReplSessionsProofs** (module ReplSessions, any connections, commands and
number of keys).  `HandlersAreSafe` and `BroadcastListIsRight` follow from
`IInv == TInv /\ QueueInv /\ CoutListsLiveSessions`.  That no handler finds its
session destroyed is not inductive: the completion of a read destroys, so
`QueueInv` says that nothing of a session is queued behind that completion
(`Queued`), which needs in turn that there is none while a read is outstanding.
`SessionsAreHeldByTheirRead` is the other half (`Held`): a live session has its
read outstanding or queued, so something is left that will release it.  The
queue is described by indices, one lemma per kind of handler says how it moves.

**LynxTimersProofs** (module LynxTimers, any counts, any lag).  `CountdownIsOne`
and `LinesKeepTheirTime` rest on where the marker is: behind it there are only
waits that handlers cancelled (`MarkerInv`).  Hence at most one print is queued,
and when the handler of `timer` overtakes it, it is gone before the new wait can
expire; `ExpiryInv` says that `expiry` is ahead of the reset by the number of lines
logged since, however late they were.  Without the marker the
properties hold only for small lags, which is why it is in the model.

**RestServerProofs** (module RestServer, any clients, requests and descriptors).
`MapHoldsTheSockets` is nearly inductive; it needs that nothing is accepted after
`stop()` (`MapInv`).  `AnswersKeepTheirOrder` follows from `OrderInv`: the blank
lines in a connection's buffer are numbered upwards and come before those on the
way, and every answer is to a blank line that has left both.  The code looks for
the first blank line, so the proof needs the least element of a set of positions
(`LeastElement`, from the library's well-foundedness of `<` on the naturals).  For
`WaitingClientsAreToldRight` the invariant says where the only request of a
waiting client can be (`WaitInv`): on the way, partly in the buffer, executed, or
answered.

**LynxConfigProofs** (module LynxConfig, any values, pi between 1 and 10, any number
of `.sav` files).  `SavedConfigIsRead`, `SavingAgainIsTheSame` and `CheckedPortsPassAgain`:
what a run that has its options would write names every option (`RootInv`), and a
saved file is such a document after formatting, its port 0 or in the range
(`SavedInv`).  A run without options then takes all of them from the file
(`ParsedComplete`), and six digits of six digits are the same (`SixDigitsStay`).

**TelnetTerminalProofs** (module TelnetTerminal, any characters, lines and
number of keys, negotiations and broadcasts).  `EventsAreTheKeys` rests on `KeyInv`:
what a client has still to send tells where the two automata are, the one of the
negotiation by the rest of a negotiation (`Talk`), the decoder by the rest of a key
(`Sending`).  `ScreenIsTheLine` rests on `ScreenInv`: the row is, cell by cell, the
prompt, the line and blanks.  `PutShows` says what printing does to a row that
shows something, and each editing operation is a lemma on top of it.

**ReplShellProofs** (module ReplShell with CommandHistory and ReplMenus; any sessions,
sizes of the histories and of the storage, lines and depth of recalls).  `EntriesExist`,
`CommandsAreStored`, the refinement `HistoriesFollowTheirSpec` and
`RecallsRunWhatIsListed` rest on `IInv == TInv /\ \A s : HistoryInv(s)`: the buffer is
within its size and the browsing index within the buffer (`Sound`), and no more
entries were numbered since the session started than commands counted.  The second
is what `GetCommands` relies on without saying so; it needs the number the next entry
will get (`NextId`), which recalls and repetitions lower and a full buffer does not.
`Lists(g, h, d, w, k)` says that a history `g` lists what `h` does without `d` oldest and
`w` newest entries, and with `k` new ones.  Each operation of `history.h` is such a step,
and a chain of recalls is again one (`ListsCompose`), which is the step of
HistorySpec.  The attempt showed HistorySpec too narrow: with a bound of two on
the entries a line withdraws, as TLC's small histories suggested, it is false for
longer histories, where recalls of recalls of repeated lines withdraw more.

`CompletionsCanBeRun` compares two recursions over the menus, one on words
(`Lookup`) and one on the text that is typed (`MenuOffers`).  `Accepted` characterises the
first by where a path of menu names leads; a completion is shown to be such a path
with a command or a menu at its end (`OffersAccepted`), by induction on a rank of the rest of the line,
because a rest such as "sub" of "subsub" is no shorter in words (`Rank`).
`MenuInv` says which menus and which disabled commands a session can meet.

What these recursive functions compute is proved without an induction theorem over
operators: the function is shown to exist, and the set of numbers at which it is what
it should be is shown to hold 0 and every successor, hence all numbers, since
otherwise the least one outside contradicts that (`CountingUp`).

`LinesArePostedOnce` (ChatRoomProofs) adds to the invariant of the chat server
that the log holds each client's lines once and upwards, up to those that
`read_msg` still holds (`OnceInOrder`, `OneMoreLine`).

The proofs assume the named assumptions of the modules, nothing else: bounds are
naturals, sets are finite where they are counted, a history keeps at least one entry
(100 and 200 in lynx), lines are sequences of at least one word, at least one recall is
followed, and for the telnet terminal that a character is none of the control bytes and named keys
(`CharAssumption`), which is how the model tells them apart.

## 6. Disagreements between the code and what is said of it

Each is a run that TLC finishes with a counterexample; `PROJECT.json`, "findings",
quotes the sentence that is contradicted.

1. *repl_exit_ends.*  An end-of-file key that is handled when the telnet socket is
   closed or reset throws out of `io_context::run`.
2. *shell_recall_asserts.*  `! 0` as the first command of a session forgets itself
   and looks up entry 0 of an empty buffer: the bound of the range check wraps
   around.  A compiled session aborts in the assertion, and reads out of bounds
   without it.
3. *shutdown_exception.*  After an exception (for instance a telnet port that is
   taken) `~coro_http_server` waits for a loop that no longer runs: `main` neither
   reports the exception nor returns.  A test program with `RestServer` and a
   throwing handler behaves so.

Some properties that pass carve out what the code does not give; each exception is
behaviour the models reach:

* SignalEndsOrEscapePends: after a lone ESC the keyboard thread blocks in `read`,
  and the program does not end on SIGTERM until another byte comes.
* DaemonSettles: a signal caught between the second fork and
  `notify_fork(fork_child)` is lost.
* StandardStreams: if two or three standard descriptors were closed when the program
  was started, the reactor has numbers of theirs.  The daemon closes them and puts
  `/dev/null` and the output file there, and `notify_fork(fork_child)` then closes
  these as the reactor's: the eventfd takes one of the numbers, with all
  three closed the epoll descriptor another, and what the daemon prints is lost.  The
  condition of the property is exact: in every other case the streams are not those
  it names.  With
  one closed, the log had its number and nothing is rebuilt there (the log now
  writes where that stream does); if the log could not be opened, which
  `LoggerConfig::init` survives and the model leaves out, the reactor would have it.
* OnlyTheDefaultPortIsRefused: the default port, 0, is saved, and refused when it
  is read.
* RecallRunsListedLine: in a full history the recall of the oldest entry pushes
  that entry out before it is looked up.
* ScreenShowsLine: a line printed by another session or the logger stays in the
  middle of the edited line until the next prompt.
* WaitingClientsGetTheirAnswer: a client that does not wait gets 404 for a GET that
  is read behind another GET (the loop over followers finds no patterns), 405 for a
  POST that was executed, and loses gathered answers when a later head does not
  parse.  A compiled server answers so.
* SavedFilesAgree: a file that was truncated when its run ended is no saved file; the
  next run reads it as one that sets nothing.
* ImplementsProgramLife: that the run returns only if it was asked to holds after an
  exception only because the destructor of the REST server never returns (3.).
* ReplSessions reaches two phases, deadLog and deadCout, that its properties do
  not exclude: a session that monitored and left is still a sink of the logger,
  and the file session's stream is still in the broadcast list.

## 7. What is only model-checked, and what is not modelled

*Liveness* (ClosedSessionsUnwind, ClosedSessionsAreDestroyed, CountdownEnds,
SignalEndsOrEscapePends, DaemonSettles, KeysAreHandled, WaitingClientsAreAnswered,
FullServerRecovers, and the fairness part of ImplementsChatSpec; ImplementsProgramLife
has none) is out of the prover's reach and checked by TLC only.

All safety properties that the runs check, the refinements included, are theorems
for every value of the constants.  What induction they need is on the steps of the
system, or on a number by way of the least element of a set.  The three properties
that runs refute are not, of course: the runs are about the instances.

*Not modelled*: the commands that only print; the answers to option negotiation,
which change no state; matching a URL against the two routes; chunked and
multipart bodies, websockets, TLS and idle time-outs, which lynx does not switch
on; the rotation of log files; accept failures of the chat listener, after which
the program's behaviour is undefined; the duration of socket writes; the width of
the telnet client's screen and of characters (a row has no end, each character one
column); the moment between a refusal and the close that follows it, of which a REST
client learns in one step; `etc/repl.in`, whose descriptor comes after the sockets'; the demos
without state.  The reasons are in `PROJECT.json`.  The vendored libraries make up
nearly all of the repository's lines; they are modelled as far as the first-party
programs run them, and neither of the two JSON and YAML libraries, nor the command
line and TOML parsers beyond what `Config` asks of them, are.

## 8. Plan

Done: every module of section 2, its runs, and the proofs of its safety properties
and refinements.  What a next step could be:

1. Liveness.  The shape of the arguments is there in the invariants
   (`SessionsAreHeldByTheirRead` is what ClosedSessionsAreDestroyed rests on, `ExpiryInv`
   what CountdownEnds does), but the step from fairness needs ENABLED.
2. The menus as a parameter: ReplMenus has those of lynx, and its proofs look at
   each name.  Which menus make completions and dispatch agree is a condition on names
   (what is left of a word after a menu's name is again a name, no menu has an empty
   one) that could be stated and assumed.
3. The two commands of the demos that keep state, echo and the ordering of `User`.

There is one run per question, a dozen in all, each within minutes.
