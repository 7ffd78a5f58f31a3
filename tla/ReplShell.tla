------------------------------ MODULE ReplShell ------------------------------
(***************************************************************************)
(* What a REPL session does with a line (3rd/include/cli/cli.h, CliSession)*)
(* and what the sessions of lynx share: the menu, whose color, nocolor and *)
(* removecmds commands change it for everyone, and the storage of commands *)
(* that a session reads when it starts and extends when it exits.          *)
(*                                                                         *)
(* Handlers run one at a time on the thread of the io_context, so a key is *)
(* one step.  The line that is being edited is given with the key; how keys*)
(* make a line is the matter of TelnetTerminal, and what becomes of a      *)
(* session that left the matter of ReplSessions.                           *)
(***************************************************************************)
EXTENDS CommandHistory, ReplMenus

CONSTANTS
    Session,       \* telnet clients and the local terminal
    HistorySize,   \* Session -> entries its history keeps (100 and 200 in lynx)
    StorageSize,   \* lines the shared storage keeps (1000)
    Lines,         \* the lines users type
    Drafts,        \* the ones they leave for another entry
    MaxKeys,       \* bound: keys of all sessions
    MaxRecalls     \* bound: recalls nested in one line; more never come back

ASSUME ShellAssumption ==
    /\ HistorySize \in [Session -> Nat \ {0}]
    /\ StorageSize \in Nat /\ MaxKeys \in Nat /\ MaxRecalls \in Nat \ {0}
    /\ Lines \subseteq Seq(STRING) \ {<<>>} /\ Drafts \subseteq Lines \cup {<<>>}

VARIABLES
    open,      \* Session -> "no", "open", "left" (the exit command or key)
    history,   \* Session -> CliSession::history
    menu,      \* Session -> CliSession::current
    edit,      \* Session -> the line the terminal shows
    said,      \* Session -> how the last key was answered
    loaded,    \* Session -> entries that were there when the session started (ghost)
    stored,    \* the storage of Cli
    disabled,  \* commands a CmdHandler disabled
    removed,   \* color and nocolor are out of the menu
    crash,     \* "no", "index" (buffer[index] out of bounds), "recursion"
    keys       \* bound: keys so far

sessionVars == <<open, history, menu, edit, said, loaded>>
menuVars == <<disabled, removed>>
vars == <<sessionVars, menuVars, stored, crash, keys>>

Line == Lines \cup {<<>>}
Off == disabled \cup (IF removed THEN {"color", "nocolor"} ELSE {})
Nothing == [kind |-> "nothing", menu |-> NoMenu, name |-> NoWord]
Exception == [kind |-> "exception", menu |-> NoMenu, name |-> NoWord]

Init ==
    /\ open = [s \in Session |-> "no"]
    /\ history = [s \in Session |-> NewHistory]
    /\ menu = [s \in Session |-> "cli"]
    /\ edit = [s \in Session |-> <<>>]
    /\ said = [s \in Session |-> Nothing]
    /\ loaded = [s \in Session |-> 0]
    /\ stored = <<>>
    /\ disabled = {} /\ removed = FALSE
    /\ crash = "no"
    /\ keys = 0

-----------------------------------------------------------------------------
IsRecall(line) == Len(line) = 2 /\ line[1] = "!" /\ line[2] \in DOMAIN Number

\* ExecFromHistory: the recall command itself is forgotten, the entry is
\* looked up, and Feed starts over with it; an empty entry is no command.
Recall(r, size) ==
    LET h == ForgetLatest(r.history)
        id == Number[r.line[2]]
    IN  CASE OutOfRange(h, id) ->
                [r EXCEPT !.history = h, !.end = "exception"]
          [] ~OutOfRange(h, id) /\ h.buffer = <<>> ->
                [r EXCEPT !.history = h, !.end = "index"]
          [] ~OutOfRange(h, id) /\ h.buffer # <<>> /\ At(h, id) = <<>> ->
                [r EXCEPT !.history = h, !.end = "nothing"]
          [] OTHER ->
                [r EXCEPT !.history = NewCommand(h, size, At(h, id)), !.line = At(h, id)]

Follow(r, size) == IF r.end = "no" /\ IsRecall(r.line) THEN Recall(r, size) ELSE r

\* The lines a line stands for: recalls are followed until a command is
\* found, one fails, or they have not come to an end.
Feed(h, size, line) ==
    LET fed[n \in 0..MaxRecalls] ==
            IF n = 0
            THEN [history |-> NewCommand(h, size, line), line |-> line, end |-> "no"]
            ELSE Follow(fed[n - 1], size)
    IN  fed[MaxRecalls]

\* color, nocolor and removecmds of the root menu.
MenuEffect(r) ==
    CASE r = Run("cli", "color") -> disabled' = {"color"} /\ UNCHANGED removed
      [] r = Run("cli", "nocolor") -> disabled' = {"nocolor"} /\ UNCHANGED removed
      [] r = Run("cli", "removecmds") -> removed' = TRUE /\ UNCHANGED disabled
      [] OTHER -> UNCHANGED menuVars

\* CliSession::Exit, with the history as it is then.
Exit(s, h) ==
    /\ open' = [open EXCEPT ![s] = "left"]
    /\ stored' = Store(stored, StorageSize, GetCommands(h))

Answer(s, answer) == said' = [said EXCEPT ![s] = answer]

\* What a line that is no recall is answered in a menu.
AnswerTo(line, m) ==
    LET d == Dispatch(line, m, Off) IN IF d = Run("cli", "error") THEN Exception ELSE d

\* The command a line came to: its effects, and what it leaves alone.
Execute(s, r) ==
    LET answer == AnswerTo(r.line, menu[s])
    IN  /\ Answer(s, answer)
        /\ menu' = [menu EXCEPT ![s] = IF answer.kind = "goto" THEN answer.menu ELSE @]
        /\ MenuEffect(answer)
        /\ IF answer = Run(NoMenu, "exit") THEN Exit(s, r.history)
           ELSE UNCHANGED <<open, stored>>

\* The enter key on a line that has words.
Enter(s, line) ==
    LET r == Feed(history[s], HistorySize[s], line)
    IN  /\ line # <<>>
        /\ history' = [history EXCEPT ![s] = r.history]
        /\ edit' = [edit EXCEPT ![s] = <<>>]
        /\ IF r.end = "no" /\ ~IsRecall(r.line)
           THEN Execute(s, r) /\ UNCHANGED crash
           ELSE /\ crash' = CASE r.end = "index" -> "index"
                              [] r.end = "no" -> "recursion"
                              [] OTHER -> crash
                /\ Answer(s, IF r.end = "exception" THEN Exception ELSE Nothing)
                /\ UNCHANGED <<menu, menuVars, open, stored>>
        /\ UNCHANGED loaded

\* Feed returns at once: the history stays as it is, browsing included.
EnterNothing(s) ==
    /\ edit' = [edit EXCEPT ![s] = <<>>]
    /\ Answer(s, Nothing)
    /\ UNCHANGED <<open, history, menu, loaded, menuVars, stored, crash>>

\* The up key: CliSession::PreviousCmd, Terminal::SetLine.
Up(s, line) ==
    LET h == Previous(history[s], HistorySize[s], line)
    IN  /\ history' = [history EXCEPT ![s] = h]
        /\ edit' = [edit EXCEPT ![s] = Shown(h)]
        /\ Answer(s, Nothing)
        /\ UNCHANGED <<open, menu, loaded, menuVars, stored, crash>>

\* The down key; with nothing newer, the line is replaced by an empty one.
Down(s) ==
    LET h == history[s]
    IN  /\ IF NothingNewer(h)
           THEN edit' = [edit EXCEPT ![s] = <<>>] /\ UNCHANGED history
           ELSE /\ history' = [history EXCEPT ![s] = NextEntry(h)]
                /\ edit' = [edit EXCEPT ![s] = Shown(NextEntry(h))]
        /\ Answer(s, Nothing)
        /\ UNCHANGED <<open, menu, loaded, menuVars, stored, crash>>

\* The end-of-file key, with any line on the terminal.
Eof(s) ==
    /\ Exit(s, history[s])
    /\ Answer(s, Nothing)
    /\ UNCHANGED <<history, menu, edit, loaded, menuVars, crash>>

\* The constructor of CliSession loads what is stored.
Open(s) ==
    /\ crash = "no" /\ open[s] = "no"
    /\ open' = [open EXCEPT ![s] = "open"]
    /\ history' = [history EXCEPT ![s] = LoadCommands(HistorySize[s], stored)]
    /\ loaded' = [loaded EXCEPT ![s] = Len(stored)]
    /\ UNCHANGED <<menu, edit, said, menuVars, stored, crash, keys>>

\* A key of an open session; before it the user may have typed another line.
KeyPressed(s) ==
    /\ crash = "no" /\ open[s] = "open"
    /\ keys < MaxKeys
    /\ keys' = keys + 1
    /\ \/ \E line \in Lines \cup {edit[s]} : Enter(s, line)
       \/ EnterNothing(s)
       \/ \E line \in Drafts \cup {edit[s]} : Up(s, line)
       \/ Down(s)
       \/ Eof(s)

Next == \E s \in Session : Open(s) \/ KeyPressed(s)

Spec == Init /\ [][Next]_vars

-----------------------------------------------------------------------------
(* Properties.                                                              *)

\* The assertions of history.h on mode, buffer and current: a session that
\* browses has a draft, and the entry it shows exists.
BrowsedEntryExists ==
    \A s \in Session :
        LET h == history[s]
        IN  /\ h.browsing => h.current < Len(h.buffer)
            /\ ~h.browsing => h.current = 0

\* The history of each session is a numbered list (HistorySpec): recalls,
\* repetitions, drafts and a full buffer never renumber what is listed.
Listed(s) == INSTANCE HistorySpec WITH
    Size <- HistorySize[s],
    entries <- Reverse(history[s].buffer),
    first <- history[s].idOfOldest,
    browsing <- history[s].browsing

HistoriesAreNumberedLists ==
    /\ \A s \in Session : Listed(s)!Init
    /\ [][\A s \in Session : [Listed(s)!Next]_(Listed(s)!specVars)]_vars

\* A session that exits stores every command of its own that its history
\* still lists: the count that GetCommands trusts is never too small.
OwnCommands(s) ==
    LET h == history[s]
        entered == h.idOfOldest + Len(h.buffer) - loaded[s] - (IF h.browsing THEN 1 ELSE 0)
        kept == Len(h.buffer) - (IF h.browsing THEN 1 ELSE 0)
    IN  IF entered < kept THEN entered ELSE kept

OwnCommandsAreStored ==
    \A s \in Session :
        open[s] = "open" => Len(GetCommands(history[s])) >= OwnCommands(s)

Entry(h, id) == h.buffer[h.idOfOldest + Len(h.buffer) - id]

RunsListedLine(s, n) ==
    LET h == history[s]
        id == Number[n]
        listed == h.idOfOldest <= id
                  /\ id < h.idOfOldest + Len(h.buffer) - (IF h.browsing THEN 1 ELSE 0)
        pushedOut == /\ id = h.idOfOldest /\ Len(h.buffer) = HistorySize[s]
                     /\ ~h.browsing /\ h.buffer[1] # <<"!", n>>
    IN  (Enter(s, <<"!", n>>) /\ listed) =>
            said'[s] = IF pushedOut THEN Exception
                       ELSE IF Entry(h, id) = <<>> THEN Nothing
                       ELSE IF IsRecall(Entry(h, id)) THEN said'[s]
                       ELSE AnswerTo(Entry(h, id), menu[s])

\* "! id" is answered as the line that the history shows under id would be,
\* whatever state the buffer is in, unless recording the recall pushed that
\* entry out of a full history.
RecallRunsListedLine == [][\A s \in Session, n \in DOMAIN Number : RunsListedLine(s, n)]_vars

\* A completion that is offered can be run, once the arguments that are
\* missing are typed; and a command that one word runs is offered before
\* anything is typed.  So in every menu, whatever commands are off.
Arguments == {<<>>, <<"1">>, <<"1", "1">>}
TypedLines == {<<w>> : w \in Word \cup {NoWord, ".."}}
              \cup {<<m, w>> : m \in Menu \cup {".."}, w \in Word \cup {NoWord, ".."}}
Matching(m, off) ==
    /\ \A line \in TypedLines : \A c \in Completions(line, m, off) :
            \E a \in Arguments : Dispatch(c \o a, m, off) # Wrong
    /\ \A w \in Word :
            Dispatch(<<w>>, m, off) # Wrong => <<w>> \in Completions(<<NoWord>>, m, off)
MatchingMenus ==
    {<<m, off, Matching(m, off)>> : m \in Menu, off \in SUBSET {"color", "nocolor"}}

CompletionsMatchDispatch == \A s \in Session : <<menu[s], Off, TRUE>> \in MatchingMenus

\* history.h:152 asserts index < buffer.size() when an entry is looked up by
\* its id.
LookedUpEntryExists == crash # "index"

=============================================================================
