--------------------------- MODULE TelnetTerminal ---------------------------
(***************************************************************************)
(* One telnet session of lynx from the bytes of the client to the line it  *)
(* edits (3rd/include/cli/detail): the telnet automaton of TelnetSession,  *)
(* which takes the option negotiation out of the stream, the key decoder   *)
(* of CliTelnetSession, the queue of key events, and Terminal, which edits *)
(* the line and repaints the client's screen by what it prints.            *)
(*                                                                         *)
(* A byte is a model value.  The client is the environment: it presses     *)
(* keys, its bytes arrive in reads of any length, and it may negotiate     *)
(* between any two bytes, those of one key included.                       *)
(***************************************************************************)
EXTENDS Integers, Sequences, SequencesExt

CONSTANTS
    Char,         \* printable characters
    Suggestions,  \* lines that the history or a completion puts on the terminal
    MaxKeys,      \* bound: keys pressed
    MaxQueue,     \* bound: key events queued
    MaxTalk       \* bound: negotiations and broadcasts

ASSUME TerminalAssumption ==
    /\ Suggestions \subseteq Seq(Char)
    /\ " " \in Char
    /\ MaxKeys \in Nat /\ MaxQueue \in Nat /\ MaxTalk \in Nat

VARIABLES
    sending,    \* bytes left of the key that is being sent
    intended,   \* that key, until its event is posted
    talking,    \* bytes left of the negotiation that is being sent
    escape,     \* TelnetSession: the last byte was IAC
    state,      \* TelnetSession::State: "data", "sub", or the command whose option is awaited
    step,       \* CliTelnetSession::Step
    queue,      \* key events posted to the scheduler
    line,       \* Terminal::currentLine
    position,   \* Terminal::position
    screen,     \* what the client shows: the row of the cursor, and its column
    disturbed,  \* another session or the logger wrote after the last prompt
    garbled,    \* an event was posted for a key that was not pressed (ghost)
    over,       \* the end-of-file key was handled
    keys, talks \* bounds: keys pressed; negotiations and broadcasts

clientVars == <<sending, intended, talking, keys, talks>>
decoderVars == <<escape, state, step, garbled>>
editVars == <<line, position, screen, disturbed, over>>
vars == <<clientVars, decoderVars, queue, editVars>>

NoKey == "none"
Editing == {"left", "right", "home", "end", "backspace", "canc"}
NamedKey == Editing \cup {"up", "down", "tab", "clear", "ret", "eof"}
Key == Char \cup NamedKey

\* Bytes that stand for no character.
ControlByte == {"EOT", "BS", "TAB", "LF", "FF", "CR", "ESC", "DEL", "IAC", "NUL"}

\* A character is neither, nor what stands for no key.
ASSUME CharAssumption == Char \cap (ControlByte \cup NamedKey \cup {NoKey, "ignored"}) = {}

\* What a client sends for a key; ret and backspace depend on the client.
Bytes(k) ==
    CASE k = "up" -> {<<"ESC", "[", "A">>}
      [] k = "down" -> {<<"ESC", "[", "B">>}
      [] k = "right" -> {<<"ESC", "[", "C">>}
      [] k = "left" -> {<<"ESC", "[", "D">>}
      [] k = "end" -> {<<"ESC", "[", "F">>}
      [] k = "home" -> {<<"ESC", "[", "H">>}
      [] k = "canc" -> {<<"ESC", "[", "3", "~">>}
      [] k = "ret" -> {<<"CR", "NUL">>, <<"CR", "LF">>}
      [] k = "backspace" -> {<<"BS">>, <<"DEL">>}
      [] k = "clear" -> {<<"FF">>}
      [] k = "tab" -> {<<"TAB">>}
      [] k = "eof" -> {<<"EOT">>}
      [] OTHER -> {<<k>>}

\* A command, an option, and a subnegotiation whose parameters hold bytes that
\* mean something elsewhere, 255 among them.
Negotiations ==
    {<<"IAC", "NOP">>, <<"IAC", "SB", "OPT", "ESC", "IAC", "IAC", "CR", "IAC", "SE">>}
    \cup {<<"IAC", c, "OPT">> : c \in {"WILL", "WONT", "DO", "DONT"}}

-----------------------------------------------------------------------------
(* The screen: printing overwrites, and a backspace only moves.             *)

Put(scr, s) ==
    [row |-> SubSeq(scr.row, 1, scr.col) \o s
             \o SubSeq(scr.row, scr.col + Len(s) + 1, Len(scr.row)),
     col |-> scr.col + Len(s)]
Back(scr, n) == [scr EXCEPT !.col = IF n < @ THEN @ - n ELSE 0]
BlankScreen == [row |-> <<>>, col |-> 0]
Blanks(n) == [i \in 1..n |-> " "]

Prompt == <<">", " ">>

\* The session prints its prompt on a new row.
Prompted == Put(BlankScreen, Prompt)

Init ==
    /\ sending = <<>> /\ intended = NoKey /\ talking = <<>>
    /\ escape = FALSE /\ state = "data" /\ step = "1"
    /\ queue = <<>>
    /\ line = <<>> /\ position = 0
    /\ screen = Prompted
    /\ disturbed = FALSE /\ garbled = FALSE /\ over = FALSE
    /\ keys = 0 /\ talks = 0

-----------------------------------------------------------------------------
(* CliTelnetSession::Output: the next step and the event that is posted.    *)

Arrow == [x \in {"A", "B", "C", "D", "F", "H"} |->
            CASE x = "A" -> "up" [] x = "B" -> "down" [] x = "C" -> "right"
              [] x = "D" -> "left" [] x = "F" -> "end" [] x = "H" -> "home"]
Plain == [x \in {"EOT", "BS", "DEL", "FF", "TAB"} |->
            CASE x = "EOT" -> "eof" [] x \in {"BS", "DEL"} -> "backspace"
              [] x = "FF" -> "clear" [] x = "TAB" -> "tab"]

To(s, event) == [step |-> s, event |-> event]

Decoded(b) ==
    CASE step = "1" /\ b = "ESC" -> To("2", NoKey)
      [] step = "1" /\ b = "CR" -> To("wait_0", NoKey)
      [] step = "1" /\ b \in DOMAIN Plain -> To("1", Plain[b])
      [] step = "1" /\ b = "IAC" -> To("1", "eof")
      [] step = "1" /\ b \notin {"ESC", "CR", "IAC"} \cup DOMAIN Plain -> To("1", b)
      [] step = "2" -> IF b = "[" THEN To("3", NoKey) ELSE To("1", "ignored")
      [] step = "3" -> IF b \in DOMAIN Arrow THEN To("1", Arrow[b]) ELSE To("4", NoKey)
      [] step = "4" -> To("1", IF b = "~" THEN "canc" ELSE "ignored")
      [] step = "wait_0" -> To("1", IF b \in {"NUL", "LF"} THEN "ret" ELSE "ignored")

\* Notify posts the event; garbled records one the client did not mean.
Output(b) ==
    LET d == Decoded(b)
    IN  /\ step' = d.step
        /\ IF d.event = NoKey THEN UNCHANGED <<queue, garbled, intended>>
           ELSE /\ queue' = Append(queue, d.event)
                /\ garbled' = (garbled \/ d.event # intended)
                /\ intended' = NoKey

\* Mutant: the parameters of a subnegotiation are data.
DataInSub(b) ==
    /\ state' = IF state = "sub" THEN "sub" ELSE "data"
    /\ IF state \in {"data", "sub"} THEN Output(b) ELSE UNCHANGED <<step, queue, garbled, intended>>

\* TelnetSession::Data: an option byte is answered and ends its command.
Data(b) ==
    /\ state' = IF state = "sub" THEN "sub" ELSE "data"
    /\ IF state = "data" THEN Output(b) ELSE UNCHANGED <<step, queue, garbled, intended>>

\* Mutant: SE does not end a subnegotiation.
CommandKeepsSub(b) ==
    /\ state' = CASE b = "SB" -> "sub"
                  [] b \in {"WILL", "WONT", "DO", "DONT"} -> b
                  [] b = "NOP" -> "data"
                  [] OTHER -> state
    /\ UNCHANGED <<step, queue, garbled, intended>>

\* TelnetSession::Command.
Command(b) ==
    /\ state' = CASE b = "SE" -> IF state = "sub" THEN "data" ELSE state
                  [] b = "SB" -> "sub"
                  [] b \in {"WILL", "WONT", "DO", "DONT"} -> b
                  [] b = "NOP" -> "data"
                  [] OTHER -> state
    /\ UNCHANGED <<step, queue, garbled, intended>>

\* TelnetSession::Consume.
Consume(b) ==
    /\ escape' = (~escape /\ b = "IAC")
    /\ CASE escape /\ b # "IAC" -> Command(b)
         [] ~escape /\ b = "IAC" -> UNCHANGED <<state, step, queue, garbled, intended>>
         [] OTHER -> Data(b)

-----------------------------------------------------------------------------
(* The client.                                                              *)

Press(k) ==
    /\ ~over /\ sending = <<>> /\ intended = NoKey
    /\ keys < MaxKeys /\ Len(queue) < MaxQueue
    /\ keys' = keys + 1
    /\ intended' = k
    /\ sending' \in Bytes(k)
    /\ UNCHANGED <<talking, talks, decoderVars, queue, editVars>>

Negotiate(n) ==
    /\ ~over /\ talking = <<>> /\ talks < MaxTalk
    /\ talks' = talks + 1
    /\ talking' = n
    /\ UNCHANGED <<sending, intended, keys, decoderVars, queue, editVars>>

\* The next byte is read; a negotiation that has begun comes first.
Byte ==
    /\ IF talking # <<>>
       THEN /\ Consume(Head(talking))
            /\ talking' = Tail(talking) /\ UNCHANGED sending
       ELSE /\ sending # <<>>
            /\ Consume(Head(sending))
            /\ sending' = Tail(sending) /\ UNCHANGED talking
    /\ UNCHANGED <<keys, talks, editVars>>

-----------------------------------------------------------------------------
(* Terminal::Keypressed and SetLine.                                        *)

From(s, i) == SubSeq(s, i + 1, Len(s))

\* The cursor is moved back by position, the new line printed, and what a
\* longer line left behind overwritten with blanks.  at is position, or what
\* ResetCursor made of it.
SetLineAt(at, scr, new) ==
    LET more == IF Len(new) < Len(line) THEN Len(line) - Len(new) ELSE 0
        put == Put(Back(scr, at), new)
    IN  /\ screen' = IF more = 0 THEN put ELSE Back(Put(put, Blanks(more)), more)
        /\ line' = new /\ position' = Len(new)

Edit(l, p, scr) == line' = l /\ position' = p /\ screen' = scr

Insert(c) ==
    Edit(SubSeq(line, 1, position) \o <<c>> \o From(line, position), position + 1,
         Back(Put(screen, <<c>> \o From(line, position)), Len(line) - position))

Backspace ==
    IF position = 0 THEN UNCHANGED <<line, position, screen>>
    ELSE LET rest == From(line, position)
         IN  Edit(SubSeq(line, 1, position - 1) \o rest, position - 1,
                  Back(Put(Back(screen, 1), rest \o <<" ">>), Len(rest) + 1))

\* Mutant: the cursor goes back one column too few.
CancShort ==
    IF position = Len(line) THEN UNCHANGED <<line, position, screen>>
    ELSE LET rest == From(line, position + 1)
         IN  Edit(SubSeq(line, 1, position) \o rest, position,
                  Back(Put(screen, rest \o <<" ">>), Len(rest)))

Canc ==
    IF position = Len(line) THEN UNCHANGED <<line, position, screen>>
    ELSE LET rest == From(line, position + 1)
         IN  Edit(SubSeq(line, 1, position) \o rest, position,
                  Back(Put(screen, rest \o <<" ">>), Len(line) - position))

EditKey(k) ==
    CASE k = "backspace" -> Backspace
      [] k = "canc" -> Canc
      [] k = "left" -> IF position = 0 THEN UNCHANGED <<line, position, screen>>
                       ELSE Edit(line, position - 1, Back(screen, 1))
      [] k = "right" -> IF position = Len(line) THEN UNCHANGED <<line, position, screen>>
                        ELSE Edit(line, position + 1, Put(screen, <<line[position + 1]>>))
      [] k = "home" -> Edit(line, 0, Back(screen, position))
      [] k = "end" -> Edit(line, Len(line), Put(screen, From(line, position)))
      [] k = "ignored" -> UNCHANGED <<line, position, screen>>

-----------------------------------------------------------------------------
(* CommandProcessor::NewCommand: one key event.                             *)

\* ret: the line goes to CliSession::Feed, whose output ends a row; then the
\* prompt, unless the line was exit.
Enter ==
    /\ over' \in BOOLEAN
    /\ Edit(<<>>, 0, IF over' THEN BlankScreen ELSE Prompted)
    /\ disturbed' = FALSE

\* up and down: a line of the history, or the empty one.
Browse == \E s \in Suggestions \cup {<<>>} : SetLineAt(position, screen, s) /\ UNCHANGED disturbed

\* tab: no completion, one (and a blank), a longer common prefix, or a list of
\* them and the prompt again.
Complete ==
    \/ UNCHANGED <<line, position, screen, disturbed>>
    \/ \E s \in Suggestions : SetLineAt(position, screen, s \o <<" ">>) /\ UNCHANGED disturbed
    \/ \E s \in Suggestions : /\ Len(s) > Len(line)
                              /\ SetLineAt(position, screen, s) /\ UNCHANGED disturbed
    \/ SetLineAt(0, Prompted, line) /\ disturbed' = FALSE

\* ctrl-L: the screen is cleared, the prompt and the line printed again.
Redraw == SetLineAt(0, Prompted, line) /\ disturbed' = FALSE

RunKey ==
    LET k == Head(queue)
    IN  /\ ~over /\ queue # <<>>
        /\ queue' = Tail(queue)
        /\ CASE k \in Char -> Insert(k) /\ UNCHANGED disturbed
             [] k \in Editing \cup {"ignored"} -> EditKey(k) /\ UNCHANGED disturbed
             [] k \in {"up", "down"} -> Browse
             [] k = "tab" -> Complete
             [] k = "clear" -> Redraw
             [] k = "ret" -> Enter
             [] k = "eof" -> UNCHANGED <<line, position, screen, disturbed>>
        /\ k # "ret" => over' = (k = "eof")
        /\ UNCHANGED <<clientVars, decoderVars>>

\* A broadcast or a line of the logger is printed where the cursor is.
Broadcast ==
    /\ ~over /\ talks < MaxTalk
    /\ talks' = talks + 1
    /\ screen' = BlankScreen
    /\ disturbed' = TRUE
    /\ UNCHANGED <<sending, intended, talking, keys, decoderVars, queue, line, position, over>>

Next ==
    \/ \E k \in Key : Press(k)
    \/ \E n \in Negotiations : Negotiate(n)
    \/ Byte
    \/ RunKey
    \/ Broadcast

Spec == Init /\ [][Next]_vars

\* What arrived is read, and what was posted is run.
FairSpec == Spec /\ WF_vars(Byte) /\ WF_vars(RunKey)

-----------------------------------------------------------------------------
(* Properties.                                                              *)

\* The negotiation is invisible to the decoder: every event is the key that
\* the client pressed, and it is posted with the key's last byte, wherever
\* between its bytes the client negotiated.
NegotiationIsTransparent ==
    /\ ~garbled
    /\ sending = <<>> => intended = NoKey

\* The client's screen shows the prompt and the line, with the cursor where
\* the next key acts and only blanks after the line, unless something else
\* was printed since the prompt.
ScreenShowsLine ==
    LET shown == Prompt \o line
        n == Len(shown)
    IN  ~disturbed /\ ~over =>
            /\ Len(screen.row) >= n /\ SubSeq(screen.row, 1, n) = shown
            /\ \A i \in n + 1..Len(screen.row) : screen.row[i] = " "
            /\ screen.col = Len(Prompt) + position

\* Every key that is pressed is acted on, unless the session is over first.
KeysAreHandled == (intended # NoKey) ~> (over \/ (queue = <<>> /\ intended = NoKey))

=============================================================================
