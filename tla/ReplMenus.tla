------------------------------ MODULE ReplMenus ------------------------------
(***************************************************************************)
(* The menu of lynx (src/lynx/repl.cpp) and the two ways a session reads   *)
(* it (3rd/include/cli/cli.h): dispatching a line, and offering completions*)
(* for a line that is being typed.  A line is a sequence of words; of the  *)
(* words only equality matters, and which one begins with which.           *)
(*                                                                         *)
(* off is the set of commands that cannot be run: the ones a CmdHandler    *)
(* disabled or removed.  Both readings take it as a parameter.             *)
(***************************************************************************)
EXTENDS Integers, Sequences, FiniteSets

Menu == {"cli", "sub", "subsub"}
NoMenu == "none"
NoWord == ""
Parent == [cli |-> NoMenu, sub |-> "cli", subsub |-> "sub"]
Child(m) == {x \in Menu : Parent[x] = m}

Number == [n \in {"0", "1", "2"} |->
              CASE n = "0" -> 0 [] n = "1" -> 1 [] n = "2" -> 2]

\* A command and the types of its parameters; "sort" takes any words.
C(name, pars) == [name |-> name, pars |-> pars]
Free == <<"any">>
Commands ==
    [cli |->
       {C("hello", <<>>), C("timeout", <<"int">>), C("timeout", <<>>), C("monitor", <<>>),
        C("nomonitor", <<>>), C("hello_everysession", <<>>), C("answer", <<"int">>),
        C("file", <<"int">>), C("echo", <<"str">>), C("echo", <<"str", "str">>),
        C("error", <<>>), C("reverse", <<"str">>), C("add", <<"int", "int">>),
        C("add", <<"int", "int", "int">>), C("sort", Free), C("bar", <<"str">>),
        C("color", <<>>), C("nocolor", <<>>), C("removecmds", <<>>), C("table", <<>>)},
     sub |-> {C("hello", <<>>), C("demo", <<>>)},
     subsub |-> {C("hello", <<>>)}]

\* globalScopeMenu, one per session.
Globals == {C("help", <<>>), C("exit", <<>>), C("history", <<>>), C("!", <<"int">>)}

\* Exec: the number of words must fit, and each must convert to its type.
Takes(cmd, words, off) ==
    /\ cmd.name \notin off /\ cmd.name = Head(words)
    /\ \/ cmd.pars = Free
       \/ /\ Len(words) = Len(cmd.pars) + 1
          /\ \A i \in DOMAIN cmd.pars :
                cmd.pars[i] = "int" => words[i + 1] \in DOMAIN Number

Wrong == [kind |-> "wrong", menu |-> NoMenu, name |-> NoWord]
Goto(m) == [kind |-> "goto", menu |-> m, name |-> NoWord]
Run(m, name) == [kind |-> "run", menu |-> m, name |-> name]

\* The words by which a menu reaches its parent (ExecParent, GetCompletionWithParent).
Names(m) == {m, ".."}

\* The menus that a word leads to from a menu: submenus, then the parent.
Enters(word, m) ==
    {x \in Child(m) : word = x} \cup {x \in {Parent[m]} \ {NoMenu} : word \in Names(x)}

FirstOf(found) ==
    IF found \ {Wrong} = {} THEN Wrong ELSE CHOOSE r \in found \ {Wrong} : TRUE

\* Menu::ScanCmds and HandleCommand: a command of the menu takes the words, or
\* a menu that the first one leads to; deeper[x] is what the menu x makes of the
\* others, and a menu's word alone makes it the current one.
Scan(words, m, off, deeper) ==
    IF \E c \in Commands[m] : Takes(c, words, off) THEN Run(m, Head(words))
    ELSE FirstOf({IF Len(words) = 1 THEN Goto(x) ELSE deeper[x] : x \in Enters(Head(words), m)})

Lookup(line, at, off) ==
    LET n == Len(line)
        scan[k \in 1..n] ==
            [m \in Menu |-> Scan(SubSeq(line, k, n), m, off, scan[k + 1])]
    IN  scan[1][at]

\* The global commands come first.
Dispatch(line, at, off) ==
    IF \E c \in Globals : Takes(c, line, {}) THEN Run(NoMenu, line[1])
    ELSE Lookup(line, at, off)

-----------------------------------------------------------------------------
(* Completions.                                                             *)

Word == {c.name : c \in (UNION {Commands[m] : m \in Menu}) \cup Globals} \cup Menu

\* Two commands have another one's name as a prefix.
StartsWith(word, p) ==
    p \in {NoWord, word} \/ <<word, p>> \in {<<"subsub", "sub">>, <<"hello_everysession", "hello">>}

\* What is left of the line after a menu's name is taken off its front: the
\* rest of the first word, if it has one, and the other words.
Rest(line, name) ==
    IF line[1] # name THEN <<"sub">> \o Tail(line)
    ELSE IF Len(line) = 1 THEN <<NoWord>> ELSE Tail(line)

\* Mutant: Command::GetCompletionRecursive does not test enabled.
OfferedAlways(c, line, off) == Len(line) = 1 /\ StartsWith(c.name, line[1])

\* Command::GetCompletionRecursive.
Offered(c, line, off) ==
    c.name \notin off /\ Len(line) = 1 /\ StartsWith(c.name, line[1])

\* What the menu x adds to the completions of a line, under one of its names
\* if the line starts with it, and else as a command; offers[l][x] are the
\* completions in x of the line l.
Under(line, x, names, offers) ==
    LET typed == {w \in names : StartsWith(line[1], w)}
        name == CHOOSE w \in typed : TRUE
    IN  IF typed # {} THEN {<<name>> \o c : c \in offers[Rest(line, name)][x]}
        ELSE IF Len(line) = 1 /\ StartsWith(x, line[1]) THEN {<<x>>} ELSE {}

\* Menu::GetCompletions, GetCompletionRecursive, GetCompletionWithParent.
Offer(line, m, off, offers) ==
    {<<c.name>> : c \in {d \in Commands[m] : Offered(d, line, off)}}
    \cup (UNION {Under(line, x, {x}, offers) : x \in Child(m)})
    \cup (UNION {Under(line, x, Names(x), offers) : x \in {Parent[m]} \ {NoMenu}})

MenuOffers(line, at, off) ==
    LET tails == {SubSeq(line, k, Len(line)) : k \in 1..Len(line)}
        rests == {<<NoWord>>} \cup tails \cup {<<"sub">> \o Tail(t) : t \in tails}
        offers[l \in rests] == [m \in Menu |-> Offer(l, m, off, offers)]
    IN  offers[line][at]

Completions(line, at, off) ==
    {<<c.name>> : c \in {d \in Globals : Offered(d, line, {})}} \cup MenuOffers(line, at, off)

=============================================================================
