---------------------------- MODULE HistorySpec ----------------------------
(***************************************************************************)
(* What the command history of a session promises, whatever buffer it is   *)
(* kept in: a numbered list.  Entries get consecutive numbers, the list    *)
(* loses entries only at its ends (the oldest one when it is full, the     *)
(* newest ones when a recall or a repetition withdraws them), and an entry *)
(* keeps its text and its number as long as it is listed, unless the user  *)
(* edits it while browsing.                                                *)
(***************************************************************************)
EXTENDS Integers, Sequences

CONSTANTS
    Size,      \* entries the history keeps
    Line       \* the lines that can be recorded

VARIABLES
    entries,   \* the entries, oldest first
    first,     \* the number of the oldest one
    browsing   \* the user is browsing: an entry may be amended

specVars == <<entries, first, browsing>>

Init ==
    /\ entries = <<>>
    /\ first = 0
    /\ browsing = FALSE

\* A session starts with what earlier sessions stored; only a full list has
\* lost entries.
Load ==
    /\ entries = <<>> /\ first = 0
    /\ entries' \in Seq(Line) /\ Len(entries') <= Size
    /\ first' \in Nat
    /\ first' > 0 => Len(entries') = Size
    /\ UNCHANGED browsing

\* A line is recorded, or runs one that is listed.
Record(drop, withdraw, added) ==
    /\ drop + withdraw <= Len(entries)
    /\ drop > 0 => Len(entries) = Size
    /\ entries' = SubSeq(entries, drop + 1, Len(entries) - withdraw) \o added
    /\ Len(entries') <= Size
    /\ first' = first + drop
    /\ browsing' \in BOOLEAN

\* An entry is overwritten in place.
Amend(i, line) ==
    /\ browsing /\ browsing'
    /\ entries' = [entries EXCEPT ![i] = line]
    /\ UNCHANGED first

Next ==
    \/ Load
    \/ \E drop \in 0..1, withdraw \in 0..Len(entries) :
            \E added \in {<<>>} \cup {<<l>> : l \in Line} :
                Record(drop, withdraw, added)
    \/ \E i \in DOMAIN entries, l \in Line : Amend(i, l)

Spec == Init /\ [][Next]_specVars

=============================================================================
