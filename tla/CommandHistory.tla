--------------------------- MODULE CommandHistory ---------------------------
(***************************************************************************)
(* The history of one REPL session (3rd/include/cli/detail/history.h) and  *)
(* the storage the sessions share (volatilehistorystorage.h), as operators *)
(* on a record: buffer[1] is the newest entry, where the code has          *)
(* buffer[0]; current keeps the code's index.                              *)
(***************************************************************************)
EXTENDS Integers, Sequences, SequencesExt

NewHistory == [buffer |-> <<>>, current |-> 0, commands |-> 0,
               browsing |-> FALSE, idOfOldest |-> 0]

\* Mutant: the number of the oldest entry stays.
InsertUnnumbered(h, size, item) ==
    [h EXCEPT !.buffer = <<item>> \o (IF Len(@) < size THEN @ ELSE Front(@))]

\* A full buffer loses its oldest entry.
Insert(h, size, item) ==
    IF Len(h.buffer) < size
    THEN [h EXCEPT !.buffer = <<item>> \o @]
    ELSE [h EXCEPT !.buffer = <<item>> \o Front(@), !.idOfOldest = @ + 1]

\* Mutant: a line that replaces the draft is not counted.
Counted(h) == IF h.browsing THEN h ELSE [h EXCEPT !.commands = @ + 1]

\* ++commands.
Issued(h) == [h EXCEPT !.commands = @ + 1]

\* Mutant: the index of the entry that was shown stays.
StopBrowsing(h) == [h EXCEPT !.browsing = FALSE]

\* current = 0; mode = Mode::inserting.
StartInserting(h) == [h EXCEPT !.current = 0, !.browsing = FALSE]

\* A line that repeats the newest entry is counted and not added; while
\* browsing, buffer[1] is the draft and the line takes its place.
NewCommand(h, size, item) ==
    LET b == h.buffer
        n == StartInserting(Issued(h))
        repeats == Len(b) > 1 /\ b[2] = item
    IN  CASE h.browsing /\ repeats -> [n EXCEPT !.buffer = Tail(b)]
          [] h.browsing /\ ~repeats -> [n EXCEPT !.buffer[1] = item]
          [] ~h.browsing /\ (b = <<>> \/ b[1] # item) -> Insert(n, size, item)
          [] OTHER -> n

\* The first call makes the edited line the draft; later ones write it over
\* the entry it was recalled from.  The entry to show is Shown.
Previous(h, size, line) ==
    IF h.browsing
    THEN [h EXCEPT !.buffer[h.current + 1] = line,
                   !.current = IF @ # Len(h.buffer) - 1 THEN @ + 1 ELSE @]
    ELSE LET i == Insert(h, size, line)
         IN  [i EXCEPT !.browsing = TRUE, !.current = IF Len(i.buffer) > 1 THEN 1 ELSE 0]

Shown(h) == h.buffer[h.current + 1]

\* Next() with nothing newer answers an empty line and changes nothing.
NothingNewer(h) == h.buffer = <<>> \/ h.current = 0
NextEntry(h) == [h EXCEPT !.current = @ - 1]

ForgetLatest(h) == [h EXCEPT !.buffer = Tail(@)]

\* IdToIndex: the comparison id > idOfOldest+size-1 is unsigned, so that with
\* no entry and idOfOldest = 0 it never holds.
OutOfRange(h, id) ==
    \/ id < h.idOfOldest
    \/ h.idOfOldest + Len(h.buffer) > 0 /\ id > h.idOfOldest + Len(h.buffer) - 1

\* Mutant: entries are numbered from the newest one.
IdFromNewest(h, id) == id - h.idOfOldest

IdToIndex(h, id) == h.idOfOldest + Len(h.buffer) - 1 - id
At(h, id) == h.buffer[IdToIndex(h, id) + 1]

LoadCommands(size, cmds) ==
    LET load[n \in 0..Len(cmds)] ==
            IF n = 0 THEN NewHistory ELSE Insert(load[n - 1], size, cmds[n])
    IN  load[Len(cmds)]

\* The newest entries, oldest first, at most as many as commands were issued;
\* the draft is left out.
GetCommands(h) ==
    LET kept == IF h.browsing THEN Tail(h.buffer) ELSE h.buffer
        n == IF h.commands < Len(kept) THEN h.commands ELSE Len(kept)
    IN  Reverse(SubSeq(kept, 1, n))

\* VolatileHistoryStorage::Store.
Store(stored, max, cmds) ==
    LET all == stored \o cmds
    IN  IF Len(all) > max THEN SubSeq(all, Len(all) - max + 1, Len(all)) ELSE all

=============================================================================
