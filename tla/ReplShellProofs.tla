--------------------------- MODULE ReplShellProofs ---------------------------
(***************************************************************************)
(* Every safety property of ReplShell, for every number of sessions, size  *)
(* of the histories and of the storage, set of lines and depth of recalls. *)
(*                                                                         *)
(* The invariant IInv says of each history what history.h relies on: the   *)
(* buffer is within its size, the index of a session that browses is in it *)
(* and is 0 otherwise (Sound), and no more lines were recorded since the   *)
(* session started than commands counted (HistoryInv).  Lists(g, h, d, w,  *)
(* k) relates two histories as the abstract list does: g lists h without   *)
(* its d oldest and w newest entries, and with k more; each operation of   *)
(* the history is a Lists step, and these compose along a recall.  MenuInv *)
(* says where the sessions are in the menus and what can be off.           *)
(*                                                                         *)
(* Feed, LoadCommands, Lookup and MenuOffers are recursive functions.  Each*)
(* is shown to exist (FedFrom, LoadedFrom, ScanFrom, OffersFrom), and what *)
(* it computes is shown by induction over the set of the numbers for which *)
(* it holds (CountingUp), from the least element of a set of numbers.      *)
(***************************************************************************)
EXTENDS ReplShell, SequenceTheorems, WellFoundedInduction, TLAPS

-----------------------------------------------------------------------------
(* Recursion over the numbers up to a bound.                                *)

LEMMA LessIsWellFounded ==
    \E R : IsWellFoundedOn(R, Nat) /\ \A k, m \in Nat : <<k, m>> \in R <=> k < m
<1>1. IsWellFoundedOn(OpToRel(<, Nat), Nat)
  BY NatLessThanWellFounded, Zenon
<1>2. OpToRel(<, Nat) = {p \in Nat \X Nat : p[1] < p[2]}
  BY DEF OpToRel
<1>3. IsWellFoundedOn({p \in Nat \X Nat : p[1] < p[2]}, Nat)
  BY <1>1, <1>2, Zenon
<1> QED
  BY <1>3

LEMMA LeastElement ==
    ASSUME NEW S, S \subseteq Nat, S # {}
    PROVE  \E x \in S : \A y \in S : x <= y
<1>1. PICK R : IsWellFoundedOn(R, Nat) /\ \A k, m \in Nat : <<k, m>> \in R <=> k < m
  BY LessIsWellFounded
<1>2. \E x \in S : \A y \in S : ~(<<y, x>> \in R)
  <2>1. IsWellFoundedOn(R, Nat)
    BY <1>1, Zenon
  <2> HIDE <1>1
  <2>2. \A T : T \subseteq Nat /\ T # {} => \E x \in T : \A y \in T : ~(<<y, x>> \in R)
    BY <2>1, WFMin
  <2> QED
    BY <2>2, Zenon
<1>3. PICK x \in S : \A y \in S : ~(<<y, x>> \in R)
  BY <1>2
<1>4. ASSUME NEW y \in S PROVE x <= y
  <2>1. y \in Nat /\ x \in Nat
    OBVIOUS
  <2>2. ~(<<y, x>> \in R)
    BY <1>3
  <2>3. ~(y < x)
    BY <1>1, <2>1, <2>2
  <2> QED
    BY <2>1, <2>3
<1> QED
  BY <1>4

\* Induction: a set with 0 that has every number after one of its own.
LEMMA CountingUp ==
    ASSUME NEW N \in Nat, NEW S, 0 \in S, \A n \in 1..N : n - 1 \in S => n \in S
    PROVE  \A n \in 0..N : n \in S
<1> DEFINE T == {n \in 0..N : n \notin S}
<1> SUFFICES ASSUME T # {} PROVE FALSE
  OBVIOUS
<1>1. T \subseteq Nat
  OBVIOUS
<1>2. PICK n \in T : \A k \in T : n <= k
  BY <1>1, LeastElement, Zenon
<1>3. n \in 1..N
  OBVIOUS
<1>4. n - 1 \in S
  <2>1. n - 1 \in 0..N /\ ~(n <= n - 1)
    BY <1>3
  <2> QED
    BY <1>2, <2>1
<1> QED
  BY <1>3, <1>4

-----------------------------------------------------------------------------
(* What Feed and LoadCommands compute.                                      *)

Start(h, size, line) == [history |-> NewCommand(h, size, line), line |-> line, end |-> "no"]

\* The states of Feed, one after another.
FedBy(h, size, line) ==
    CHOOSE fed : fed = [n \in 0..MaxRecalls |->
        IF n = 0 THEN Start(h, size, line) ELSE Follow(fed[n - 1], size)]

LEMMA FedFrom ==
    ASSUME NEW h, NEW size, NEW line
    PROVE  LET fed == FedBy(h, size, line)
           IN  /\ Feed(h, size, line) = fed[MaxRecalls]
               /\ fed[0] = Start(h, size, line)
               /\ \A n \in 1..MaxRecalls : fed[n] = Follow(fed[n - 1], size)
<1> DEFINE Runs(fed, k) ==
        fed = [n \in 0..k |-> IF n = 0 THEN Start(h, size, line) ELSE Follow(fed[n - 1], size)]
           S == {k \in Nat : \E fed : Runs(fed, k)}
<1>0. MaxRecalls \in Nat \ {0}
  BY ShellAssumption DEF ShellAssumption
<1>1. 0 \in S
  <2> DEFINE g == [n \in 0..0 |-> Start(h, size, line)]
  <2>1. Runs(g, 0)
    OBVIOUS
  <2> QED
    BY <2>1
<1>2. ASSUME NEW k \in 1..MaxRecalls, k - 1 \in S PROVE k \in S
  <2>1. PICK f : Runs(f, k - 1)
    BY <1>2
  <2> DEFINE g == [n \in 0..k |-> IF n = k THEN Follow(f[k - 1], size) ELSE f[n]]
  <2>2. ASSUME NEW n \in 0..k
        PROVE  g[n] = IF n = 0 THEN Start(h, size, line) ELSE Follow(g[n - 1], size)
    <3>1. CASE n = k
      <4>1. g[n] = Follow(f[k - 1], size) /\ g[n - 1] = f[k - 1] /\ n # 0
        BY <1>2, <3>1
      <4> QED
        BY <4>1, <3>1
    <3>2. CASE n # k
      <4>1. n \in 0..k - 1
        BY <1>2, <3>2
      <4>2. f[n] = IF n = 0 THEN Start(h, size, line) ELSE Follow(f[n - 1], size)
        BY <2>1, <4>1
      <4>3. g[n] = f[n] /\ (n # 0 => g[n - 1] = f[n - 1])
        BY <1>2, <4>1
      <4> QED
        BY <4>2, <4>3
    <3> QED
      BY <3>1, <3>2
  <2>3. Runs(g, k)
    BY <2>2
  <2>4. \E fed : Runs(fed, k)
    BY <2>3, Zenon
  <2> HIDE DEF Runs
  <2> QED
    BY <1>0, <2>4
<1>4. MaxRecalls \in S
  <2> HIDE DEF S
  <2>1. \A n \in 0..MaxRecalls : n \in S
    BY <1>0, <1>1, <1>2, CountingUp
  <2> QED
    BY <1>0, <2>1
<1>5. Runs(FedBy(h, size, line), MaxRecalls)
  <2>1. \E fed : Runs(fed, MaxRecalls)
    BY <1>4
  <2> QED
    BY <2>1, Zenon DEF FedBy
<1>6. Feed(h, size, line) = FedBy(h, size, line)[MaxRecalls]
  BY DEF Feed, FedBy, Start
<1> QED
  BY <1>0, <1>5, <1>6

\* The histories of LoadCommands, one after another.
LoadedBy(size, cmds) ==
    CHOOSE load : load = [n \in 0..Len(cmds) |->
        IF n = 0 THEN NewHistory ELSE Insert(load[n - 1], size, cmds[n])]

LEMMA LoadedFrom ==
    ASSUME NEW size, NEW X, NEW cmds \in Seq(X)
    PROVE  LET load == LoadedBy(size, cmds)
           IN  /\ LoadCommands(size, cmds) = load[Len(cmds)]
               /\ load[0] = NewHistory
               /\ \A n \in 1..Len(cmds) : load[n] = Insert(load[n - 1], size, cmds[n])
<1> DEFINE Runs(load, k) ==
        load = [n \in 0..k |-> IF n = 0 THEN NewHistory ELSE Insert(load[n - 1], size, cmds[n])]
           S == {k \in Nat : \E load : Runs(load, k)}
<1>0. Len(cmds) \in Nat
  OBVIOUS
<1>1. 0 \in S
  <2> DEFINE g == [n \in 0..0 |-> NewHistory]
  <2>1. Runs(g, 0)
    OBVIOUS
  <2> QED
    BY <2>1
<1>2. ASSUME NEW k \in 1..Len(cmds), k - 1 \in S PROVE k \in S
  <2>1. PICK f : Runs(f, k - 1)
    BY <1>2
  <2> DEFINE g == [n \in 0..k |-> IF n = k THEN Insert(f[k - 1], size, cmds[k]) ELSE f[n]]
  <2>2. ASSUME NEW n \in 0..k
        PROVE  g[n] = IF n = 0 THEN NewHistory ELSE Insert(g[n - 1], size, cmds[n])
    <3>1. CASE n = k
      <4>1. g[n] = Insert(f[k - 1], size, cmds[k]) /\ g[n - 1] = f[k - 1] /\ n # 0
        BY <1>2, <3>1
      <4> QED
        BY <4>1, <3>1
    <3>2. CASE n # k
      <4>1. n \in 0..k - 1
        BY <1>2, <3>2
      <4>2. f[n] = IF n = 0 THEN NewHistory ELSE Insert(f[n - 1], size, cmds[n])
        BY <2>1, <4>1
      <4>3. g[n] = f[n] /\ (n # 0 => g[n - 1] = f[n - 1])
        BY <1>2, <4>1
      <4> QED
        BY <4>2, <4>3
    <3> QED
      BY <3>1, <3>2
  <2>3. Runs(g, k)
    BY <2>2
  <2>4. \E fed : Runs(fed, k)
    BY <2>3, Zenon
  <2> HIDE DEF Runs
  <2> QED
    BY <1>0, <2>4
<1>3. Len(cmds) \in S
  <2> HIDE DEF S
  <2>1. \A n \in 0..Len(cmds) : n \in S
    BY <1>0, <1>1, <1>2, CountingUp
  <2> QED
    BY <1>0, <2>1
<1>4. Runs(LoadedBy(size, cmds), Len(cmds))
  <2>1. \E load : Runs(load, Len(cmds))
    BY <1>3
  <2> QED
    BY <2>1, Zenon DEF LoadedBy
<1>5. LoadCommands(size, cmds) = LoadedBy(size, cmds)[Len(cmds)]
  BY DEF LoadCommands, LoadedBy
<1> QED
  BY <1>4, <1>5

-----------------------------------------------------------------------------
(* The operations of a history whose entries are in a set X.                *)

Histories(X) ==
    [buffer : Seq(X), current : Nat, commands : Nat, browsing : BOOLEAN, idOfOldest : Nat]

\* What every operation keeps: a history that is browsed has a draft and shows
\* an entry, one that is not shows none.
Sound(h, size, X) ==
    /\ h \in Histories(X)
    /\ Len(h.buffer) <= size
    /\ h.browsing => h.current < Len(h.buffer)
    /\ ~h.browsing => h.current = 0

Draft(h) == IF h.browsing THEN 1 ELSE 0

\* The number of the entry that is recorded next, which is also how many were
\* loaded and recorded.
NextId(h) == h.idOfOldest + Len(h.buffer) - Draft(h)

SameEntries(g, h, d, w, k) ==
    \A i \in 1..(Len(h.buffer) - d - w) : g.buffer[k + i] = h.buffer[w + i]

\* g has k new entries and, below them, those of h without its w newest and
\* its d oldest ones, all under the numbers they had.
Lists(g, h, d, w, k) ==
    /\ d + w <= Len(h.buffer)
    /\ Len(g.buffer) = k + (Len(h.buffer) - d - w)
    /\ g.idOfOldest = h.idOfOldest + d
    /\ SameEntries(g, h, d, w, k)

\* The entries that a full history loses at its old end.
Dropped(h, size) == IF Len(h.buffer) = size THEN 1 ELSE 0

LEMMA InsertLists ==
    ASSUME NEW X, NEW size \in Nat \ {0}, NEW h \in Histories(X), Len(h.buffer) <= size,
           NEW item \in X
    PROVE  LET g == Insert(h, size, item)
           IN  /\ g \in Histories(X)
               /\ g.current = h.current /\ g.commands = h.commands /\ g.browsing = h.browsing
               /\ g.buffer[1] = item
               /\ Len(g.buffer) \in 1..size
               /\ Lists(g, h, Dropped(h, size), 0, 1)
<1> DEFINE g == Insert(h, size, item)
<1>1. /\ h.buffer \in Seq(X) /\ Len(h.buffer) \in Nat
      /\ h.current \in Nat /\ h.commands \in Nat /\ h.browsing \in BOOLEAN /\ h.idOfOldest \in Nat
  BY DEF Histories
<1>2. CASE Len(h.buffer) < size
  <2>1. g = [h EXCEPT !.buffer = <<item>> \o h.buffer]
    BY <1>2 DEF Insert
  <2>2. /\ <<item>> \o h.buffer \in Seq(X)
        /\ Len(<<item>> \o h.buffer) = 1 + Len(h.buffer)
        /\ (<<item>> \o h.buffer)[1] = item
        /\ \A i \in 1..Len(h.buffer) : (<<item>> \o h.buffer)[1 + i] = h.buffer[i]
    BY <1>1
  <2>3. /\ g \in Histories(X)
        /\ g.buffer = <<item>> \o h.buffer /\ g.idOfOldest = h.idOfOldest
        /\ g.current = h.current /\ g.commands = h.commands /\ g.browsing = h.browsing
    BY <2>1, <2>2 DEF Histories
  <2>4. Lists(g, h, 0, 0, 1)
    BY <1>1, <2>2, <2>3 DEF Lists, SameEntries
  <2> QED
    BY <1>1, <1>2, <2>2, <2>3, <2>4 DEF Dropped
<1>3. CASE Len(h.buffer) = size
  <2> DEFINE front == Front(h.buffer)
  <2>1. g = [h EXCEPT !.buffer = <<item>> \o front, !.idOfOldest = h.idOfOldest + 1]
    BY <1>3 DEF Insert
  <2>2. /\ front \in Seq(X) /\ Len(front) = Len(h.buffer) - 1
        /\ \A i \in 1..Len(front) : front[i] = h.buffer[i]
    BY <1>1, <1>3 DEF Front
  <2> HIDE DEF front
  <2>3. /\ <<item>> \o front \in Seq(X)
        /\ Len(<<item>> \o front) = 1 + Len(front)
        /\ (<<item>> \o front)[1] = item
        /\ \A i \in 1..Len(front) : (<<item>> \o front)[1 + i] = front[i]
    BY <2>2
  <2>4. /\ g.buffer = <<item>> \o front /\ g.idOfOldest = h.idOfOldest + 1
        /\ g.current = h.current /\ g.commands = h.commands /\ g.browsing = h.browsing
    BY <2>1 DEF Histories
  <2>5. g \in Histories(X)
    <3>1. [h EXCEPT !.buffer = <<item>> \o front] \in Histories(X)
      BY <2>3 DEF Histories
    <3>2. g = [[h EXCEPT !.buffer = <<item>> \o front] EXCEPT !.idOfOldest = h.idOfOldest + 1]
      BY <2>1
    <3>3. h.idOfOldest + 1 \in Nat
      BY <1>1
    <3> HIDE DEF g
    <3> QED
      BY <3>1, <3>2, <3>3 DEF Histories
  <2>6. Lists(g, h, 1, 0, 1)
    <3> DEFINE n == Len(h.buffer)
    <3> HIDE DEF g
    <3>1. n \in Nat /\ 1 + 0 <= n /\ Len(front) = n - 1 - 0 /\ 1 + Len(front) = 1 + (n - 1 - 0)
      BY <1>1, <1>3, <2>2
    <3> HIDE DEF n
    <3>2. ASSUME NEW i \in 1..(n - 1 - 0) PROVE g.buffer[1 + i] = h.buffer[0 + i]
      <4>1. i \in 1..Len(front) /\ 0 + i = i
        BY <3>1
      <4>2. g.buffer[1 + i] = front[i] /\ front[i] = h.buffer[i]
        BY <2>2, <2>3, <2>4, <4>1
      <4> QED
        BY <4>1, <4>2
    <3>3. SameEntries(g, h, 1, 0, 1)
      BY <3>2 DEF SameEntries, n
    <3>4. Len(g.buffer) = 1 + (n - 1 - 0)
      BY <2>3, <2>4, <3>1
    <3> QED
      BY <2>4, <3>1, <3>3, <3>4 DEF Lists, n
  <2> QED
    BY <1>1, <1>3, <2>2, <2>3, <2>4, <2>5, <2>6 DEF Dropped
<1> QED
  BY <1>1, <1>2, <1>3

\* g is h after item was recorded: the oldest entry may be pushed out, the draft
\* and an entry that is repeated are replaced.
Records(g, h, d, w, size, item) ==
    /\ Lists(g, h, d, w, 1)
    /\ d = 1 <=> ~h.browsing /\ Len(h.buffer) = size /\ h.buffer[1] # item
    /\ w = Draft(h) + 1 => h.buffer[w] = item

LEMMA NewCommandLists ==
    ASSUME NEW X, NEW size \in Nat \ {0}, NEW h, Sound(h, size, X), NEW item \in X
    PROVE  LET g == NewCommand(h, size, item)
           IN  /\ Sound(g, size, X)
               /\ ~g.browsing /\ Len(g.buffer) > 0
               /\ g.commands = h.commands + 1
               /\ \E d \in 0..1, w \in {Draft(h), Draft(h) + 1} :
                    Records(g, h, d, w, size, item)
<1> DEFINE b == h.buffer
           n == StartInserting(Issued(h))
           g == NewCommand(h, size, item)
           repeats == Len(b) > 1 /\ b[2] = item
<1>1. /\ b \in Seq(X) /\ Len(b) \in Nat /\ Len(b) <= size
      /\ h.current \in Nat /\ h.commands \in Nat /\ h.browsing \in BOOLEAN /\ h.idOfOldest \in Nat
      /\ h.browsing => Len(b) > 0
  BY DEF Histories, Sound
<1>2. /\ n.buffer = b /\ n.commands = h.commands + 1
      /\ n.idOfOldest = h.idOfOldest /\ n.browsing = FALSE /\ n.current = 0
      /\ n \in Histories(X)
  <2>1. h \in Histories(X)
    BY DEF Sound
  <2>2. Issued(h) \in Histories(X) /\ Issued(h) = [h EXCEPT !.commands = h.commands + 1]
    BY <1>1, <2>1 DEF Histories, Issued
  <2>3. n = [Issued(h) EXCEPT !.current = 0, !.browsing = FALSE]
    BY DEF StartInserting
  <2>4. n \in Histories(X)
    <3>1. [Issued(h) EXCEPT !.current = 0] \in Histories(X)
      BY <2>2 DEF Histories
    <3>2. n = [[Issued(h) EXCEPT !.current = 0] EXCEPT !.browsing = FALSE]
      BY <2>3
    <3> QED
      BY <3>1, <3>2 DEF Histories
  <2> QED
    BY <2>1, <2>2, <2>3, <2>4 DEF Histories
<1> HIDE DEF n
<1>3. CASE h.browsing /\ repeats
  <2>1. g = [n EXCEPT !.buffer = Tail(b)]
    BY <1>3 DEF NewCommand, n
  <2>2. Tail(b) \in Seq(X) /\ Len(Tail(b)) = Len(b) - 1
        /\ \A i \in 1..Len(b) - 1 : Tail(b)[i] = b[i + 1]
    BY <1>1, <1>3
  <2>3. /\ g \in Histories(X) /\ g.buffer = Tail(b) /\ g.commands = h.commands + 1
        /\ g.idOfOldest = h.idOfOldest /\ g.browsing = FALSE /\ g.current = 0
    BY <1>2, <2>1, <2>2 DEF Histories
  <2>4. Lists(g, h, 0, 2, 1)
    BY <1>1, <1>3, <2>2, <2>3 DEF Lists, SameEntries
  <2>5. Sound(g, size, X) /\ Len(g.buffer) > 0
    BY <1>1, <1>3, <2>2, <2>3 DEF Sound
  <2>6. Draft(h) = 1
    BY <1>3 DEF Draft
  <2>7. Records(g, h, 0, 2, size, item)
    BY <1>3, <2>4, <2>6 DEF Records
  <2> QED
    BY <1>1, <2>3, <2>5, <2>6, <2>7
<1>4. CASE h.browsing /\ ~repeats
  <2>1. g = [n EXCEPT !.buffer = [b EXCEPT ![1] = item]]
    BY <1>2, <1>4 DEF NewCommand, n
  <2>2. [b EXCEPT ![1] = item] \in Seq(X) /\ Len([b EXCEPT ![1] = item]) = Len(b)
        /\ \A i \in 2..Len(b) : [b EXCEPT ![1] = item][i] = b[i]
    BY <1>1, <1>4
  <2>3. /\ g \in Histories(X) /\ g.buffer = [b EXCEPT ![1] = item]
        /\ g.commands = h.commands + 1
        /\ g.idOfOldest = h.idOfOldest /\ g.browsing = FALSE /\ g.current = 0
    BY <1>2, <2>1, <2>2 DEF Histories
  <2>4. Lists(g, h, 0, 1, 1)
    BY <1>1, <1>4, <2>2, <2>3 DEF Lists, SameEntries
  <2>5. Sound(g, size, X) /\ Len(g.buffer) > 0
    BY <1>1, <1>4, <2>2, <2>3 DEF Sound
  <2>6. Draft(h) = 1
    BY <1>4 DEF Draft
  <2>7. Records(g, h, 0, 1, size, item)
    BY <1>4, <2>4, <2>6 DEF Records
  <2> QED
    BY <1>1, <2>3, <2>5, <2>6, <2>7
<1>5. CASE ~h.browsing /\ (b = <<>> \/ b[1] # item)
  <2>1. g = Insert(n, size, item)
    BY <1>5 DEF NewCommand, n
  <2> DEFINE d == Dropped(n, size)
  <2>2. /\ g \in Histories(X) /\ g.current = n.current /\ g.commands = n.commands
        /\ g.browsing = n.browsing
        /\ Len(g.buffer) \in 1..size
        /\ Lists(g, n, d, 0, 1)
    BY <1>1, <1>2, <2>1, InsertLists
  <2>3. Lists(g, h, d, 0, 1)
    BY <1>2, <2>2 DEF Lists, SameEntries
  <2>4. d = 1 <=> ~h.browsing /\ Len(h.buffer) = size /\ h.buffer[1] # item
    BY <1>1, <1>2, <1>5 DEF Dropped
  <2>5. Sound(g, size, X) /\ Len(g.buffer) > 0
    BY <1>1, <1>2, <2>2 DEF Sound
  <2>6. Draft(h) = 0
    BY <1>5 DEF Draft
  <2>7. d \in 0..1
    BY DEF Dropped
  <2>8. Records(g, h, d, 0, size, item)
    BY <2>3, <2>4, <2>6 DEF Records
  <2> HIDE DEF d
  <2> QED
    BY <1>2, <2>2, <2>5, <2>6, <2>7, <2>8
<1>6. CASE ~h.browsing /\ b # <<>> /\ b[1] = item
  <2>1. g = n
    BY <1>6 DEF NewCommand, n
  <2>2. Len(b) > 0
    BY <1>1, <1>6
  <2>3. Lists(n, h, 0, 1, 1)
    BY <1>1, <1>2, <2>2 DEF Lists, SameEntries
  <2>4. Sound(n, size, X)
    BY <1>1, <1>2 DEF Sound
  <2>5. Draft(h) = 0
    BY <1>6 DEF Draft
  <2>6. Records(n, h, 0, 1, size, item)
    BY <1>6, <2>3, <2>5 DEF Records
  <2> QED
    BY <1>2, <2>1, <2>2, <2>4, <2>5, <2>6
<1> QED
  BY <1>1, <1>3, <1>4, <1>5, <1>6

\* g is h after line was left for another entry: it has become the draft, or it
\* is written over the entry that was shown.
Leaves(g, h, size, line) ==
    /\ ~h.browsing => Lists(g, h, Dropped(h, size), 0, 1)
    /\ h.browsing => /\ g.buffer = [h.buffer EXCEPT ![h.current + 1] = line]
                     /\ g.idOfOldest = h.idOfOldest

LEMMA PreviousLists ==
    ASSUME NEW X, NEW size \in Nat \ {0}, NEW h, Sound(h, size, X), NEW line \in X
    PROVE  LET g == Previous(h, size, line)
           IN  /\ Sound(g, size, X)
               /\ g.browsing
               /\ g.commands = h.commands
               /\ NextId(g) = NextId(h)
               /\ Shown(g) \in X
               /\ Leaves(g, h, size, line)
<1> DEFINE b == h.buffer
           g == Previous(h, size, line)
<1>1. /\ h \in Histories(X) /\ b \in Seq(X) /\ Len(b) \in Nat /\ Len(b) <= size
      /\ h.current \in Nat /\ h.commands \in Nat /\ h.browsing \in BOOLEAN /\ h.idOfOldest \in Nat
      /\ h.browsing => h.current < Len(b)
  BY DEF Histories, Sound
<1>2. CASE h.browsing
  <2> DEFINE c == [b EXCEPT ![h.current + 1] = line]
             n == IF h.current # Len(b) - 1 THEN h.current + 1 ELSE h.current
             e == [h EXCEPT !.buffer = c]
  <2>1. h.current + 1 \in 1..Len(b)
    BY <1>1, <1>2
  <2>2. c \in Seq(X) /\ Len(c) = Len(b)
    BY <1>1, <2>1
  <2>3. n \in Nat /\ n < Len(b)
    BY <1>1, <1>2
  <2>4. g = [e EXCEPT !.current = n]
    BY <1>1, <1>2, <2>2 DEF Previous
  <2> HIDE DEF n, c
  <2>5. e \in Histories(X)
    BY <1>1, <2>2 DEF Histories
  <2>6. /\ e.buffer = c /\ e.commands = h.commands /\ e.browsing = h.browsing
        /\ e.idOfOldest = h.idOfOldest
    BY <1>1 DEF Histories
  <2> HIDE DEF e
  <2>7. /\ g \in Histories(X) /\ g.buffer = c /\ g.current = n /\ g.commands = h.commands
        /\ g.browsing = h.browsing /\ g.idOfOldest = h.idOfOldest
    BY <2>3, <2>4, <2>5, <2>6 DEF Histories
  <2>8. Sound(g, size, X) /\ NextId(g) = NextId(h)
    BY <1>1, <1>2, <2>2, <2>3, <2>7 DEF Sound, NextId, Draft
  <2>9. Shown(g) \in X
    BY <1>1, <2>2, <2>3, <2>7 DEF Shown
  <2> QED
    BY <1>2, <2>7, <2>8, <2>9 DEF c, Leaves
<1>3. CASE ~h.browsing
  <2> DEFINE i == Insert(h, size, line)
             d == Dropped(h, size)
             n == IF Len(i.buffer) > 1 THEN 1 ELSE 0
             e == [i EXCEPT !.browsing = TRUE]
  <2>1. /\ i \in Histories(X) /\ i.commands = h.commands /\ Len(i.buffer) \in 1..size
        /\ Lists(i, h, d, 0, 1)
    <3>1. Len(h.buffer) <= size /\ h \in Histories(X)
      BY <1>1
    <3> QED
      BY <3>1, InsertLists
  <2>2. g = [e EXCEPT !.current = n]
    BY <1>3 DEF Previous
  <2>3. n \in Nat /\ n < Len(i.buffer)
    BY <2>1
  <2> HIDE DEF i, n
  <2>4. /\ e \in Histories(X) /\ e.buffer = i.buffer /\ e.commands = i.commands
        /\ e.browsing = TRUE /\ e.idOfOldest = i.idOfOldest
    BY <2>1 DEF Histories
  <2> HIDE DEF e
  <2>5. /\ g \in Histories(X) /\ g.buffer = i.buffer /\ g.current = n /\ g.commands = h.commands
        /\ g.browsing = TRUE /\ g.idOfOldest = i.idOfOldest
    BY <2>1, <2>2, <2>3, <2>4 DEF Histories
  <2>6. Lists(g, h, d, 0, 1)
    BY <2>1, <2>5 DEF Lists, SameEntries
  <2>7. Sound(g, size, X)
    BY <2>1, <2>3, <2>5 DEF Sound
  <2>8. NextId(g) = NextId(h)
    <3>1. d \in 0..1
      BY DEF Dropped
    <3> HIDE DEF d
    <3>2. Len(g.buffer) = 1 + Len(h.buffer) - d /\ g.idOfOldest = h.idOfOldest + d
      BY <1>1, <2>6, <3>1 DEF Lists
    <3>3. Draft(g) = 1 /\ Draft(h) = 0
      BY <1>3, <2>5 DEF Draft
    <3>4. \A x, y \in Nat : (x + d) + (1 + y - d) - 1 = x + y - 0
      BY <3>1
    <3>5. (h.idOfOldest + d) + (1 + Len(h.buffer) - d) - 1 = h.idOfOldest + Len(h.buffer) - 0
      BY <1>1, <3>4
    <3> QED
      BY <3>2, <3>3, <3>5 DEF NextId
  <2>9. i.buffer \in Seq(X)
    BY <2>1 DEF Histories
  <2>10. Shown(g) \in X
    BY <2>3, <2>5, <2>9 DEF Shown
  <2> QED
    BY <1>3, <2>5, <2>6, <2>7, <2>8, <2>10 DEF Leaves
<1> QED
  BY <1>1, <1>2, <1>3

LEMMA NextEntryKeeps ==
    ASSUME NEW X, NEW size, NEW h, Sound(h, size, X), ~NothingNewer(h)
    PROVE  LET g == NextEntry(h)
           IN  /\ Sound(g, size, X)
               /\ g.buffer = h.buffer /\ g.browsing = h.browsing
               /\ g.commands = h.commands /\ g.idOfOldest = h.idOfOldest
               /\ Shown(g) \in X
<1> DEFINE g == NextEntry(h)
<1>1. /\ h \in Histories(X) /\ h.buffer \in Seq(X) /\ Len(h.buffer) \in Nat /\ Len(h.buffer) <= size
      /\ h.current \in Nat /\ h.browsing \in BOOLEAN
      /\ h.browsing => h.current < Len(h.buffer)
      /\ ~h.browsing => h.current = 0
  BY DEF Histories, Sound
<1>2. h.current # 0
  BY DEF NothingNewer
<1>3. h.current - 1 \in Nat /\ h.current - 1 < Len(h.buffer) /\ h.browsing
  BY <1>1, <1>2
<1>4. /\ g \in Histories(X)
      /\ g.buffer = h.buffer /\ g.browsing = h.browsing /\ g.current = h.current - 1
      /\ g.commands = h.commands /\ g.idOfOldest = h.idOfOldest
  BY <1>1, <1>3 DEF NextEntry, Histories
<1> QED
  BY <1>1, <1>3, <1>4 DEF Sound, Shown

LEMMA ForgetLists ==
    ASSUME NEW X, NEW size \in Nat, NEW g, Sound(g, size, X), ~g.browsing, Len(g.buffer) > 0
    PROVE  LET f == ForgetLatest(g)
           IN  /\ Sound(f, size, X) /\ ~f.browsing
               /\ f.commands = g.commands
               /\ Len(f.buffer) = Len(g.buffer) - 1
               /\ NextId(f) = NextId(g) - 1
               /\ \A h \in Histories(X), d \in Nat, w \in Nat :
                    Lists(g, h, d, w, 1) => Lists(f, h, d, w, 0)
<1> DEFINE f == ForgetLatest(g)
<1>1. /\ g \in Histories(X) /\ g.buffer \in Seq(X) /\ Len(g.buffer) \in Nat /\ Len(g.buffer) <= size
      /\ g.current = 0 /\ g.browsing = FALSE /\ g.idOfOldest \in Nat
  BY DEF Histories, Sound
<1>2. /\ Tail(g.buffer) \in Seq(X) /\ Len(Tail(g.buffer)) = Len(g.buffer) - 1
      /\ \A i \in 1..Len(g.buffer) - 1 : Tail(g.buffer)[i] = g.buffer[i + 1]
  BY <1>1
<1>3. /\ f \in Histories(X) /\ f.buffer = Tail(g.buffer) /\ f.commands = g.commands
      /\ f.browsing = FALSE /\ f.current = 0 /\ f.idOfOldest = g.idOfOldest
  BY <1>1, <1>2 DEF ForgetLatest, Histories
<1>4. ASSUME NEW h \in Histories(X), NEW d \in Nat, NEW w \in Nat, Lists(g, h, d, w, 1)
      PROVE  Lists(f, h, d, w, 0)
  <2>1. Len(h.buffer) \in Nat
    BY DEF Histories
  <2> HIDE DEF f
  <2>2. /\ d + w <= Len(h.buffer) /\ Len(f.buffer) = 0 + (Len(h.buffer) - d - w)
        /\ f.idOfOldest = h.idOfOldest + d
    <3>1. d + w <= Len(h.buffer) /\ Len(g.buffer) = 1 + (Len(h.buffer) - d - w)
          /\ g.idOfOldest = h.idOfOldest + d
      BY <1>4 DEF Lists
    <3>2. \A y \in Nat : (1 + (y - d - w)) - 1 = 0 + (y - d - w)
      OBVIOUS
    <3>3. Len(f.buffer) = Len(g.buffer) - 1 /\ f.idOfOldest = g.idOfOldest
      BY <1>2, <1>3
    <3> QED
      BY <2>1, <3>1, <3>2, <3>3
  <2>3. ASSUME NEW i \in 1..(Len(h.buffer) - d - w)
        PROVE  f.buffer[0 + i] = h.buffer[w + i]
    <3>1. i \in 1..Len(g.buffer) - 1 /\ 0 + i = i /\ i + 1 = 1 + i
      BY <1>4, <2>1 DEF Lists, SameEntries
    <3>2. g.buffer[1 + i] = h.buffer[w + i]
      BY <1>4 DEF Lists, SameEntries
    <3> QED
      BY <1>2, <1>3, <3>1, <3>2
  <2> QED
    BY <2>2, <2>3 DEF Lists, SameEntries
<1>5. Sound(f, size, X) /\ NextId(f) = NextId(g) - 1
  <2> HIDE DEF f
  <2>1. Draft(f) = 0 /\ Draft(g) = 0
    BY <1>1, <1>3 DEF Draft
  <2>2. Sound(f, size, X)
    BY <1>1, <1>2, <1>3 DEF Sound
  <2> QED
    BY <1>1, <1>2, <1>3, <2>1, <2>2 DEF NextId
<1> QED
  BY <1>2, <1>3, <1>4, <1>5

LEMMA ListsCompose ==
    ASSUME NEW X, NEW h \in Histories(X), NEW f \in Histories(X), NEW g \in Histories(X),
           NEW d \in Nat, NEW w \in Nat, NEW v \in Nat,
           Lists(f, h, d, w, 0), Lists(g, f, 0, v, 1)
    PROVE  Lists(g, h, d, w + v, 1)
<1>1. Len(h.buffer) \in Nat /\ Len(f.buffer) \in Nat /\ h.idOfOldest \in Nat
  BY DEF Histories
<1>2. /\ d + (w + v) <= Len(h.buffer)
      /\ Len(g.buffer) = 1 + (Len(h.buffer) - d - (w + v))
      /\ g.idOfOldest = h.idOfOldest + d
  BY <1>1 DEF Lists
<1>3. ASSUME NEW i \in 1..(Len(h.buffer) - d - (w + v))
      PROVE  g.buffer[1 + i] = h.buffer[(w + v) + i]
  <2>1. i \in 1..(Len(f.buffer) - 0 - v) /\ v + i \in 1..(Len(h.buffer) - d - w)
    BY <1>1 DEF Lists
  <2>2. g.buffer[1 + i] = f.buffer[v + i]
    BY <2>1 DEF Lists, SameEntries
  <2>3. f.buffer[0 + (v + i)] = h.buffer[w + (v + i)]
    BY <2>1 DEF Lists, SameEntries
  <2> QED
    BY <2>1, <2>2, <2>3
<1> QED
  BY <1>2, <1>3 DEF Lists, SameEntries

-----------------------------------------------------------------------------
(* What a line does to the history, whatever recalls it goes through.       *)

LEMMA NewCommandCounts ==
    ASSUME NEW X, NEW size \in Nat \ {0}, NEW h, Sound(h, size, X), NEW item \in X
    PROVE  LET g == NewCommand(h, size, item)
           IN  NextId(g) + h.commands <= NextId(h) + g.commands
<1> DEFINE g == NewCommand(h, size, item)
<1>1. /\ Sound(g, size, X) /\ ~g.browsing /\ g.commands = h.commands + 1
      /\ \E d \in 0..1, w \in {Draft(h), Draft(h) + 1} : Records(g, h, d, w, size, item)
  BY NewCommandLists
<1>2. PICK d \in 0..1, w \in {Draft(h), Draft(h) + 1} : Lists(g, h, d, w, 1)
  BY <1>1 DEF Records
<1>3. /\ Len(h.buffer) \in Nat /\ h.idOfOldest \in Nat /\ h.commands \in Nat
  BY DEF Sound, Histories
<1>4. Draft(h) \in 0..1 /\ Draft(g) = 0
  BY <1>1 DEF Draft
<1> HIDE DEF g
<1>5. /\ Len(g.buffer) = 1 + (Len(h.buffer) - d - w)
      /\ g.idOfOldest = h.idOfOldest + d
  BY <1>2 DEF Lists
<1>6. NextId(g) = h.idOfOldest + Len(h.buffer) + 1 - w
  <2>1. \A x, y \in Nat : (x + d) + (1 + (y - d - w)) - 0 = x + y + 1 - w
    BY <1>4
  <2>2. (h.idOfOldest + d) + (1 + (Len(h.buffer) - d - w)) - 0 = h.idOfOldest + Len(h.buffer) + 1 - w
    BY <1>3, <2>1
  <2> QED
    BY <1>4, <1>5, <2>2 DEF NextId
<1>7. NextId(h) = h.idOfOldest + Len(h.buffer) - Draft(h)
  BY DEF NextId
<1>8. NextId(g) + h.commands <= NextId(h) + g.commands
  <2>1. \A x, y, c \in Nat : (x + y + 1 - w) + c <= (x + y - Draft(h)) + (c + 1)
    BY <1>4
  <2>2. g.commands = h.commands + 1
    BY <1>1
  <2> QED
    BY <1>3, <1>6, <1>7, <2>1, <2>2
<1> QED
  BY <1>8 DEF g

LEMMA FieldsAreNumbers ==
    ASSUME NEW X, NEW h \in Histories(X)
    PROVE  /\ Len(h.buffer) \in Nat /\ h.commands \in Nat /\ h.idOfOldest \in Nat
           /\ Draft(h) \in 0..1 /\ NextId(h) \in Int
<1>1. Len(h.buffer) \in Nat /\ h.commands \in Nat /\ h.idOfOldest \in Nat
  BY DEF Histories
<1>2. Draft(h) \in 0..1
  BY DEF Draft
<1>3. NextId(h) \in Int
  <2>1. \A x, y \in Nat : x + y - Draft(h) \in Int
    BY <1>2
  <2> QED
    BY <1>1, <2>1 DEF NextId
<1> QED
  BY <1>1, <1>2, <1>3

LEMMA NumbersAreNatural == \A n \in DOMAIN Number : Number[n] \in Nat
BY DEF Number

LEMMA EntriesAreFound ==
    ASSUME NEW X, NEW size, NEW f, Sound(f, size, X), NEW id \in Nat,
           ~OutOfRange(f, id), f.buffer # <<>>
    PROVE  At(f, id) \in X
<1>1. f.buffer \in Seq(X) /\ Len(f.buffer) \in Nat \ {0} /\ f.idOfOldest \in Nat
  BY DEF Sound, Histories
<1>2. IdToIndex(f, id) + 1 \in 1..Len(f.buffer)
  <2>1. \A x \in Nat, n \in Nat \ {0} :
            ~(id < x) /\ ~(x + n > 0 /\ id > x + n - 1) => (x + n - 1 - id) + 1 \in 1..n
    OBVIOUS
  <2> QED
    BY <1>1, <2>1 DEF OutOfRange, IdToIndex
<1> QED
  BY <1>1, <1>2 DEF At

Ends == {"no", "exception", "index", "nothing"}

\* Feed has the line, and its history lists h with at most one line added.
Runs(r, h, size, X) ==
    /\ r \in [history : Histories(X), line : X, end : Ends]
    /\ Sound(r.history, size, X) /\ ~r.history.browsing
    /\ NextId(r.history) + h.commands <= NextId(h) + r.history.commands
    /\ \E d \in 0..1, w \in Nat, k \in 0..1 :
            /\ Lists(r.history, h, d, w, k)
            /\ d = 1 => Len(h.buffer) = size
            /\ r.end = "no" => k = 1

LEMMA StartRuns ==
    ASSUME NEW X, NEW size \in Nat \ {0}, NEW h, Sound(h, size, X), NEW line \in X
    PROVE  Runs(Start(h, size, line), h, size, X)
<1> DEFINE g == NewCommand(h, size, line)
<1>1. /\ Sound(g, size, X) /\ ~g.browsing
      /\ \E d \in 0..1, w \in {Draft(h), Draft(h) + 1} : Records(g, h, d, w, size, line)
  BY NewCommandLists
<1>2. PICK d \in 0..1, w \in {Draft(h), Draft(h) + 1} :
        Lists(g, h, d, w, 1) /\ (d = 1 => Len(h.buffer) = size)
  BY <1>1 DEF Records
<1>3. w \in Nat
  BY DEF Draft
<1>4. NextId(g) + h.commands <= NextId(h) + g.commands
  BY NewCommandCounts
<1>5. g \in Histories(X)
  BY <1>1 DEF Sound
<1> HIDE DEF g
<1>6. Start(h, size, line) = [history |-> g, line |-> line, end |-> "no"]
  BY DEF Start, g
<1>7. \E c \in 0..1, v \in Nat, k \in 0..1 :
        Lists(g, h, c, v, k) /\ (c = 1 => Len(h.buffer) = size) /\ ("no" = "no" => k = 1)
  BY <1>2, <1>3
<1> QED
  BY <1>1, <1>4, <1>5, <1>6, <1>7 DEF Runs, Ends

LEMMA RecallRuns ==
    ASSUME NEW X, NEW size \in Nat \ {0}, NEW h \in Histories(X), NEW r,
           Runs(r, h, size, X), r.end = "no", IsRecall(r.line)
    PROVE  Runs(Recall(r, size), h, size, X)
<1> DEFINE f == ForgetLatest(r.history)
           id == Number[r.line[2]]
           q == Recall(r, size)
<1>1. /\ r.history \in Histories(X) /\ r.line \in X /\ r.end \in Ends
      /\ r = [history |-> r.history, line |-> r.line, end |-> r.end]
  BY DEF Runs
<1>2. PICK d \in 0..1, w \in Nat :
        Lists(r.history, h, d, w, 1) /\ (d = 1 => Len(h.buffer) = size)
  BY DEF Runs
<1>3. id \in Nat
  BY NumbersAreNatural DEF IsRecall
<1> HIDE DEF id
<1>4. Len(h.buffer) \in Nat /\ Len(r.history.buffer) > 0 /\ Len(r.history.buffer) \in Nat
  <2>1. Len(h.buffer) \in Nat /\ Len(r.history.buffer) \in Nat
    BY <1>1, FieldsAreNumbers
  <2>2. /\ d + w <= Len(h.buffer)
        /\ Len(r.history.buffer) = 1 + (Len(h.buffer) - d - w)
    BY <1>2 DEF Lists
  <2> QED
    BY <2>1, <2>2
<1>5. Sound(r.history, size, X) /\ ~r.history.browsing
      /\ NextId(r.history) + h.commands <= NextId(h) + r.history.commands
  BY DEF Runs
<1>6. /\ Sound(f, size, X) /\ ~f.browsing
      /\ f.commands = r.history.commands
      /\ Len(f.buffer) = Len(r.history.buffer) - 1
      /\ NextId(f) = NextId(r.history) - 1
      /\ Lists(f, h, d, w, 0)
  <2>1. d \in Nat /\ size \in Nat
    OBVIOUS
  <2>2. /\ Sound(f, size, X) /\ ~f.browsing
        /\ f.commands = r.history.commands
        /\ Len(f.buffer) = Len(r.history.buffer) - 1
        /\ NextId(f) = NextId(r.history) - 1
        /\ \A j \in Histories(X), c \in Nat, v \in Nat :
              Lists(r.history, j, c, v, 1) => Lists(f, j, c, v, 0)
    BY <1>4, <1>5, <2>1, ForgetLists
  <2> QED
    BY <1>2, <2>1, <2>2
<1> HIDE DEF f
<1>7. /\ h.commands \in Nat /\ f.commands \in Nat /\ f \in Histories(X)
      /\ NextId(h) \in Int /\ NextId(f) \in Int /\ NextId(r.history) \in Int
  <2>1. f \in Histories(X)
    BY <1>6 DEF Sound
  <2> QED
    BY <1>1, <2>1, FieldsAreNumbers
<1>8. NextId(f) + h.commands <= NextId(h) + f.commands
  <2>1. \A x, y, c, e \in Int : x + c <= y + e => (x - 1) + c <= y + e
    OBVIOUS
  <2>2. NextId(f) = NextId(r.history) - 1 /\ f.commands = r.history.commands
    BY <1>6
  <2> QED
    BY <1>5, <1>7, <2>1, <2>2
<1>9. ASSUME NEW e \in Ends \ {"no"}, q = [r EXCEPT !.history = f, !.end = e]
      PROVE  Runs(q, h, size, X)
  <2>1. q = [history |-> f, line |-> r.line, end |-> e]
    BY <1>1, <1>9
  <2>2. \E c \in 0..1, v \in Nat, k \in 0..1 :
          Lists(f, h, c, v, k) /\ (c = 1 => Len(h.buffer) = size) /\ (e = "no" => k = 1)
    BY <1>2, <1>6
  <2> HIDE DEF q
  <2> QED
    BY <1>1, <1>6, <1>7, <1>8, <2>1, <2>2 DEF Runs
<1>10. ASSUME ~OutOfRange(f, id), f.buffer # <<>>, At(f, id) # <<>>
       PROVE  Runs(q, h, size, X)
  <2> DEFINE item == At(f, id)
             g == NewCommand(f, size, item)
  <2>1. item \in X
    BY <1>3, <1>6, <1>10, EntriesAreFound
  <2> HIDE DEF item
  <2>2. q = [r EXCEPT !.history = g, !.line = item]
    BY <1>10 DEF Recall, f, id, item
  <2>3. /\ Sound(g, size, X) /\ ~g.browsing
        /\ \E c \in 0..1, v \in {Draft(f), Draft(f) + 1} : Records(g, f, c, v, size, item)
    BY <1>6, <2>1, NewCommandLists
  <2>4. PICK c \in 0..1, v \in {Draft(f), Draft(f) + 1} :
          Lists(g, f, c, v, 1) /\ (c = 1 => Len(f.buffer) = size)
    BY <2>3 DEF Records
  <2>5. NextId(g) + f.commands <= NextId(f) + g.commands
    BY <1>6, <2>1, NewCommandCounts
  <2> HIDE DEF g
  <2>6. v \in Nat
    BY <1>7, FieldsAreNumbers
  <2>7. c = 0
    <3>1. Len(f.buffer) < size
      BY <1>4, <1>5, <1>6 DEF Sound
    <3>2. Len(f.buffer) # size
      BY <1>7, <3>1, FieldsAreNumbers
    <3> QED
      BY <2>4, <3>2
  <2>8. g \in Histories(X)
    BY <2>3 DEF Sound
  <2>9. Lists(g, h, d, w + v, 1)
    <3>1. Lists(g, f, 0, v, 1) /\ d \in Nat
      BY <2>4, <2>7
    <3> QED
      BY <1>6, <1>7, <2>6, <2>8, <3>1, ListsCompose
  <2>10. NextId(g) + h.commands <= NextId(h) + g.commands
    <3>1. NextId(g) \in Int /\ g.commands \in Nat
      BY <2>8, FieldsAreNumbers
    <3>2. f.commands \in Nat /\ h.commands \in Nat /\ NextId(f) \in Int /\ NextId(h) \in Int
      BY <1>7
    <3> QED
      BY <1>8, <2>5, <3>1, <3>2
  <2>11. q = [history |-> g, line |-> item, end |-> "no"]
    BY <1>1, <2>2
  <2>12. w + v \in Nat
    BY <2>6
  <2>13. \E c2 \in 0..1, u \in Nat, k \in 0..1 :
           Lists(g, h, c2, u, k) /\ (c2 = 1 => Len(h.buffer) = size) /\ ("no" = "no" => k = 1)
    BY <1>2, <2>9, <2>12
  <2> HIDE DEF q
  <2> QED
    BY <2>1, <2>3, <2>8, <2>10, <2>11, <2>13 DEF Runs, Ends
<1>11. CASE OutOfRange(f, id)
  <2>1. q = [r EXCEPT !.history = f, !.end = "exception"]
    BY <1>11 DEF Recall, f, id
  <2> QED
    BY <1>9, <2>1 DEF Ends
<1>12. CASE ~OutOfRange(f, id) /\ f.buffer = <<>>
  <2>1. q = [r EXCEPT !.history = f, !.end = "index"]
    BY <1>12 DEF Recall, f, id
  <2> QED
    BY <1>9, <2>1 DEF Ends
<1>13. CASE ~OutOfRange(f, id) /\ f.buffer # <<>> /\ At(f, id) = <<>>
  <2>1. q = [r EXCEPT !.history = f, !.end = "nothing"]
    BY <1>13 DEF Recall, f, id
  <2> QED
    BY <1>9, <2>1 DEF Ends
<1> QED
  BY <1>10, <1>11, <1>12, <1>13

LEMMA FeedRuns ==
    ASSUME NEW X, NEW size \in Nat \ {0}, NEW h, Sound(h, size, X), NEW line \in X
    PROVE  Runs(Feed(h, size, line), h, size, X)
<1> DEFINE fed == FedBy(h, size, line)
           S == {n \in Nat : Runs(fed[n], h, size, X)}
<1>1. /\ Feed(h, size, line) = fed[MaxRecalls]
      /\ fed[0] = Start(h, size, line)
      /\ \A n \in 1..MaxRecalls : fed[n] = Follow(fed[n - 1], size)
  BY FedFrom
<1>2. MaxRecalls \in Nat
  BY ShellAssumption DEF ShellAssumption
<1>3. h \in Histories(X)
  BY DEF Sound
<1> HIDE DEF fed
<1>4. 0 \in S
  BY <1>1, StartRuns
<1>5. ASSUME NEW n \in 1..MaxRecalls, n - 1 \in S PROVE n \in S
  <2>1. Runs(fed[n - 1], h, size, X)
    BY <1>5
  <2>2. fed[n] = Follow(fed[n - 1], size) /\ n \in Nat
    BY <1>1, <1>2
  <2>3. Runs(fed[n], h, size, X)
    <3>1. CASE fed[n - 1].end = "no" /\ IsRecall(fed[n - 1].line)
      BY <1>3, <2>1, <2>2, <3>1, RecallRuns DEF Follow
    <3>2. CASE ~(fed[n - 1].end = "no" /\ IsRecall(fed[n - 1].line))
      BY <2>1, <2>2, <3>2 DEF Follow
    <3> QED
      BY <3>1, <3>2
  <2> QED
    BY <2>2, <2>3
<1> HIDE DEF S
<1>6. MaxRecalls \in S
  <2>1. \A n \in 0..MaxRecalls : n \in S
    BY <1>2, <1>4, <1>5, CountingUp
  <2> QED
    BY <1>2, <2>1
<1> QED
  BY <1>1, <1>6 DEF S

-----------------------------------------------------------------------------
(* The storage.                                                             *)

LEMMA LoadedHistory ==
    ASSUME NEW X, NEW size \in Nat \ {0}, NEW cmds \in Seq(X)
    PROVE  LET g == LoadCommands(size, cmds)
           IN  /\ Sound(g, size, X) /\ ~g.browsing
               /\ g.commands = 0
               /\ g.idOfOldest + Len(g.buffer) = Len(cmds)
               /\ g.idOfOldest > 0 => Len(g.buffer) = size
<1> DEFINE load == LoadedBy(size, cmds)
           Good(g, n) ==
                /\ g \in Histories(X) /\ Len(g.buffer) <= size
                /\ g.browsing = FALSE /\ g.current = 0 /\ g.commands = 0
                /\ g.idOfOldest + Len(g.buffer) = n
                /\ g.idOfOldest > 0 => Len(g.buffer) = size
           S == {n \in Nat : Good(load[n], n)}
<1>1. /\ LoadCommands(size, cmds) = load[Len(cmds)]
      /\ load[0] = NewHistory
      /\ \A n \in 1..Len(cmds) : load[n] = Insert(load[n - 1], size, cmds[n])
  BY LoadedFrom
<1>2. Len(cmds) \in Nat
  OBVIOUS
<1> HIDE DEF load
<1>3. 0 \in S
  <2>1. Good(NewHistory, 0)
    BY DEF NewHistory, Histories
  <2> QED
    BY <1>1, <2>1
<1>4. ASSUME NEW n \in 1..Len(cmds), n - 1 \in S PROVE n \in S
  <2> DEFINE h == load[n - 1]
             g == load[n]
             d == Dropped(h, size)
  <2>1. Good(h, n - 1) /\ cmds[n] \in X /\ n \in Nat
    BY <1>2, <1>4
  <2>2. g = Insert(h, size, cmds[n])
    BY <1>1
  <2> HIDE DEF h, g
  <2>3. /\ g \in Histories(X)
        /\ g.current = h.current /\ g.commands = h.commands /\ g.browsing = h.browsing
        /\ Len(g.buffer) \in 1..size
        /\ Lists(g, h, d, 0, 1)
    BY <2>1, <2>2, InsertLists
  <2>4. Len(g.buffer) = 1 + (Len(h.buffer) - d - 0) /\ g.idOfOldest = h.idOfOldest + d
    BY <2>3 DEF Lists
  <2>5. Len(h.buffer) \in Nat /\ h.idOfOldest \in Nat
    BY <2>1, FieldsAreNumbers
  <2>6. g.idOfOldest + Len(g.buffer) = n
    <3>1. d \in 0..1 /\ n \in Nat /\ h.idOfOldest + Len(h.buffer) = n - 1
      BY <2>1 DEF Dropped
    <3> HIDE DEF d
    <3>2. \A x, y \in Nat : x + y = n - 1 => (x + d) + (1 + (y - d - 0)) = n
      BY <3>1
    <3>3. (h.idOfOldest + d) + (1 + (Len(h.buffer) - d - 0)) = n
      BY <2>5, <3>1, <3>2
    <3> QED
      BY <2>4, <3>3
  <2>7. g.idOfOldest > 0 => Len(g.buffer) = size
    <3>1. CASE Len(h.buffer) = size
      <4>1. Len(g.buffer) = 1 + (size - 1 - 0)
        BY <2>4, <3>1 DEF Dropped
      <4> QED
        BY <4>1
    <3>2. CASE Len(h.buffer) # size
      <4>1. g.idOfOldest = h.idOfOldest
        BY <2>4, <2>5, <3>2 DEF Dropped
      <4> QED
        BY <2>1, <3>2, <4>1
    <3> QED
      BY <3>1, <3>2
  <2>8. Good(g, n)
    BY <2>1, <2>3, <2>6, <2>7
  <2> QED
    BY <2>1, <2>8 DEF g
<1>5. Len(cmds) \in S
  <2> HIDE DEF S
  <2>1. \A n \in 0..Len(cmds) : n \in S
    BY <1>2, <1>3, <1>4, CountingUp
  <2> QED
    BY <1>2, <2>1
<1>6. Good(load[Len(cmds)], Len(cmds))
  BY <1>5
<1> QED
  BY <1>1, <1>6 DEF Sound

LEMMA ReversedSequence ==
    ASSUME NEW X, NEW s \in Seq(X)
    PROVE  /\ Reverse(s) \in Seq(X) /\ Len(Reverse(s)) = Len(s)
           /\ \A i \in 1..Len(s) : Reverse(s)[i] = s[Len(s) + 1 - i]
<1>1. Reverse(s) = [i \in 1..Len(s) |-> s[(Len(s) - i) + 1]]
  BY DEF Reverse
<1>2. \A i \in 1..Len(s) : (Len(s) - i) + 1 \in 1..Len(s) /\ (Len(s) - i) + 1 = Len(s) + 1 - i
  OBVIOUS
<1>3. \A i \in 1..Len(s) : Reverse(s)[i] = s[Len(s) + 1 - i] /\ Reverse(s)[i] \in X
  BY <1>1, <1>2
<1>4. Reverse(s) \in [1..Len(s) -> X]
  BY <1>1, <1>3
<1> QED
  BY <1>3, <1>4

LEMMA CommandsGot ==
    ASSUME NEW X, NEW size, NEW h, Sound(h, size, X)
    PROVE  LET kept == Len(h.buffer) - Draft(h)
           IN  /\ GetCommands(h) \in Seq(X)
               /\ Len(GetCommands(h)) = IF h.commands < kept THEN h.commands ELSE kept
<1> DEFINE kept == IF h.browsing THEN Tail(h.buffer) ELSE h.buffer
           n == IF h.commands < Len(kept) THEN h.commands ELSE Len(kept)
<1>1. /\ h.buffer \in Seq(X) /\ Len(h.buffer) \in Nat /\ h.commands \in Nat
      /\ h.browsing => Len(h.buffer) > 0
  BY DEF Sound, Histories
<1>2. kept \in Seq(X) /\ Len(kept) = Len(h.buffer) - Draft(h)
  BY <1>1 DEF Draft
<1>3. GetCommands(h) = Reverse(SubSeq(kept, 1, n))
  BY DEF GetCommands
<1> HIDE DEF kept
<1>4. n \in 0..Len(kept)
  BY <1>1, <1>2
<1>5. SubSeq(kept, 1, n) \in Seq(X) /\ Len(SubSeq(kept, 1, n)) = n
  BY <1>2, <1>4
<1> QED
  BY <1>2, <1>3, <1>5, ReversedSequence

LEMMA StoredCommands ==
    ASSUME NEW X, NEW stock \in Seq(X), NEW max \in Nat, NEW cmds \in Seq(X)
    PROVE  Store(stock, max, cmds) \in Seq(X)
<1> DEFINE all == stock \o cmds
<1>1. all \in Seq(X) /\ Len(all) \in Nat
  OBVIOUS
<1>2. Store(stock, max, cmds) =
        IF Len(all) > max THEN SubSeq(all, Len(all) - max + 1, Len(all)) ELSE all
  BY DEF Store
<1> HIDE DEF all
<1>3. Len(all) > max => SubSeq(all, Len(all) - max + 1, Len(all)) \in Seq(X)
  <2>1. ASSUME Len(all) > max PROVE Len(all) - max + 1 \in 1..Len(all) + 1
    BY <1>1, <2>1
  <2> QED
    BY <1>1, <2>1
<1> QED
  BY <1>1, <1>2, <1>3

-----------------------------------------------------------------------------
(* What a recall runs.                                                      *)

LEMMA RecallsAreRecalls ==
    ASSUME NEW n \in DOMAIN Number
    PROVE  IsRecall(<<"!", n>>) /\ <<"!", n>> # <<>>
BY DEF IsRecall

LEMMA FirstRecall ==
    ASSUME NEW X, NEW size \in Nat \ {0}, NEW h, Sound(h, size, X),
           NEW n \in DOMAIN Number, <<"!", n>> \in X,
           h.idOfOldest <= Number[n],
           Number[n] < h.idOfOldest + Len(h.buffer) - Draft(h)
    PROVE  LET q == Recall(Start(h, size, <<"!", n>>), size)
               entry == Entry(h, Number[n])
               pushedOut == /\ Number[n] = h.idOfOldest /\ Len(h.buffer) = size
                            /\ ~h.browsing /\ h.buffer[1] # <<"!", n>>
           IN  /\ pushedOut => q.end = "exception"
               /\ ~pushedOut /\ entry = <<>> => q.end = "nothing"
               /\ ~pushedOut /\ entry # <<>> /\ ~IsRecall(entry) => q.end = "no" /\ q.line = entry
<1> DEFINE line == <<"!", n>>
           id == Number[n]
           g == NewCommand(h, size, line)
           f == ForgetLatest(g)
           r == Start(h, size, line)
           q == Recall(r, size)
           entry == Entry(h, id)
           pushedOut == /\ id = h.idOfOldest /\ Len(h.buffer) = size
                        /\ ~h.browsing /\ h.buffer[1] # line
<1>1. r = [history |-> g, line |-> line, end |-> "no"] /\ line[2] = n
  BY DEF Start
<1>2. line \in X /\ IsRecall(line) /\ line # <<>>
  BY RecallsAreRecalls
<1>3. id \in Nat /\ h.idOfOldest <= id /\ id < h.idOfOldest + Len(h.buffer) - Draft(h)
  BY NumbersAreNatural
<1> HIDE DEF line, id
<1>4. /\ Sound(g, size, X) /\ ~g.browsing /\ Len(g.buffer) > 0
      /\ \E d \in 0..1, w \in {Draft(h), Draft(h) + 1} : Records(g, h, d, w, size, line)
  BY <1>2, NewCommandLists
<1>5. PICK d \in 0..1, w \in {Draft(h), Draft(h) + 1} :
        /\ Lists(g, h, d, w, 1)
        /\ d = 1 <=> ~h.browsing /\ Len(h.buffer) = size /\ h.buffer[1] # line
        /\ w = Draft(h) + 1 => h.buffer[w] = line
  BY <1>4 DEF Records
<1>6. /\ h \in Histories(X) /\ Len(h.buffer) \in Nat /\ h.idOfOldest \in Nat
      /\ Draft(h) \in 0..1 /\ w \in Nat /\ d \in Nat
  <2>1. h \in Histories(X)
    BY DEF Sound
  <2>2. Len(h.buffer) \in Nat /\ h.idOfOldest \in Nat /\ Draft(h) \in 0..1
    BY <2>1, FieldsAreNumbers
  <2> QED
    BY <2>1, <2>2
<1> HIDE DEF g
<1>7. /\ Sound(f, size, X)
      /\ \A c \in Nat, v \in Nat : Lists(g, h, c, v, 1) => Lists(f, h, c, v, 0)
  <2>1. size \in Nat
    OBVIOUS
  <2> QED
    BY <1>4, <1>6, <2>1, ForgetLists
<1>8. Lists(f, h, d, w, 0)
  BY <1>5, <1>6, <1>7
<1> HIDE DEF f
<1>9. /\ Len(f.buffer) = 0 + (Len(h.buffer) - d - w)
      /\ \A i \in 1..(Len(h.buffer) - d - w) : f.buffer[0 + i] = h.buffer[w + i]
      /\ f.idOfOldest = h.idOfOldest + d
  BY <1>8 DEF Lists, SameEntries
<1>10. q = CASE OutOfRange(f, id) -> [r EXCEPT !.history = f, !.end = "exception"]
             [] ~OutOfRange(f, id) /\ f.buffer = <<>> -> [r EXCEPT !.history = f, !.end = "index"]
             [] ~OutOfRange(f, id) /\ f.buffer # <<>> /\ At(f, id) = <<>> ->
                    [r EXCEPT !.history = f, !.end = "nothing"]
             [] OTHER -> [r EXCEPT !.history = NewCommand(f, size, At(f, id)), !.line = At(f, id)]
  <2> HIDE DEF r
  <2>1. r.history = g /\ Number[r.line[2]] = id
    BY <1>1 DEF id
  <2> QED
    BY <2>1 DEF Recall, f
<1> HIDE DEF r, q
<1>11. ASSUME pushedOut PROVE q.end = "exception"
  <2>1. OutOfRange(f, id)
    BY <1>3, <1>5, <1>6, <1>9, <1>11 DEF OutOfRange
  <2>2. q = [r EXCEPT !.history = f, !.end = "exception"]
    BY <1>10, <2>1
  <2> QED
    BY <1>1, <2>2
<1>12. ASSUME ~pushedOut, entry = <<>> \/ ~IsRecall(entry)
       PROVE  ~OutOfRange(f, id) /\ f.buffer # <<>> /\ At(f, id) = entry
  <2>1. f.idOfOldest <= id
    BY <1>3, <1>5, <1>6, <1>9, <1>12
  <2>2. entry # line
    BY <1>2, <1>12
  <2>3. entry = h.buffer[h.idOfOldest + Len(h.buffer) - id]
    BY DEF Entry
  <2> HIDE DEF entry
  <2>4. id < h.idOfOldest + Len(h.buffer) - w
    <3>1. CASE w = Draft(h)
      BY <1>3, <3>1
    <3>2. CASE w = Draft(h) + 1
      <4>1. h.buffer[w] = line
        BY <1>5, <3>2
      <4>2. h.idOfOldest + Len(h.buffer) - id # w
        BY <2>2, <2>3, <4>1
      <4>3. \A x, y \in Nat :
              id < x + y - Draft(h) /\ x + y - id # Draft(h) + 1 => id < x + y - (Draft(h) + 1)
        BY <1>3, <1>6
      <4> QED
        BY <1>3, <1>6, <3>2, <4>2, <4>3
    <3> QED
      BY <3>1, <3>2
  <2> DEFINE j == h.idOfOldest + Len(h.buffer) - w - id
  <2>5. j \in 1..(Len(h.buffer) - d - w) /\ w + j = h.idOfOldest + Len(h.buffer) - id /\ 0 + j = j
    <3>1. h.idOfOldest + d <= id
      BY <1>9, <2>1
    <3>2. /\ h.idOfOldest \in Nat /\ Len(h.buffer) \in Nat /\ d \in Nat /\ w \in Nat /\ id \in Nat
          /\ id < h.idOfOldest + Len(h.buffer) - w
      BY <1>3, <1>6, <2>4
    <3>3. \A x, y \in Nat : x + d <= id /\ id < x + y - w =>
            /\ x + y - w - id \in 1..(y - d - w) /\ w + (x + y - w - id) = x + y - id
            /\ 0 + (x + y - w - id) = x + y - w - id
      BY <3>2
    <3> QED
      BY <3>1, <3>2, <3>3
  <2>6. f.buffer[j] = entry
    BY <1>9, <2>3, <2>5
  <2>7. f.idOfOldest + Len(f.buffer) - 1 - id + 1 = j
    <3>1. \A x, y \in Nat : (x + d) + (0 + (y - d - w)) - 1 - id + 1 = x + y - w - id
      BY <1>3, <1>6
    <3>2. (h.idOfOldest + d) + (0 + (Len(h.buffer) - d - w)) - 1 - id + 1 = j
      BY <1>6, <3>1
    <3>3. f.idOfOldest = h.idOfOldest + d /\ Len(f.buffer) = 0 + (Len(h.buffer) - d - w)
      BY <1>9
    <3> HIDE DEF j
    <3> QED
      BY <3>2, <3>3
  <2>8. Len(f.buffer) >= 1 /\ f.idOfOldest \in Nat /\ Len(f.buffer) \in Nat
    <3>1. \A y \in Nat : j \in 1..(y - d - w) => y - d - w \in Nat /\ 0 + (y - d - w) >= 1
      <4> HIDE DEF j
      <4> QED
        BY <1>6
    <3>2. \A x \in Nat : x + d \in Nat
      BY <1>6
    <3>3. 0 + (Len(h.buffer) - d - w) = Len(h.buffer) - d - w
      BY <1>6
    <3> QED
      BY <1>6, <1>9, <2>5, <3>1, <3>2, <3>3
  <2>9. At(f, id) = entry
    BY <2>6, <2>7 DEF At, IdToIndex
  <2>10. ~OutOfRange(f, id)
    BY <1>3, <2>1, <2>5, <2>7, <2>8 DEF OutOfRange
  <2>11. f.buffer # <<>>
    BY <2>8
  <2> QED
    BY <2>9, <2>10, <2>11
<1>13. ASSUME ~pushedOut, entry = <<>> PROVE q.end = "nothing"
  <2>1. q = [r EXCEPT !.history = f, !.end = "nothing"]
    BY <1>10, <1>12, <1>13
  <2> QED
    BY <1>1, <2>1
<1>14. ASSUME ~pushedOut, entry # <<>>, ~IsRecall(entry) PROVE q.end = "no" /\ q.line = entry
  <2>1. q = [r EXCEPT !.history = NewCommand(f, size, entry), !.line = entry]
    BY <1>10, <1>12, <1>14
  <2> QED
    BY <1>1, <2>1
<1> QED
  BY <1>11, <1>13, <1>14 DEF q, r, line, id

\* A line that is no recall, and one that came to an end, stays what it is.
LEMMA FirstRecallDecides ==
    ASSUME NEW h, NEW size, NEW line, IsRecall(line)
    PROVE  LET q == Recall(Start(h, size, line), size)
           IN  q.end # "no" \/ ~IsRecall(q.line) => Feed(h, size, line) = q
<1> DEFINE fed == FedBy(h, size, line)
           r == Start(h, size, line)
           q == Recall(r, size)
           S == {n \in Nat : n = 0 \/ fed[n] = q}
<1>1. /\ Feed(h, size, line) = fed[MaxRecalls]
      /\ fed[0] = r
      /\ \A n \in 1..MaxRecalls : fed[n] = Follow(fed[n - 1], size)
  BY FedFrom
<1>2. MaxRecalls \in Nat \ {0}
  BY ShellAssumption DEF ShellAssumption
<1>3. r.end = "no" /\ r.line = line
  BY DEF Start
<1> HIDE DEF fed, r
<1> SUFFICES ASSUME q.end # "no" \/ ~IsRecall(q.line) PROVE fed[MaxRecalls] = q
  BY <1>1 DEF r
<1>4. Follow(r, size) = q
  BY <1>3 DEF Follow
<1>5. Follow(q, size) = q
  BY DEF Follow
<1> HIDE DEF q
<1>6. 0 \in S
  OBVIOUS
<1>7. ASSUME NEW n \in 1..MaxRecalls, n - 1 \in S PROVE n \in S
  <2>1. fed[n] = Follow(fed[n - 1], size) /\ n \in Nat
    BY <1>1, <1>2
  <2>2. fed[n] = q
    <3>1. CASE n = 1
      BY <1>1, <1>4, <2>1, <3>1
    <3>2. CASE n # 1
      BY <1>5, <1>7, <2>1, <3>2
    <3> QED
      BY <3>1, <3>2
  <2> QED
    BY <2>1, <2>2
<1> HIDE DEF S
<1>8. MaxRecalls \in S
  <2>1. \A n \in 0..MaxRecalls : n \in S
    BY <1>2, <1>6, <1>7, CountingUp
  <2> QED
    BY <1>2, <2>1
<1> QED
  BY <1>2, <1>8 DEF S

-----------------------------------------------------------------------------
(* The steps of HistorySpec.                                                *)

Added(g, k) == IF k = 0 THEN <<>> ELSE <<g.buffer[1]>>

\* Oldest first, what Lists says of the entries of g and h.
Recorded(X, g, h, d, w, k) ==
    /\ Added(g, k) \in {<<>>} \cup {<<l>> : l \in X}
    /\ Reverse(g.buffer) =
            SubSeq(Reverse(h.buffer), d + 1, Len(Reverse(h.buffer)) - w) \o Added(g, k)

LEMMA ReversedLists ==
    ASSUME NEW X, NEW h \in Histories(X), NEW g \in Histories(X),
           NEW d \in 0..1, NEW w \in Nat, NEW k \in 0..1, Lists(g, h, d, w, k)
    PROVE  Recorded(X, g, h, d, w, k)
<1> DEFINE b == h.buffer
           c == g.buffer
           e == Reverse(b)
           q == Reverse(c)
           m == Len(b) - d - w
           part == SubSeq(e, d + 1, Len(e) - w)
           added == Added(g, k)
<1>1. b \in Seq(X) /\ c \in Seq(X) /\ Len(b) \in Nat /\ Len(c) \in Nat
  BY DEF Histories
<1>2. /\ d + w <= Len(b)
      /\ Len(c) = k + m
      /\ \A i \in 1..m : c[k + i] = b[w + i]
  BY DEF Lists, SameEntries
<1>3. /\ e \in Seq(X) /\ Len(e) = Len(b)
      /\ \A i \in 1..Len(b) : e[i] = b[Len(b) + 1 - i]
  BY <1>1, ReversedSequence
<1>4. /\ q \in Seq(X) /\ Len(q) = Len(c)
      /\ \A i \in 1..Len(c) : q[i] = c[Len(c) + 1 - i]
  BY <1>1, ReversedSequence
<1>5. m \in Nat /\ d \in Nat
  BY <1>1, <1>2
<1>6. k = 1 => c[1] \in X
  BY <1>1, <1>2, <1>5
<1> HIDE DEF b, c, e, q
<1>7. part \in Seq(X) /\ Len(part) = m /\ \A i \in 1..m : part[i] = e[d + i]
  <2>1. d + 1 \in 1..Len(e) + 1 /\ Len(e) - w \in 0..Len(e)
    BY <1>1, <1>2, <1>3, <1>5
  <2> QED
    <3>1. (Len(e) - w) - (d + 1) + 1 = m
      BY <1>1, <1>3
    <3>2. part \in Seq(X) /\ Len(part) = m
      BY <1>3, <1>5, <2>1, <3>1
    <3>3. ASSUME NEW i \in 1..m PROVE part[i] = e[d + i]
      <4>1. i \in 1..((Len(e) - w) - (d + 1) + 1) /\ (d + 1) + i - 1 = d + i
        BY <1>5, <3>1
      <4> HIDE DEF m
      <4> QED
        BY <1>3, <2>1, <4>1
    <3> QED
      BY <3>2, <3>3
<1> HIDE DEF part
<1>8. added \in Seq(X) /\ Len(added) = k /\ (k = 1 => added[1] = c[1])
  BY <1>6 DEF Added, c
<1> HIDE DEF added
<1>9. /\ part \o added \in Seq(X) /\ Len(part \o added) = m + k
      /\ \A i \in 1..m : (part \o added)[i] = part[i]
      /\ k = 1 => (part \o added)[m + 1] = added[1]
  <2> HIDE DEF m
  <2> QED
    BY <1>5, <1>7, <1>8
<1>10. ASSUME NEW i \in 1..m PROVE q[i] = (part \o added)[i]
  <2> DEFINE j == m + 1 - i
  <2>1. /\ i \in Int /\ j \in 1..m /\ i \in 1..Len(c) /\ Len(c) + 1 - i = k + j
        /\ d + i \in 1..Len(b) /\ Len(b) + 1 - (d + i) = w + j
    BY <1>1, <1>2, <1>5
  <2> HIDE DEF j
  <2>2. q[i] = b[w + j]
    BY <1>2, <1>4, <2>1
  <2>3. part[i] = b[w + j]
    BY <1>3, <1>7, <2>1
  <2> QED
    BY <1>9, <2>2, <2>3
<1>11. ASSUME k = 1 PROVE q[m + 1] = (part \o added)[m + 1]
  <2>1. m + 1 \in 1..Len(c) /\ Len(c) + 1 - (m + 1) = 1
    BY <1>2, <1>5, <1>11
  <2> QED
    BY <1>4, <1>8, <1>9, <1>11, <2>1
<1>12. \A i \in 1..m + k : q[i] = (part \o added)[i]
  <2> HIDE DEF m
  <2>1. ASSUME NEW i \in 1..m + k PROVE i \in 1..m \/ (k = 1 /\ i = m + 1)
    BY <1>5
  <2> QED
    BY <1>10, <1>11, <2>1
<1>13. q = part \o added
  <2>1. Len(q) = m + k /\ m + k \in Nat
    BY <1>2, <1>4, <1>5
  <2> HIDE DEF m
  <2> DEFINE n == m + k
             z == part \o added
  <2>2. /\ q \in Seq(X) /\ z \in Seq(X) /\ Len(q) = n /\ Len(z) = n
        /\ \A i \in 1..n : q[i] = z[i]
    BY <1>4, <1>9, <1>12, <2>1
  <2> HIDE DEF n, z
  <2>3. q = z
    BY <2>2
  <2> QED
    BY <2>3 DEF z
<1>14. Added(g, k) \in {<<>>} \cup {<<l>> : l \in X}
  BY <1>6 DEF Added, c
<1> QED
  BY <1>13, <1>14 DEF b, c, e, q, part, added, Recorded

LEMMA RecordStep ==
    ASSUME NEW s \in Session,
           history[s] \in Histories(Line), history'[s] \in Histories(Line),
           NEW d \in 0..1, NEW w \in Nat, NEW k \in 0..1,
           Lists(history'[s], history[s], d, w, k),
           d = 1 => Len(history[s].buffer) = HistorySize[s],
           Len(history'[s].buffer) <= HistorySize[s]
    PROVE  Listed(s)!Next
<1> DEFINE h == history[s]
           g == history'[s]
           added == Added(g, k)
           e == Reverse(h.buffer)
<1>1. /\ added \in {<<>>} \cup {<<l>> : l \in Line}
      /\ Reverse(g.buffer) = SubSeq(e, d + 1, Len(e) - w) \o added
  <2>1. h \in Histories(Line) /\ g \in Histories(Line) /\ Lists(g, h, d, w, k)
    OBVIOUS
  <2> HIDE DEF h, g, added, e
  <2>2. Recorded(Line, g, h, d, w, k)
    BY <2>1, ReversedLists
  <2> QED
    BY <2>2 DEF Recorded, added, e
<1>2. h.buffer \in Seq(Line) /\ g.buffer \in Seq(Line) /\ g.browsing \in BOOLEAN
      /\ g.idOfOldest \in Nat
  BY DEF Histories
<1>3. Len(e) = Len(h.buffer) /\ Len(Reverse(g.buffer)) = Len(g.buffer)
  BY <1>2, ReversedSequence
<1>4. d + w <= Len(h.buffer) /\ g.idOfOldest = h.idOfOldest + d
  BY DEF Lists
<1>5. Listed(s)!Record(d, w, added)
  <2>1. d > 0 => Len(e) = HistorySize[s]
    BY <1>3
  <2> HIDE DEF e, added
  <2> QED
    BY <1>1, <1>2, <1>3, <1>4, <2>1 DEF Listed!Record, e
<1>7. w \in 0..Len(e)
  BY <1>2, <1>3, <1>4
<1> HIDE DEF added
<1> QED
  BY <1>1, <1>5, <1>7 DEF Listed!Next

LEMMA AmendStep ==
    ASSUME NEW s \in Session,
           history[s] \in Histories(Line), NEW i \in 1..Len(history[s].buffer), NEW line \in Line,
           history[s].browsing, history'[s].browsing,
           history'[s].buffer = [history[s].buffer EXCEPT ![i] = line],
           history'[s].idOfOldest = history[s].idOfOldest
    PROVE  Listed(s)!Next
<1> DEFINE b == history[s].buffer
           c == history'[s].buffer
           j == Len(b) + 1 - i
<1>1. /\ b \in Seq(Line) /\ Len(b) \in Nat
      /\ c \in Seq(Line) /\ Len(c) = Len(b) /\ c = [b EXCEPT ![i] = line]
  BY DEF Histories
<1>2. /\ Reverse(b) \in Seq(Line) /\ Len(Reverse(b)) = Len(b)
      /\ \A n \in 1..Len(b) : Reverse(b)[n] = b[Len(b) + 1 - n]
      /\ Reverse(c) \in Seq(Line) /\ Len(Reverse(c)) = Len(b)
      /\ \A n \in 1..Len(b) : Reverse(c)[n] = c[Len(b) + 1 - n]
  <2> HIDE DEF b, c
  <2>1. \A x \in Seq(Line) :
          /\ Reverse(x) \in Seq(Line) /\ Len(Reverse(x)) = Len(x)
          /\ \A n \in 1..Len(x) : Reverse(x)[n] = x[Len(x) + 1 - n]
    BY ReversedSequence
  <2> QED
    BY <1>1, <2>1
<1>3. j \in 1..Len(b)
  BY <1>1
<1> HIDE DEF c
<1>4. Reverse(c) = [Reverse(b) EXCEPT ![j] = line]
  <2>1. ASSUME NEW n \in 1..Len(b) PROVE Reverse(c)[n] = [Reverse(b) EXCEPT ![j] = line][n]
    <3>1. Len(b) + 1 - n \in 1..Len(b) /\ (n = j <=> Len(b) + 1 - n = i)
      <4> HIDE DEF b
      <4> QED
        BY <1>1
    <3>2. c[Len(b) + 1 - n] = IF n = j THEN line ELSE b[Len(b) + 1 - n]
      BY <1>1, <3>1
    <3>3. Reverse(c)[n] = IF n = j THEN line ELSE Reverse(b)[n]
      BY <1>2, <3>2
    <3>4. n \in DOMAIN Reverse(b)
      BY <1>2
    <3> HIDE DEF b, c, j
    <3> QED
      BY <3>3, <3>4
  <2> HIDE DEF b, j
  <2>2. Reverse(c) \in [1..Len(b) -> Line] /\ Reverse(b) \in [1..Len(b) -> Line]
    BY <1>2
  <2> HIDE <1>1, <1>2
  <2> QED
    BY <2>1, <2>2
<1>5. Listed(s)!Amend(j, line)
  BY <1>4 DEF Listed!Amend, c
<1>6. j \in DOMAIN Reverse(b)
  BY <1>2, <1>3
<1> HIDE DEF j
<1> QED
  BY <1>5, <1>6 DEF Listed!Next

LEMMA LoadStep ==
    ASSUME NEW s \in Session, history[s] = NewHistory,
           history'[s] \in Histories(Line), Len(history'[s].buffer) <= HistorySize[s],
           ~history'[s].browsing,
           history'[s].idOfOldest > 0 => Len(history'[s].buffer) = HistorySize[s]
    PROVE  Listed(s)!Next
<1> DEFINE c == history'[s].buffer
<1>1. /\ <<>> \in Seq(Line) /\ Len(<<>>) = 0
      /\ history[s].buffer = <<>> /\ history[s].idOfOldest = 0 /\ history[s].browsing = FALSE
  BY DEF NewHistory
<1>2. Reverse(history[s].buffer) = <<>>
  <2>1. Reverse(<<>>) \in Seq(Line) /\ Len(Reverse(<<>>)) = 0
    BY <1>1, ReversedSequence
  <2> QED
    BY <1>1, <2>1
<1>3. /\ c \in Seq(Line) /\ history'[s].idOfOldest \in Nat /\ history'[s].browsing = FALSE
  BY DEF Histories
<1>4. Reverse(c) \in Seq(Line) /\ Len(Reverse(c)) = Len(c)
  BY <1>3, ReversedSequence
<1>5. Listed(s)!Load
  BY <1>1, <1>2, <1>3, <1>4 DEF Listed!Load
<1> QED
  BY <1>5 DEF Listed!Next

-----------------------------------------------------------------------------
(* The invariant.                                                           *)

TInv ==
    /\ open \in [Session -> {"no", "open", "left"}]
    /\ history \in [Session -> Histories(Line)]
    /\ edit \in [Session -> Line]
    /\ DOMAIN said = Session
    /\ loaded \in [Session -> Nat]
    /\ stored \in Seq(Line)

\* No session has recorded more lines than it counted commands.
HistoryInv(s) ==
    /\ Sound(history[s], HistorySize[s], Line)
    /\ NextId(history[s]) <= loaded[s] + history[s].commands
    /\ open[s] = "no" => history[s] = NewHistory

IInv == TInv /\ \A s \in Session : HistoryInv(s)

\* The histories take steps of HistorySpec.
ListsStep == \A s \in Session : [Listed(s)!Next]_(Listed(s)!specVars)

LEMMA SizesArePositive == \A s \in Session : HistorySize[s] \in Nat \ {0}
BY ShellAssumption DEF ShellAssumption

LEMMA InitInv == Init => IInv
<1> SUFFICES ASSUME Init PROVE IInv
  OBVIOUS
<1>1. NewHistory \in Histories(Line) /\ NextId(NewHistory) = 0 /\ NewHistory.commands = 0
  BY DEF NewHistory, Histories, NextId, Draft
<1>2. TInv
  BY <1>1 DEF Init, TInv, Line
<1>3. ASSUME NEW s \in Session PROVE HistoryInv(s)
  <2>1. history[s] = NewHistory /\ loaded[s] = 0
    BY DEF Init
  <2>2. Sound(NewHistory, HistorySize[s], Line)
    BY <1>1, SizesArePositive DEF Sound, NewHistory
  <2> QED
    BY <1>1, <2>1, <2>2 DEF HistoryInv
<1> QED
  BY <1>2, <1>3 DEF IInv

\* A key of one session: what its history must keep for the invariant.
LEMMA OneHistoryChanges ==
    ASSUME IInv, NEW s \in Session, NEW g, Sound(g, HistorySize[s], Line),
           NextId(g) + history[s].commands <= NextId(history[s]) + g.commands,
           history' = [history EXCEPT ![s] = g],
           loaded' = loaded, open[s] = "open",
           open' = open \/ open' = [open EXCEPT ![s] = "left"]
    PROVE  /\ open' \in [Session -> {"no", "open", "left"}]
           /\ history' \in [Session -> Histories(Line)]
           /\ loaded' \in [Session -> Nat]
           /\ \A t \in Session : HistoryInv(t)'
<1>1. /\ open \in [Session -> {"no", "open", "left"}]
      /\ history \in [Session -> Histories(Line)]
      /\ loaded \in [Session -> Nat]
  BY DEF IInv, TInv
<1>2. g \in Histories(Line)
  BY DEF Sound
<1>3. open' \in [Session -> {"no", "open", "left"}] /\ \A t \in Session : open'[t] = "no" => open[t] = "no"
  BY <1>1
<1>4. history' \in [Session -> Histories(Line)]
  BY <1>1, <1>2
<1>5. ASSUME NEW t \in Session PROVE HistoryInv(t)'
  <2>1. HistoryInv(t) /\ HistoryInv(s)
    BY DEF IInv
  <2>2. CASE t = s
    <3>1. history'[t] = g /\ open'[t] # "no"
      BY <1>1, <2>2
    <3>2. NextId(g) <= loaded[s] + g.commands
      <4>1. /\ NextId(g) \in Int /\ g.commands \in Nat
            /\ NextId(history[s]) \in Int /\ history[s].commands \in Nat
        BY <1>1, <1>2, FieldsAreNumbers
      <4>2. NextId(history[s]) <= loaded[s] + history[s].commands /\ loaded[s] \in Nat
        BY <1>1, <2>1 DEF HistoryInv
      <4> QED
        BY <4>1, <4>2
    <3>3. Sound(history'[t], HistorySize[t], Line) /\ NextId(history'[t]) <= loaded'[t] + history'[t].commands
      BY <2>2, <3>1, <3>2
    <3> QED
      BY <3>1, <3>3 DEF HistoryInv, NextId, Draft, Sound, Histories, Line
  <2>3. CASE t # s
    <3>1. history'[t] = history[t] /\ loaded'[t] = loaded[t] /\ open'[t] = "no" => open[t] = "no"
      BY <1>1, <1>3, <2>3
    <3> QED
      BY <1>1, <1>3, <2>1, <2>3, <3>1 DEF HistoryInv, NextId, Draft, Sound, Histories, Line
  <2> QED
    BY <2>2, <2>3
<1> QED
  BY <1>1, <1>3, <1>4, <1>5

LEMMA OneHistorySteps ==
    ASSUME TInv, NEW s \in Session, NEW g, history' = [history EXCEPT ![s] = g],
           \/ Listed(s)!Next
           \/ /\ g.buffer = history[s].buffer /\ g.idOfOldest = history[s].idOfOldest
              /\ g.browsing = history[s].browsing
    PROVE  ListsStep
<1> SUFFICES ASSUME NEW t \in Session PROVE [Listed(t)!Next]_(Listed(t)!specVars)
  BY DEF ListsStep
<1>1. history'[s] = g /\ (t # s => history'[t] = history[t])
  BY DEF TInv
<1>2. CASE t # s
  BY <1>1, <1>2 DEF Listed!specVars
<1>3. CASE t = s /\ Listed(s)!Next
  BY <1>3
<1>4. CASE t = s /\ ~Listed(s)!Next
  BY <1>1, <1>4 DEF Listed!specVars
<1> QED
  BY <1>2, <1>3, <1>4

LEMMA NoHistorySteps ==
    ASSUME UNCHANGED history
    PROVE  ListsStep
BY DEF ListsStep, Listed!specVars

-----------------------------------------------------------------------------
(* One lemma for each action.                                               *)

LEMMA ExitStores ==
    ASSUME IInv, NEW s \in Session, NEW h, Sound(h, HistorySize[s], Line), Exit(s, h)
    PROVE  stored' \in Seq(Line) /\ open' = [open EXCEPT ![s] = "left"]
<1>1. stored \in Seq(Line) /\ StorageSize \in Nat
  BY ShellAssumption DEF IInv, TInv, ShellAssumption
<1>2. GetCommands(h) \in Seq(Line)
  BY CommandsGot
<1>3. Store(stored, StorageSize, GetCommands(h)) \in Seq(Line)
  BY <1>1, <1>2, StoredCommands
<1> QED
  BY <1>3 DEF Exit

LEMMA EnterStep ==
    ASSUME IInv, NEW s \in Session, open[s] = "open", NEW line \in Lines \cup {edit[s]},
           Enter(s, line)
    PROVE  IInv' /\ ListsStep
<1> DEFINE h == history[s]
           size == HistorySize[s]
           r == Feed(h, size, line)
           g == r.history
<1>1. line \in Line
  BY DEF IInv, TInv, Line
<1>2. Sound(h, size, Line) /\ h \in Histories(Line) /\ size \in Nat \ {0}
  BY SizesArePositive DEF IInv, TInv, HistoryInv
<1>3. Runs(r, h, size, Line)
  BY <1>1, <1>2, FeedRuns
<1>4. /\ Sound(g, size, Line) /\ g \in Histories(Line) /\ Len(g.buffer) <= size
      /\ NextId(g) + h.commands <= NextId(h) + g.commands
  BY <1>3 DEF Runs, Sound
<1>5. PICK d \in 0..1, w \in Nat, k \in 0..1 :
        Lists(g, h, d, w, k) /\ (d = 1 => Len(h.buffer) = size)
  BY <1>3 DEF Runs
<1>6. /\ history' = [history EXCEPT ![s] = g]
      /\ edit' = [edit EXCEPT ![s] = <<>>]
      /\ loaded' = loaded
  BY DEF Enter
<1>7. DOMAIN said' = Session
  <2>1. \E a : Answer(s, a)
    <3>1. CASE r.end = "no" /\ ~IsRecall(r.line)
      BY <3>1 DEF Enter, Execute
    <3>2. CASE ~(r.end = "no" /\ ~IsRecall(r.line))
      BY <3>2 DEF Enter
    <3> QED
      BY <3>1, <3>2
  <2> QED
    BY <2>1 DEF Answer, IInv, TInv
<1> HIDE DEF r
<1>8. \/ UNCHANGED <<open, stored>>
      \/ Exit(s, g)
  <2>1. CASE r.end = "no" /\ ~IsRecall(r.line)
    BY <2>1 DEF Enter, Execute, r
  <2>2. CASE ~(r.end = "no" /\ ~IsRecall(r.line))
    BY <2>2 DEF Enter, r
  <2> QED
    BY <2>1, <2>2
<1>9. stored' \in Seq(Line) /\ (open' = open \/ open' = [open EXCEPT ![s] = "left"])
  <2>1. CASE UNCHANGED <<open, stored>>
    BY <2>1 DEF IInv, TInv
  <2>2. CASE Exit(s, g)
    BY <1>4, <2>2, ExitStores
  <2> QED
    BY <1>8, <2>1, <2>2
<1>10. edit' \in [Session -> Line]
  BY <1>6 DEF IInv, TInv, Line
<1> HIDE DEF g, h, size
<1>11. /\ open' \in [Session -> {"no", "open", "left"}]
       /\ history' \in [Session -> Histories(Line)]
       /\ loaded' \in [Session -> Nat]
       /\ \A t \in Session : HistoryInv(t)'
  BY <1>4, <1>6, <1>9, OneHistoryChanges DEF h, size
<1>12. IInv'
  BY <1>7, <1>9, <1>10, <1>11 DEF IInv, TInv, Line, Histories
<1>13. Listed(s)!Next
  <2>1. history'[s] = g
    BY <1>6 DEF IInv, TInv
  <2> QED
    BY <1>2, <1>4, <1>5, <2>1, RecordStep DEF h, size
<1>14. ListsStep
  BY <1>6, <1>13, OneHistorySteps DEF IInv
<1> QED
  BY <1>12, <1>14

\* Keys that leave the histories as they are.
LEMMA HistoriesStay ==
    ASSUME IInv, NEW s \in Session, open[s] = "open",
           UNCHANGED <<history, loaded>>,
           open' = open \/ open' = [open EXCEPT ![s] = "left"],
           stored' \in Seq(Line), edit' \in [Session -> Line], DOMAIN said' = Session
    PROVE  IInv' /\ ListsStep
<1>1. history' = [history EXCEPT ![s] = history[s]]
  BY DEF IInv, TInv
<1>2. /\ Sound(history[s], HistorySize[s], Line)
      /\ history[s] \in Histories(Line)
  BY DEF IInv, TInv, HistoryInv
<1>3. NextId(history[s]) + history[s].commands <= NextId(history[s]) + history[s].commands
  <2>1. NextId(history[s]) \in Int /\ history[s].commands \in Nat
    BY <1>2, FieldsAreNumbers
  <2> QED
    BY <2>1
<1>4. /\ open' \in [Session -> {"no", "open", "left"}]
      /\ history' \in [Session -> Histories(Line)]
      /\ loaded' \in [Session -> Nat]
      /\ \A t \in Session : HistoryInv(t)'
  BY <1>1, <1>2, <1>3, OneHistoryChanges
<1>5. IInv'
  BY <1>4 DEF IInv, TInv, Line, Histories
<1> QED
  BY <1>5, NoHistorySteps

LEMMA EnterNothingStep ==
    ASSUME IInv, NEW s \in Session, open[s] = "open", EnterNothing(s)
    PROVE  IInv' /\ ListsStep
<1>1. /\ UNCHANGED <<history, loaded>> /\ open' = open /\ stored' \in Seq(Line)
      /\ edit' \in [Session -> Line] /\ DOMAIN said' = Session
  BY DEF EnterNothing, Answer, IInv, TInv, Line
<1> QED
  BY <1>1, HistoriesStay

LEMMA EofStep ==
    ASSUME IInv, NEW s \in Session, open[s] = "open", Eof(s)
    PROVE  IInv' /\ ListsStep
<1>1. Sound(history[s], HistorySize[s], Line)
  BY DEF IInv, HistoryInv
<1>2. stored' \in Seq(Line) /\ open' = [open EXCEPT ![s] = "left"]
  BY <1>1, ExitStores DEF Eof
<1>3. UNCHANGED <<history, loaded>> /\ edit' \in [Session -> Line] /\ DOMAIN said' = Session
  BY DEF Eof, Answer, IInv, TInv
<1> QED
  BY <1>2, <1>3, HistoriesStay

LEMMA UpStep ==
    ASSUME IInv, NEW s \in Session, open[s] = "open", NEW line \in Drafts \cup {edit[s]},
           Up(s, line)
    PROVE  IInv' /\ ListsStep
<1> DEFINE h == history[s]
           size == HistorySize[s]
           g == Previous(h, size, line)
           d == Dropped(h, size)
<1>1. line \in Line
  BY ShellAssumption DEF IInv, TInv, Line, ShellAssumption
<1>2. Sound(h, size, Line) /\ h \in Histories(Line) /\ size \in Nat \ {0}
  BY SizesArePositive DEF IInv, TInv, HistoryInv
<1>3. /\ Sound(g, size, Line) /\ g.browsing
      /\ g.commands = h.commands /\ NextId(g) = NextId(h)
      /\ Shown(g) \in Line
      /\ Leaves(g, h, size, line)
  BY <1>1, <1>2, PreviousLists
<1>4. /\ history' = [history EXCEPT ![s] = g]
      /\ edit' = [edit EXCEPT ![s] = Shown(g)]
      /\ loaded' = loaded /\ open' = open /\ stored' = stored
      /\ Answer(s, Nothing)
  BY DEF Up
<1> HIDE DEF g, h, size, d
<1>5. NextId(g) + h.commands <= NextId(h) + g.commands
  <2>1. NextId(h) \in Int /\ h.commands \in Nat
    BY <1>2, FieldsAreNumbers
  <2> QED
    BY <1>3, <2>1
<1>6. /\ open' \in [Session -> {"no", "open", "left"}]
      /\ history' \in [Session -> Histories(Line)]
      /\ loaded' \in [Session -> Nat]
      /\ \A t \in Session : HistoryInv(t)'
  BY <1>3, <1>4, <1>5, OneHistoryChanges DEF h, size
<1>7. IInv'
  <2>1. edit' \in [Session -> Line] /\ DOMAIN said' = Session /\ stored' \in Seq(Line)
    BY <1>3, <1>4 DEF Answer, IInv, TInv
  <2> QED
    BY <1>6, <2>1 DEF IInv, TInv, Line, Histories
<1>8. history'[s] = g
  BY <1>4 DEF IInv, TInv
<1>9. g \in Histories(Line) /\ Len(g.buffer) <= size
  BY <1>3 DEF Sound
<1>10. Listed(s)!Next
  <2>1. CASE h.browsing
    <3>1. h.current + 1 \in 1..Len(h.buffer)
      BY <1>2, <2>1 DEF Sound, Histories
    <3> QED
      BY <1>1, <1>2, <1>3, <1>8, <2>1, <3>1, AmendStep DEF h, Leaves
  <2>2. CASE ~h.browsing
    <3>1. d \in 0..1 /\ 0 \in Nat /\ 1 \in 0..1 /\ (d = 1 => Len(h.buffer) = size)
      BY DEF d, Dropped
    <3> QED
      BY <1>2, <1>3, <1>8, <1>9, <2>2, <3>1, RecordStep DEF h, size, d, Leaves
  <2> QED
    BY <2>1, <2>2
<1>11. ListsStep
  BY <1>4, <1>10, OneHistorySteps DEF IInv
<1> QED
  BY <1>7, <1>11

LEMMA DownStep ==
    ASSUME IInv, NEW s \in Session, open[s] = "open", Down(s)
    PROVE  IInv' /\ ListsStep
<1> DEFINE h == history[s]
           g == NextEntry(h)
<1>1. Sound(h, HistorySize[s], Line) /\ h \in Histories(Line)
  BY DEF IInv, TInv, HistoryInv
<1>2. CASE NothingNewer(h)
  <2>1. /\ UNCHANGED <<history, loaded>> /\ open' = open /\ stored' \in Seq(Line)
        /\ edit' \in [Session -> Line] /\ DOMAIN said' = Session
    BY <1>2 DEF Down, Answer, IInv, TInv, Line
  <2> QED
    BY <2>1, HistoriesStay
<1>3. CASE ~NothingNewer(h)
  <2>1. /\ Sound(g, HistorySize[s], Line)
        /\ g.buffer = h.buffer /\ g.browsing = h.browsing
        /\ g.commands = h.commands /\ g.idOfOldest = h.idOfOldest
        /\ Shown(g) \in Line
    BY <1>1, <1>3, NextEntryKeeps
  <2>2. /\ history' = [history EXCEPT ![s] = g]
        /\ edit' = [edit EXCEPT ![s] = Shown(g)]
        /\ loaded' = loaded /\ open' = open /\ stored' = stored
        /\ Answer(s, Nothing)
    BY <1>3 DEF Down
  <2> HIDE DEF g, h
  <2>3. NextId(g) + h.commands <= NextId(h) + g.commands
    <3>1. NextId(h) \in Int /\ h.commands \in Nat
      BY <1>1, FieldsAreNumbers
    <3>2. NextId(g) = NextId(h)
      BY <2>1 DEF NextId, Draft
    <3> QED
      BY <2>1, <3>1, <3>2
  <2>4. /\ open' \in [Session -> {"no", "open", "left"}]
        /\ history' \in [Session -> Histories(Line)]
        /\ loaded' \in [Session -> Nat]
        /\ \A t \in Session : HistoryInv(t)'
    BY <2>1, <2>2, <2>3, OneHistoryChanges DEF h
  <2>5. IInv'
    <3>1. edit' \in [Session -> Line] /\ DOMAIN said' = Session /\ stored' \in Seq(Line)
      BY <2>1, <2>2 DEF Answer, IInv, TInv
    <3> QED
      BY <2>4, <3>1 DEF IInv, TInv, Line, Histories
  <2>6. ListsStep
    BY <2>1, <2>2, OneHistorySteps DEF IInv, h
  <2> QED
    BY <2>5, <2>6
<1> QED
  BY <1>2, <1>3

LEMMA OpenStep ==
    ASSUME IInv, NEW s \in Session, Open(s)
    PROVE  IInv' /\ ListsStep
<1> DEFINE size == HistorySize[s]
           g == LoadCommands(size, stored)
<1>1. /\ stored \in Seq(Line) /\ size \in Nat \ {0} /\ history[s] = NewHistory
      /\ history \in [Session -> Histories(Line)] /\ open \in [Session -> {"no", "open", "left"}]
      /\ loaded \in [Session -> Nat]
  BY SizesArePositive DEF IInv, TInv, HistoryInv, Open
<1>2. /\ Sound(g, size, Line) /\ ~g.browsing
      /\ g.commands = 0
      /\ g.idOfOldest + Len(g.buffer) = Len(stored)
      /\ g.idOfOldest > 0 => Len(g.buffer) = size
  BY <1>1, LoadedHistory
<1>3. /\ history' = [history EXCEPT ![s] = g]
      /\ open' = [open EXCEPT ![s] = "open"]
      /\ loaded' = [loaded EXCEPT ![s] = Len(stored)]
      /\ UNCHANGED <<edit, said, stored>>
  BY DEF Open
<1> HIDE DEF g
<1>4. g \in Histories(Line) /\ Len(g.buffer) <= size
  BY <1>2 DEF Sound
<1>5. TInv'
  <2>1. edit' \in [Session -> Line] /\ DOMAIN said' = Session /\ stored' \in Seq(Line)
    BY <1>3 DEF IInv, TInv, Line
  <2>2. history' \in [Session -> Histories(Line)]
    BY <1>1, <1>3, <1>4
  <2>3. open' \in [Session -> {"no", "open", "left"}]
    BY <1>1, <1>3
  <2>4. loaded' \in [Session -> Nat]
    BY <1>1, <1>3
  <2>5. Histories(Line)' = Histories(Line) /\ Line' = Line
    BY DEF Histories, Line
  <2> QED
    BY <2>1, <2>2, <2>3, <2>4, <2>5 DEF TInv
<1>6. ASSUME NEW t \in Session PROVE HistoryInv(t)'
  <2>1. CASE t = s
    <3>1. history'[t] = g /\ open'[t] # "no" /\ loaded'[t] = Len(stored)
      BY <1>1, <1>3, <2>1
    <3>2. NextId(g) = Len(stored) /\ Len(stored) \in Nat
      <4>1. Draft(g) = 0
        BY <1>2 DEF Draft
      <4>2. g.idOfOldest \in Nat /\ Len(g.buffer) \in Nat
        BY <1>4, FieldsAreNumbers
      <4> QED
        BY <1>1, <1>2, <4>1, <4>2 DEF NextId
    <3>3. Sound(history'[t], HistorySize[t], Line) /\ NextId(history'[t]) <= loaded'[t] + history'[t].commands
      BY <1>2, <2>1, <3>1, <3>2
    <3> QED
      BY <3>1, <3>3 DEF HistoryInv, NextId, Draft, Sound, Histories, Line
  <2>2. CASE t # s
    <3>1. HistoryInv(t)
      BY DEF IInv
    <3>2. history'[t] = history[t] /\ loaded'[t] = loaded[t] /\ open'[t] = open[t]
      BY <1>1, <1>3, <2>2
    <3> QED
      BY <3>1, <3>2 DEF HistoryInv, NextId, Draft, Sound, Histories, Line
  <2> QED
    BY <2>1, <2>2
<1>7. history'[s] = g
  BY <1>1, <1>3
<1>8. Listed(s)!Next
  BY <1>1, <1>2, <1>4, <1>7, LoadStep
<1>9. ListsStep
  BY <1>3, <1>8, OneHistorySteps DEF IInv
<1> QED
  BY <1>5, <1>6, <1>9 DEF IInv

LEMMA NextInv == IInv /\ [Next]_vars => IInv' /\ ListsStep
<1> SUFFICES ASSUME IInv, [Next]_vars PROVE IInv' /\ ListsStep
  OBVIOUS
<1>1. ASSUME NEW s \in Session, Open(s) PROVE IInv' /\ ListsStep
  BY <1>1, OpenStep
<1>2. ASSUME NEW s \in Session, KeyPressed(s) PROVE IInv' /\ ListsStep
  <2>1. open[s] = "open"
    BY <1>2 DEF KeyPressed
  <2>2. ASSUME NEW line \in Lines \cup {edit[s]}, Enter(s, line) PROVE IInv' /\ ListsStep
    BY <2>1, <2>2, EnterStep
  <2>3. CASE EnterNothing(s)
    BY <2>1, <2>3, EnterNothingStep
  <2>4. ASSUME NEW line \in Drafts \cup {edit[s]}, Up(s, line) PROVE IInv' /\ ListsStep
    BY <2>1, <2>4, UpStep
  <2>5. CASE Down(s)
    BY <2>1, <2>5, DownStep
  <2>6. CASE Eof(s)
    BY <2>1, <2>6, EofStep
  <2> QED
    BY <1>2, <2>2, <2>3, <2>4, <2>5, <2>6 DEF KeyPressed
<1>3. CASE UNCHANGED vars
  <2>1. UNCHANGED <<open, history, edit, said, loaded, stored>>
    BY <1>3 DEF vars, sessionVars
  <2>2. IInv'
    BY <2>1 DEF IInv, TInv, HistoryInv, Sound, Histories, NextId, Draft, Line
  <2> QED
    BY <2>1, <2>2, NoHistorySteps
<1> QED
  BY <1>1, <1>2, <1>3 DEF Next

LEMMA InvHolds == Spec => []IInv
<1>1. IInv /\ [Next]_vars => IInv'
  BY NextInv
<1> QED
  BY <1>1, InitInv, PTL DEF Spec

-----------------------------------------------------------------------------
(* The menus.                                                               *)

LEMMA MenusAreNested ==
    /\ \A m \in Menu : Child(m) \subseteq Menu /\ {Parent[m]} \ {NoMenu} \subseteq Menu
    /\ \A w : \A m \in Menu : Enters(w, m) \subseteq Menu
<1>1. \A m \in Menu : Child(m) \subseteq Menu /\ {Parent[m]} \ {NoMenu} \subseteq Menu
  BY DEF Menu, NoMenu, Parent, Child
<1> QED
  BY <1>1 DEF Enters

LEMMA Kinds ==
    /\ Wrong.kind = "wrong"
    /\ \A m : Goto(m).kind = "goto" /\ Goto(m).menu = m
    /\ \A m, w : Run(m, w).kind = "run"
BY DEF Wrong, Goto, Run

LEMMA FirstIsFound ==
    ASSUME NEW found
    PROVE  /\ FirstOf(found) \in found \cup {Wrong}
           /\ (\E r \in found : r # Wrong) => FirstOf(found) # Wrong
BY DEF FirstOf

\* What each menu makes of the words of a line from one position on.
ScanBy(line, off) ==
    CHOOSE scan : scan = [k \in 1..Len(line) |->
        [m \in Menu |-> Scan(SubSeq(line, k, Len(line)), m, off, scan[k + 1])]]

LEMMA ScanFrom ==
    ASSUME NEW X, NEW line \in Seq(X), line # <<>>, NEW off
    PROVE  LET scan == ScanBy(line, off)
           IN  /\ \A m : Lookup(line, m, off) = scan[1][m]
               /\ \A k \in 1..Len(line), m \in Menu :
                    scan[k][m] = Scan(SubSeq(line, k, Len(line)), m, off, scan[k + 1])
<1> DEFINE n == Len(line)
           Makes(k, next) == [m \in Menu |-> Scan(SubSeq(line, k, n), m, off, next)]
           From(f, i) == /\ f = [k \in 1..n |-> f[k]]
                         /\ \A k \in 1..n : n < k + i => f[k] = Makes(k, f[k + 1])
           S == {i \in Nat : \E f : From(f, i)}
<1>0. n \in Nat /\ n >= 1
  OBVIOUS
<1>1. 0 \in S
  <2> DEFINE f == [k \in 1..n |-> 0]
  <2>1. From(f, 0)
    BY <1>0
  <2> QED
    BY <2>1
<1>2. \A next, other : Makes(n, next) = Makes(n, other)
  <2>1. Len(SubSeq(line, n, n)) = 1
    BY <1>0
  <2>2. \A next, other : \A m \in Menu :
            Scan(SubSeq(line, n, n), m, off, next) = Scan(SubSeq(line, n, n), m, off, other)
    BY <2>1 DEF Scan
  <2> QED
    BY <2>2
<1> HIDE DEF Makes
<1>3. ASSUME NEW i \in 1..n, i - 1 \in S PROVE i \in S
  <2>1. PICK f : From(f, i - 1)
    BY <1>3
  <2> DEFINE g == [k \in 1..n |-> Makes(k, f[k + 1])]
  <2>2. ASSUME NEW k \in 1..n, n < k + i PROVE g[k] = Makes(k, g[k + 1])
    <3>1. CASE k = n
      BY <1>2, <3>1
    <3>2. CASE k # n
      <4>1. k + 1 \in 1..n /\ n < (k + 1) + (i - 1)
        BY <1>0, <2>2, <3>2
      <4>2. f[k + 1] = Makes(k + 1, f[(k + 1) + 1])
        BY <2>1, <4>1
      <4>3. g[k + 1] = f[k + 1]
        BY <4>1, <4>2
      <4> QED
        BY <4>3
    <3> QED
      BY <3>1, <3>2
  <2>3. From(g, i)
    <3>1. g = [k \in 1..n |-> g[k]]
      OBVIOUS
    <3> HIDE DEF g
    <3> QED
      BY <2>2, <3>1
  <2>4. \E h : From(h, i)
    BY <2>3, Zenon
  <2> HIDE DEF From
  <2> QED
    BY <1>0, <2>4
<1>4. n \in S
  <2> HIDE DEF S
  <2>1. \A i \in 0..n : i \in S
    BY <1>0, <1>1, <1>3, CountingUp
  <2> QED
    BY <1>0, <2>1
<1>5. PICK f : From(f, n)
  BY <1>4
<1>6. f = [k \in 1..n |-> Makes(k, f[k + 1])]
  <2>1. \A k \in 1..n : n < k + n
    BY <1>0
  <2>2. \A k \in 1..n : f[k] = Makes(k, f[k + 1])
    BY <1>5, <2>1
  <2> QED
    BY <1>5, <2>2
<1> DEFINE scan == ScanBy(line, off)
<1>7. scan = [k \in 1..n |-> Makes(k, scan[k + 1])]
  <2>1. \E g : g = [k \in 1..n |-> Makes(k, g[k + 1])]
    BY <1>6
  <2> QED
    BY <2>1, Zenon DEF ScanBy, Makes
<1>8. \A m : Lookup(line, m, off) = scan[1][m]
  BY DEF Lookup, ScanBy
<1> HIDE DEF scan
<1>9. ASSUME NEW k \in 1..n, NEW m \in Menu
      PROVE  scan[k][m] = Scan(SubSeq(line, k, n), m, off, scan[k + 1])
  <2>1. scan[k] = Makes(k, scan[k + 1])
    BY <1>7
  <2> QED
    BY <2>1 DEF Makes
<1> QED
  BY <1>8, <1>9 DEF scan

\* Whatever the words, a menu that becomes the current one is a menu of lynx.
Leads(r) == r.kind = "goto" => r.menu \in Menu

LEMMA DispatchLeads ==
    ASSUME NEW X, NEW line \in Seq(X), line # <<>>, NEW off, NEW at \in Menu
    PROVE  Leads(Dispatch(line, at, off))
<1> DEFINE n == Len(line)
           scan == ScanBy(line, off)
           S == {i \in Nat : \A k \in 1..n, m \in Menu : n < k + i => Leads(scan[k][m])}
<1>0. n \in Nat /\ n >= 1
  OBVIOUS
<1>1. /\ \A m : Lookup(line, m, off) = scan[1][m]
      /\ \A k \in 1..n, m \in Menu :
            scan[k][m] = Scan(SubSeq(line, k, n), m, off, scan[k + 1])
  BY ScanFrom
<1> HIDE DEF scan
<1>2. 0 \in S
  BY <1>0
<1>3. ASSUME NEW i \in 1..n, i - 1 \in S PROVE i \in S
  <2>1. ASSUME NEW k \in 1..n, NEW m \in Menu, n < k + i PROVE Leads(scan[k][m])
    <3> DEFINE words == SubSeq(line, k, n)
               found == {IF Len(words) = 1 THEN Goto(x) ELSE scan[k + 1][x] :
                            x \in Enters(Head(words), m)}
    <3>1. scan[k][m] = Scan(words, m, off, scan[k + 1])
      BY <1>1
    <3>2. scan[k][m] \in {Run(m, Head(words)), FirstOf(found)}
      BY <3>1 DEF Scan
    <3>3. Len(words) = n - k + 1
      BY <1>0
    <3>4. ASSUME NEW x \in Enters(Head(words), m), Len(words) # 1 PROVE Leads(scan[k + 1][x])
      <4>1. k + 1 \in 1..n /\ n < (k + 1) + (i - 1)
        BY <1>0, <2>1, <3>3, <3>4
      <4>2. x \in Menu
        BY MenusAreNested
      <4> QED
        BY <1>3, <4>1, <4>2
    <3>5. ASSUME NEW r \in found PROVE Leads(r)
      <4>1. PICK x \in Enters(Head(words), m) :
                r = IF Len(words) = 1 THEN Goto(x) ELSE scan[k + 1][x]
        BY <3>5
      <4>2. x \in Menu
        BY MenusAreNested
      <4> QED
        BY <3>4, <4>1, <4>2, Kinds DEF Leads
    <3> HIDE DEF found
    <3>6. FirstOf(found) \in found \cup {Wrong}
      BY FirstIsFound
    <3> QED
      BY <3>2, <3>5, <3>6, Kinds DEF Leads
  <2> QED
    BY <2>1
<1>4. n \in S
  <2> HIDE DEF S
  <2>1. \A i \in 0..n : i \in S
    BY <1>0, <1>2, <1>3, CountingUp
  <2> QED
    BY <1>0, <2>1
<1>5. Leads(Lookup(line, at, off))
  <2>1. 1 \in 1..n /\ n < 1 + n
    BY <1>0
  <2> QED
    BY <1>1, <1>4, <2>1
<1> QED
  BY <1>5, Kinds DEF Dispatch, Leads
-----------------------------------------------------------------------------
(* The completions.                                                         *)

\* The words of completions, of the lines they are for and of arguments.
Words == Word \cup {NoWord, "..", "1"}

\* A completion that some arguments make a line that a menu does not refuse,
\* wherever in a line that menu is reached.
Accepted(c, m, off) ==
    /\ c \in Seq(Words) \ {<<>>}
    /\ \E a \in Arguments : \A line \in Seq(Words), k \in Nat \ {0} :
            k <= Len(line) /\ SubSeq(line, k, Len(line)) = c \o a
                => ScanBy(line, off)[k][m] # Wrong

LEMMA MenusAreWords == Menu \subseteq Word /\ \A m \in Menu : Names(m) \subseteq Words
BY DEF Word, Names, Words

LEMMA CommandsAreWords ==
    /\ \A m \in Menu : \A d \in Commands[m] : d.name \in Words
    /\ \A d \in Globals : d.name \in Words
<1> DEFINE All == (UNION {Commands[m] : m \in Menu}) \cup Globals
<1>1. Word = {d.name : d \in All} \cup Menu
  BY DEF Word
<1>2. ASSUME NEW m \in Menu, NEW d \in Commands[m] PROVE d \in All
  <2>1. Commands[m] \in {Commands[x] : x \in Menu}
    OBVIOUS
  <2> QED
    BY <2>1
<1>3. \A d \in Globals : d \in All
  OBVIOUS
<1> HIDE DEF All
<1>4. \A d \in All : d.name \in Words
  BY <1>1 DEF Words
<1> QED
  BY <1>2, <1>3, <1>4

LEMMA ArgumentsAreWords ==
    /\ Arguments \subseteq Seq(Words)
    /\ \A a \in Arguments : \A i \in DOMAIN a : a[i] = "1"
    /\ "1" \in DOMAIN Number
<1>1. "1" \in Words /\ "1" \in DOMAIN Number
  BY DEF Words, Number
<1> QED
  BY <1>1 DEF Arguments

LEMMA OneWordMore ==
    ASSUME NEW w \in Words, NEW a \in Seq(Words)
    PROVE  /\ Len(<<w>> \o a) = Len(a) + 1 /\ Head(<<w>> \o a) = w /\ (<<w>> \o a)[1] = w
           /\ \A i \in 1..Len(a) : (<<w>> \o a)[i + 1] = a[i]
<1>1. Len(<<w>> \o a) = Len(a) + 1
  OBVIOUS
<1>2. (<<w>> \o a)[1] = w /\ Head(<<w>> \o a) = w
  OBVIOUS
<1>3. ASSUME NEW i \in 1..Len(a) PROVE (<<w>> \o a)[i + 1] = a[i]
  OBVIOUS
<1> QED
  BY <1>1, <1>2, <1>3

\* Some command of the name takes some of the arguments.
LEMMA CommandsTakeArguments ==
    ASSUME NEW m \in Menu, NEW d \in Commands[m], NEW off, d.name \notin off
    PROVE  \E e \in Commands[m], a \in Arguments : Takes(e, <<d.name>> \o a, off)
<1> DEFINE Short == {<<>>, <<"int">>, <<"str">>, <<"str", "str">>, <<"int", "int">>, Free}
           IsShort(e) == e.pars \in Short
<1>1. /\ \A name, pars : C(name, pars).name = name
      /\ \A name, pars : pars \in Short => IsShort(C(name, pars))
  BY DEF C
<1>2. /\ <<>> \in Short /\ <<"int">> \in Short /\ <<"str">> \in Short
      /\ <<"str", "str">> \in Short /\ <<"int", "int">> \in Short /\ Free \in Short
  OBVIOUS
<1>3. PICK e \in Commands[m] : e.name = d.name /\ e.pars \in Short
  <2> HIDE DEF Short, IsShort
  <2>1. C("add", <<"int", "int">>) \in Commands["cli"]
    BY DEF Commands
  <2>2. \A c \in Commands["cli"] : IsShort(c) \/ c = C("add", <<"int", "int", "int">>)
    BY <1>1, <1>2 DEF Commands
  <2>3. (\A c \in Commands["sub"] : IsShort(c)) /\ \A c \in Commands["subsub"] : IsShort(c)
    BY <1>1, <1>2 DEF Commands
  <2>4. IsShort(d) \/ (m = "cli" /\ d = C("add", <<"int", "int", "int">>))
    BY <2>2, <2>3 DEF Menu
  <2>5. CASE IsShort(d)
    BY <2>5 DEF IsShort
  <2>6. CASE m = "cli" /\ d = C("add", <<"int", "int", "int">>)
    <3>1. IsShort(C("add", <<"int", "int">>))
      BY <1>1, <1>2
    <3>2. d.name = "add" /\ C("add", <<"int", "int">>).name = "add"
      BY <1>1, <2>6
    <3> QED
      BY <2>1, <2>6, <3>1, <3>2 DEF IsShort
  <2> QED
    BY <2>4, <2>5, <2>6
<1>4. \A a \in Arguments :
        /\ Len(<<d.name>> \o a) = Len(a) + 1 /\ Head(<<d.name>> \o a) = d.name
        /\ \A i \in 1..Len(a) : (<<d.name>> \o a)[i + 1] \in DOMAIN Number
  <2> SUFFICES ASSUME NEW a \in Arguments
               PROVE  /\ Len(<<d.name>> \o a) = Len(a) + 1 /\ Head(<<d.name>> \o a) = d.name
                      /\ \A i \in 1..Len(a) : (<<d.name>> \o a)[i + 1] \in DOMAIN Number
    OBVIOUS
  <2>1. a \in Seq(Words) /\ (\A i \in DOMAIN a : a[i] = "1") /\ "1" \in DOMAIN Number
    BY ArgumentsAreWords
  <2>2. /\ Len(<<d.name>> \o a) = Len(a) + 1 /\ Head(<<d.name>> \o a) = d.name
        /\ \A i \in 1..Len(a) : (<<d.name>> \o a)[i + 1] = a[i]
    BY <2>1, CommandsAreWords, OneWordMore
  <2> QED
    BY <2>1, <2>2
<1>5. PICK a \in Arguments : e.pars = Free \/ Len(e.pars) = Len(a)
  <2>1. <<>> \in Arguments /\ <<"1">> \in Arguments /\ <<"1", "1">> \in Arguments
    BY DEF Arguments
  <2> QED
    BY <1>3, <2>1
<1>6. Len(e.pars) \in Nat /\ DOMAIN e.pars = 1..Len(e.pars)
  BY <1>3 DEF Free
<1>7. Takes(e, <<d.name>> \o a, off)
  BY <1>3, <1>4, <1>5, <1>6 DEF Takes
<1> QED
  BY <1>7

LEMMA OwnAccepted ==
    ASSUME NEW m \in Menu, NEW d \in Commands[m], NEW off, d.name \notin off
    PROVE  Accepted(<<d.name>>, m, off)
<1>1. PICK e \in Commands[m], a \in Arguments : Takes(e, <<d.name>> \o a, off)
  BY CommandsTakeArguments
<1>2. <<d.name>> \in Seq(Words) \ {<<>>}
  BY CommandsAreWords
<1>3. ASSUME NEW line \in Seq(Words), NEW k \in Nat \ {0}, k <= Len(line),
             SubSeq(line, k, Len(line)) = <<d.name>> \o a
      PROVE  ScanBy(line, off)[k][m] # Wrong
  <2>1. line # <<>> /\ k \in 1..Len(line)
    BY <1>3
  <2>2. ScanBy(line, off)[k][m]
          = Scan(SubSeq(line, k, Len(line)), m, off, ScanBy(line, off)[k + 1])
    BY <2>1, ScanFrom
  <2>3. ScanBy(line, off)[k][m] = Run(m, Head(SubSeq(line, k, Len(line))))
    BY <1>1, <1>3, <2>2 DEF Scan
  <2> QED
    BY <2>3, Kinds
<1> QED
  BY <1>2, <1>3 DEF Accepted

\* A menu's word, and a completion behind it.
LEMMA MenuAccepted ==
    ASSUME NEW m \in Menu, NEW w \in Words, NEW x \in Enters(w, m), NEW off
    PROVE  Accepted(<<w>>, m, off)
<1>1. <<>> \in Arguments /\ <<w>> \o <<>> = <<w>> /\ <<w>> \in Seq(Words) \ {<<>>}
  BY DEF Arguments
<1>2. ASSUME NEW line \in Seq(Words), NEW k \in Nat \ {0}, k <= Len(line),
             SubSeq(line, k, Len(line)) = <<w>>
      PROVE  ScanBy(line, off)[k][m] # Wrong
  <2> DEFINE next == ScanBy(line, off)[k + 1]
             found == {IF Len(<<w>>) = 1 THEN Goto(y) ELSE next[y] : y \in Enters(w, m)}
  <2>1. line # <<>> /\ k \in 1..Len(line)
    BY <1>2
  <2>2. ScanBy(line, off)[k][m] = Scan(<<w>>, m, off, next)
    <3>1. ScanBy(line, off)[k][m] = Scan(SubSeq(line, k, Len(line)), m, off, next)
      BY <2>1, ScanFrom
    <3> QED
      BY <1>2, <3>1
  <2>3. Head(<<w>>) = w /\ Len(<<w>>) = 1
    OBVIOUS
  <2>4. ScanBy(line, off)[k][m] \in {Run(m, w), FirstOf(found)}
    BY <2>2, <2>3 DEF Scan
  <2>5. Goto(x) \in found /\ Goto(x) # Wrong
    BY <2>3, Kinds
  <2> HIDE DEF found
  <2>6. FirstOf(found) # Wrong
    BY <2>5, FirstIsFound
  <2> QED
    BY <2>4, <2>6, Kinds
<1> QED
  BY <1>1, <1>2 DEF Accepted

LEMMA DeeperAccepted ==
    ASSUME NEW m \in Menu, NEW w \in Words, NEW x \in Enters(w, m), NEW off,
           NEW c, Accepted(c, x, off)
    PROVE  Accepted(<<w>> \o c, m, off)
<1>1. c \in Seq(Words) \ {<<>>} /\ <<w>> \in Seq(Words)
  BY DEF Accepted
<1>2. PICK a \in Arguments : \A line \in Seq(Words), k \in Nat \ {0} :
            k <= Len(line) /\ SubSeq(line, k, Len(line)) = c \o a
                => ScanBy(line, off)[k][x] # Wrong
  BY DEF Accepted
<1>3. a \in Seq(Words)
  BY ArgumentsAreWords
<1>4. <<w>> \o c \in Seq(Words) \ {<<>>}
  BY <1>1
<1>5. ASSUME NEW line \in Seq(Words), NEW k \in Nat \ {0}, k <= Len(line),
             SubSeq(line, k, Len(line)) = (<<w>> \o c) \o a
      PROVE  ScanBy(line, off)[k][m] # Wrong
  <2> DEFINE words == SubSeq(line, k, Len(line))
             next == ScanBy(line, off)[k + 1]
             found == {IF Len(words) = 1 THEN Goto(y) ELSE next[y] : y \in Enters(w, m)}
  <2>1. line # <<>> /\ k \in 1..Len(line)
    BY <1>5
  <2>2. ScanBy(line, off)[k][m] = Scan(words, m, off, next)
    BY <2>1, ScanFrom
  <2>3. Head(words) = w /\ Len(words) = 1 + Len(c) + Len(a) /\ Len(c) \in Nat \ {0} /\ Len(a) \in Nat
    BY <1>1, <1>3, <1>5
  <2>4. k + 1 \in Nat \ {0} /\ k + 1 <= Len(line)
    <3>1. Len(words) = Len(line) - k + 1
      BY <2>1
    <3> QED
      BY <2>1, <2>3, <3>1
  <2>5. SubSeq(line, k + 1, Len(line)) = c \o a
    <3> DEFINE rest == SubSeq(line, k + 1, Len(line))
    <3>1. rest \in Seq(Words) /\ Len(rest) = Len(line) - k
      BY <2>1, <2>4
    <3>2. c \o a \in Seq(Words) /\ Len(c \o a) = Len(c) + Len(a)
      BY <1>1, <1>3
    <3>3. Len(words) = Len(line) - k + 1
      BY <2>1
    <3>4. ASSUME NEW i \in 1..Len(rest) PROVE rest[i] = (c \o a)[i]
      <4>1. rest[i] = line[k + i] /\ words[i + 1] = line[k + i]
        BY <2>1, <3>1
      <4>2. ((<<w>> \o c) \o a)[i + 1] = (c \o a)[i]
        BY <1>1, <1>3, <2>3, <3>1, <3>3
      <4> QED
        BY <1>5, <4>1, <4>2
    <3> DEFINE both == c \o a
    <3> HIDE DEF rest, words, both
    <3>5. Len(rest) = Len(both)
      <4>1. Len(line) \in Nat
        OBVIOUS
      <4>2. Len(line) - k = Len(c) + Len(a)
        BY <2>3, <3>3, <4>1
      <4> QED
        BY <3>1, <3>2, <4>2 DEF both
    <3>6. both \in Seq(Words) /\ \A i \in 1..Len(rest) : rest[i] = both[i]
      BY <3>2, <3>4 DEF both
    <3>7. rest = both
      BY <3>1, <3>5, <3>6, SeqEqual
    <3> QED
      BY <3>7 DEF rest, both
  <2>6. next[x] # Wrong
    BY <1>2, <2>4, <2>5
  <2>7. ScanBy(line, off)[k][m] \in {Run(m, w), FirstOf(found)}
    BY <2>2, <2>3 DEF Scan
  <2>8. next[x] \in found
    BY <2>3
  <2> HIDE DEF found, next
  <2>9. FirstOf(found) # Wrong
    BY <2>6, <2>8, FirstIsFound
  <2> QED
    BY <2>7, <2>9, Kinds
<1> QED
  BY <1>4, <1>5 DEF Accepted

\* The words of a menu's name, and what is left of a line behind alone.
LEMMA NamesAreWords ==
    ASSUME NEW x \in Menu, NEW w \in Names(x)
    PROVE  /\ w \in Words /\ w # NoWord /\ w # "hello"
           /\ w \in Menu \cup {".."}
<1>1. NoWord # ".." /\ \A y \in Menu : y # NoWord
  BY Zenon DEF NoWord, Menu
<1>2. "hello" # ".." /\ \A y \in Menu : y # "hello"
  BY DEF Menu
<1> QED
  BY <1>1, <1>2, MenusAreWords DEF Names

LEMMA StartsAreNames ==
    ASSUME NEW x \in Menu, NEW w \in Names(x), NEW word, StartsWith(word, w)
    PROVE  word = w \/ (word = "subsub" /\ w = "sub")
<1>1. w # NoWord /\ w # "hello"
  BY NamesAreWords
<1>2. w \in {NoWord, word} \/ <<word, w>> \in {<<"subsub", "sub">>, <<"hello_everysession", "hello">>}
  BY DEF StartsWith
<1>3. <<word, w>> = <<"subsub", "sub">> => word = "subsub" /\ w = "sub"
  OBVIOUS
<1>4. <<word, w>> = <<"hello_everysession", "hello">> => w = "hello"
  OBVIOUS
<1> QED
  BY <1>1, <1>2, <1>3, <1>4

\* How long a line can be read.
Rank(line) ==
    3 * Len(line) + (IF line[1] = NoWord THEN 0 ELSE IF line[1] = "subsub" THEN 2 ELSE 1)

LEMMA RestIsLess ==
    ASSUME NEW line \in Seq(Words), line # <<>>, NEW x \in Menu, NEW w \in Names(x),
           StartsWith(line[1], w)
    PROVE  /\ Rest(line, w) \in Seq(Words) \ {<<>>}
           /\ Rank(line) \in Nat /\ Rank(Rest(line, w)) \in Nat
           /\ Rank(Rest(line, w)) < Rank(line)
<1>1. Len(line) \in Nat \ {0} /\ Tail(line) \in Seq(Words) /\ Len(Tail(line)) = Len(line) - 1
  OBVIOUS
<1>2. line[1] = w \/ (line[1] = "subsub" /\ w = "sub")
  BY StartsAreNames
<1>3. w # NoWord
  BY NamesAreWords
<1>4. \A l \in Seq(Words) : Rank(l) \in Nat /\ Rank(l) >= 3 * Len(l) /\ Rank(l) <= 3 * Len(l) + 2
  BY DEF Rank
<1>5. CASE line[1] # w
  <2> DEFINE r == <<"sub">> \o Tail(line)
  <2>1. Rest(line, w) = r
    BY <1>5 DEF Rest
  <2>2. "sub" \in Words /\ "sub" # NoWord /\ "subsub" # NoWord
    <3>1. "sub" \in Menu /\ "subsub" \in Menu
      BY DEF Menu
    <3>2. \A y \in Menu : y # NoWord
      BY Zenon DEF NoWord, Menu
    <3> QED
      BY <3>1, <3>2, MenusAreWords DEF Words
  <2>3. <<"sub">> \in Seq(Words) /\ Len(<<"sub">>) = 1
    BY <2>2
  <2>4. r \in Seq(Words) /\ Len(r) = Len(line) /\ r[1] = "sub"
    BY <1>1, <2>3
  <2> HIDE DEF r
  <2>5. Rank(r) = 3 * Len(line) + 1
    BY <2>2, <2>4 DEF Rank
  <2>6. Rank(line) = 3 * Len(line) + 2
    BY <1>2, <1>5, <2>2 DEF Rank
  <2>7. r # <<>>
    BY <1>1, <2>4
  <2> QED
    BY <1>1, <2>1, <2>4, <2>5, <2>6, <2>7
<1>6. CASE line[1] = w /\ Len(line) = 1
  <2>1. Rest(line, w) = <<NoWord>>
    BY <1>6 DEF Rest
  <2>2. <<NoWord>> \in Seq(Words) \ {<<>>}
    BY DEF Words
  <2>3. Rank(<<NoWord>>) = 3
    BY DEF Rank
  <2>4. Rank(line) >= 4 /\ Rank(line) \in Nat
    BY <1>3, <1>4, <1>6 DEF Rank
  <2> QED
    BY <2>1, <2>2, <2>3, <2>4
<1>7. CASE line[1] = w /\ Len(line) # 1
  <2>1. Rest(line, w) = Tail(line)
    BY <1>7 DEF Rest
  <2>2. Tail(line) # <<>>
    <3>1. Len(Tail(line)) # 0
      BY <1>1, <1>7
    <3>2. Len(<<>>) = 0
      OBVIOUS
    <3> QED
      BY <3>1, <3>2
  <2>3. Rank(Tail(line)) <= 3 * (Len(line) - 1) + 2 /\ Rank(Tail(line)) \in Nat
    BY <1>1, <1>4
  <2>4. Rank(line) >= 3 * Len(line) /\ Rank(line) \in Nat
    BY <1>4
  <2> QED
    BY <1>1, <2>1, <2>2, <2>3, <2>4
<1> QED
  BY <1>5, <1>6, <1>7

\* The lines whose completions the completions of a line can ask for.
Rests(line) ==
    LET tails == {SubSeq(line, k, Len(line)) : k \in 1..Len(line)}
    IN  {<<NoWord>>} \cup tails \cup {<<"sub">> \o Tail(t) : t \in tails}

LEMMA RestsAreClosed ==
    ASSUME NEW line \in Seq(Words), line # <<>>
    PROVE  /\ line \in Rests(line)
           /\ Rests(line) \subseteq Seq(Words) \ {<<>>}
           /\ \A l \in Rests(line) : Rank(l) \in Nat /\ Rank(l) <= 3 * Len(line) + 2
           /\ \A l \in Rests(line), x \in Menu : \A w \in Names(x) :
                StartsWith(l[1], w) => Rest(l, w) \in Rests(line)
<1> DEFINE n == Len(line)
           tails == {SubSeq(line, k, n) : k \in 1..n}
           subs == {<<"sub">> \o Tail(t) : t \in tails}
<1>0. n \in Nat \ {0}
  OBVIOUS
<1>1. Rests(line) = {<<NoWord>>} \cup tails \cup subs
  BY DEF Rests
<1>2. line \in tails
  <2>1. line = SubSeq(line, 1, n) /\ 1 \in 1..n
    BY <1>0
  <2> QED
    BY <2>1
<1>3. ASSUME NEW k \in 1..n
      PROVE  LET t == SubSeq(line, k, n)
             IN  /\ t \in Seq(Words) /\ Len(t) = n - k + 1 /\ Len(t) \in 1..n
                 /\ k # n => Tail(t) = SubSeq(line, k + 1, n)
  <2> DEFINE t == SubSeq(line, k, n)
  <2>1. t \in Seq(Words) /\ Len(t) = n - k + 1
    BY <1>0
  <2>2. ASSUME k # n PROVE Tail(t) = SubSeq(line, k + 1, n)
    BY <1>0, <2>1, <2>2
  <2> QED
    BY <1>0, <2>1, <2>2
<1>4. ASSUME NEW t \in tails
      PROVE  /\ t \in Seq(Words) /\ Len(t) \in 1..n
             /\ Len(t) # 1 => Tail(t) \in tails
  <2>1. PICK k \in 1..n : t = SubSeq(line, k, n)
    BY <1>4
  <2>2. k # n => k + 1 \in 1..n
    BY <1>0
  <2> QED
    BY <1>0, <1>3, <2>1, <2>2
<1>5. "sub" \in Words /\ <<NoWord>> \in Seq(Words) /\ Len(<<NoWord>>) = 1
  <2>1. "sub" \in Menu
    BY DEF Menu
  <2> QED
    BY <2>1, MenusAreWords DEF Words
<1>6. ASSUME NEW t \in tails
      PROVE  LET r == <<"sub">> \o Tail(t)
             IN  r \in Seq(Words) /\ Len(r) = Len(t) /\ Tail(r) = Tail(t) /\ r[1] = "sub"
  <2>1. t \in Seq(Words) /\ Len(t) \in Nat \ {0}
    BY <1>0, <1>4
  <2>2. Tail(t) \in Seq(Words) /\ Len(Tail(t)) = Len(t) - 1
    BY <2>1
  <2>3. <<"sub">> \in Seq(Words) /\ Len(<<"sub">>) = 1
    BY <1>5
  <2> HIDE DEF tails
  <2> QED
    BY <2>1, <2>2, <2>3
<1>7. ASSUME NEW l \in Rests(line) PROVE l \in Seq(Words) /\ Len(l) \in 1..n /\ l # <<>>
  <2> HIDE DEF tails
  <2>1. l \in Seq(Words) /\ Len(l) \in 1..n
    <3>1. CASE l = <<NoWord>>
      BY <1>0, <1>5, <3>1
    <3>2. CASE l \in tails
      BY <1>4, <3>2
    <3>3. CASE l \in subs
      <4>1. PICK t \in tails : l = <<"sub">> \o Tail(t)
        BY <3>3
      <4> QED
        BY <1>4, <1>6, <4>1
    <3> QED
      BY <1>1, <3>1, <3>2, <3>3
  <2>2. Len(<<>>) = 0
    OBVIOUS
  <2> QED
    BY <1>0, <2>1, <2>2
<1>8. \A l \in Rests(line) : Rank(l) \in Nat /\ Rank(l) <= 3 * n + 2
  <2>1. \A l \in Seq(Words) : Rank(l) \in Nat /\ Rank(l) <= 3 * Len(l) + 2 /\ Len(l) \in Nat
    BY DEF Rank
  <2> HIDE DEF n
  <2> QED
    BY <1>0, <1>7, <2>1
<1>9. ASSUME NEW l \in Rests(line), NEW x \in Menu, NEW w \in Names(x), StartsWith(l[1], w)
      PROVE  Rest(l, w) \in Rests(line)
  <2>1. l[1] = w \/ (l[1] = "subsub" /\ w = "sub")
    BY <1>9, StartsAreNames
  <2>2. w # NoWord
    BY NamesAreWords
  <2> HIDE DEF tails
  <2>3. CASE l[1] # w
    <3>1. Rest(l, w) = <<"sub">> \o Tail(l)
      BY <2>3 DEF Rest
    <3>2. l[1] # "sub" /\ l \notin {<<NoWord>>}
      <4>1. "subsub" \in Menu /\ \A y \in Menu : y # NoWord
        BY Zenon DEF Menu, NoWord
      <4> QED
        BY <2>1, <2>3, <4>1
    <3>3. l \in tails
      BY <1>1, <1>6, <3>2
    <3> QED
      BY <1>1, <3>1, <3>3
  <2>4. CASE l[1] = w /\ Len(l) = 1
    BY <1>1, <2>4 DEF Rest
  <2>5. CASE l[1] = w /\ Len(l) # 1
    <3>1. Rest(l, w) = Tail(l)
      BY <2>5 DEF Rest
    <3>2. \E t \in tails : Tail(l) = Tail(t) /\ Len(t) # 1
      BY <1>1, <1>5, <1>6, <2>5
    <3> QED
      BY <1>1, <1>4, <3>1, <3>2
  <2> QED
    BY <2>3, <2>4, <2>5
<1>10. line \in Rests(line)
  BY <1>1, <1>2
<1>11. Rests(line) \subseteq Seq(Words) \ {<<>>}
  BY <1>7
<1> QED
  BY <1>8, <1>9, <1>10, <1>11

\* The completions of the lines that those of a line ask for.
OffersBy(line, off) ==
    CHOOSE offers : offers = [l \in Rests(line) |-> [m \in Menu |-> Offer(l, m, off, offers)]]

\* What is offered for a line depends on what is offered for shorter ones.
LEMMA OfferDepends ==
    ASSUME NEW line \in Seq(Words), line # <<>>, NEW m \in Menu, NEW off, NEW f, NEW g,
           \A x \in Menu : \A w \in Names(x) :
                StartsWith(line[1], w) => f[Rest(line, w)] = g[Rest(line, w)]
    PROVE  Offer(line, m, off, f) = Offer(line, m, off, g)
<1>1. ASSUME NEW x \in Menu, NEW names, names \subseteq Names(x)
      PROVE  Under(line, x, names, f) = Under(line, x, names, g)
  <2> DEFINE typed == {w \in names : StartsWith(line[1], w)}
             name == CHOOSE w \in typed : TRUE
  <2>1. CASE typed = {}
    BY <2>1, Zenon DEF Under
  <2>2. CASE typed # {}
    <3>1. name \in typed
      BY <2>2
    <3>2. f[Rest(line, name)] = g[Rest(line, name)]
      BY <1>1, <3>1
    <3> HIDE DEF name
    <3>3. {<<name>> \o c : c \in f[Rest(line, name)][x]} = {<<name>> \o c : c \in g[Rest(line, name)][x]}
      BY <3>2
    <3>4. \A h : Under(line, x, names, h) = {<<name>> \o c : c \in h[Rest(line, name)][x]}
      BY <2>2, Zenon DEF Under, name
    <3> QED
      BY <3>3, <3>4
  <2> QED
    BY <2>1, <2>2
<1>2. \A x \in Menu : {x} \subseteq Names(x)
  BY DEF Names
<1>3. \A x \in Child(m) : Under(line, x, {x}, f) = Under(line, x, {x}, g)
  BY <1>1, <1>2, MenusAreNested
<1>4. \A x \in {Parent[m]} \ {NoMenu} : Under(line, x, Names(x), f) = Under(line, x, Names(x), g)
  BY <1>1, MenusAreNested
<1>5. /\ {Under(line, x, {x}, f) : x \in Child(m)} = {Under(line, x, {x}, g) : x \in Child(m)}
      /\ {Under(line, x, Names(x), f) : x \in {Parent[m]} \ {NoMenu}}
            = {Under(line, x, Names(x), g) : x \in {Parent[m]} \ {NoMenu}}
  BY <1>3, <1>4
<1> QED
  BY <1>5, Zenon DEF Offer

LEMMA OffersFrom ==
    ASSUME NEW line \in Seq(Words), line # <<>>, NEW off
    PROVE  LET offers == OffersBy(line, off)
           IN  /\ \A m : MenuOffers(line, m, off) = offers[line][m]
               /\ \A l \in Rests(line), m \in Menu : offers[l][m] = Offer(l, m, off, offers)
<1> DEFINE N == 3 * Len(line) + 2
           D == Rests(line)
           Makes(l, f) == [m \in Menu |-> Offer(l, m, off, f)]
           From(f, i) == /\ f = [l \in D |-> f[l]]
                         /\ \A l \in D : Rank(l) <= i => f[l] = Makes(l, f)
           S == {i \in Nat : \E f : From(f, i)}
<1>0. N \in Nat
  OBVIOUS
<1>1. /\ D \subseteq Seq(Words) \ {<<>>}
      /\ \A l \in D : Rank(l) \in Nat /\ Rank(l) <= N /\ Rank(l) > 0
      /\ \A l \in D, x \in Menu : \A w \in Names(x) : StartsWith(l[1], w) => Rest(l, w) \in D
  <2>1. \A l \in Seq(Words) \ {<<>>} : Rank(l) \in Nat /\ Rank(l) > 0
    BY DEF Rank
  <2> QED
    BY <2>1, RestsAreClosed
<1> HIDE DEF N, D
<1>2. ASSUME NEW l \in D, NEW f, NEW g,
             \A k \in D : Rank(k) < Rank(l) => f[k] = g[k]
      PROVE  Makes(l, f) = Makes(l, g)
  <2>1. l \in Seq(Words) /\ l # <<>>
    BY <1>1
  <2>2. ASSUME NEW x \in Menu, NEW w \in Names(x), StartsWith(l[1], w)
        PROVE  f[Rest(l, w)] = g[Rest(l, w)]
    <3>1. Rest(l, w) \in D /\ Rank(Rest(l, w)) < Rank(l)
      BY <1>1, <2>1, <2>2, RestIsLess
    <3> QED
      BY <1>2, <3>1
  <2>3. \A m \in Menu : Offer(l, m, off, f) = Offer(l, m, off, g)
    BY <2>1, <2>2, OfferDepends
  <2> QED
    BY <2>3
<1> HIDE DEF Makes
<1>3. 0 \in S
  <2> DEFINE f == [l \in D |-> 0]
  <2>1. From(f, 0)
    BY <1>1
  <2> QED
    BY <2>1
<1>4. ASSUME NEW i \in 1..N, i - 1 \in S PROVE i \in S
  <2>1. PICK f : From(f, i - 1)
    BY <1>4
  <2> DEFINE g == [l \in D |-> Makes(l, f)]
  <2>2. ASSUME NEW k \in D, Rank(k) <= i - 1 PROVE g[k] = f[k]
    BY <2>1, <2>2
  <2>3. ASSUME NEW l \in D, Rank(l) <= i PROVE g[l] = Makes(l, g)
    <3>1. ASSUME NEW k \in D, Rank(k) < Rank(l) PROVE f[k] = g[k]
      <4>1. Rank(k) <= i - 1
        BY <1>1, <2>3, <3>1
      <4> QED
        BY <2>2, <4>1
    <3>2. g[l] = Makes(l, f)
      OBVIOUS
    <3> HIDE DEF g
    <3>3. Makes(l, f) = Makes(l, g)
      BY <1>2, <3>1
    <3> QED
      BY <3>2, <3>3
  <2>4. From(g, i)
    <3>1. g = [l \in D |-> g[l]]
      OBVIOUS
    <3> HIDE DEF g
    <3> QED
      BY <2>3, <3>1
  <2>5. \E h : From(h, i)
    BY <2>4, Zenon
  <2> HIDE DEF From
  <2> QED
    BY <1>0, <2>5
<1>5. N \in S
  <2> HIDE DEF S
  <2>1. \A i \in 0..N : i \in S
    BY <1>0, <1>3, <1>4, CountingUp
  <2> QED
    BY <1>0, <2>1
<1>6. PICK f : From(f, N)
  BY <1>5
<1>7. f = [l \in D |-> Makes(l, f)]
  <2>1. \A l \in D : f[l] = Makes(l, f)
    BY <1>1, <1>6
  <2> QED
    BY <1>6, <2>1
<1> DEFINE offers == OffersBy(line, off)
<1>8. offers = [l \in D |-> Makes(l, offers)]
  <2>1. \E g : g = [l \in D |-> Makes(l, g)]
    BY <1>7
  <2> QED
    BY <2>1, Zenon DEF OffersBy, Makes, D
<1>9. \A m : MenuOffers(line, m, off) = offers[line][m]
  BY DEF MenuOffers, OffersBy, Rests
<1> HIDE DEF offers
<1>10. ASSUME NEW l \in D, NEW m \in Menu PROVE offers[l][m] = Offer(l, m, off, offers)
  <2>1. offers[l] = Makes(l, offers)
    BY <1>8
  <2> QED
    BY <2>1 DEF Makes
<1> QED
  BY <1>9, <1>10 DEF offers, D

LEMMA OffersAccepted ==
    ASSUME NEW line \in Seq(Words), line # <<>>, NEW m \in Menu, NEW off,
           NEW c \in MenuOffers(line, m, off)
    PROVE  Accepted(c, m, off)
<1> DEFINE N == 3 * Len(line) + 2
           D == Rests(line)
           offers == OffersBy(line, off)
           S == {i \in Nat : \A l \in D, x \in Menu : Rank(l) <= i =>
                    \A d \in offers[l][x] : Accepted(d, x, off)}
<1>0. N \in Nat
  OBVIOUS
<1>1. /\ line \in D /\ D \subseteq Seq(Words) \ {<<>>}
      /\ \A l \in D : Rank(l) \in Nat /\ Rank(l) <= N /\ Rank(l) > 0
      /\ \A l \in D, x \in Menu : \A w \in Names(x) : StartsWith(l[1], w) => Rest(l, w) \in D
  <2>1. \A l \in Seq(Words) \ {<<>>} : Rank(l) \in Nat /\ Rank(l) > 0
    BY DEF Rank
  <2> QED
    BY <2>1, RestsAreClosed
<1>2. /\ MenuOffers(line, m, off) = offers[line][m]
      /\ \A l \in D, x \in Menu : offers[l][x] = Offer(l, x, off, offers)
  BY OffersFrom
<1> HIDE DEF N, D, offers
<1>3. 0 \in S
  BY <1>1
<1>4. ASSUME NEW i \in 1..N, i - 1 \in S PROVE i \in S
  <2> SUFFICES ASSUME NEW l \in D, NEW x \in Menu, Rank(l) <= i, NEW d \in offers[l][x]
               PROVE  Accepted(d, x, off)
    BY <1>0
  <2>1. l \in Seq(Words) /\ l # <<>>
    BY <1>1
  <2>2. ASSUME NEW y \in Menu, NEW names, names \subseteq Names(y),
               \A w \in names : y \in Enters(w, x), y \in names,
               d \in Under(l, y, names, offers)
        PROVE  Accepted(d, x, off)
    <3> DEFINE typed == {w \in names : StartsWith(l[1], w)}
               name == CHOOSE w \in typed : TRUE
    <3>1. CASE typed # {}
      <4>1. name \in typed
        BY <3>1
      <4>2. Under(l, y, names, offers) = {<<name>> \o e : e \in offers[Rest(l, name)][y]}
        BY <3>1, Zenon DEF Under
      <4> HIDE DEF name
      <4>3. PICK e \in offers[Rest(l, name)][y] : d = <<name>> \o e
        BY <2>2, <4>2
      <4>4. name \in Names(y) /\ StartsWith(l[1], name) /\ y \in Enters(name, x)
        BY <2>2, <4>1
      <4>5. Rest(l, name) \in D /\ Rank(Rest(l, name)) \in Nat /\ Rank(Rest(l, name)) < Rank(l)
        BY <1>1, <2>1, <4>4, RestIsLess
      <4>6. Rank(Rest(l, name)) <= i - 1
        BY <1>0, <1>1, <4>5
      <4>7. Accepted(e, y, off)
        BY <1>4, <4>5, <4>6
      <4>8. name \in Words
        BY <4>4, NamesAreWords
      <4> QED
        BY <4>3, <4>4, <4>7, <4>8, DeeperAccepted
    <3>2. CASE typed = {}
      <4>1. d = <<y>>
        BY <2>2, <3>2 DEF Under
      <4>2. y \in Words /\ y \in Enters(y, x)
        BY <2>2, MenusAreWords
      <4> QED
        BY <4>1, <4>2, MenuAccepted
    <3> QED
      BY <3>1, <3>2
  <2>3. d \in Offer(l, x, off, offers)
    BY <1>2
  <2>4. CASE \E e \in Commands[x] : Offered(e, l, off) /\ d = <<e.name>>
    BY <2>4, OwnAccepted DEF Offered
  <2>5. CASE \E y \in Child(x) : d \in Under(l, y, {y}, offers)
    <3>1. PICK y \in Child(x) : d \in Under(l, y, {y}, offers)
      BY <2>5
    <3>2. y \in Menu /\ {y} \subseteq Names(y) /\ y \in Enters(y, x)
      BY MenusAreNested DEF Enters, Names
    <3> QED
      BY <2>2, <3>1, <3>2
  <2>6. CASE \E y \in {Parent[x]} \ {NoMenu} : d \in Under(l, y, Names(y), offers)
    <3>1. PICK y \in {Parent[x]} \ {NoMenu} : d \in Under(l, y, Names(y), offers)
      BY <2>6
    <3>2. y \in Menu /\ y \in Names(y) /\ \A w \in Names(y) : y \in Enters(w, x)
      BY MenusAreNested DEF Enters, Names
    <3> QED
      BY <2>2, <3>1, <3>2
  <2> QED
    BY <2>3, <2>4, <2>5, <2>6 DEF Offer
<1>5. N \in S
  <2> HIDE DEF S
  <2>1. \A i \in 0..N : i \in S
    BY <1>0, <1>3, <1>4, CountingUp
  <2> QED
    BY <1>0, <2>1
<1> QED
  BY <1>1, <1>2, <1>5

LEMMA CompletionsRun ==
    ASSUME NEW line \in Seq(Words), line # <<>>, NEW m \in Menu, NEW off,
           NEW c \in Completions(line, m, off)
    PROVE  \E a \in Arguments : Dispatch(c \o a, m, off) # Wrong
<1>1. CASE \E d \in Globals : c = <<d.name>>
  <2>1. PICK d \in Globals : c = <<d.name>>
    BY <1>1
  <2>2. d.pars = <<>> \/ d.pars = <<"int">>
    BY DEF Globals, C
  <2>3. PICK a \in Arguments : Len(a) = Len(d.pars)
    <3>1. <<>> \in Arguments /\ <<"1">> \in Arguments
      BY DEF Arguments
    <3> QED
      BY <2>2, <3>1
  <2>4. a \in Seq(Words) /\ (\A i \in DOMAIN a : a[i] = "1") /\ "1" \in DOMAIN Number
    BY ArgumentsAreWords
  <2>5. /\ Len(c \o a) = Len(a) + 1 /\ Head(c \o a) = d.name /\ (c \o a)[1] = d.name
        /\ \A i \in 1..Len(a) : (c \o a)[i + 1] = a[i]
    BY <2>1, <2>4, CommandsAreWords, OneWordMore
  <2>6. DOMAIN d.pars = 1..Len(a)
    BY <2>2, <2>3
  <2>7. Takes(d, c \o a, {})
    BY <2>3, <2>4, <2>5, <2>6 DEF Takes
  <2>8. Dispatch(c \o a, m, off) = Run(NoMenu, (c \o a)[1])
    BY <2>7 DEF Dispatch
  <2> QED
    BY <2>8, Kinds
<1>2. CASE c \in MenuOffers(line, m, off)
  <2>1. Accepted(c, m, off)
    BY <1>2, OffersAccepted
  <2>2. PICK a \in Arguments : \A l \in Seq(Words), k \in Nat \ {0} :
            k <= Len(l) /\ SubSeq(l, k, Len(l)) = c \o a => ScanBy(l, off)[k][m] # Wrong
    BY <2>1 DEF Accepted
  <2> DEFINE l == c \o a
  <2>3. c \in Seq(Words) /\ c # <<>> /\ a \in Seq(Words)
    BY <2>1, ArgumentsAreWords DEF Accepted
  <2>4. l \in Seq(Words) /\ l # <<>> /\ 1 <= Len(l) /\ SubSeq(l, 1, Len(l)) = l
    <3>1. l \in Seq(Words) /\ Len(l) = Len(c) + Len(a) /\ Len(c) \in Nat \ {0} /\ Len(a) \in Nat
      BY <2>3
    <3> HIDE DEF l
    <3> QED
      BY <3>1
  <2>5. ScanBy(l, off)[1][m] # Wrong
    <3>1. l = c \o a /\ 1 \in Nat \ {0}
      OBVIOUS
    <3> HIDE DEF l
    <3> QED
      BY <2>2, <2>4, <3>1
  <2> HIDE DEF l
  <2>6. Lookup(l, m, off) # Wrong
    BY <2>4, <2>5, ScanFrom
  <2>7. Dispatch(l, m, off) # Wrong
    BY <2>6, Kinds DEF Dispatch
  <2> QED
    BY <2>7 DEF l
<1> QED
  BY <1>1, <1>2 DEF Completions

LEMMA NoCommandIsUp == ".." \notin Word
<1>1. \A name, pars : C(name, pars).name = name
  BY DEF C
<1> DEFINE IsUp(c) == c.name = ".."
<1>2. \A name, pars : IsUp(C(name, pars)) => name = ".."
  BY <1>1
<1>3. (\A m \in Menu : \A c \in Commands[m] : ~IsUp(c)) /\ \A c \in Globals : ~IsUp(c)
  <2> HIDE DEF IsUp
  <2>1. \A c \in Commands["cli"] : ~IsUp(c)
    BY <1>2 DEF Commands
  <2>2. (\A c \in Commands["sub"] : ~IsUp(c)) /\ \A c \in Commands["subsub"] : ~IsUp(c)
    BY <1>2 DEF Commands
  <2>3. \A c \in Globals : ~IsUp(c)
    BY <1>2 DEF Globals
  <2> QED
    BY <2>1, <2>2, <2>3 DEF Menu
<1>4. ".." \notin Menu
  BY DEF Menu
<1> QED
  BY <1>3, <1>4 DEF Word

\* For the empty line every menu that is near is offered by its name.
LEMMA NearMenusAreOffered ==
    ASSUME NEW l \in Seq(Words), Len(l) = 1, l[1] = NoWord, NEW y \in Menu, NEW offers,
           NEW names, names \subseteq Names(y)
    PROVE  <<y>> \in Under(l, y, names, offers)
<1>1. ASSUME NEW n \in names PROVE ~StartsWith(l[1], n)
  <2>1. n # NoWord /\ NoWord # "subsub"
    <3>1. "subsub" \in Menu /\ \A x \in Menu : x # NoWord
      BY Zenon DEF Menu, NoWord
    <3> QED
      BY <3>1, NamesAreWords
  <2> QED
    BY <2>1, StartsAreNames
<1>2. {n \in names : StartsWith(l[1], n)} = {}
  BY <1>1
<1>3. StartsWith(y, NoWord)
  BY DEF StartsWith
<1> QED
  BY <1>2, <1>3, Zenon DEF Under

LEMMA ScanOne ==
    ASSUME NEW line \in Seq(Words), line # <<>>, SubSeq(line, 1, Len(line)) = line,
           NEW m \in Menu, NEW off
    PROVE  Lookup(line, m, off) = Scan(line, m, off, ScanBy(line, off)[2])
<1>1. Lookup(line, m, off) = ScanBy(line, off)[1][m]
  BY ScanFrom
<1>2. 1 \in 1..Len(line) /\ 1 + 1 = 2
  OBVIOUS
<1>3. ScanBy(line, off)[1][m]
        = Scan(SubSeq(line, 1, Len(line)), m, off, ScanBy(line, off)[1 + 1])
  BY <1>2, ScanFrom
<1> QED
  BY <1>1, <1>2, <1>3

LEMMA WordsAreOffered ==
    ASSUME NEW m \in Menu, NEW off, NEW w \in Word, Dispatch(<<w>>, m, off) # Wrong
    PROVE  <<w>> \in Completions(<<NoWord>>, m, off)
<1> DEFINE l == <<NoWord>>
           alone == <<w>>
           offers == OffersBy(l, off)
           next == ScanBy(alone, off)[2]
           found == {IF Len(alone) = 1 THEN Goto(x) ELSE next[x] : x \in Enters(w, m)}
<1>1. /\ alone \in Seq(Words) /\ alone # <<>> /\ Len(alone) = 1 /\ Head(alone) = w /\ alone[1] = w
      /\ SubSeq(alone, 1, Len(alone)) = alone
  <2>1. w \in Words
    BY DEF Words
  <2>2. alone \in Seq(Words) /\ alone # <<>>
    BY <2>1
  <2>3. Len(alone) = 1 /\ Head(alone) = w /\ alone[1] = w
    OBVIOUS
  <2>4. SubSeq(alone, 1, Len(alone)) = alone
    <3>1. \A s \in Seq(Words) : SubSeq(s, 1, Len(s)) = s
      OBVIOUS
    <3> QED
      BY <2>2, <3>1
  <2> QED
    BY <2>2, <2>3, <2>4
<1>2. l \in Seq(Words) /\ l # <<>> /\ Len(l) = 1 /\ l[1] = NoWord
  <2>1. l \in Seq(Words)
    BY DEF Words
  <2>2. Len(l) = 1 /\ l[1] = NoWord /\ Len(<<>>) = 0
    OBVIOUS
  <2> QED
    BY <2>1, <2>2
<1> HIDE DEF l, alone, offers
<1>3. \A d, o : d.name \notin o => Offered(d, l, o)
  BY <1>2 DEF Offered, StartsWith
<1>4. CASE \E d \in Globals : Takes(d, alone, {})
  <2>1. PICK d \in Globals : d.name = w
    BY <1>1, <1>4 DEF Takes
  <2>2. Offered(d, l, {})
    BY <1>3
  <2>3. <<w>> \in Completions(l, m, off)
    BY <2>1, <2>2 DEF Completions
  <2> QED
    BY <2>3 DEF l
<1>5. CASE ~\E d \in Globals : Takes(d, alone, {})
  <2>1. Dispatch(alone, m, off) # Wrong
    BY DEF alone
  <2>2. Lookup(alone, m, off) # Wrong
    BY <1>5, <2>1 DEF Dispatch
  <2>3. MenuOffers(l, m, off) = Offer(l, m, off, offers)
    <3>1. l \in Rests(l)
      BY <1>2, RestsAreClosed
    <3> QED
      BY <1>2, <3>1, OffersFrom DEF offers
  <2>4. Lookup(alone, m, off) = Scan(alone, m, off, next)
    BY <1>1, ScanOne
  <2> HIDE DEF next
  <2>5. CASE \E d \in Commands[m] : Takes(d, alone, off)
    <3>1. PICK d \in Commands[m] : d.name = w /\ d.name \notin off
      BY <1>1, <2>5 DEF Takes
    <3>2. Offered(d, l, off)
      BY <1>3, <3>1
    <3>3. <<w>> \in Offer(l, m, off, offers)
      BY <3>1, <3>2 DEF Offer
    <3>4. <<w>> \in Completions(l, m, off)
      BY <2>3, <3>3 DEF Completions
    <3> QED
      BY <3>4 DEF l
  <2>6. CASE ~\E d \in Commands[m] : Takes(d, alone, off)
    <3>1. Scan(alone, m, off, next) = FirstOf(found)
      BY <1>1, <2>6 DEF Scan
    <3>2. FirstOf(found) # Wrong
      BY <2>2, <2>4, <3>1
    <3>3. PICK x : x \in Enters(w, m)
      <4>1. found # {}
        BY <3>2 DEF FirstOf
      <4> QED
        BY <4>1
    <3>4. CASE x \in Child(m) /\ w = x
      <4>1. x \in Menu /\ {x} \subseteq Names(x)
        BY <3>4, MenusAreNested DEF Names
      <4>2. <<x>> \in Under(l, x, {x}, offers)
        BY <1>2, <4>1, NearMenusAreOffered
      <4>3. <<x>> \in Offer(l, m, off, offers)
        BY <3>4, <4>2 DEF Offer
      <4>4. <<w>> \in Completions(l, m, off)
        BY <2>3, <3>4, <4>3 DEF Completions
      <4> QED
        BY <4>4 DEF l
    <3>5. CASE x \in {Parent[m]} \ {NoMenu} /\ w \in Names(x)
      <4>1. x \in Menu
        BY <3>5, MenusAreNested
      <4>2. w = x
        BY <3>5, NoCommandIsUp DEF Names
      <4>3. <<x>> \in Under(l, x, Names(x), offers)
        BY <1>2, <4>1, NearMenusAreOffered
      <4>4. <<x>> \in Offer(l, m, off, offers)
        BY <3>5, <4>3 DEF Offer
      <4>5. <<w>> \in Completions(l, m, off)
        BY <2>3, <4>2, <4>4 DEF Completions
      <4> QED
        BY <4>5 DEF l
    <3> QED
      BY <3>3, <3>4, <3>5 DEF Enters
  <2> QED
    BY <2>5, <2>6
<1> QED
  BY <1>4, <1>5

LEMMA MatchingHolds == ASSUME NEW m \in Menu, NEW off PROVE Matching(m, off)
<1>1. TypedLines \subseteq Seq(Words) \ {<<>>}
  <2>1. Word \cup {NoWord, ".."} \subseteq Words /\ Menu \cup {".."} \subseteq Words
    BY MenusAreWords DEF Words
  <2> QED
    <3>1. \A w \in Words : <<w>> \in Seq(Words) \ {<<>>}
      OBVIOUS
    <3>2. \A v \in Words, w \in Words : <<v, w>> \in Seq(Words) \ {<<>>}
      OBVIOUS
    <3> DEFINE Lasts == Word \cup {NoWord, ".."}
               Firsts == Menu \cup {".."}
    <3>3. \A t \in TypedLines : \/ \E w \in Lasts : t = <<w>>
                                \/ \E v \in Firsts, w \in Lasts : t = <<v, w>>
      BY DEF TypedLines
    <3>4. Lasts \subseteq Words /\ Firsts \subseteq Words
      BY <2>1
    <3> HIDE DEF Lasts, Firsts
    <3>5. ASSUME NEW t \in TypedLines PROVE t \in Seq(Words) \ {<<>>}
      <4>1. CASE \E w \in Lasts : t = <<w>>
        BY <3>1, <3>4, <4>1
      <4>2. CASE \E v \in Firsts, w \in Lasts : t = <<v, w>>
        BY <3>2, <3>4, <4>2
      <4> QED
        BY <3>3, <4>1, <4>2
    <3> QED
      BY <3>5
<1>2. ASSUME NEW line \in TypedLines, NEW c \in Completions(line, m, off)
      PROVE  \E a \in Arguments : Dispatch(c \o a, m, off) # Wrong
  BY <1>1, CompletionsRun
<1> QED
  BY <1>2, WordsAreOffered DEF Matching

\* An empty entry ends a recall: the line that Feed comes to has words.
LEMMA RecallFindsWords ==
    ASSUME NEW size, NEW r, r = [history |-> r.history, line |-> r.line, end |-> r.end],
           r.line # <<>>
    PROVE  Recall(r, size).line # <<>>
<1> DEFINE f == ForgetLatest(r.history)
           id == Number[r.line[2]]
<1>1. \A g, e : [r EXCEPT !.history = g, !.end = e].line = r.line
  OBVIOUS
<1>2. \A g, item : [r EXCEPT !.history = g, !.line = item].line = item
  OBVIOUS
<1> HIDE DEF f, id
<1>3. CASE OutOfRange(f, id)
  BY <1>1, <1>3 DEF Recall, f, id
<1>4. CASE ~OutOfRange(f, id) /\ f.buffer = <<>>
  BY <1>1, <1>4 DEF Recall, f, id
<1>5. CASE ~OutOfRange(f, id) /\ f.buffer # <<>> /\ At(f, id) = <<>>
  BY <1>1, <1>5 DEF Recall, f, id
<1>6. CASE ~OutOfRange(f, id) /\ f.buffer # <<>> /\ At(f, id) # <<>>
  <2>1. Recall(r, size) = [r EXCEPT !.history = NewCommand(f, size, At(f, id)), !.line = At(f, id)]
    BY <1>6 DEF Recall, f, id
  <2> QED
    BY <1>2, <1>6, <2>1
<1> QED
  BY <1>3, <1>4, <1>5, <1>6

LEMMA FeedFindsWords ==
    ASSUME NEW X, NEW size \in Nat \ {0}, NEW h, Sound(h, size, X),
           NEW line \in X, line # <<>>
    PROVE  Feed(h, size, line).line # <<>>
<1> DEFINE fed == FedBy(h, size, line)
           S == {n \in Nat : Runs(fed[n], h, size, X) /\ fed[n].line # <<>>}
<1>1. /\ Feed(h, size, line) = fed[MaxRecalls]
      /\ fed[0] = Start(h, size, line)
      /\ \A n \in 1..MaxRecalls : fed[n] = Follow(fed[n - 1], size)
  BY FedFrom
<1>2. MaxRecalls \in Nat
  BY ShellAssumption DEF ShellAssumption
<1>3. h \in Histories(X)
  BY DEF Sound
<1> HIDE DEF fed
<1>4. 0 \in S
  <2>1. Runs(Start(h, size, line), h, size, X)
    BY StartRuns
  <2>2. Start(h, size, line).line = line
    BY DEF Start
  <2> QED
    BY <1>1, <2>1, <2>2
<1>5. ASSUME NEW n \in 1..MaxRecalls, n - 1 \in S PROVE n \in S
  <2> DEFINE r == fed[n - 1]
  <2>1. Runs(r, h, size, X) /\ r.line # <<>>
    BY <1>5
  <2>2. fed[n] = Follow(r, size) /\ n \in Nat
    BY <1>1, <1>2
  <2> HIDE DEF r
  <2>3. CASE r.end = "no" /\ IsRecall(r.line)
    <3>1. Follow(r, size) = Recall(r, size)
      BY <2>3 DEF Follow
    <3>2. Runs(Recall(r, size), h, size, X)
      BY <1>3, <2>1, <2>3, RecallRuns
    <3>3. r = [history |-> r.history, line |-> r.line, end |-> r.end]
      BY <2>1 DEF Runs
    <3>4. Recall(r, size).line # <<>>
      BY <2>1, <3>3, RecallFindsWords
    <3> QED
      BY <2>2, <3>1, <3>2, <3>4
  <2>4. CASE ~(r.end = "no" /\ IsRecall(r.line))
    BY <2>1, <2>2, <2>4 DEF Follow
  <2> QED
    BY <2>3, <2>4
<1> HIDE DEF S
<1>6. MaxRecalls \in S
  <2>1. \A n \in 0..MaxRecalls : n \in S
    BY <1>2, <1>4, <1>5, CountingUp
  <2> QED
    BY <1>2, <2>1
<1> QED
  BY <1>1, <1>6 DEF S

\* Where the sessions are, and what can be off.
MenuInv ==
    /\ menu \in [Session -> Menu]
    /\ disabled \subseteq {"color", "nocolor"}

LEMMA ExecuteKeepsMenus ==
    ASSUME MenuInv, NEW s \in Session, NEW r, r.line \in Lines, Execute(s, r)
    PROVE  MenuInv'
<1> DEFINE answer == AnswerTo(r.line, menu[s])
<1>1. menu[s] \in Menu /\ menu \in [Session -> Menu] /\ disabled \subseteq {"color", "nocolor"}
  BY DEF MenuInv
<1>2. r.line \in Seq(STRING) /\ r.line # <<>>
  BY ShellAssumption DEF ShellAssumption
<1>3. Leads(answer)
  <2>1. Leads(Dispatch(r.line, menu[s], Off))
    BY <1>1, <1>2, DispatchLeads
  <2>2. Leads(Exception)
    BY Zenon DEF Leads, Exception
  <2> QED
    BY <2>1, <2>2 DEF AnswerTo
<1>4. menu' = [menu EXCEPT ![s] = IF answer.kind = "goto" THEN answer.menu ELSE menu[s]]
      /\ MenuEffect(answer)
  BY DEF Execute
<1> HIDE DEF answer
<1>5. menu' \in [Session -> Menu]
  BY <1>1, <1>3, <1>4 DEF Leads
<1>6. disabled' \in {disabled, {"color"}, {"nocolor"}}
  BY <1>4 DEF MenuEffect, menuVars
<1> QED
  BY <1>1, <1>5, <1>6 DEF MenuInv

LEMMA MenusStay == IInv /\ MenuInv /\ [Next]_vars => MenuInv'
<1> SUFFICES ASSUME IInv, MenuInv, [Next]_vars PROVE MenuInv'
  OBVIOUS
<1>1. CASE UNCHANGED <<menu, disabled>>
  BY <1>1 DEF MenuInv
<1>2. ASSUME NEW s \in Session, NEW line \in Lines \cup {edit[s]}, Enter(s, line)
      PROVE  MenuInv'
  <2> DEFINE r == Feed(history[s], HistorySize[s], line)
  <2>1. CASE r.end = "no" /\ ~IsRecall(r.line)
    <3>1. line \in Line /\ line # <<>>
      BY <1>2 DEF IInv, TInv, Line, Enter
    <3>2. Sound(history[s], HistorySize[s], Line) /\ HistorySize[s] \in Nat \ {0}
      BY SizesArePositive DEF IInv, HistoryInv
    <3>3. Runs(r, history[s], HistorySize[s], Line)
      BY <3>1, <3>2, FeedRuns
    <3>4. r.line # <<>>
      BY <3>1, <3>2, FeedFindsWords
    <3>5. Execute(s, r)
      BY <1>2, <2>1 DEF Enter
    <3> HIDE DEF r
    <3>6. r.line \in Lines
      BY <3>3, <3>4 DEF Runs, Line
    <3> QED
      BY <3>5, <3>6, ExecuteKeepsMenus
  <2>2. CASE ~(r.end = "no" /\ ~IsRecall(r.line))
    BY <1>1, <1>2, <2>2 DEF Enter, menuVars
  <2> QED
    BY <2>1, <2>2
<1>3. ASSUME NEW s \in Session, Open(s) PROVE MenuInv'
  BY <1>1, <1>3 DEF Open, menuVars
<1>4. ASSUME NEW s \in Session, KeyPressed(s) PROVE MenuInv'
  <2>1. CASE EnterNothing(s)
    BY <1>1, <2>1 DEF EnterNothing, menuVars
  <2>2. ASSUME NEW line \in Drafts \cup {edit[s]}, Up(s, line) PROVE MenuInv'
    BY <1>1, <2>2 DEF Up, menuVars
  <2>3. CASE Down(s)
    BY <1>1, <2>3 DEF Down, menuVars
  <2>4. CASE Eof(s)
    BY <1>1, <2>4 DEF Eof, menuVars
  <2> QED
    BY <1>2, <1>4, <2>1, <2>2, <2>3, <2>4 DEF KeyPressed
<1>5. CASE UNCHANGED vars
  BY <1>1, <1>5 DEF vars, sessionVars, menuVars
<1> QED
  BY <1>3, <1>4, <1>5 DEF Next

-----------------------------------------------------------------------------
(* The theorems.                                                            *)

\* The index that previous and next move is always that of an entry, and 0
\* when the user does not browse: the assertions of history.h on mode, buffer
\* and current hold whatever keys are pressed, recalls and full histories included.
THEOREM EntriesExist == Spec => []BrowsedEntryExists
<1>1. IInv => BrowsedEntryExists
  BY DEF IInv, HistoryInv, Sound, BrowsedEntryExists
<1> QED
  BY <1>1, InvHolds, PTL

\* The count of commands that GetCommands trusts (history.h) is never smaller
\* than the number of a session's own commands that are still listed, though
\* recalls and repeated lines record several lines or none for one command: an
\* exit stores each of them.
THEOREM CommandsAreStored == Spec => []OwnCommandsAreStored
<1>1. IInv => OwnCommandsAreStored
  <2> SUFFICES ASSUME IInv, NEW s \in Session
               PROVE  Len(GetCommands(history[s])) >= OwnCommands(s)
    BY DEF OwnCommandsAreStored
  <2> DEFINE h == history[s]
             kept == Len(h.buffer) - Draft(h)
  <2>1. /\ Sound(h, HistorySize[s], Line) /\ h \in Histories(Line)
        /\ NextId(h) <= loaded[s] + h.commands /\ loaded[s] \in Nat
    BY DEF IInv, TInv, HistoryInv
  <2>2. Len(GetCommands(h)) = IF h.commands < kept THEN h.commands ELSE kept
    BY <2>1, CommandsGot
  <2>3. /\ Len(h.buffer) \in Nat /\ h.commands \in Nat /\ h.idOfOldest \in Nat
        /\ Draft(h) \in 0..1
    BY <2>1, FieldsAreNumbers
  <2> DEFINE entered == h.idOfOldest + Len(h.buffer) - loaded[s] - Draft(h)
  <2>4. OwnCommands(s) = IF entered < kept THEN entered ELSE kept
    BY DEF OwnCommands, Draft
  <2>5. entered \in Int /\ kept \in Int /\ entered <= h.commands
    <3>1. h.idOfOldest + Len(h.buffer) - Draft(h) <= loaded[s] + h.commands
      BY <2>1 DEF NextId
    <3>2. loaded[s] \in Nat
      BY <2>1
    <3> HIDE DEF h
    <3>3. \A x, y, l, c \in Nat : x + y - Draft(h) <= l + c =>
            x + y - l - Draft(h) \in Int /\ y - Draft(h) \in Int /\ x + y - l - Draft(h) <= c
      BY <2>3
    <3> QED
      BY <2>3, <3>1, <3>2, <3>3
  <2> HIDE DEF entered, kept
  <2> QED
    BY <2>2, <2>3, <2>4, <2>5
<1> QED
  BY <1>1, InvHolds, PTL

\* The buffer, index and mode of history.h implement a numbered list: every
\* key of every session is a step of HistorySpec or leaves its list alone, so no
\* entry that stays listed changes its number or, but for edits, its text.
THEOREM HistoriesFollowTheirSpec == Spec => HistoriesAreNumberedLists
<1>1. Init => \A s \in Session : Listed(s)!Init
  <2> SUFFICES ASSUME Init, NEW s \in Session PROVE Listed(s)!Init
    OBVIOUS
  <2>1. /\ history[s].buffer = <<>> /\ history[s].idOfOldest = 0 /\ history[s].browsing = FALSE
    BY DEF Init, NewHistory
  <2>2. Reverse(<<>>) \in Seq(Line) /\ Len(Reverse(<<>>)) = 0
    <3>1. <<>> \in Seq(Line) /\ Len(<<>>) = 0
      OBVIOUS
    <3> QED
      BY <3>1, ReversedSequence
  <2>3. Reverse(<<>>) = <<>>
    BY <2>2
  <2> QED
    BY <2>1, <2>3 DEF Listed!Init
<1>2. IInv /\ [Next]_vars => [\A s \in Session : [Listed(s)!Next]_(Listed(s)!specVars)]_vars
  BY NextInv DEF ListsStep
<1> QED
  BY <1>1, <1>2, InvHolds, PTL DEF Spec, HistoriesAreNumberedLists

\* ExecFromHistory (cli.h) answers "! id" as the line listed under id, though
\* the recall is itself recorded before id is looked up and forgotten after:
\* the numbers it shifts in between lead to the same entry, unless recording the
\* recall pushed that entry out of a full history.
THEOREM RecallsRunWhatIsListed == Spec => RecallRunsListedLine
<1>1. ASSUME IInv, NEW s \in Session, NEW n \in DOMAIN Number PROVE RunsListedLine(s, n)
  <2> DEFINE h == history[s]
             id == Number[n]
             line == <<"!", n>>
             size == HistorySize[s]
             X == Line \cup {line}
             q == Recall(Start(h, size, line), size)
             r == Feed(h, size, line)
             entry == Entry(h, id)
             pushedOut == /\ id = h.idOfOldest /\ Len(h.buffer) = size
                          /\ ~h.browsing /\ h.buffer[1] # line
  <2> SUFFICES ASSUME Enter(s, line), h.idOfOldest <= id,
                      id < h.idOfOldest + Len(h.buffer) - Draft(h)
               PROVE  said'[s] = IF pushedOut THEN Exception
                                 ELSE IF entry = <<>> THEN Nothing
                                 ELSE IF IsRecall(entry) THEN said'[s]
                                 ELSE AnswerTo(entry, menu[s])
    BY DEF RunsListedLine, Draft
  <2>1. Sound(h, size, X) /\ size \in Nat \ {0} /\ line \in X
    <3>1. Sound(h, size, Line) /\ size \in Nat \ {0}
      BY <1>1, SizesArePositive DEF IInv, HistoryInv
    <3> HIDE DEF h, size, line
    <3>2. h \in Histories(Line)
      BY <3>1 DEF Sound
    <3>3. \A b \in Seq(Line) : b \in Seq(X)
      OBVIOUS
    <3> HIDE DEF X
    <3>4. h \in Histories(X)
      BY <3>2, <3>3 DEF Histories
    <3> QED
      BY <3>1, <3>4 DEF Sound, X
  <2>2. /\ pushedOut => q.end = "exception"
        /\ ~pushedOut /\ entry = <<>> => q.end = "nothing"
        /\ ~pushedOut /\ entry # <<>> /\ ~IsRecall(entry) => q.end = "no" /\ q.line = entry
    <3> HIDE DEF h, size, X
    <3> QED
      BY <1>1, <2>1, FirstRecall, Zenon
  <2>3. q.end # "no" \/ ~IsRecall(q.line) => r = q
    BY RecallsAreRecalls, FirstRecallDecides
  <2>4. /\ (r.end = "no" /\ ~IsRecall(r.line)) => Execute(s, r)
        /\ r.end # "no" => Answer(s, IF r.end = "exception" THEN Exception ELSE Nothing)
    BY DEF Enter
  <2>5. \A a : Answer(s, a) => said'[s] = a
    BY <1>1 DEF Answer, IInv, TInv
  <2> HIDE DEF q, r, entry
  <2>6. CASE pushedOut
    <3>1. r.end = "exception"
      BY <2>2, <2>3, <2>6
    <3>2. said'[s] = Exception
      BY <2>4, <2>5, <3>1
    <3> QED
      BY <2>6, <3>2
  <2>7. CASE ~pushedOut /\ entry = <<>>
    <3>1. r.end = "nothing"
      BY <2>2, <2>3, <2>7
    <3>2. said'[s] = Nothing
      BY <2>4, <2>5, <3>1
    <3> QED
      BY <2>7, <3>2 DEF entry
  <2>8. CASE ~pushedOut /\ entry # <<>> /\ ~IsRecall(entry)
    <3>1. r.end = "no" /\ r.line = entry
      BY <2>2, <2>3, <2>8
    <3>2. Execute(s, r)
      BY <2>4, <2>8, <3>1
    <3>3. said'[s] = AnswerTo(entry, menu[s])
      BY <2>5, <3>1, <3>2 DEF Execute
    <3> QED
      BY <2>8, <3>3 DEF entry
  <2>9. CASE ~pushedOut /\ entry # <<>> /\ IsRecall(entry)
    BY <2>9 DEF entry
  <2> QED
    BY <2>6, <2>7, <2>8, <2>9
<1>2. IInv /\ [Next]_vars =>
        [\A s \in Session, n \in DOMAIN Number : RunsListedLine(s, n)]_vars
  BY <1>1
<1> QED
  BY <1>2, InvHolds, PTL DEF Spec, RecallRunsListedLine

\* The two recursions of cli.h over the menus agree: whatever a session is
\* offered for a line that ScanCmds could be given, arguments make it one that
\* ScanCmds accepts, and a word that it accepts alone is offered, in every menu
\* a session can be in and whatever commands the handlers disabled or removed.
THEOREM CompletionsCanBeRun == Spec => []CompletionsMatchDispatch
<1>1. Init => MenuInv
  BY DEF Init, MenuInv, Menu
<1>2. IInv /\ MenuInv /\ [Next]_vars => MenuInv'
  BY MenusStay
<1>3. MenuInv => CompletionsMatchDispatch
  <2> SUFFICES ASSUME MenuInv, NEW s \in Session PROVE <<menu[s], Off, TRUE>> \in MatchingMenus
    BY DEF CompletionsMatchDispatch
  <2>1. menu[s] \in Menu /\ Off \in SUBSET {"color", "nocolor"}
    BY DEF MenuInv, Off
  <2>2. Matching(menu[s], Off) = TRUE
    BY <2>1, MatchingHolds DEF Matching
  <2> QED
    <3>1. \A m \in Menu, off \in SUBSET {"color", "nocolor"} :
            <<m, off, Matching(m, off)>> \in MatchingMenus
      BY DEF MatchingMenus
    <3>2. <<menu[s], Off, Matching(menu[s], Off)>> \in MatchingMenus
      BY <2>1, <3>1
    <3> QED
      BY <2>2, <3>2
<1> QED
  BY <1>1, <1>2, <1>3, InvHolds, PTL DEF Spec

=============================================================================
