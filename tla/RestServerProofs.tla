--------------------------- MODULE RestServerProofs ---------------------------
(***************************************************************************)
(* The safety properties of RestServer, for any clients, requests and      *)
(* number of descriptors, and however the requests are cut.                *)
(*                                                                         *)
(* The order of the answers follows from that of the blank lines: those in *)
(* the buffer come before those on the way, and every answer is to a blank *)
(* line that has left both.  What a waiting client is told follows from    *)
(* where its only request can be.                                          *)
(***************************************************************************)
EXTENDS RestServer, SequenceTheorems, FiniteSetTheorems, WellFoundedInduction, TLAPS

Part == {"head", "blank", "body"}
AnyPiece == [n : Nat, part : Part]
AnyAnswer == [n : Nat, status : {200, 400, 404, 405}]

TInv ==
    /\ phase \in {"running", "stopped"}
    /\ accepting \in BOOLEAN
    /\ client \in [Client -> {"idle", "connected", "closed", "reset"}]
    /\ sent \in [Client -> Seq(AllKinds)]
    /\ flight \in [Client -> Seq(AnyPiece)]
    /\ answers \in [Client -> Seq(AnyAnswer)]
    /\ open \in SUBSET Client
    /\ pc \in [Client -> {"none", "start", "read", "body", "write", "done"}]
    /\ buf \in [Client -> Seq(AnyPiece)]
    /\ reply \in [Client -> Seq(AnyAnswer)]

\* The map, and that nothing is accepted after stop().
MapInv ==
    /\ connections = open
    /\ phase = "stopped" => open = {} /\ ~accepting

\* A connection that was accepted has a client.
Accepted(c) == pc[c] # "none" => client[c] # "idle"

-----------------------------------------------------------------------------
(* Least elements: of a set of numbers, and of the blank lines of a buffer. *)

LEMMA LessIsWellFounded ==
    \E R : IsWellFoundedOn(R, Nat) /\ \A k, m \in Nat : <<k, m>> \in R <=> k < m
<1>1. IsWellFoundedOn(OpToRel(<, Nat), Nat)
  BY NatLessThanWellFounded, Zenon
<1>2. OpToRel(<, Nat) = {p \in Nat \X Nat : p[1] < p[2]}
  BY DEF OpToRel
<1>3. IsWellFoundedOn({p \in Nat \X Nat : p[1] < p[2]}, Nat)
  BY <1>1, <1>2, Zenon
<1> QED
  BY <1>3

LEMMA LeastElement ==
    ASSUME NEW S, S \subseteq Nat, S # {}
    PROVE  \E x \in S : \A y \in S : x <= y
<1>1. PICK R : IsWellFoundedOn(R, Nat) /\ \A k, m \in Nat : <<k, m>> \in R <=> k < m
  BY LessIsWellFounded
<1>2. \E x \in S : \A y \in S : ~(<<y, x>> \in R)
  <2>1. IsWellFoundedOn(R, Nat)
    BY <1>1, Zenon
  <2> HIDE <1>1
  <2>2. \A T : T \subseteq Nat /\ T # {} => \E x \in T : \A y \in T : ~(<<y, x>> \in R)
    BY <2>1, WFMin
  <2> QED
    BY <2>2, Zenon
<1>3. PICK x \in S : \A y \in S : ~(<<y, x>> \in R)
  BY <1>2
<1>4. ASSUME NEW y \in S PROVE x <= y
  <2>1. y \in Nat /\ x \in Nat
    OBVIOUS
  <2>2. ~(<<y, x>> \in R)
    BY <1>3
  <2>3. ~(y < x)
    BY <1>1, <2>1, <2>2
  <2> QED
    BY <2>1, <2>3
<1> QED
  BY <1>4

LEMMA MinIsLeast ==
    ASSUME NEW S, S \subseteq Nat, S # {}
    PROVE  Min(S) \in S /\ \A y \in S : Min(S) <= y
BY LeastElement DEF Min

LEMMA HeadEndIsFirst ==
    ASSUME NEW b \in Seq(AnyPiece), BlankAt(b) # {}
    PROVE  HeadEnd(b) \in BlankAt(b) /\ \A j \in BlankAt(b) : HeadEnd(b) <= j
<1>1. BlankAt(b) \subseteq Nat
  BY LenProperties DEF BlankAt
<1> QED
  BY <1>1, LeastElement DEF HeadEnd

\* Blank lines that are at 2, or two after another one, are at 2, 4, 6...
LEMMA EvenEnds ==
    ASSUME NEW len \in Nat, NEW E, E \subseteq 1..len,
           \A i \in E : i > 1 /\ i - 2 \in E \cup {0}
    PROVE  Cardinality(E) \in Nat /\ \A k \in 1..Cardinality(E) : 2 * k \in E
<1> DEFINE Missing == {k \in Nat : k > 0 /\ 2 * k \notin E}
<1>1. Missing \subseteq Nat /\ Missing # {}
  <2>1. len + 1 \in Missing
    OBVIOUS
  <2> QED
    BY <2>1
<1>2. PICK k0 \in Missing : \A k \in Missing : k0 <= k
  <2> HIDE DEF Missing
  <2> QED
    BY <1>1, LeastElement
<1>3. PICK m \in Nat : m = k0 - 1
  OBVIOUS
<1>4. \A k \in 1..m : 2 * k \in E
  BY <1>2, <1>3
<1>5. 2 * (m + 1) \notin E
  BY <1>2, <1>3
<1> DEFINE Odd == {i \in E : \A k \in 1..m : i # 2 * k}
<1>6. Odd = {}
  <2> SUFFICES ASSUME Odd # {} PROVE FALSE
    OBVIOUS
  <2>1. Odd \subseteq Nat
    <3>1. E \subseteq Nat
      OBVIOUS
    <3> QED
      BY <3>1
  <2>2. PICK i \in Odd : \A j \in Odd : i <= j
    <3> HIDE DEF Odd
    <3> QED
      BY <2>1, LeastElement
  <2>3. i \in E /\ i \in Nat /\ i > 1 /\ i - 2 \in E \cup {0}
    <3>1. i \in E
      OBVIOUS
    <3>2. i \in 1..len
      BY <3>1
    <3> QED
      BY <3>1, <3>2
  <2>4. i - 2 \notin Odd
    BY <2>2, <2>3
  <2>5. PICK k \in 0..m : i - 2 = 2 * k
    <3>1. CASE i - 2 = 0
      BY <3>1
    <3>2. CASE i - 2 \in E
      <4>1. PICK k \in 1..m : i - 2 = 2 * k
        BY <2>4, <3>2
      <4> QED
        BY <4>1
    <3> QED
      BY <2>3, <3>1, <3>2
  <2>6. i = 2 * (k + 1)
    BY <2>3, <2>5
  <2>7. k + 1 \in 1..m
    BY <1>5, <2>3, <2>6
  <2> QED
    BY <2>6, <2>7
<1>7. \A i \in E : \E k \in 1..m : i = 2 * k
  BY <1>6
<1>8. Cardinality(E) = m
  <2> DEFINE f == [k \in 1..m |-> 2 * k]
  <2>1. f \in [1..m -> E]
    BY <1>4
  <2>2. \A i \in E : \E k \in 1..m : f[k] = i
    BY <1>7
  <2>3. \A a, b \in 1..m : f[a] = f[b] => a = b
    OBVIOUS
  <2> HIDE DEF f
  <2>4. f \in Surjection(1..m, E)
    BY <2>1, <2>2 DEF Surjection
  <2>5. f \in Injection(1..m, E)
    BY <2>1, <2>3 DEF Injection, IsInjective
  <2>6. IsFiniteSet(1..m) /\ Cardinality(1..m) = m
    BY FS_Interval, SMTT(20)
  <2> QED
    BY <2>4, <2>5, <2>6, FS_Surjection
<1> QED
  BY <1>4, <1>8

-----------------------------------------------------------------------------
(* The order of answers and of blank lines.                                 *)

Ascending(q) == \A i, j \in 1..Len(q) : i < j => q[i].n < q[j].n
BlanksAscend(b) == \A i, j \in BlankAt(b) : i < j => b[i].n < b[j].n
Numbers(q) == {q[i].n : i \in 1..Len(q)}
BlankNumbers(b) == {b[i].n : i \in BlankAt(b)}
Below(S, T) == \A x \in S, y \in T : x < y

\* What is answered to the heads that follow a GET: each once, in their order,
\* or the first that is refused.
LEMMA FollowAnswers ==
    ASSUME NEW c \in Client, NEW rest \in Seq(AnyPiece), BlanksAscend(rest),
           NEW first \in AnyAnswer, \A y \in BlankNumbers(rest) : first.n < y
    PROVE  LET f == Follow(c, rest, first)
           IN  /\ f.answers \in Seq(AnyAnswer)
               /\ Ascending(f.answers)
               /\ Numbers(f.answers) \subseteq {first.n} \cup BlankNumbers(rest)
<1> DEFINE ends == BlankAt(rest)
           parses(i) ==
               /\ i > 1 /\ i - 2 \in ends \cup {0}
               /\ rest[i - 1] = Piece(rest[i].n, "head")
               /\ sent[c][rest[i].n] # "bad"
           refused == {i \in ends : ~parses(i)}
           later == [k \in 1..Cardinality(ends) |-> Answered(rest[2 * k].n, 404)]
<1>1. PICK len \in Nat : len = Len(rest) /\ ends \subseteq 1..len
  BY LenProperties DEF BlankAt
<1>2. \A i \in ends : rest[i] \in AnyPiece /\ rest[i].n \in Nat /\ rest[i].n \in BlankNumbers(rest)
  <2> SUFFICES ASSUME NEW i \in ends
               PROVE  rest[i] \in AnyPiece /\ rest[i].n \in Nat /\ rest[i].n \in BlankNumbers(rest)
    OBVIOUS
  <2>1. rest[i] \in AnyPiece
    BY <1>1
  <2>2. rest[i].n \in Nat
    BY <2>1 DEF AnyPiece
  <2> QED
    BY <2>1, <2>2 DEF BlankNumbers
<1>3. CASE refused = {}
  <2>1. \A i \in ends : i > 1 /\ i - 2 \in ends \cup {0}
    BY <1>3
  <2> HIDE DEF ends
  <2>2. PICK m \in Nat : m = Cardinality(ends) /\ \A k \in 1..m : 2 * k \in ends
    BY <1>1, <2>1, EvenEnds
  <2>3. \A k \in 1..m : Answered(rest[2 * k].n, 404) \in AnyAnswer
    BY <1>2, <2>2 DEF Answered, AnyAnswer
  <2>4. PICK l \in Seq(AnyAnswer) :
          /\ l = later /\ Len(l) = m
          /\ \A k \in 1..m : l[k].n = rest[2 * k].n
    <3>1. PICK l : l = later
      OBVIOUS
    <3>2. l \in [1..m -> AnyAnswer] /\ \A k \in 1..m : l[k].n = rest[2 * k].n
      BY <2>2, <2>3, <3>1 DEF Answered
    <3>3. l \in Seq(AnyAnswer) /\ Len(l) = m
      BY <3>2
    <3> HIDE DEF later
    <3> QED
      BY <3>1, <3>2, <3>3
  <2>5. PICK s \in Seq(AnyAnswer) : s = <<first>> /\ Len(s) = 1 /\ s[1] = first
    <3>1. <<first>> \in Seq(AnyAnswer) /\ Len(<<first>>) = 1 /\ <<first>>[1] = first
      OBVIOUS
    <3> QED
      BY <3>1
  <2>6. PICK a \in Seq(AnyAnswer) :
          /\ a = s \o l /\ Len(a) = m + 1
          /\ \A i \in 1..m + 1 : a[i] = IF i <= 1 THEN s[i] ELSE l[i - 1]
    <3>1. /\ s \o l \in Seq(AnyAnswer) /\ Len(s \o l) = Len(s) + Len(l)
          /\ \A i \in 1..Len(s) + Len(l) :
                (s \o l)[i] = IF i <= Len(s) THEN s[i] ELSE l[i - Len(s)]
      BY ConcatProperties
    <3>2. PICK a \in Seq(AnyAnswer) :
            /\ a = s \o l /\ Len(a) = Len(s) + Len(l)
            /\ \A i \in 1..Len(s) + Len(l) : a[i] = IF i <= Len(s) THEN s[i] ELSE l[i - Len(s)]
      BY <3>1, Zenon
    <3>3. Len(s) = 1 /\ Len(l) = m
      BY <2>4, <2>5
    <3>4. Len(a) = m + 1 /\ \A i \in 1..m + 1 : a[i] = IF i <= 1 THEN s[i] ELSE l[i - 1]
      BY <3>2, <3>3
    <3> QED
      BY <3>2, <3>4, Zenon
  <2>7. a[1].n = first.n /\ \A i \in 2..m + 1 : a[i].n = rest[2 * (i - 1)].n /\ 2 * (i - 1) \in ends
    <3>1. a[1] = first
      BY <2>5, <2>6
    <3>2. ASSUME NEW i \in 2..m + 1
          PROVE  a[i].n = rest[2 * (i - 1)].n /\ 2 * (i - 1) \in ends
      <4>1. i - 1 \in 1..m /\ a[i] = l[i - 1]
        BY <2>6
      <4> QED
        BY <2>2, <2>4, <4>1
    <3> QED
      BY <3>1, <3>2
  <2>8. Ascending(a)
    <3> SUFFICES ASSUME NEW i \in 1..m + 1, NEW j \in 1..m + 1, i < j
                 PROVE  a[i].n < a[j].n
      BY <2>6 DEF Ascending
    <3>1. j \in 2..m + 1
      OBVIOUS
    <3>2. CASE i = 1
      BY <1>2, <2>7, <3>1, <3>2
    <3>3. CASE i # 1
      <4>1. i \in 2..m + 1 /\ 2 * (i - 1) < 2 * (j - 1)
        BY <3>3
      <4>2. rest[2 * (i - 1)].n < rest[2 * (j - 1)].n
        BY <2>7, <3>1, <4>1 DEF BlanksAscend, ends
      <4> QED
        BY <2>7, <3>1, <4>1, <4>2
    <3> QED
      BY <3>2, <3>3
  <2>9. Numbers(a) \subseteq {first.n} \cup BlankNumbers(rest)
    <3> SUFFICES ASSUME NEW i \in 1..m + 1
                 PROVE  a[i].n \in {first.n} \cup BlankNumbers(rest)
      BY <2>6 DEF Numbers
    <3>1. CASE i = 1
      BY <2>7, <3>1
    <3>2. CASE i \in 2..m + 1
      BY <1>2, <2>7, <3>2
    <3> QED
      BY <3>1, <3>2
  <2>10. Follow(c, rest, first) = [answers |-> a, parsed |-> TRUE]
    <3>1. Follow(c, rest, first) = [answers |-> Gathered(<<first>>, later), parsed |-> TRUE]
      BY <1>3, Zenon DEF Follow, ends
    <3>2. Gathered(<<first>>, later) = a
      BY <2>4, <2>5, <2>6, Zenon DEF Gathered
    <3> QED
      BY <3>1, <3>2, Zenon
  <2> QED
    BY <2>8, <2>9, <2>10
<1>4. CASE refused # {}
  <2>1. refused \subseteq Nat /\ refused \subseteq ends
    BY <1>1
  <2>2. PICK i \in ends : i = Min(refused)
    <3> HIDE DEF refused, ends
    <3> QED
      BY <1>4, <2>1, MinIsLeast
  <2>3. PICK a \in Seq(AnyAnswer) :
          a = <<Answered(rest[i].n, 400)>> /\ Len(a) = 1 /\ a[1].n = rest[i].n
    <3>1. PICK x \in AnyAnswer : x = Answered(rest[i].n, 400) /\ x.n = rest[i].n
      <4>1. Answered(rest[i].n, 400) \in AnyAnswer
        BY <1>2 DEF Answered, AnyAnswer
      <4>2. Answered(rest[i].n, 400).n = rest[i].n
        BY DEF Answered
      <4> QED
        BY <4>1, <4>2
    <3>2. <<x>> \in Seq(AnyAnswer) /\ Len(<<x>>) = 1 /\ <<x>>[1] = x
      OBVIOUS
    <3>3. PICK y \in Seq(AnyAnswer) : y = <<x>> /\ Len(y) = 1 /\ y[1] = x
      BY <3>2, Zenon
    <3>4. y = <<Answered(rest[i].n, 400)>> /\ Len(y) = 1 /\ y[1].n = rest[i].n
      BY <3>1, <3>3, Zenon
    <3> QED
      BY <3>4, Zenon
  <2>4. Ascending(a) /\ Numbers(a) \subseteq BlankNumbers(rest)
    BY <1>2, <2>3 DEF Ascending, Numbers
  <2>5. Follow(c, rest, first) = [answers |-> a, parsed |-> FALSE]
    <3>1. Follow(c, rest, first) =
            [answers |-> <<Answered(rest[Min(refused)].n, 400)>>, parsed |-> FALSE]
      BY <1>4, Zenon DEF Follow
    <3> HIDE DEF refused, ends
    <3> QED
      BY <2>2, <2>3, <3>1, Zenon
  <2> QED
    BY <2>4, <2>5
<1> QED
  BY <1>3, <1>4

\* A part of a sequence of pieces has the blank lines that are in it.
LEMMA PartBlanks ==
    ASSUME NEW q \in Seq(AnyPiece), NEW from \in 1..Len(q) + 1, NEW to \in from - 1..Len(q)
    PROVE  LET s == SubSeq(q, from, to)
           IN  /\ s \in Seq(AnyPiece) /\ Len(s) = to - from + 1
               /\ \A i \in 1..to - from + 1 : s[i] = q[i + from - 1]
               /\ BlanksAscend(q) => BlanksAscend(s)
               /\ \A x \in BlankNumbers(s) : \E j \in BlankAt(q) \cap from..to : x = q[j].n
<1>1. PICK s \in Seq(AnyPiece) :
        /\ s = SubSeq(q, from, to) /\ Len(s) = to - from + 1
        /\ \A i \in 1..to - from + 1 : s[i] = q[from + i - 1]
  <2>1. from \in Int /\ to \in Int /\ to >= from - 1
    BY LenProperties
  <2>2. \A i \in from..to : q[i] \in AnyPiece
    BY LenProperties
  <2>3. /\ SubSeq(q, from, to) \in Seq(AnyPiece)
        /\ Len(SubSeq(q, from, to)) = IF from <= to THEN to - from + 1 ELSE 0
        /\ \A i \in 1..to - from + 1 : SubSeq(q, from, to)[i] = q[from + i - 1]
    BY <2>1, <2>2, SubSeqProperties
  <2>4. (IF from <= to THEN to - from + 1 ELSE 0) = to - from + 1
    BY <2>1
  <2> QED
    BY <2>3, <2>4
<1>2. Len(q) \in Nat /\ from \in Nat /\ to \in Int
  BY LenProperties
<1>3. \A i \in BlankAt(s) : i + from - 1 \in BlankAt(q) \cap from..to /\ s[i] = q[i + from - 1]
  BY <1>1, <1>2, SMTT(20) DEF BlankAt
<1>4. ASSUME BlanksAscend(q) PROVE BlanksAscend(s)
  <2> SUFFICES ASSUME NEW i \in BlankAt(s), NEW j \in BlankAt(s), i < j
               PROVE  s[i].n < s[j].n
    BY DEF BlanksAscend
  <2>1. i \in Int /\ j \in Int
    BY <1>1, <1>2 DEF BlankAt
  <2>2. i + from - 1 < j + from - 1
    BY <1>2, <2>1
  <2> QED
    BY <1>3, <1>4, <2>2 DEF BlanksAscend
<1>5. \A x \in BlankNumbers(s) : \E j \in BlankAt(q) \cap from..to : x = q[j].n
  BY <1>3 DEF BlankNumbers
<1>6. \A i \in 1..to - from + 1 : s[i] = q[i + from - 1]
  BY <1>1, <1>2
<1> QED
  BY <1>1, <1>4, <1>5, <1>6

LEMMA JoinedBlanks ==
    ASSUME NEW p \in Seq(AnyPiece), NEW q \in Seq(AnyPiece)
    PROVE  /\ p \o q \in Seq(AnyPiece)
           /\ BlankNumbers(p \o q) \subseteq BlankNumbers(p) \cup BlankNumbers(q)
           /\ BlanksAscend(p) /\ BlanksAscend(q) /\ Below(BlankNumbers(p), BlankNumbers(q))
                => BlanksAscend(p \o q)
<1>1. PICK m \in Nat, n \in Nat : m = Len(p) /\ n = Len(q)
  BY LenProperties
<1>2. PICK s \in Seq(AnyPiece) :
        /\ s = p \o q /\ Len(s) = Len(p) + Len(q)
        /\ \A i \in 1..Len(p) + Len(q) : s[i] = IF i <= Len(p) THEN p[i] ELSE q[i - Len(p)]
  <2>1. /\ p \o q \in Seq(AnyPiece) /\ Len(p \o q) = Len(p) + Len(q)
        /\ \A i \in 1..Len(p) + Len(q) : (p \o q)[i] = IF i <= Len(p) THEN p[i] ELSE q[i - Len(p)]
    BY ConcatProperties
  <2> QED
    BY <2>1, Zenon
<1>3. \A i \in BlankAt(s) :
        \/ i <= m /\ i \in BlankAt(p) /\ s[i] = p[i]
        \/ i > m /\ i - m \in BlankAt(q) /\ s[i] = q[i - m]
  <2> SUFFICES ASSUME NEW i \in BlankAt(s)
               PROVE  \/ i <= m /\ i \in BlankAt(p) /\ s[i] = p[i]
                      \/ i > m /\ i - m \in BlankAt(q) /\ s[i] = q[i - m]
    OBVIOUS
  <2>1. i \in 1..m + n /\ s[i].part = "blank"
    BY <1>1, <1>2 DEF BlankAt
  <2>2. CASE i <= m
    BY <1>1, <1>2, <2>1, <2>2 DEF BlankAt
  <2>3. CASE i > m
    <3>1. s[i] = q[i - m] /\ i - m \in 1..n
      BY <1>1, <1>2, <2>1, <2>3
    <3> QED
      BY <1>1, <2>1, <2>3, <3>1 DEF BlankAt
  <2> QED
    BY <2>1, <2>2, <2>3
<1>4. BlankNumbers(s) \subseteq BlankNumbers(p) \cup BlankNumbers(q)
  BY <1>3 DEF BlankNumbers
<1>5. ASSUME BlanksAscend(p), BlanksAscend(q), Below(BlankNumbers(p), BlankNumbers(q))
      PROVE  BlanksAscend(s)
  <2> SUFFICES ASSUME NEW i \in BlankAt(s), NEW j \in BlankAt(s), i < j
               PROVE  s[i].n < s[j].n
    BY DEF BlanksAscend
  <2>1. i \in Int /\ j \in Int
    BY <1>1, <1>2 DEF BlankAt
  <2>2. CASE j <= m
    BY <1>3, <1>5, <2>1, <2>2 DEF BlanksAscend
  <2>3. CASE i <= m /\ j > m
    <3>1. s[i].n \in BlankNumbers(p)
      <4>1. i \in BlankAt(p) /\ s[i] = p[i]
        BY <1>3, <2>1, <2>3
      <4> QED
        BY <4>1 DEF BlankNumbers
    <3>2. s[j].n \in BlankNumbers(q)
      <4>1. j - m \in BlankAt(q) /\ s[j] = q[j - m]
        BY <1>3, <2>1, <2>3
      <4> QED
        BY <4>1 DEF BlankNumbers
    <3> QED
      BY <1>5, <3>1, <3>2 DEF Below
  <2>4. CASE i > m
    <3>1. i - m < j - m /\ j > m
      BY <2>1, <2>4
    <3>2. /\ i - m \in BlankAt(q) /\ s[i] = q[i - m]
          /\ j - m \in BlankAt(q) /\ s[j] = q[j - m]
      BY <1>3, <2>1, <2>4, <3>1
    <3> QED
      BY <1>5, <3>1, <3>2 DEF BlanksAscend
  <2> QED
    BY <2>1, <2>2, <2>3, <2>4
<1> QED
  BY <1>2, <1>4, <1>5

\* Answers that are written after others.
LEMMA JoinedAnswers ==
    ASSUME NEW p \in Seq(AnyAnswer), NEW q \in Seq(AnyAnswer)
    PROVE  /\ p \o q \in Seq(AnyAnswer)
           /\ Numbers(p \o q) \subseteq Numbers(p) \cup Numbers(q)
           /\ Ascending(p) /\ Ascending(q) /\ Below(Numbers(p), Numbers(q)) => Ascending(p \o q)
<1>1. PICK m \in Nat, n \in Nat : m = Len(p) /\ n = Len(q)
  BY LenProperties
<1>2. PICK s \in Seq(AnyAnswer) :
        /\ s = p \o q /\ Len(s) = Len(p) + Len(q)
        /\ \A i \in 1..Len(p) + Len(q) : s[i] = IF i <= Len(p) THEN p[i] ELSE q[i - Len(p)]
  <2>1. /\ p \o q \in Seq(AnyAnswer) /\ Len(p \o q) = Len(p) + Len(q)
        /\ \A i \in 1..Len(p) + Len(q) : (p \o q)[i] = IF i <= Len(p) THEN p[i] ELSE q[i - Len(p)]
    BY ConcatProperties
  <2> QED
    BY <2>1, Zenon
<1>3. \A i \in 1..m + n :
        \/ i \in 1..m /\ s[i] = p[i]
        \/ i > m /\ i - m \in 1..n /\ s[i] = q[i - m]
  <2> SUFFICES ASSUME NEW i \in 1..m + n
               PROVE  \/ i \in 1..m /\ s[i] = p[i]
                      \/ i > m /\ i - m \in 1..n /\ s[i] = q[i - m]
    OBVIOUS
  <2>1. CASE i <= m
    BY <1>1, <1>2, <2>1
  <2>2. CASE i > m
    BY <1>1, <1>2, <2>2
  <2> QED
    BY <2>1, <2>2
<1>4. Numbers(s) \subseteq Numbers(p) \cup Numbers(q)
  BY <1>1, <1>2, <1>3 DEF Numbers
<1>5. ASSUME Ascending(p), Ascending(q), Below(Numbers(p), Numbers(q))
      PROVE  Ascending(s)
  <2> SUFFICES ASSUME NEW i \in 1..m + n, NEW j \in 1..m + n, i < j
               PROVE  s[i].n < s[j].n
    BY <1>1, <1>2 DEF Ascending
  <2>1. CASE j <= m
    <3>1. i \in 1..m /\ j \in 1..m /\ s[i] = p[i] /\ s[j] = p[j]
      BY <1>3, <2>1
    <3> QED
      BY <1>1, <1>5, <3>1 DEF Ascending
  <2>2. CASE i <= m /\ j > m
    <3>1. /\ i \in 1..Len(p) /\ s[i] = p[i]
          /\ j - m \in 1..Len(q) /\ s[j] = q[j - m]
      BY <1>1, <1>3, <2>2
    <3>2. s[i].n \in Numbers(p) /\ s[j].n \in Numbers(q)
      BY <3>1, Zenon DEF Numbers
    <3> QED
      BY <1>5, <3>2 DEF Below
  <2>3. CASE i > m
    <3>1. /\ i - m < j - m /\ i - m \in 1..n /\ j - m \in 1..n
          /\ s[i] = q[i - m] /\ s[j] = q[j - m]
      BY <1>3, <2>3
    <3> QED
      BY <1>1, <1>5, <3>1 DEF Ascending
  <2> QED
    BY <2>1, <2>2, <2>3
<1> QED
  BY <1>2, <1>4, <1>5

LEMMA PiecesShape ==
    ASSUME NEW n \in Nat, NEW kind
    PROVE  LET p == Pieces(n, kind)
           IN  /\ p \in Seq(AnyPiece) /\ Len(p) = IF kind = "post" THEN 3 ELSE 2
               /\ p[1] = Piece(n, "head") /\ p[2] = Piece(n, "blank")
               /\ kind = "post" => p[3] = Piece(n, "body")
<1>1. PICK s \in Seq(AnyPiece) :
        /\ s = <<Piece(n, "head"), Piece(n, "blank")>> /\ Len(s) = 2
        /\ s[1] = Piece(n, "head") /\ s[2] = Piece(n, "blank")
  <2>1. PICK x \in AnyPiece, y \in AnyPiece : x = Piece(n, "head") /\ y = Piece(n, "blank")
    BY DEF Piece, AnyPiece, Part
  <2>2. <<x, y>> \in Seq(AnyPiece) /\ Len(<<x, y>>) = 2 /\ <<x, y>>[1] = x /\ <<x, y>>[2] = y
    OBVIOUS
  <2> QED
    BY <2>1, <2>2
<1>2. PICK t \in Seq(AnyPiece) :
        /\ t = (IF kind = "post" THEN <<Piece(n, "body")>> ELSE <<>>)
        /\ kind = "post" => Len(t) = 1 /\ t[1] = Piece(n, "body")
        /\ kind # "post" => Len(t) = 0
  <2>1. CASE kind = "post"
    <3>1. PICK x \in AnyPiece : x = Piece(n, "body")
      BY DEF Piece, AnyPiece, Part
    <3>2. <<x>> \in Seq(AnyPiece) /\ Len(<<x>>) = 1 /\ <<x>>[1] = x
      OBVIOUS
    <3> QED
      BY <2>1, <3>1, <3>2
  <2>2. CASE kind # "post"
    <3>1. <<>> \in Seq(AnyPiece) /\ Len(<<>>) = 0
      BY EmptySeq
    <3> QED
      BY <2>2, <3>1
  <2> QED
    BY <2>1, <2>2
<1>3. /\ s \o t \in Seq(AnyPiece) /\ Len(s \o t) = Len(s) + Len(t)
      /\ \A i \in 1..Len(s) + Len(t) : (s \o t)[i] = IF i <= Len(s) THEN s[i] ELSE t[i - Len(s)]
  BY ConcatProperties
<1>4. PICK p \in Seq(AnyPiece) :
        /\ p = s \o t /\ Len(p) = Len(s) + Len(t)
        /\ \A i \in 1..Len(s) + Len(t) : p[i] = IF i <= Len(s) THEN s[i] ELSE t[i - Len(s)]
  BY <1>3, Zenon
<1>5. p = Pieces(n, kind)
  BY <1>1, <1>2, <1>4, Zenon DEF Pieces
<1>6. p[1] = s[1] /\ p[2] = s[2] /\ (kind = "post" => p[3] = t[1])
  BY <1>1, <1>2, <1>4
<1> QED
  BY <1>1, <1>2, <1>4, <1>5, <1>6

-----------------------------------------------------------------------------
(* The order of the answers.                                                *)

\* In this order: what was answered, what is being written, the blank lines in
\* the buffer, those on the way, and the number of the next request.
Order(done, now, b, way, count, where) ==
    /\ Ascending(done) /\ Ascending(now) /\ BlanksAscend(b) /\ BlanksAscend(way)
    /\ Below(Numbers(done), Numbers(now))
    /\ Below(Numbers(done) \cup Numbers(now), BlankNumbers(b) \cup BlankNumbers(way))
    /\ Below(BlankNumbers(b), BlankNumbers(way))
    /\ \A x \in Numbers(done) \cup Numbers(now) \cup BlankNumbers(b) \cup BlankNumbers(way) :
          x \in Nat /\ x <= count
    /\ where = "body" => Len(b) = 1 /\ b[1].part = "blank"

OrderInv(c) == Order(answers[c], reply[c], buf[c], flight[c], Len(sent[c]), pc[c])

LEMMA OneAnswer ==
    ASSUME NEW n \in Nat, NEW status \in {200, 400, 404, 405},
           NEW a, a = <<Answered(n, status)>>
    PROVE  /\ a \in Seq(AnyAnswer) /\ Len(a) = 1 /\ a[1] = Answered(n, status)
           /\ Ascending(a) /\ Numbers(a) = {n}
<1>1. PICK x \in AnyAnswer : x = Answered(n, status) /\ x.n = n
  <2>1. Answered(n, status) \in AnyAnswer /\ Answered(n, status).n = n
    BY DEF Answered, AnyAnswer
  <2> QED
    BY <2>1
<1>2. <<x>> \in Seq(AnyAnswer) /\ Len(<<x>>) = 1 /\ <<x>>[1] = x
  OBVIOUS
<1>3. Ascending(<<x>>) /\ Numbers(<<x>>) = {n}
  BY <1>1, <1>2 DEF Ascending, Numbers
<1> QED
  BY <1>1, <1>2, <1>3, Zenon

\* Whatever a buffer with a blank line holds is answered, in its order, or is
\* kept until the body has come.
LEMMA RequestAnswers ==
    ASSUME NEW c \in Client, NEW b \in Seq(AnyPiece), BlankAt(b) # {}, BlanksAscend(b),
           Request(c, b)
    PROVE  \/ \E a \in Seq(AnyAnswer) : \E alive :
                /\ Reply(c, a, alive)
                /\ Ascending(a) /\ Numbers(a) \subseteq BlankNumbers(b)
           \/ \E n \in BlankNumbers(b) :
                /\ buf' = [buf EXCEPT ![c] = <<Piece(n, "blank")>>]
                /\ Go(c, "body") /\ UNCHANGED <<reply, keepAlive>>
<1>1. PICK h \in BlankAt(b) : h = HeadEnd(b) /\ \A j \in BlankAt(b) : h <= j
  BY HeadEndIsFirst
<1>2. PICK len \in Nat : len = Len(b) /\ BlankAt(b) \subseteq 1..len
  BY LenProperties DEF BlankAt
<1>3. PICK n \in BlankNumbers(b) : n = b[h].n /\ n \in Nat
  <2>1. b[h] \in AnyPiece
    BY <1>2
  <2> QED
    BY <2>1 DEF AnyPiece, BlankNumbers
<1>4. PICK kind : kind = sent[c][n]
  OBVIOUS
<1>4a. PICK alive : alive = (kind # "last")
  OBVIOUS
<1>5. PICK rest \in Seq(AnyPiece) :
        /\ rest = SubSeq(b, h + 1, len) /\ BlanksAscend(rest)
        /\ \A x \in BlankNumbers(rest) : x \in BlankNumbers(b) /\ n < x
  <2>1. h + 1 \in 1..Len(b) + 1 /\ len \in (h + 1) - 1..Len(b)
    BY <1>2
  <2>2. PICK r \in Seq(AnyPiece) :
          /\ r = SubSeq(b, h + 1, len) /\ BlanksAscend(r)
          /\ \A x \in BlankNumbers(r) : \E j \in BlankAt(b) \cap h + 1..len : x = b[j].n
    BY <2>1, PartBlanks
  <2>3. ASSUME NEW x \in BlankNumbers(r) PROVE x \in BlankNumbers(b) /\ n < x
    <3>1. PICK j \in BlankAt(b) : j > h /\ x = b[j].n
      BY <1>2, <2>2
    <3> QED
      BY <1>3, <3>1 DEF BlanksAscend, BlankNumbers
  <2> QED
    BY <2>2, <2>3
<1>7. CASE ~WellFormed(c, b)
  <2>1. Reply(c, <<Answered(n, 400)>>, FALSE)
    BY <1>1, <1>3, <1>7 DEF Request
  <2>2. PICK a : a = <<Answered(n, 400)>>
    OBVIOUS
  <2>3. a \in Seq(AnyAnswer) /\ Ascending(a) /\ Numbers(a) = {n}
    BY <1>3, <2>2, OneAnswer
  <2>4. Reply(c, a, FALSE)
    BY <2>1, <2>2, Zenon
  <2> QED
    BY <1>3, <2>3, <2>4
<1>8. CASE WellFormed(c, b) /\ kind = "post" /\ rest = <<>>
  <2>1. /\ buf' = [buf EXCEPT ![c] = <<Piece(n, "blank")>>]
        /\ Go(c, "body") /\ UNCHANGED <<reply, keepAlive>>
    BY <1>1, <1>2, <1>3, <1>4, <1>4a, <1>5, <1>8 DEF Request
  <2> QED
    BY <2>1
<1>9. CASE WellFormed(c, b) /\ (kind = "post" <=> rest # <<>>)
  <2>1. Reply(c, <<Answered(n, 200)>>, alive)
    BY <1>1, <1>2, <1>3, <1>4, <1>4a, <1>5, <1>9 DEF Request
  <2>2. PICK a : a = <<Answered(n, 200)>>
    OBVIOUS
  <2>3. a \in Seq(AnyAnswer) /\ Ascending(a) /\ Numbers(a) = {n}
    BY <1>3, <2>2, OneAnswer
  <2>4. Reply(c, a, alive)
    BY <2>1, <2>2, Zenon
  <2> QED
    BY <1>3, <2>3, <2>4
<1>10. CASE WellFormed(c, b) /\ kind = "post0" /\ rest # <<>>
  <2>1. Reply(c, <<Answered(n, 405)>>, alive)
    BY <1>1, <1>2, <1>3, <1>4, <1>4a, <1>5, <1>10 DEF Request
  <2>2. PICK a : a = <<Answered(n, 405)>>
    OBVIOUS
  <2>3. a \in Seq(AnyAnswer) /\ Ascending(a) /\ Numbers(a) = {n}
    BY <1>3, <2>2, OneAnswer
  <2>4. Reply(c, a, alive)
    BY <2>1, <2>2, Zenon
  <2> QED
    BY <1>3, <2>3, <2>4
<1>11. CASE WellFormed(c, b) /\ kind \notin {"post", "post0"} /\ rest # <<>>
  <2>1. PICK first \in AnyAnswer : first = Answered(n, 200) /\ first.n = n
    <3>1. Answered(n, 200) \in AnyAnswer /\ Answered(n, 200).n = n
      BY <1>3 DEF Answered, AnyAnswer
    <3> QED
      BY <3>1
  <2>1a. PICK f : f = Follow(c, rest, first)
    OBVIOUS
  <2>2. Reply(c, f.answers, alive /\ f.parsed)
    BY <1>1, <1>2, <1>3, <1>4, <1>4a, <1>5, <1>11, <2>1, <2>1a, ZenonT(40) DEF Request
  <2>3. \A y \in BlankNumbers(rest) : first.n < y
    BY <1>5, <2>1
  <2>4. /\ f.answers \in Seq(AnyAnswer)
        /\ Ascending(f.answers)
        /\ Numbers(f.answers) \subseteq {first.n} \cup BlankNumbers(rest)
    BY <1>5, <2>1a, <2>3, FollowAnswers
  <2>5. Numbers(f.answers) \subseteq BlankNumbers(b)
    BY <1>3, <1>5, <2>1, <2>4
  <2>6. PICK a, last : a = f.answers /\ last = (alive /\ f.parsed)
    OBVIOUS
  <2>7. Reply(c, a, last)
    BY <2>2, <2>6, Zenon
  <2> QED
    BY <2>4, <2>5, <2>6, <2>7
<1> QED
  BY <1>7, <1>8, <1>9, <1>10, <1>11

LEMMA EmptyLists ==
    ASSUME NEW q, q = <<>>
    PROVE  /\ q \in Seq(AnyPiece) /\ q \in Seq(AnyAnswer) /\ Len(q) = 0
           /\ Numbers(q) = {} /\ BlankNumbers(q) = {} /\ Ascending(q) /\ BlanksAscend(q)
<1>1. q \in Seq(AnyPiece) /\ q \in Seq(AnyAnswer) /\ Len(q) = 0
  BY EmptySeq
<1>2. BlankAt(q) = {}
  BY <1>1 DEF BlankAt
<1> QED
  BY <1>1, <1>2 DEF Numbers, BlankNumbers, Ascending, BlanksAscend

\* The blank line of a request that is sent.
LEMMA NewBlank ==
    ASSUME NEW n \in Nat, NEW kind
    PROVE  BlankNumbers(Pieces(n, kind)) = {n} /\ BlanksAscend(Pieces(n, kind))
<1>1. PICK p \in Seq(AnyPiece) :
        /\ p = Pieces(n, kind) /\ Len(p) = IF kind = "post" THEN 3 ELSE 2
        /\ p[1] = Piece(n, "head") /\ p[2] = Piece(n, "blank")
        /\ kind = "post" => p[3] = Piece(n, "body")
  BY PiecesShape
<1>2. p[1].part = "head" /\ p[2].part = "blank" /\ p[2].n = n /\ (kind = "post" => p[3].part = "body")
  BY <1>1 DEF Piece
<1>3. BlankAt(p) = {2}
  <2>1. DOMAIN p = IF kind = "post" THEN 1..3 ELSE 1..2
    BY <1>1
  <2> QED
    BY <1>2, <2>1 DEF BlankAt
<1> QED
  BY <1>1, <1>2, <1>3 DEF BlankNumbers, BlanksAscend

LEMMA OrderWhenSent ==
    ASSUME NEW done \in Seq(AnyAnswer), NEW now \in Seq(AnyAnswer), NEW b \in Seq(AnyPiece),
           NEW way \in Seq(AnyPiece), NEW count \in Nat, NEW where, NEW kind,
           Order(done, now, b, way, count, where)
    PROVE  /\ way \o Pieces(count + 1, kind) \in Seq(AnyPiece)
           /\ Order(done, now, b, way \o Pieces(count + 1, kind), count + 1, where)
<1>1. PICK p \in Seq(AnyPiece) :
        p = Pieces(count + 1, kind) /\ BlankNumbers(p) = {count + 1} /\ BlanksAscend(p)
  BY PiecesShape, NewBlank
<1>2. Below(BlankNumbers(way), BlankNumbers(p))
  BY <1>1 DEF Below, Order
<1>3. PICK w \in Seq(AnyPiece) :
        /\ w = way \o p /\ BlanksAscend(w)
        /\ BlankNumbers(w) \subseteq BlankNumbers(way) \cup {count + 1}
  <2>1. way \o p \in Seq(AnyPiece) /\ BlanksAscend(way \o p)
        /\ BlankNumbers(way \o p) \subseteq BlankNumbers(way) \cup BlankNumbers(p)
    BY <1>2, <1>1, JoinedBlanks DEF Order
  <2> QED
    BY <1>1, <2>1, Zenon
<1>4. Below(Numbers(done) \cup Numbers(now), BlankNumbers(b) \cup BlankNumbers(w))
  BY <1>3 DEF Below, Order
<1>5. Below(BlankNumbers(b), BlankNumbers(w))
  BY <1>3 DEF Below, Order
<1>6. \A x \in Numbers(done) \cup Numbers(now) \cup BlankNumbers(b) \cup BlankNumbers(w) :
        x \in Nat /\ x <= count + 1
  BY <1>3 DEF Order
<1>7. Order(done, now, b, w, count + 1, where)
  BY <1>3, <1>4, <1>5, <1>6 DEF Order
<1> QED
  BY <1>1, <1>3, <1>7, Zenon

\* What is dropped disturbs nothing.
LEMMA OrderWhenDropped ==
    ASSUME NEW done, NEW now, NEW b, NEW way, NEW count, NEW where,
           Order(done, now, b, way, count, where), NEW none, none = <<>>
    PROVE  /\ Order(done, now, b, none, count, where)
           /\ \A other : other # "body" => Order(done, now, none, way, count, other)
           /\ \A other : (other = "body" => where = "body") => Order(done, now, b, way, count, other)
<1>1. BlankNumbers(none) = {} /\ BlanksAscend(none)
  BY EmptyLists
<1> QED
  BY <1>1 DEF Order, Below

\* What a read of k pieces has in the buffer, and leaves on the way.
Joined(b, way, k) == b \o SubSeq(way, 1, k)
Behind(way, k) == SubSeq(way, k + 1, Len(way))

\* What arrives is read in its order: some of the pieces on the way move to the
\* buffer, and there wait for more, are answered, or wait for their body.
LEMMA OrderWhenRead ==
    ASSUME NEW done \in Seq(AnyAnswer), NEW now \in Seq(AnyAnswer), NEW b \in Seq(AnyPiece),
           NEW way \in Seq(AnyPiece), NEW count \in Nat,
           Order(done, now, b, way, count, "read"),
           NEW k \in 1..Len(way)
    PROVE  /\ Joined(b, way, k) \in Seq(AnyPiece) /\ Behind(way, k) \in Seq(AnyPiece)
           /\ BlanksAscend(Joined(b, way, k))
           /\ Order(done, now, Joined(b, way, k), Behind(way, k), count, "read")
<1>1. PICK l \in Nat : l = Len(way) /\ k \in 1..l
  BY LenProperties
<1>2. PICK come \in Seq(AnyPiece) :
        /\ come = SubSeq(way, 1, k) /\ BlanksAscend(come)
        /\ \A x \in BlankNumbers(come) : \E j \in BlankAt(way) \cap 1..k : x = way[j].n
  <2>1. 1 \in 1..Len(way) + 1 /\ k \in 1 - 1..Len(way)
    BY <1>1
  <2> QED
    BY <2>1, PartBlanks DEF Order
<1>3. PICK left \in Seq(AnyPiece) :
        /\ left = Behind(way, k) /\ BlanksAscend(left)
        /\ \A x \in BlankNumbers(left) : \E j \in BlankAt(way) \cap k + 1..l : x = way[j].n
  <2>1. k + 1 \in 1..Len(way) + 1 /\ Len(way) \in (k + 1) - 1..Len(way)
    BY <1>1
  <2> QED
    BY <1>1, <2>1, PartBlanks DEF Order, Behind
<1>4. BlankNumbers(come) \subseteq BlankNumbers(way) /\ BlankNumbers(left) \subseteq BlankNumbers(way)
  BY <1>2, <1>3 DEF BlankNumbers
<1>5. Below(BlankNumbers(come), BlankNumbers(left))
  <2> SUFFICES ASSUME NEW x \in BlankNumbers(come), NEW y \in BlankNumbers(left) PROVE x < y
    BY DEF Below
  <2>1. PICK i \in BlankAt(way) \cap 1..k : x = way[i].n
    BY <1>2
  <2>2. PICK j \in BlankAt(way) \cap k + 1..l : y = way[j].n
    BY <1>3
  <2>3. i < j
    BY <1>1, <2>1, <2>2
  <2> QED
    BY <2>1, <2>2, <2>3 DEF Order, BlanksAscend
<1>6. Below(BlankNumbers(b), BlankNumbers(come))
  BY <1>4 DEF Order, Below
<1>7. PICK all \in Seq(AnyPiece) :
        /\ all = Joined(b, way, k) /\ BlanksAscend(all)
        /\ BlankNumbers(all) \subseteq BlankNumbers(b) \cup BlankNumbers(come)
  <2>1. BlanksAscend(b) /\ BlanksAscend(come)
    BY <1>2 DEF Order
  <2>2. /\ b \o come \in Seq(AnyPiece) /\ BlanksAscend(b \o come)
        /\ BlankNumbers(b \o come) \subseteq BlankNumbers(b) \cup BlankNumbers(come)
    BY <1>6, <2>1, JoinedBlanks, Zenon
  <2> QED
    BY <1>2, <2>2, Zenon DEF Joined
<1>8. Below(BlankNumbers(all), BlankNumbers(left))
  BY <1>4, <1>5, <1>7 DEF Order, Below
<1>9. Below(Numbers(done) \cup Numbers(now), BlankNumbers(all) \cup BlankNumbers(left))
  BY <1>4, <1>7 DEF Order, Below
<1>10. \A x \in Numbers(done) \cup Numbers(now) \cup BlankNumbers(all) \cup BlankNumbers(left) :
         x \in Nat /\ x <= count
  BY <1>4, <1>7 DEF Order
<1>11. Order(done, now, all, left, count, "read")
  BY <1>3, <1>7, <1>8, <1>9, <1>10 DEF Order
<1> QED
  BY <1>3, <1>7, <1>11

\* Answers to blank lines of the buffer take its place.
LEMMA OrderWhenAnswered ==
    ASSUME NEW done, NEW now, NEW b, NEW way, NEW count, NEW where,
           Order(done, now, b, way, count, where),
           NEW a, Ascending(a), Numbers(a) \subseteq BlankNumbers(b), NEW none, none = <<>>
    PROVE  Order(done, a, none, way, count, "write")
<1>1. BlankNumbers(none) = {} /\ BlanksAscend(none)
  BY EmptyLists
<1>2. Below(Numbers(done), Numbers(a))
  BY DEF Order, Below
<1>3. Below(Numbers(done) \cup Numbers(a), BlankNumbers(none) \cup BlankNumbers(way))
  BY <1>1 DEF Order, Below
<1>4. \A x \in Numbers(done) \cup Numbers(a) \cup BlankNumbers(none) \cup BlankNumbers(way) :
        x \in Nat /\ x <= count
  BY <1>1 DEF Order
<1>5. Below(BlankNumbers(none), BlankNumbers(way))
  BY <1>1 DEF Below
<1> QED
  BY <1>1, <1>2, <1>3, <1>4, <1>5 DEF Order

\* A request that waits for its body keeps its blank line only.
LEMMA OrderWhenBodyAwaited ==
    ASSUME NEW done, NEW now, NEW b, NEW way, NEW count,
           Order(done, now, b, way, count, "read"), NEW n \in BlankNumbers(b),
           NEW kept, kept = <<Piece(n, "blank")>>
    PROVE  kept \in Seq(AnyPiece) /\ Order(done, now, kept, way, count, "body")
<1>1. PICK x \in AnyPiece : x = Piece(n, "blank") /\ x.n = n /\ x.part = "blank"
  <2>1. n \in Nat
    BY DEF Order
  <2>2. Piece(n, "blank") \in AnyPiece /\ Piece(n, "blank").n = n
        /\ Piece(n, "blank").part = "blank"
    BY <2>1 DEF Piece, AnyPiece, Part
  <2> QED
    BY <2>2
<1>2. <<x>> \in Seq(AnyPiece) /\ Len(<<x>>) = 1 /\ <<x>>[1] = x
  OBVIOUS
<1>3. kept \in Seq(AnyPiece) /\ Len(kept) = 1 /\ kept[1] = x
  BY <1>1, <1>2, Zenon
<1>4. BlankAt(kept) = {1}
  <2>1. DOMAIN kept = 1..1
    BY <1>3
  <2> QED
    BY <1>1, <1>3, <2>1 DEF BlankAt
<1>5. BlankNumbers(kept) = {n} /\ BlanksAscend(kept)
  BY <1>1, <1>3, <1>4 DEF BlankNumbers, BlanksAscend
<1>6. Below(Numbers(done) \cup Numbers(now), BlankNumbers(kept) \cup BlankNumbers(way))
  BY <1>5 DEF Order, Below
<1>7. Below(BlankNumbers(kept), BlankNumbers(way))
  BY <1>5 DEF Order, Below
<1>8. \A y \in Numbers(done) \cup Numbers(now) \cup BlankNumbers(kept) \cup BlankNumbers(way) :
        y \in Nat /\ y <= count
  BY <1>5 DEF Order
<1> QED
  BY <1>1, <1>3, <1>5, <1>6, <1>7, <1>8 DEF Order

\* What was written comes after what had been.
LEMMA OrderWhenWritten ==
    ASSUME NEW done \in Seq(AnyAnswer), NEW now \in Seq(AnyAnswer), NEW b, NEW way, NEW count,
           NEW where, Order(done, now, b, way, count, where), NEW none, none = <<>>
    PROVE  /\ done \o now \in Seq(AnyAnswer)
           /\ Order(done, none, b, way, count, where)
           /\ Order(done \o now, none, b, way, count, where)
<1>1. Numbers(none) = {} /\ Ascending(none)
  BY EmptyLists
<1>2. Order(done, none, b, way, count, where)
  BY <1>1 DEF Order, Below
<1>3. PICK a \in Seq(AnyAnswer) :
        a = done \o now /\ Ascending(a) /\ Numbers(a) \subseteq Numbers(done) \cup Numbers(now)
  <2>1. /\ done \o now \in Seq(AnyAnswer) /\ Ascending(done \o now)
        /\ Numbers(done \o now) \subseteq Numbers(done) \cup Numbers(now)
    BY JoinedAnswers DEF Order
  <2> QED
    BY <2>1, Zenon
<1>4. Order(a, none, b, way, count, where)
  <2>1. Below(Numbers(a), Numbers(none))
    BY <1>1 DEF Below
  <2>2. Below(Numbers(a) \cup Numbers(none), BlankNumbers(b) \cup BlankNumbers(way))
    BY <1>1, <1>3 DEF Order, Below
  <2>3. \A x \in Numbers(a) \cup Numbers(none) \cup BlankNumbers(b) \cup BlankNumbers(way) :
          x \in Nat /\ x <= count
    BY <1>1, <1>3 DEF Order
  <2> QED
    BY <1>1, <1>3, <2>1, <2>2, <2>3 DEF Order
<1> QED
  BY <1>2, <1>3, <1>4, Zenon

-----------------------------------------------------------------------------
(* What a waiting client is told.  Only its last request can be unanswered; *)
(* its pieces are somewhere on the way, in the buffer, or answered.         *)

PartAt(i) == IF i = 1 THEN "head" ELSE IF i = 2 THEN "blank" ELSE "body"
Size(kind) == IF kind = "post" THEN 3 ELSE 2

\* The pieces of request n after the first `from`, up to the one at `to`.
Slice(q, n, from, to) ==
    /\ Len(q) = to - from
    /\ \A i \in 1..to - from : q[i] = Piece(n, PartAt(from + i))

Right(kinds, i) == Answered(i, IF kinds[i] = "bad" THEN 400 ELSE 200)
AllRight(kinds, done) == \A i \in 1..Len(done) : done[i] = Right(kinds, i)

Settled(n, done, way, where, b) ==
    /\ Len(done) = n /\ where \in {"none", "start", "read"}
    /\ Len(way) = 0 /\ Len(b) = 0

Arriving(n, kind, done, way, where, b) ==
    /\ n > 0 /\ Len(done) = n - 1 /\ where \in {"none", "start", "read"}
    /\ \E m \in {0, 1} :
        /\ m = 1 => where = "read"
        /\ Slice(b, n, 0, m) /\ Slice(way, n, m, Size(kind))

InBody(n, kind, done, way, where, b) ==
    /\ n > 0 /\ Len(done) = n - 1 /\ where = "body" /\ kind = "post"
    /\ Len(b) = 1 /\ b[1].n = n /\ Len(way) = 1

Writing(n, kinds, done, way, where, b, now) ==
    /\ n > 0 /\ Len(done) = n - 1 /\ where = "write"
    /\ Len(way) = 0 /\ Len(b) = 0
    /\ Len(now) = 1 /\ now[1] = Right(kinds, n)

\* The client left, or its connection is closed.
Over(who, way, where, isOpen) ==
    \/ who \in {"closed", "reset"} /\ Len(way) = 0 /\ where # "write"
    \/ where = "done" /\ ~isOpen

Wait(who, kinds, way, done, where, b, now, isOpen) ==
    LET n == Len(kinds)
    IN  /\ Len(done) <= n /\ AllRight(kinds, done)
        /\ \/ Settled(n, done, way, where, b)
           \/ Arriving(n, kinds[n], done, way, where, b)
           \/ InBody(n, kinds[n], done, way, where, b)
           \/ Writing(n, kinds, done, way, where, b, now)
           \/ Over(who, way, where, isOpen)

WaitInv(c) ==
    Wait(client[c], sent[c], flight[c], answers[c], pc[c], buf[c], reply[c], c \in open)

LEMMA NoBlankYet ==
    ASSUME NEW b \in Seq(AnyPiece), NEW n \in Nat, Slice(b, n, 0, 1)
    PROVE  BlankAt(b) = {}
<1>1. DOMAIN b = 1..1 /\ b[1] = Piece(n, "head")
  BY DEF Slice, PartAt
<1> QED
  BY <1>1 DEF BlankAt, Piece

\* The head of the only request in the buffer, and what follows it.
LEMMA HeadOfOne ==
    ASSUME NEW b \in Seq(AnyPiece), NEW n \in Nat, NEW k \in {2, 3}, Slice(b, n, 0, k)
    PROVE  /\ BlankAt(b) = {2} /\ HeadEnd(b) = 2
           /\ Len(b) = k /\ b[1] = Piece(n, "head") /\ b[2].n = n
           /\ SubSeq(b, 3, Len(b)) = <<>> <=> k = 2
<1>1. /\ Len(b) = k /\ b[1] = Piece(n, "head") /\ b[2] = Piece(n, "blank")
      /\ k = 3 => b[3] = Piece(n, "body")
  BY DEF Slice, PartAt
<1>2. DOMAIN b = 1..k
  BY <1>1
<1>3. b[1].part = "head" /\ b[2].part = "blank" /\ b[2].n = n /\ (k = 3 => b[3].part = "body")
  BY <1>1 DEF Piece
<1>4. BlankAt(b) = {2}
  BY <1>2, <1>3 DEF BlankAt
<1>5. HeadEnd(b) = 2
  BY <1>4 DEF HeadEnd
<1>6. SubSeq(b, 3, Len(b)) = <<>> <=> k = 2
  <2>1. 3 \in 1..Len(b) + 1 /\ k \in 3 - 1..Len(b)
    BY <1>1
  <2>2. PICK r \in Seq(AnyPiece) : r = SubSeq(b, 3, k) /\ Len(r) = k - 3 + 1
    BY <2>1, PartBlanks
  <2>3. r = <<>> <=> Len(r) = 0
    BY EmptySeq
  <2> QED
    BY <1>1, <2>2, <2>3
<1> QED
  BY <1>1, <1>3, <1>4, <1>5, <1>6

\* Such a request is answered as its route does, or refused, or its body is
\* still missing.
LEMMA PatientRequest ==
    ASSUME NEW c \in Client, NEW n \in Nat, NEW k \in 2..Size(sent[c][n]),
           NEW b \in Seq(AnyPiece), Slice(b, n, 0, k), Request(c, b)
    PROVE  \/ \E a, alive : /\ a = <<Right(sent[c], n)>> /\ k = Size(sent[c][n])
                            /\ Reply(c, a, alive)
           \/ /\ sent[c][n] = "post" /\ k = 2
              /\ buf' = [buf EXCEPT ![c] = <<Piece(n, "blank")>>]
              /\ Go(c, "body") /\ UNCHANGED <<reply, keepAlive>>
<1>1. PICK kind : kind = sent[c][n]
  OBVIOUS
<1>2. PICK alive : alive = (kind # "last")
  OBVIOUS
<1>3. k \in {2, 3} /\ (k = 3 => kind = "post") /\ (kind # "post" => k = 2 /\ k = Size(kind))
  BY <1>1 DEF Size
<1>4. /\ HeadEnd(b) = 2 /\ b[1] = Piece(n, "head") /\ b[2].n = n
      /\ SubSeq(b, 3, Len(b)) = <<>> <=> k = 2
  BY <1>3, HeadOfOne
<1>5. PICK rest : rest = SubSeq(b, HeadEnd(b) + 1, Len(b)) /\ (rest = <<>> <=> k = 2)
  <2>1. HeadEnd(b) + 1 = 3
    BY <1>4
  <2> QED
    BY <1>4, <2>1, Zenon
<1>6. WellFormed(c, b) <=> kind # "bad"
  BY <1>1, <1>4 DEF WellFormed
<1>7. CASE kind = "bad"
  <2>1. Reply(c, <<Answered(n, 400)>>, FALSE)
    BY <1>4, <1>6, <1>7, ZenonT(40) DEF Request
  <2>2. PICK a : a = <<Answered(n, 400)>>
    OBVIOUS
  <2>3. Reply(c, a, FALSE)
    BY <2>1, <2>2, Zenon
  <2>4. a = <<Right(sent[c], n)>> /\ k = Size(sent[c][n])
    BY <1>1, <1>3, <1>7, <2>2 DEF Right
  <2> QED
    BY <2>3, <2>4
<1>8. CASE kind = "post" /\ k = 2
  <2>1. /\ buf' = [buf EXCEPT ![c] = <<Piece(n, "blank")>>]
        /\ Go(c, "body") /\ UNCHANGED <<reply, keepAlive>>
    BY <1>1, <1>2, <1>4, <1>5, <1>6, <1>8 DEF Request
  <2> QED
    BY <1>1, <1>8, <2>1
<1>9. CASE kind # "bad" /\ ~(kind = "post" /\ k = 2)
  <2>1. Reply(c, <<Answered(n, 200)>>, alive)
    BY <1>1, <1>2, <1>3, <1>4, <1>5, <1>6, <1>9, ZenonT(40) DEF Request
  <2>2. PICK a : a = <<Answered(n, 200)>>
    OBVIOUS
  <2>3. Reply(c, a, alive)
    BY <2>1, <2>2, Zenon
  <2>4. a = <<Right(sent[c], n)>> /\ k = Size(sent[c][n])
    BY <1>1, <1>3, <1>9, <2>2 DEF Right, Size
  <2> QED
    BY <2>3, <2>4
<1> QED
  BY <1>7, <1>8, <1>9

LEMMA SliceRead ==
    ASSUME NEW n \in Nat, NEW m \in {0, 1}, NEW z \in {2, 3},
           NEW b \in Seq(AnyPiece), NEW way \in Seq(AnyPiece),
           Slice(b, n, 0, m), Slice(way, n, m, z), NEW k \in 1..Len(way)
    PROVE  /\ m + k \in 1..z
           /\ Joined(b, way, k) \in Seq(AnyPiece) /\ Slice(Joined(b, way, k), n, 0, m + k)
           /\ Behind(way, k) \in Seq(AnyPiece) /\ Slice(Behind(way, k), n, m + k, z)
<1>1. /\ Len(b) = m /\ Len(way) = z - m /\ k \in 1..z - m
      /\ m \in Nat /\ z \in Nat /\ k \in Nat
  <2>1. Len(b) = m /\ Len(way) = z - m
    BY DEF Slice
  <2> QED
    BY <2>1
<1>2. PICK come \in Seq(AnyPiece) :
        come = SubSeq(way, 1, k) /\ Len(come) = k /\ \A i \in 1..k : come[i] = way[i]
  <2>1. 1 \in 1..Len(way) + 1 /\ k \in 1 - 1..Len(way)
    BY <1>1
  <2>2. PICK s \in Seq(AnyPiece) :
          /\ s = SubSeq(way, 1, k) /\ Len(s) = k - 1 + 1
          /\ \A i \in 1..k - 1 + 1 : s[i] = way[i + 1 - 1]
    BY <2>1, PartBlanks
  <2>3. Len(s) = k /\ \A i \in 1..k : s[i] = way[i]
    <3>1. k - 1 + 1 = k /\ \A i \in 1..k : i + 1 - 1 = i
      BY <1>1
    <3> QED
      BY <2>2, <3>1
  <2> QED
    BY <2>2, <2>3
<1>3. PICK left \in Seq(AnyPiece) :
        /\ left = SubSeq(way, k + 1, Len(way)) /\ Len(left) = z - m - k
        /\ \A i \in 1..z - m - k : left[i] = way[i + k]
  <2>1. k + 1 \in 1..Len(way) + 1 /\ Len(way) \in (k + 1) - 1..Len(way)
    BY <1>1
  <2>2. PICK s \in Seq(AnyPiece) :
          /\ s = SubSeq(way, k + 1, Len(way)) /\ Len(s) = Len(way) - (k + 1) + 1
          /\ \A i \in 1..Len(way) - (k + 1) + 1 : s[i] = way[i + (k + 1) - 1]
    BY <2>1, PartBlanks
  <2>3. Len(s) = z - m - k /\ \A i \in 1..z - m - k : s[i] = way[i + k]
    <3>1. Len(way) - (k + 1) + 1 = z - m - k /\ \A i \in 1..z - m - k : i + (k + 1) - 1 = i + k
      BY <1>1
    <3> QED
      BY <2>2, <3>1
  <2> QED
    BY <2>2, <2>3
<1>4. PICK all \in Seq(AnyPiece) :
        /\ all = b \o come /\ Len(all) = Len(b) + Len(come)
        /\ \A i \in 1..Len(b) + Len(come) : all[i] = IF i <= Len(b) THEN b[i] ELSE come[i - Len(b)]
  <2>1. /\ b \o come \in Seq(AnyPiece) /\ Len(b \o come) = Len(b) + Len(come)
        /\ \A i \in 1..Len(b) + Len(come) :
              (b \o come)[i] = IF i <= Len(b) THEN b[i] ELSE come[i - Len(b)]
    BY ConcatProperties
  <2> QED
    BY <2>1, Zenon
<1>4a. /\ Len(all) = m + k
       /\ \A i \in 1..m + k : i <= m => all[i] = b[i]
       /\ \A i \in 1..m + k : i > m => all[i] = way[i - m]
  <2>1. Len(b) + Len(come) = m + k /\ Len(b) = m
    BY <1>1, <1>2
  <2>2. ASSUME NEW i \in 1..m + k, i > m PROVE all[i] = way[i - m]
    <3>1. i - m \in 1..k /\ all[i] = come[i - m]
      BY <1>1, <1>4, <2>1, <2>2, SMTT(20)
    <3> QED
      BY <1>2, <3>1
  <2> QED
    BY <1>1, <1>4, <2>1, <2>2
<1>5. Slice(all, n, 0, m + k)
  <2>1. ASSUME NEW i \in 1..m + k PROVE all[i] = Piece(n, PartAt(0 + i))
    <3>1. CASE i <= m
      BY <1>1, <1>4a, <3>1 DEF Slice
    <3>2. CASE i > m
      <4>1. i - m \in 1..z - m /\ m + (i - m) = 0 + i
        BY <1>1, <3>2
      <4>1a. all[i] = way[i - m]
        BY <1>1, <1>4a, <3>2
      <4>2. way[i - m] = Piece(n, PartAt(m + (i - m)))
        BY <4>1 DEF Slice
      <4> QED
        BY <4>1, <4>1a, <4>2
    <3> QED
      BY <1>1, <3>1, <3>2
  <2>2. Len(all) = m + k - 0 /\ 1..m + k - 0 = 1..m + k
    BY <1>1, <1>4a
  <2> QED
    BY <2>1, <2>2 DEF Slice
<1>6. Slice(left, n, m + k, z)
  <2>1. ASSUME NEW i \in 1..z - (m + k) PROVE left[i] = Piece(n, PartAt(m + k + i))
    <3>1. i + k \in 1..z - m /\ m + (i + k) = m + k + i /\ left[i] = way[i + k]
      BY <1>1, <1>3
    <3>2. way[i + k] = Piece(n, PartAt(m + (i + k)))
      BY <3>1 DEF Slice
    <3> QED
      BY <3>1, <3>2
  <2>2. Len(left) = z - (m + k)
    BY <1>1, <1>3
  <2> QED
    BY <2>1, <2>2 DEF Slice
<1>7. all = Joined(b, way, k) /\ left = Behind(way, k)
  BY <1>2, <1>3, <1>4, Zenon DEF Joined, Behind
<1>8. m + k \in 1..z
  BY <1>1
<1> QED
  BY <1>3, <1>5, <1>6, <1>7, <1>8, Zenon

LEMMA WaitWhenSent ==
    ASSUME NEW kinds \in Seq(AllKinds), NEW kind \in AllKinds, NEW way \in Seq(AnyPiece),
           NEW done \in Seq(AnyAnswer), NEW where, NEW b, NEW now, NEW isOpen,
           Wait("connected", kinds, way, done, where, b, now, isOpen),
           Len(done) = Len(kinds), where # "none" => isOpen
    PROVE  Wait("connected", Append(kinds, kind), way \o Pieces(Len(kinds) + 1, kind),
                done, where, b, now, isOpen)
<1>1. PICK n \in Nat : n = Len(kinds)
  BY LenProperties
<1>2. PICK more \in Seq(AllKinds) :
        /\ more = Append(kinds, kind) /\ Len(more) = n + 1 /\ more[n + 1] = kind
        /\ \A i \in 1..n : more[i] = kinds[i]
  <2>1. /\ Append(kinds, kind) \in Seq(AllKinds) /\ Len(Append(kinds, kind)) = Len(kinds) + 1
        /\ \A i \in 1..Len(kinds) : Append(kinds, kind)[i] = kinds[i]
        /\ Append(kinds, kind)[Len(kinds) + 1] = kind
    BY AppendProperties
  <2> QED
    BY <1>1, <2>1
<1>3. Settled(n, done, way, where, b)
  BY <1>1 DEF Wait, Settled, Arriving, InBody, Writing, Over
<1>4. PICK w : w = way \o Pieces(n + 1, kind) /\ Slice(w, n + 1, 0, Size(kind))
  <2>1. PICK p \in Seq(AnyPiece) :
          /\ p = Pieces(n + 1, kind) /\ Len(p) = IF kind = "post" THEN 3 ELSE 2
          /\ p[1] = Piece(n + 1, "head") /\ p[2] = Piece(n + 1, "blank")
          /\ kind = "post" => p[3] = Piece(n + 1, "body")
    BY PiecesShape
  <2>2. way = <<>>
    BY <1>3, EmptySeq DEF Settled
  <2>3. <<>> \o p = p
    BY ConcatEmptySeq
  <2>4. Slice(p, n + 1, 0, Size(kind))
    BY <2>1 DEF Slice, Size, PartAt
  <2> QED
    BY <2>1, <2>2, <2>3, <2>4, Zenon
<1>5. Arriving(n + 1, kind, done, w, where, b)
  <2>1. Slice(b, n + 1, 0, 0)
    BY <1>3 DEF Slice, Settled
  <2> QED
    BY <1>3, <1>4, <2>1 DEF Arriving, Settled
<1>6. AllRight(more, done)
  <2>1. \A i \in 1..n : Right(more, i) = Right(kinds, i)
    BY <1>2 DEF Right
  <2> QED
    BY <1>1, <2>1 DEF AllRight, Wait
<1>7. Wait("connected", more, w, done, where, b, now, isOpen)
  BY <1>1, <1>2, <1>5, <1>6 DEF Wait
<1> QED
  BY <1>1, <1>2, <1>4, <1>7, Zenon

\* A request of which a part is read: it is incomplete, answered, or its body
\* is missing.
LEMMA WaitWhenRead ==
    ASSUME NEW who, NEW kinds \in Seq(AllKinds), NEW way \in Seq(AnyPiece),
           NEW done \in Seq(AnyAnswer), NEW b \in Seq(AnyPiece), NEW now, NEW isOpen,
           Wait(who, kinds, way, done, "read", b, now, isOpen), NEW k \in 1..Len(way)
    PROVE  \E n \in Nat \ {0} : \E j \in 1..Size(kinds[n]) :
             /\ n = Len(kinds) /\ Len(done) = n - 1 /\ AllRight(kinds, done)
             /\ Joined(b, way, k) \in Seq(AnyPiece) /\ Slice(Joined(b, way, k), n, 0, j)
             /\ Behind(way, k) \in Seq(AnyPiece) /\ Slice(Behind(way, k), n, j, Size(kinds[n]))
<1>1. PICK n \in Nat : n = Len(kinds)
  BY LenProperties
<1>2. Len(way) # 0
  BY LenProperties
<1>3. Arriving(n, kinds[n], done, way, "read", b) /\ AllRight(kinds, done)
  BY <1>1, <1>2 DEF Wait, Settled, InBody, Writing, Over
<1>4. PICK m \in {0, 1} : Slice(b, n, 0, m) /\ Slice(way, n, m, Size(kinds[n]))
  BY <1>3 DEF Arriving
<1>5. PICK z \in {2, 3} : z = Size(kinds[n])
  BY DEF Size
<1>6. PICK j \in 1..z : j = m + k
  BY <1>4, <1>5, SliceRead
<1>7. /\ Joined(b, way, k) \in Seq(AnyPiece) /\ Slice(Joined(b, way, k), n, 0, j)
      /\ Behind(way, k) \in Seq(AnyPiece) /\ Slice(Behind(way, k), n, j, z)
  BY <1>4, <1>5, <1>6, SliceRead
<1>8. n \in Nat \ {0} /\ Len(done) = n - 1
  BY <1>3 DEF Arriving
<1> QED
  BY <1>1, <1>3, <1>5, <1>7, <1>8

LEMMA WaitWhenLeft ==
    ASSUME NEW kinds \in Seq(AllKinds), NEW way, NEW done, NEW where, NEW b, NEW now,
           NEW isOpen, Wait("connected", kinds, way, done, where, b, now, isOpen),
           NEW none, none = <<>>
    PROVE  /\ Wait("closed", kinds, way, done, where, b, now, isOpen)
           /\ Wait("reset", kinds, none, done, where, b, now, isOpen)
<1>1. Len(none) = 0
  BY EmptyLists
<1>2. Wait("closed", kinds, way, done, where, b, now, isOpen)
  BY DEF Wait, Over
<1>3. CASE where = "write"
  <2>1. Writing(Len(kinds), kinds, done, way, where, b, now)
    BY <1>3 DEF Wait, Settled, Arriving, InBody, Over
  <2>2. Writing(Len(kinds), kinds, done, none, where, b, now)
    BY <1>1, <2>1 DEF Writing
  <2> QED
    BY <1>2, <2>2 DEF Wait
<1>4. CASE where # "write"
  BY <1>1, <1>2, <1>4 DEF Wait, Over
<1> QED
  BY <1>2, <1>3, <1>4

\* The answer of the last request is written; then nothing is outstanding.
LEMMA WaitWhenWritten ==
    ASSUME NEW who, NEW kinds \in Seq(AllKinds), NEW way, NEW done \in Seq(AnyAnswer), NEW b,
           NEW now \in Seq(AnyAnswer), NEW isOpen, NEW openThen,
           Wait(who, kinds, way, done, "write", b, now, isOpen)
    PROVE  /\ Wait(who, kinds, way, done \o now, "read", b, <<>>, openThen)
           /\ who \in {"closed", "reset"} => Wait(who, kinds, way, done, "read", b, <<>>, openThen)
<1>1. PICK n \in Nat : n = Len(kinds)
  BY LenProperties
<1>2. Writing(n, kinds, done, way, "write", b, now) /\ AllRight(kinds, done)
  BY <1>1 DEF Wait, Settled, Arriving, InBody, Over
<1>3. PICK none : none = <<>>
  OBVIOUS
<1>4. PICK a \in Seq(AnyAnswer) :
        /\ a = done \o now /\ Len(a) = Len(done) + Len(now)
        /\ \A i \in 1..Len(done) + Len(now) :
              a[i] = IF i <= Len(done) THEN done[i] ELSE now[i - Len(done)]
  <2>1. /\ done \o now \in Seq(AnyAnswer) /\ Len(done \o now) = Len(done) + Len(now)
        /\ \A i \in 1..Len(done) + Len(now) :
              (done \o now)[i] = IF i <= Len(done) THEN done[i] ELSE now[i - Len(done)]
    BY ConcatProperties
  <2> QED
    BY <2>1, Zenon
<1>5. n > 0 /\ Len(done) = n - 1 /\ Len(now) = 1 /\ now[1] = Right(kinds, n)
  BY <1>2 DEF Writing
<1>6. Len(a) = n /\ \A i \in 1..n : a[i] = Right(kinds, i)
  <2>1. Len(done) + Len(now) = n
    BY <1>5
  <2>2. ASSUME NEW i \in 1..n PROVE a[i] = Right(kinds, i)
    <3>1. CASE i = n
      <4>1. a[i] = now[1]
        BY <1>4, <1>5, <2>1, <3>1
      <4> QED
        BY <1>5, <3>1, <4>1
    <3>2. CASE i < n
      <4>1. i \in 1..Len(done) /\ a[i] = done[i]
        BY <1>4, <1>5, <2>1, <3>2
      <4> QED
        BY <1>2, <4>1 DEF AllRight
    <3> QED
      BY <3>1, <3>2
  <2> QED
    BY <1>4, <2>1, <2>2
<1>7. Settled(n, a, way, "read", b) /\ AllRight(kinds, a)
  BY <1>2, <1>6 DEF Settled, Writing, AllRight
<1>8. Wait(who, kinds, way, a, "read", b, none, openThen)
  BY <1>1, <1>6, <1>7 DEF Wait
<1>9. ASSUME who \in {"closed", "reset"}
      PROVE  Wait(who, kinds, way, done, "read", b, none, openThen)
  BY <1>1, <1>2, <1>5, <1>9 DEF Wait, Over, Writing
<1> QED
  BY <1>3, <1>4, <1>8, <1>9, Zenon

-----------------------------------------------------------------------------
(* The inductive invariant, and the steps.                                  *)

ClientInv(c) == Accepted(c) /\ OrderInv(c) /\ (c \in Patient => WaitInv(c))

IInv == TInv /\ MapInv /\ \A c \in Client : ClientInv(c)

\* What a step of another client leaves alone.
Same(c) ==
    /\ client'[c] = client[c] /\ sent'[c] = sent[c] /\ flight'[c] = flight[c]
    /\ answers'[c] = answers[c] /\ pc'[c] = pc[c] /\ buf'[c] = buf[c] /\ reply'[c] = reply[c]
    /\ c \in open' <=> c \in open

\* A step of client c, for what it does to the rest.
StepOf(c) == TInv' /\ MapInv' /\ ClientInv(c)' /\ \A d \in Client \ {c} : Same(d)

LEMMA OthersKeep ==
    ASSUME NEW d \in Client, ClientInv(d), Same(d)
    PROVE  ClientInv(d)'
<1>1. Accepted(d)'
  BY DEF ClientInv, Accepted, Same
<1>2. OrderInv(d)'
  BY DEF ClientInv, OrderInv, Same
<1>3. ASSUME d \in Patient PROVE WaitInv(d)'
  BY <1>3 DEF ClientInv, WaitInv, Same, Wait, Over
<1> QED
  BY <1>1, <1>2, <1>3 DEF ClientInv

LEMMA ConnectStep ==
    ASSUME TInv, MapInv, NEW c \in Client, ClientInv(c), Connect(c)
    PROVE  StepOf(c)
<1> USE DEF Connect, serverVars, connVars
<1>1. TInv'
  BY DEF TInv
<1>2. MapInv'
  BY DEF MapInv
<1>3. \A d \in Client \ {c} : Same(d)
  BY DEF TInv, Same
<1>4. Accepted(c)'
  BY DEF TInv, Accepted
<1>5. OrderInv(c)'
  BY DEF ClientInv, OrderInv
<1>6. ASSUME c \in Patient PROVE WaitInv(c)'
  BY <1>6 DEF ClientInv, WaitInv, Wait, Over
<1> QED
  BY <1>1, <1>2, <1>3, <1>4, <1>5, <1>6 DEF StepOf, ClientInv

LEMMA SendStep ==
    ASSUME TInv, MapInv, NEW c \in Client, ClientInv(c), NEW kind \in AllKinds, Send(c, kind)
    PROVE  StepOf(c)
<1>1. /\ sent[c] \in Seq(AllKinds) /\ Len(sent[c]) \in Nat /\ flight[c] \in Seq(AnyPiece)
      /\ answers[c] \in Seq(AnyAnswer) /\ buf[c] \in Seq(AnyPiece) /\ reply[c] \in Seq(AnyAnswer)
  BY LenProperties DEF TInv
<1>2. PICK more \in Seq(AllKinds) : more = Append(sent[c], kind) /\ Len(more) = Len(sent[c]) + 1
  <2>1. PICK kinds \in Seq(AllKinds) : kinds = sent[c]
    BY <1>1
  <2>2. Append(kinds, kind) \in Seq(AllKinds) /\ Len(Append(kinds, kind)) = Len(kinds) + 1
    BY AppendProperties
  <2> QED
    BY <2>1, <2>2, Zenon
<1> USE DEF Send, serverVars, connVars
<1>3. PICK way \in Seq(AnyPiece) :
        /\ way = flight[c] \o Pieces(Len(sent[c]) + 1, kind)
        /\ Order(answers[c], reply[c], buf[c], way, Len(sent[c]) + 1, pc[c])
  BY <1>1, OrderWhenSent DEF ClientInv, OrderInv
<1>4. sent' = [sent EXCEPT ![c] = more] /\ flight' = [flight EXCEPT ![c] = way]
  BY <1>2, <1>3, Zenon
<1>5. sent'[c] = more /\ flight'[c] = way
  BY <1>4 DEF TInv
<1>6. TInv'
  BY <1>2, <1>3, <1>4 DEF TInv
<1>7. MapInv'
  BY DEF MapInv
<1>8. \A d \in Client \ {c} : Same(d)
  BY <1>4 DEF TInv, Same
<1>9. Accepted(c)'
  BY DEF ClientInv, Accepted
<1>10. OrderInv(c)'
  BY <1>2, <1>3, <1>5 DEF OrderInv
<1>11. ASSUME c \in Patient PROVE WaitInv(c)'
  <2>1. PICK isOpen : isOpen <=> c \in open
    OBVIOUS
  <2>2. Wait("connected", sent[c], flight[c], answers[c], pc[c], buf[c], reply[c], isOpen)
    BY <1>11, <2>1 DEF ClientInv, WaitInv, Wait, Over
  <2>3. Wait("connected", more, way, answers[c], pc[c], buf[c], reply[c], isOpen)
    BY <1>1, <1>2, <1>3, <1>11, <2>1, <2>2, WaitWhenSent
  <2> QED
    BY <1>5, <2>1, <2>3 DEF WaitInv, Wait, Over
<1> QED
  BY <1>6, <1>7, <1>8, <1>9, <1>10, <1>11 DEF StepOf, ClientInv

LEMMA LeaveStep ==
    ASSUME TInv, MapInv, NEW c \in Client, ClientInv(c), NEW how \in {"closed", "reset"},
           Leave(c, how)
    PROVE  StepOf(c)
<1> USE DEF Leave, serverVars, connVars
<1>1. PICK none : none = <<>> /\ none \in Seq(AnyPiece)
  BY EmptyLists
<1>2. PICK way \in Seq(AnyPiece) :
        way = (IF how = "reset" THEN none ELSE flight[c]) /\ flight' = [flight EXCEPT ![c] = way]
  BY <1>1 DEF TInv
<1>3. flight'[c] = way /\ client'[c] = how
  BY <1>2 DEF TInv
<1>4. TInv'
  BY <1>2 DEF TInv
<1>5. MapInv'
  BY DEF MapInv
<1>6. \A d \in Client \ {c} : Same(d)
  BY <1>2 DEF TInv, Same
<1>7. Accepted(c)'
  BY <1>3 DEF Accepted
<1>8. OrderInv(c)'
  <2>1. Order(answers[c], reply[c], buf[c], flight[c], Len(sent[c]), pc[c])
    BY DEF ClientInv, OrderInv
  <2>2. Order(answers[c], reply[c], buf[c], none, Len(sent[c]), pc[c])
    BY <1>1, <2>1, OrderWhenDropped
  <2>3. Order(answers[c], reply[c], buf[c], way, Len(sent[c]), pc[c])
    BY <1>2, <2>1, <2>2
  <2> QED
    BY <1>3, <2>3 DEF OrderInv
<1>9. ASSUME c \in Patient PROVE WaitInv(c)'
  <2>1. PICK isOpen : isOpen <=> c \in open
    OBVIOUS
  <2>2. Wait("connected", sent[c], flight[c], answers[c], pc[c], buf[c], reply[c], isOpen)
    BY <1>9, <2>1 DEF ClientInv, WaitInv, Wait, Over
  <2>3. /\ Wait("closed", sent[c], flight[c], answers[c], pc[c], buf[c], reply[c], isOpen)
        /\ Wait("reset", sent[c], none, answers[c], pc[c], buf[c], reply[c], isOpen)
    BY <1>1, <2>2, WaitWhenLeft DEF TInv
  <2>4. Wait(how, sent[c], way, answers[c], pc[c], buf[c], reply[c], isOpen)
    BY <1>2, <2>3
  <2> QED
    BY <1>3, <2>1, <2>4 DEF WaitInv, Wait, Over
<1> QED
  BY <1>4, <1>5, <1>6, <1>7, <1>8, <1>9 DEF StepOf, ClientInv

LEMMA AcceptStep ==
    ASSUME TInv, MapInv, NEW c \in Client, ClientInv(c), Accept(c)
    PROVE  StepOf(c)
<1> USE DEF Accept, serverVars, netVars
<1>1. pc'[c] = "start"
  BY DEF TInv
<1>2. TInv'
  BY DEF TInv
<1>3. MapInv'
  BY DEF MapInv
<1>4. \A d \in Client \ {c} : Same(d)
  BY DEF TInv, Same
<1>5. Accepted(c)'
  BY DEF Accepted
<1>6. OrderInv(c)'
  BY <1>1, OrderWhenDropped DEF ClientInv, OrderInv, Order
<1>7. ASSUME c \in Patient PROVE WaitInv(c)'
  BY <1>1, <1>7 DEF ClientInv, WaitInv, Wait, Settled, Arriving, InBody, Writing, Over
<1> QED
  BY <1>2, <1>3, <1>4, <1>5, <1>6, <1>7 DEF StepOf, ClientInv

LEMMA StartStep ==
    ASSUME TInv, MapInv, NEW c \in Client, ClientInv(c), Start(c)
    PROVE  StepOf(c)
<1> USE DEF Start, Go, serverVars, netVars
<1>1. pc'[c] = "read"
  BY DEF TInv
<1>2. TInv'
  BY DEF TInv
<1>3. MapInv'
  BY DEF MapInv
<1>4. \A d \in Client \ {c} : Same(d)
  BY DEF TInv, Same
<1>5. Accepted(c)'
  BY DEF ClientInv, Accepted
<1>6. OrderInv(c)'
  BY <1>1 DEF ClientInv, OrderInv, Order
<1>7. ASSUME c \in Patient PROVE WaitInv(c)'
  BY <1>1, <1>7 DEF ClientInv, WaitInv, Wait, Settled, Arriving, InBody, Writing, Over
<1> QED
  BY <1>2, <1>3, <1>4, <1>5, <1>6, <1>7 DEF StepOf, ClientInv

LEMMA ReadStep ==
    ASSUME TInv, MapInv, NEW c \in Client, ClientInv(c), Read(c)
    PROVE  StepOf(c)
<1>1. PICK b \in Seq(AnyPiece), way \in Seq(AnyPiece) : b = buf[c] /\ way = flight[c]
  BY DEF TInv
<1>2. answers[c] \in Seq(AnyAnswer) /\ reply[c] \in Seq(AnyAnswer) /\ sent[c] \in Seq(AllKinds)
      /\ Len(sent[c]) \in Nat /\ pc[c] = "read"
  BY LenProperties DEF TInv, Read
<1>3. PICK k \in 1..Len(way) :
        /\ flight' = [flight EXCEPT ![c] = Behind(way, k)]
        /\ IF BlankAt(Joined(b, way, k)) = {}
           THEN buf' = [buf EXCEPT ![c] = Joined(b, way, k)] /\ UNCHANGED <<pc, reply, keepAlive>>
           ELSE Request(c, Joined(b, way, k))
  BY <1>1, Zenon DEF Read, Joined, Behind
<1>4. PICK all, left : all = Joined(b, way, k) /\ left = Behind(way, k)
  OBVIOUS
<1>5. /\ all \in Seq(AnyPiece) /\ left \in Seq(AnyPiece) /\ BlanksAscend(all)
      /\ Order(answers[c], reply[c], all, left, Len(sent[c]), "read")
  <2>1. Order(answers[c], reply[c], b, way, Len(sent[c]), "read")
    BY <1>1, <1>2 DEF ClientInv, OrderInv
  <2> QED
    BY <1>2, <1>4, <2>1, OrderWhenRead
<1>6. flight' = [flight EXCEPT ![c] = left] /\ flight'[c] = left
  BY <1>3, <1>4 DEF TInv
<1>7. UNCHANGED <<phase, accepting, client, sent, answers, open, connections>>
  BY DEF Read, serverVars
<1>8. /\ BlankAt(all) = {} => buf' = [buf EXCEPT ![c] = all] /\ UNCHANGED <<pc, reply>>
      /\ BlankAt(all) # {} => Request(c, all)
  BY <1>3, <1>4, Zenon
<1>9. /\ buf' \in [Client -> Seq(AnyPiece)] /\ reply' \in [Client -> Seq(AnyAnswer)]
      /\ pc' \in [Client -> {"none", "start", "read", "body", "write", "done"}]
      /\ \A d \in Client \ {c} : buf'[d] = buf[d] /\ reply'[d] = reply[d] /\ pc'[d] = pc[d]
      /\ Order(answers[c], reply'[c], buf'[c], left, Len(sent[c]), pc'[c])
  <2> DEFINE Goal ==
        /\ buf' \in [Client -> Seq(AnyPiece)] /\ reply' \in [Client -> Seq(AnyAnswer)]
        /\ pc' \in [Client -> {"none", "start", "read", "body", "write", "done"}]
        /\ \A d \in Client \ {c} : buf'[d] = buf[d] /\ reply'[d] = reply[d] /\ pc'[d] = pc[d]
        /\ Order(answers[c], reply'[c], buf'[c], left, Len(sent[c]), pc'[c])
  <2>1. CASE BlankAt(all) = {}
    <3>1. buf'[c] = all /\ reply'[c] = reply[c] /\ pc'[c] = "read"
      BY <1>2, <1>8, <2>1 DEF TInv
    <3> QED
      BY <1>5, <1>8, <2>1, <3>1 DEF TInv
  <2>2. ASSUME NEW a \in Seq(AnyAnswer), NEW alive, Reply(c, a, alive),
               Ascending(a), Numbers(a) \subseteq BlankNumbers(all)
        PROVE  Goal
    <3>1. PICK none : none = <<>> /\ none \in Seq(AnyPiece)
      BY EmptyLists
    <3>2. /\ reply' = [reply EXCEPT ![c] = a] /\ buf' = [buf EXCEPT ![c] = none]
          /\ pc' = [pc EXCEPT ![c] = "write"]
      BY <2>2, <3>1 DEF Reply, Go
    <3>3. reply'[c] = a /\ buf'[c] = none /\ pc'[c] = "write"
      BY <3>2 DEF TInv
    <3>4. Order(answers[c], a, none, left, Len(sent[c]), "write")
      BY <1>5, <2>2, <3>1, OrderWhenAnswered
    <3> QED
      BY <3>1, <3>2, <3>3, <3>4 DEF TInv
  <2>3. ASSUME NEW n \in BlankNumbers(all), buf' = [buf EXCEPT ![c] = <<Piece(n, "blank")>>],
               Go(c, "body"), UNCHANGED reply
        PROVE  Goal
    <3>1. PICK kept \in Seq(AnyPiece) :
            kept = <<Piece(n, "blank")>> /\ Order(answers[c], reply[c], kept, left, Len(sent[c]), "body")
      BY <1>5, OrderWhenBodyAwaited
    <3>2. buf' = [buf EXCEPT ![c] = kept] /\ pc' = [pc EXCEPT ![c] = "body"] /\ reply' = reply
      BY <2>3, <3>1 DEF Go
    <3>3. buf'[c] = kept /\ pc'[c] = "body"
      BY <3>2 DEF TInv
    <3> QED
      BY <3>1, <3>2, <3>3 DEF TInv
  <2>4. CASE BlankAt(all) # {}
    <3>1. Request(c, all)
      BY <1>8, <2>4
    <3>2. \/ \E a \in Seq(AnyAnswer) : \E alive :
                /\ Reply(c, a, alive)
                /\ Ascending(a) /\ Numbers(a) \subseteq BlankNumbers(all)
          \/ \E n \in BlankNumbers(all) :
                /\ buf' = [buf EXCEPT ![c] = <<Piece(n, "blank")>>]
                /\ Go(c, "body") /\ UNCHANGED reply
      BY <1>5, <2>4, <3>1, RequestAnswers
    <3> HIDE DEF Goal
    <3>3. Goal
      BY <2>2, <2>3, <3>2
    <3> QED
      BY <3>3 DEF Goal
  <2> QED
    BY <2>1, <2>4
<1>10. TInv'
  BY <1>5, <1>6, <1>7, <1>9 DEF TInv
<1>11. MapInv'
  BY <1>7 DEF MapInv
<1>12. \A d \in Client \ {c} : Same(d)
  BY <1>6, <1>7, <1>9 DEF TInv, Same
<1>13. Accepted(c)'
  BY <1>2, <1>7 DEF ClientInv, Accepted
<1>14. OrderInv(c)'
  BY <1>6, <1>7, <1>9 DEF OrderInv
<1>15. ASSUME c \in Patient PROVE WaitInv(c)'
  <2>1. PICK isOpen : isOpen <=> c \in open
    OBVIOUS
  <2>2. Wait(client[c], sent[c], way, answers[c], "read", b, reply[c], isOpen)
    BY <1>1, <1>2, <1>15, <2>1 DEF ClientInv, WaitInv, Wait, Over
  <2>3. PICK n \in Nat \ {0} : \E j \in 1..Size(sent[c][n]) :
          /\ n = Len(sent[c]) /\ Len(answers[c]) = n - 1 /\ AllRight(sent[c], answers[c])
          /\ Slice(all, n, 0, j) /\ Slice(left, n, j, Size(sent[c][n]))
    <3>1. PICK n \in Nat \ {0} : \E j \in 1..Size(sent[c][n]) :
            /\ n = Len(sent[c]) /\ Len(answers[c]) = n - 1 /\ AllRight(sent[c], answers[c])
            /\ Slice(Joined(b, way, k), n, 0, j) /\ Slice(Behind(way, k), n, j, Size(sent[c][n]))
      <4>1. \E n \in Nat \ {0} : \E j \in 1..Size(sent[c][n]) :
              /\ n = Len(sent[c]) /\ Len(answers[c]) = n - 1 /\ AllRight(sent[c], answers[c])
              /\ Joined(b, way, k) \in Seq(AnyPiece) /\ Slice(Joined(b, way, k), n, 0, j)
              /\ Behind(way, k) \in Seq(AnyPiece)
              /\ Slice(Behind(way, k), n, j, Size(sent[c][n]))
        BY <1>2, <2>2, WaitWhenRead, Zenon
      <4> QED
        BY <4>1
    <3> QED
      BY <1>4, <3>1
  <2>4. PICK j \in 1..Size(sent[c][n]) :
          Slice(all, n, 0, j) /\ Slice(left, n, j, Size(sent[c][n]))
    BY <2>3
  <2>5. PICK z \in {2, 3} : z = Size(sent[c][n])
    BY DEF Size
  <2> DEFINE Goal ==
        \/ Arriving(n, sent[c][n], answers[c], left, pc'[c], buf'[c])
        \/ InBody(n, sent[c][n], answers[c], left, pc'[c], buf'[c])
        \/ Writing(n, sent[c], answers[c], left, pc'[c], buf'[c], reply'[c])
  <2>6. ASSUME j = 1 PROVE Goal
    <3>1. BlankAt(all) = {}
      BY <1>5, <2>4, <2>6, NoBlankYet
    <3>2. buf'[c] = all /\ pc'[c] = "read"
      BY <1>2, <1>8, <3>1 DEF TInv
    <3>3. Arriving(n, sent[c][n], answers[c], left, pc'[c], buf'[c])
      BY <2>3, <2>4, <2>6, <3>2 DEF Arriving
    <3> QED
      BY <3>3
  <2>7. ASSUME NEW a, NEW alive, a = <<Right(sent[c], n)>>, j = z, Reply(c, a, alive)
        PROVE  Goal
    <3>1. PICK none : none = <<>> /\ Len(none) = 0
      BY EmptyLists
    <3>2. reply'[c] = a /\ buf'[c] = none /\ pc'[c] = "write"
      BY <2>7, <3>1 DEF Reply, Go, TInv
    <3>3. Len(a) = 1 /\ a[1] = Right(sent[c], n)
      BY <2>7
    <3>4. Len(left) = 0
      BY <2>4, <2>5, <2>7 DEF Slice
    <3>5. Writing(n, sent[c], answers[c], left, pc'[c], buf'[c], reply'[c])
      BY <2>3, <3>1, <3>2, <3>3, <3>4 DEF Writing
    <3> QED
      BY <3>5
  <2>8. ASSUME sent[c][n] = "post", j = 2, buf' = [buf EXCEPT ![c] = <<Piece(n, "blank")>>],
               Go(c, "body")
        PROVE  Goal
    <3>1. buf'[c] = <<Piece(n, "blank")>> /\ pc'[c] = "body"
      BY <2>8 DEF Go, TInv
    <3>2. Len(buf'[c]) = 1 /\ buf'[c][1].n = n
      BY <3>1 DEF Piece
    <3>3. Len(left) = 1
      BY <2>4, <2>8 DEF Slice, Size
    <3>4. InBody(n, sent[c][n], answers[c], left, pc'[c], buf'[c])
      BY <2>3, <2>8, <3>1, <3>2, <3>3 DEF InBody
    <3> QED
      BY <3>4
  <2>9. ASSUME j # 1 PROVE Goal
    <3>1. j \in {2, 3} /\ j \in 2..Size(sent[c][n])
      BY <2>5, <2>9
    <3>2. BlankAt(all) = {2}
      BY <1>5, <2>4, <3>1, HeadOfOne
    <3>3. Request(c, all)
      BY <1>8, <3>2
    <3>4. \/ \E a, alive : /\ a = <<Right(sent[c], n)>> /\ j = Size(sent[c][n])
                          /\ Reply(c, a, alive)
          \/ /\ sent[c][n] = "post" /\ j = 2
             /\ buf' = [buf EXCEPT ![c] = <<Piece(n, "blank")>>]
             /\ Go(c, "body")
      BY <1>5, <2>4, <3>1, <3>3, PatientRequest
    <3> HIDE DEF Goal
    <3> QED
      BY <2>5, <2>7, <2>8, <3>4
  <2>10. Goal
    BY <2>6, <2>9
  <2> QED
    BY <1>6, <1>7, <2>3, <2>10 DEF WaitInv, Wait
<1> QED
  BY <1>10, <1>11, <1>12, <1>13, <1>14, <1>15 DEF StepOf, ClientInv

LEMMA ReadBodyStep ==
    ASSUME TInv, MapInv, NEW c \in Client, ClientInv(c), ReadBody(c)
    PROVE  StepOf(c)
<1>1. /\ answers[c] \in Seq(AnyAnswer) /\ sent[c] \in Seq(AllKinds) /\ buf[c] \in Seq(AnyPiece)
      /\ flight[c] \in Seq(AnyPiece) /\ pc[c] = "body" /\ Len(flight[c]) # 0
  BY EmptySeq, LenProperties DEF TInv, ReadBody
<1>2. PICK l \in Nat : l = Len(flight[c])
  BY <1>1, LenProperties
<1>3. PICK n \in Nat : n = buf[c][1].n /\ buf[c][1].part = "blank" /\ Len(buf[c]) = 1
  <2>1. Len(buf[c]) = 1 /\ buf[c][1].part = "blank"
    BY <1>1 DEF ClientInv, OrderInv, Order
  <2>2. buf[c][1] \in AnyPiece
    BY <1>1, <2>1
  <2> QED
    BY <2>1, <2>2 DEF AnyPiece
<1>4. PICK a \in Seq(AnyAnswer) :
        /\ a = <<Answered(n, 200)>> /\ Len(a) = 1 /\ a[1] = Answered(n, 200)
        /\ Ascending(a) /\ Numbers(a) = {n}
  <2>1. PICK a : a = <<Answered(n, 200)>>
    OBVIOUS
  <2> QED
    BY <2>1, OneAnswer
<1>5. PICK none : none = <<>> /\ none \in Seq(AnyPiece) /\ Len(none) = 0
  BY EmptyLists
<1>6. PICK left \in Seq(AnyPiece) :
        /\ left = Tail(flight[c]) /\ Len(left) = l - 1
        /\ BlanksAscend(flight[c]) => BlanksAscend(left)
        /\ BlankNumbers(left) \subseteq BlankNumbers(flight[c])
  <2>1. 2 \in 1..Len(flight[c]) + 1 /\ Len(flight[c]) \in 2 - 1..Len(flight[c])
    BY <1>1, <1>2
  <2>2. Tail(flight[c]) = SubSeq(flight[c], 2, Len(flight[c]))
    BY <1>1, EmptySeq, TailIsSubSeq
  <2>3. PICK s \in Seq(AnyPiece) :
          /\ s = SubSeq(flight[c], 2, Len(flight[c])) /\ Len(s) = Len(flight[c]) - 2 + 1
          /\ BlanksAscend(flight[c]) => BlanksAscend(s)
          /\ \A x \in BlankNumbers(s) : \E j \in BlankAt(flight[c]) \cap 2..Len(flight[c]) :
                x = flight[c][j].n
    BY <1>1, <2>1, PartBlanks
  <2>4. BlankNumbers(s) \subseteq BlankNumbers(flight[c])
    BY <2>3 DEF BlankNumbers
  <2>5. Len(s) = l - 1
    BY <1>2, <2>3
  <2> QED
    BY <2>2, <2>3, <2>4, <2>5
<1>7. /\ reply' = [reply EXCEPT ![c] = a] /\ buf' = [buf EXCEPT ![c] = none]
      /\ pc' = [pc EXCEPT ![c] = "write"] /\ flight' = [flight EXCEPT ![c] = left]
      /\ UNCHANGED <<phase, accepting, client, sent, answers, open, connections>>
  BY <1>3, <1>4, <1>5, <1>6 DEF ReadBody, Reply, Go, serverVars
<1>8. reply'[c] = a /\ buf'[c] = none /\ pc'[c] = "write" /\ flight'[c] = left
  BY <1>7 DEF TInv
<1>9. TInv'
  BY <1>5, <1>7 DEF TInv
<1>10. MapInv'
  BY <1>7 DEF MapInv
<1>11. \A d \in Client \ {c} : Same(d)
  BY <1>7 DEF TInv, Same
<1>12. Accepted(c)'
  BY <1>1, <1>7 DEF ClientInv, Accepted
<1>13. OrderInv(c)'
  <2>1. Order(answers[c], reply[c], buf[c], flight[c], Len(sent[c]), "body")
    BY <1>1 DEF ClientInv, OrderInv
  <2>2. Numbers(a) \subseteq BlankNumbers(buf[c])
    <3>1. 1 \in BlankAt(buf[c])
      BY <1>1, <1>3 DEF BlankAt
    <3> QED
      BY <1>3, <1>4, <3>1 DEF BlankNumbers
  <2>3. Order(answers[c], a, none, flight[c], Len(sent[c]), "write")
    BY <1>4, <1>5, <2>1, <2>2, OrderWhenAnswered
  <2>4. Order(answers[c], a, none, left, Len(sent[c]), "write")
    BY <1>6, <2>3 DEF Order, Below
  <2> QED
    BY <1>7, <1>8, <2>4 DEF OrderInv
<1>14. ASSUME c \in Patient PROVE WaitInv(c)'
  <2>1. PICK s \in Nat : s = Len(sent[c])
    BY <1>1, LenProperties
  <2>2. /\ AllRight(sent[c], answers[c])
        /\ InBody(s, sent[c][s], answers[c], flight[c], "body", buf[c])
    BY <1>1, <1>14, <2>1 DEF ClientInv, WaitInv, Wait, Settled, Arriving, Writing, Over
  <2>3. n = s /\ l = 1 /\ s > 0 /\ Len(answers[c]) = s - 1 /\ sent[c][s] = "post"
    BY <1>2, <1>3, <2>2 DEF InBody
  <2>4. a[1] = Right(sent[c], s)
    BY <1>4, <2>3 DEF Right
  <2>5. Writing(s, sent[c], answers[c], left, "write", none, a)
    BY <1>4, <1>5, <1>6, <2>3, <2>4 DEF Writing
  <2> QED
    BY <1>7, <1>8, <2>1, <2>2, <2>3, <2>5 DEF WaitInv, Wait
<1> QED
  BY <1>9, <1>10, <1>11, <1>12, <1>13, <1>14 DEF StepOf, ClientInv

LEMMA ReadEndsStep ==
    ASSUME TInv, MapInv, NEW c \in Client, ClientInv(c), ReadEnds(c)
    PROVE  StepOf(c)
<1> USE DEF ReadEnds, Close, Go, serverVars, netVars
<1>1. PICK none : none = <<>> /\ none \in Seq(AnyPiece)
  BY EmptyLists
<1>2. buf' = [buf EXCEPT ![c] = none]
  BY <1>1
<1>3. buf'[c] = none /\ pc'[c] = "done" /\ c \notin open'
  BY <1>2 DEF TInv
<1>4. TInv'
  BY <1>1, <1>2 DEF TInv
<1>5. MapInv'
  BY DEF MapInv
<1>6. \A d \in Client \ {c} : Same(d)
  BY <1>2 DEF TInv, Same
<1>7. Accepted(c)'
  BY DEF ClientInv, Accepted
<1>8. OrderInv(c)'
  <2>1. Order(answers[c], reply[c], buf[c], flight[c], Len(sent[c]), pc[c])
    BY DEF ClientInv, OrderInv
  <2>2. Order(answers[c], reply[c], none, flight[c], Len(sent[c]), "done")
    BY <1>1, <2>1, OrderWhenDropped
  <2> QED
    BY <1>3, <2>2 DEF OrderInv
<1>9. ASSUME c \in Patient PROVE WaitInv(c)'
  BY <1>3, <1>9 DEF ClientInv, WaitInv, Wait, Over
<1> QED
  BY <1>4, <1>5, <1>6, <1>7, <1>8, <1>9 DEF StepOf, ClientInv

LEMMA WrittenStep ==
    ASSUME TInv, MapInv, NEW c \in Client, ClientInv(c), Written(c)
    PROVE  StepOf(c)
<1>1. /\ answers[c] \in Seq(AnyAnswer) /\ reply[c] \in Seq(AnyAnswer) /\ sent[c] \in Seq(AllKinds)
      /\ client[c] \in {"connected", "closed", "reset"} /\ pc[c] = "write"
  BY DEF TInv, Written, ClientInv, Accepted
<1>2. PICK none : none = <<>> /\ none \in Seq(AnyAnswer)
  BY EmptyLists
<1>3. PICK both : both = answers[c] \o reply[c]
  OBVIOUS
<1>4. /\ both \in Seq(AnyAnswer)
      /\ Order(answers[c], none, buf[c], flight[c], Len(sent[c]), "write")
      /\ Order(both, none, buf[c], flight[c], Len(sent[c]), "write")
  <2>1. Order(answers[c], reply[c], buf[c], flight[c], Len(sent[c]), "write")
    BY <1>1 DEF ClientInv, OrderInv
  <2> QED
    BY <1>1, <1>2, <1>3, <2>1, OrderWhenWritten, Zenon
<1>5. PICK fails \in BOOLEAN :
        /\ fails => client[c] # "connected"
        /\ answers' = [answers EXCEPT ![c] = IF fails THEN answers[c] ELSE both]
        /\ IF fails \/ ~keepAlive[c] THEN Close(c) ELSE UNCHANGED <<open, connections>>
  BY <1>3, Zenon DEF Written
<1>6. PICK told \in {answers[c], both} :
        /\ told = (IF fails THEN answers[c] ELSE both) /\ told \in Seq(AnyAnswer)
        /\ answers' = [answers EXCEPT ![c] = told]
  BY <1>1, <1>4, <1>5
<1>7. /\ reply' = [reply EXCEPT ![c] = none] /\ pc' = [pc EXCEPT ![c] = "read"]
      /\ UNCHANGED <<phase, accepting, client, sent, flight, buf>>
  BY <1>2 DEF Written, Go, serverVars, netVars
<1>8. answers'[c] = told /\ reply'[c] = none /\ pc'[c] = "read"
  BY <1>6, <1>7 DEF TInv
<1>9. /\ open' \in {open, open \ {c}}
      /\ \/ open' = open /\ connections' = connections
         \/ open' = open \ {c} /\ connections' = connections \ {c}
  BY <1>5 DEF Close
<1>10. TInv'
  BY <1>2, <1>6, <1>7, <1>9 DEF TInv
<1>11. MapInv'
  BY <1>7, <1>9 DEF MapInv
<1>12. \A d \in Client \ {c} : Same(d)
  BY <1>6, <1>7, <1>9 DEF TInv, Same
<1>13. Accepted(c)'
  BY <1>1, <1>7 DEF Accepted
<1>14. OrderInv(c)'
  <2>1. Order(told, none, buf[c], flight[c], Len(sent[c]), "write")
    BY <1>4
  <2>2. Order(told, none, buf[c], flight[c], Len(sent[c]), "read")
    BY <2>1 DEF Order
  <2> QED
    BY <1>7, <1>8, <2>2 DEF OrderInv
<1>15. ASSUME c \in Patient PROVE WaitInv(c)'
  <2>1. PICK isOpen, openThen : (isOpen <=> c \in open) /\ (openThen <=> c \in open')
    OBVIOUS
  <2>2. Wait(client[c], sent[c], flight[c], answers[c], "write", buf[c], reply[c], isOpen)
    BY <1>1, <1>15, <2>1 DEF ClientInv, WaitInv, Wait, Over
  <2>3. /\ Wait(client[c], sent[c], flight[c], both, "read", buf[c], none, openThen)
        /\ client[c] \in {"closed", "reset"}
             => Wait(client[c], sent[c], flight[c], answers[c], "read", buf[c], none, openThen)
    BY <1>1, <1>2, <1>3, <2>2, WaitWhenWritten, Zenon
  <2>4. Wait(client[c], sent[c], flight[c], told, "read", buf[c], none, openThen)
    BY <1>1, <1>5, <1>6, <2>3
  <2> QED
    BY <1>7, <1>8, <2>1, <2>4 DEF WaitInv, Wait, Over
<1> QED
  BY <1>10, <1>11, <1>12, <1>13, <1>14, <1>15 DEF StepOf, ClientInv

LEMMA StopStep ==
    ASSUME IInv, Stop
    PROVE  IInv'
<1> USE DEF Stop, netVars, connVars
<1>1. open' = {} /\ connections' = {}
  BY DEF IInv, MapInv
<1>2. TInv'
  BY <1>1 DEF IInv, TInv
<1>3. MapInv'
  BY <1>1 DEF MapInv
<1>4. ASSUME NEW c \in Client PROVE ClientInv(c)'
  <2>1. ClientInv(c)
    BY DEF IInv
  <2>2. Accepted(c)' /\ OrderInv(c)'
    BY <2>1 DEF ClientInv, Accepted, OrderInv
  <2>3. ASSUME c \in Patient PROVE WaitInv(c)'
    BY <1>1, <2>1, <2>3 DEF ClientInv, WaitInv, Wait, Over
  <2> QED
    BY <2>2, <2>3 DEF ClientInv
<1> QED
  BY <1>2, <1>3, <1>4 DEF IInv

LEMMA InitInv ==
    ASSUME Init
    PROVE  IInv
<1>1. PICK none : none = <<>>
  OBVIOUS
<1>2. /\ none \in Seq(AnyPiece) /\ none \in Seq(AnyAnswer) /\ none \in Seq(AllKinds)
      /\ Len(none) = 0
      /\ Numbers(none) = {} /\ BlankNumbers(none) = {} /\ Ascending(none) /\ BlanksAscend(none)
  BY <1>1, EmptyLists, EmptySeq
<1>3. /\ sent = [c \in Client |-> none] /\ flight = [c \in Client |-> none]
      /\ answers = [c \in Client |-> none] /\ buf = [c \in Client |-> none]
      /\ reply = [c \in Client |-> none]
  BY <1>1 DEF Init
<1>4. TInv
  BY <1>2, <1>3 DEF Init, TInv
<1>5. MapInv
  BY DEF Init, MapInv
<1>6. ASSUME NEW c \in Client PROVE ClientInv(c)
  <2>1. /\ sent[c] = none /\ flight[c] = none /\ answers[c] = none /\ buf[c] = none
        /\ reply[c] = none /\ pc[c] = "none"
    BY <1>3 DEF Init
  <2>2. OrderInv(c)
    BY <1>2, <2>1 DEF OrderInv, Order, Below
  <2>3. WaitInv(c)
    BY <1>2, <2>1 DEF WaitInv, Wait, Settled, AllRight
  <2> QED
    BY <2>1, <2>2, <2>3 DEF ClientInv, Accepted
<1> QED
  BY <1>4, <1>5, <1>6 DEF IInv

LEMMA NextInv ==
    ASSUME IInv, [Next]_vars
    PROVE  IInv'
<1>1. TInv /\ MapInv /\ \A c \in Client : ClientInv(c)
  BY DEF IInv
<1>2. ASSUME NEW c \in Client, StepOf(c) PROVE IInv'
  <2>1. \A d \in Client \ {c} : ClientInv(d)'
    BY <1>1, <1>2, OthersKeep DEF StepOf
  <2> QED
    BY <1>2, <2>1 DEF StepOf, IInv
<1>3. ASSUME NEW c \in Client, Connect(c) PROVE IInv'
  BY <1>1, <1>2, <1>3, ConnectStep
<1>4. ASSUME NEW c \in Client, NEW kind \in Kind[c], Send(c, kind) PROVE IInv'
  <2>1. kind \in AllKinds
    BY RestAssumption
  <2> QED
    BY <1>1, <1>2, <1>4, <2>1, SendStep
<1>5. ASSUME NEW c \in Client, NEW how \in {"closed", "reset"}, Leave(c, how) PROVE IInv'
  BY <1>1, <1>2, <1>5, LeaveStep
<1>6. ASSUME NEW c \in Client, Accept(c) PROVE IInv'
  BY <1>1, <1>2, <1>6, AcceptStep
<1>7. ASSUME NEW c \in Client, Serve(c) PROVE IInv'
  <2>1. CASE Start(c)
    BY <1>1, <1>2, <2>1, StartStep
  <2>2. CASE Read(c)
    BY <1>1, <1>2, <2>2, ReadStep
  <2>3. CASE ReadBody(c)
    BY <1>1, <1>2, <2>3, ReadBodyStep
  <2>4. CASE ReadEnds(c)
    BY <1>1, <1>2, <2>4, ReadEndsStep
  <2>5. CASE Written(c)
    BY <1>1, <1>2, <2>5, WrittenStep
  <2> QED
    BY <1>7, <2>1, <2>2, <2>3, <2>4, <2>5 DEF Serve
<1>8. CASE Stop
  BY <1>8, StopStep
<1>9. CASE UNCHANGED vars
  <2>1. TInv' /\ MapInv'
    BY <1>1, <1>9 DEF TInv, MapInv, vars, serverVars, netVars, connVars
  <2>2. \A d \in Client : Same(d)
    BY <1>9 DEF Same, vars, serverVars, netVars, connVars
  <2>3. \A d \in Client : ClientInv(d)'
    BY <1>1, <2>2, OthersKeep
  <2> QED
    BY <2>1, <2>3 DEF IInv
<1>10. CASE AcceptFails
  BY <1>9, <1>10 DEF AcceptFails
<1> QED
  BY <1>3, <1>4, <1>5, <1>6, <1>7, <1>8, <1>9, <1>10 DEF Next

LEMMA InvHolds == Spec => []IInv
BY InitInv, NextInv, PTL DEF Spec

\* The map and the open sockets are the same: however a connection ends, it is
\* taken out of both, and stop() leaves no socket open.
THEOREM MapHoldsTheSockets == Spec => []MapIsExact
<1>1. IInv => MapIsExact
  BY DEF IInv, TInv, MapInv, MapIsExact
<1> QED
  BY <1>1, InvHolds, PTL

\* No client, waiting or not, is answered out of order or twice.
THEOREM AnswersKeepTheirOrder == Spec => []AnswersAreInOrder
<1>1. IInv => AnswersAreInOrder
  <2> SUFFICES ASSUME IInv, NEW c \in Client, NEW i \in DOMAIN answers[c],
                      NEW j \in DOMAIN answers[c], i < j
               PROVE  answers[c][i].n < answers[c][j].n
    BY DEF AnswersAreInOrder
  <2>1. Ascending(answers[c]) /\ answers[c] \in Seq(AnyAnswer)
    BY DEF IInv, TInv, ClientInv, OrderInv, Order
  <2>2. DOMAIN answers[c] = 1..Len(answers[c])
    BY <2>1, LenProperties
  <2> QED
    BY <2>1, <2>2 DEF Ascending
<1> QED
  BY <1>1, InvHolds, PTL

\* A waiting client is told what its route answers, and refused only what the
\* parser refuses, however its pieces were cut.
THEOREM WaitingClientsAreToldRight == Spec => []WaitingClientsGetTheirAnswer
<1>1. IInv => WaitingClientsGetTheirAnswer
  <2> SUFFICES ASSUME IInv, NEW c \in Patient, NEW i \in DOMAIN answers[c]
               PROVE  answers[c][i] = Answered(i, IF sent[c][i] = "bad" THEN 400 ELSE 200)
    BY DEF WaitingClientsGetTheirAnswer
  <2>1. c \in Client
    BY RestAssumption
  <2>2. AllRight(sent[c], answers[c]) /\ answers[c] \in Seq(AnyAnswer)
    BY <2>1 DEF IInv, TInv, ClientInv, WaitInv, Wait
  <2>3. i \in 1..Len(answers[c])
    BY <2>2, LenProperties
  <2> QED
    BY <2>2, <2>3 DEF AllRight, Right
<1> QED
  BY <1>1, InvHolds, PTL

=============================================================================
