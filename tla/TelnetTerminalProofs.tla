------------------------- MODULE TelnetTerminalProofs -------------------------
(***************************************************************************)
(* The safety properties of TelnetTerminal, for any characters and lines   *)
(* of the history, and any number of keys, negotiations and broadcasts.    *)
(*                                                                         *)
(* What a client has still to send tells where the two automata are: the   *)
(* one of the negotiation by what is left of a negotiation, the decoder by *)
(* what is left of a key.                                                  *)
(***************************************************************************)
EXTENDS TelnetTerminal, SequenceTheorems, TLAPS

Verb == {"WILL", "WONT", "DO", "DONT"}
TalkByte == Verb \cup {"IAC", "NOP", "SB", "OPT", "ESC", "CR", "SE"}
KeyByte == Char \cup ControlByte \cup {"[", "A", "B", "C", "D", "F", "H", "3", "~"}

\* t is an end of the bytes that b lists, the last one first.
EndOf(t, b) == Len(t) <= Len(b) /\ \A i \in 1..Len(t) : t[i] = b[Len(t) + 1 - i]

NopBytes == <<"NOP", "IAC">>
VerbBytes(c) == <<"OPT", c, "IAC">>
ArrowBytes(x) == <<x, "[", "ESC">>
CancBytes == <<"~", "3", "[", "ESC">>
RetBytes(x) == <<x, "CR">>
SubBytes == <<"SE", "IAC", "CR", "IAC", "IAC", "ESC", "OPT", "SB", "IAC">>

\* Where the automaton of the negotiation is, when these bytes are left.
Talk(t, esc, st) ==
    \/ Len(t) = 0 /\ ~esc /\ st = "data"
    \/ /\ EndOf(t, NopBytes) /\ Len(t) \in 1..2 /\ st = "data"
       /\ esc <=> Len(t) = 1
    \/ \E c \in Verb :
        /\ EndOf(t, VerbBytes(c)) /\ Len(t) \in 1..3
        /\ esc <=> Len(t) = 2
        /\ st = IF Len(t) = 1 THEN c ELSE "data"
    \/ /\ EndOf(t, SubBytes) /\ Len(t) \in 1..9
       /\ esc <=> Len(t) \in {8, 4, 1}
       /\ st = IF Len(t) \in 8..9 THEN "data" ELSE "sub"

\* Where the decoder is, when these bytes are left of the key k.
Sending(t, k, st) ==
    \/ Len(t) = 0 /\ k = NoKey /\ st = "1"
    \/ \E x \in {"A", "B", "C", "D", "F", "H"} :
        /\ k = Arrow[x] /\ EndOf(t, ArrowBytes(x)) /\ Len(t) \in 1..3
        /\ st = IF Len(t) = 3 THEN "1" ELSE IF Len(t) = 2 THEN "2" ELSE "3"
    \/ /\ k = "canc" /\ EndOf(t, CancBytes) /\ Len(t) \in 1..4
       /\ st = IF Len(t) = 4 THEN "1" ELSE IF Len(t) = 3 THEN "2" ELSE IF Len(t) = 2 THEN "3" ELSE "4"
    \/ \E x \in {"NUL", "LF"} :
        /\ k = "ret" /\ EndOf(t, RetBytes(x)) /\ Len(t) \in 1..2
        /\ st = IF Len(t) = 2 THEN "1" ELSE "wait_0"
    \/ /\ Len(t) = 1 /\ st = "1"
       /\ \/ t[1] \in Char /\ k = t[1]
          \/ \E x \in {"EOT", "BS", "DEL", "FF", "TAB"} : t[1] = x /\ k = Plain[x]

KeyInv ==
    /\ talking \in Seq(TalkByte) /\ sending \in Seq(KeyByte)
    /\ escape \in BOOLEAN /\ garbled = FALSE
    /\ Talk(talking, escape, state)
    /\ Sending(sending, intended, step)
    /\ queue \in Seq(Key)

LEMMA EndOfTail ==
    ASSUME NEW S, NEW t \in Seq(S), NEW b, EndOf(t, b), Len(t) # 0
    PROVE  /\ Head(t) = b[Len(t)] /\ Head(t) \in S
           /\ Tail(t) \in Seq(S) /\ Len(Tail(t)) = Len(t) - 1 /\ EndOf(Tail(t), b)
<1>1. PICK l \in Nat : l = Len(t) /\ l > 0
  BY LenProperties
<1>2. t # <<>>
  BY EmptySeq
<1>3. PICK u \in Seq(S) :
        /\ u = Tail(t) /\ Len(u) = l - 1 /\ \A i \in 1..l - 1 : u[i] = t[i + 1]
  <2>1. /\ Tail(t) \in Seq(S) /\ Len(Tail(t)) = Len(t) - 1
        /\ \A i \in 1..Len(Tail(t)) : Tail(t)[i] = t[i + 1]
    BY <1>2, HeadTailProperties
  <2> QED
    BY <1>1, <2>1
<1>4. Head(t) = t[1] /\ Head(t) \in S
  BY <1>2, HeadTailProperties
<1>5. t[1] = b[l]
  BY <1>1 DEF EndOf
<1>6. ASSUME NEW i \in 1..l - 1 PROVE u[i] = b[(l - 1) + 1 - i]
  <2>1. i + 1 \in 1..l /\ l + 1 - (i + 1) = (l - 1) + 1 - i
    BY <1>1
  <2>2. t[i + 1] = b[l + 1 - (i + 1)]
    BY <1>1, <2>1 DEF EndOf
  <2> QED
    BY <1>3, <2>1, <2>2
<1>7. EndOf(u, b)
  BY <1>1, <1>3, <1>6 DEF EndOf
<1> QED
  BY <1>1, <1>3, <1>4, <1>5, <1>7

\* A byte of a negotiation moves the automaton of the negotiation only.
LEMMA TalkByteStep ==
    ASSUME KeyInv, Len(talking) # 0, Consume(Head(talking)), talking' = Tail(talking)
    PROVE  /\ talking' \in Seq(TalkByte) /\ escape' \in BOOLEAN /\ Talk(talking', escape', state')
           /\ UNCHANGED <<step, queue, garbled, intended>>
<1>1. PICK t \in Seq(TalkByte), n \in Nat : t = talking /\ n = Len(t) /\ n > 0
  BY LenProperties DEF KeyInv
<1>2. PICK b : b = Head(t)
  OBVIOUS
<1>3. Consume(b)
  BY <1>1, <1>2
<1>4. ASSUME NEW l, EndOf(t, l)
      PROVE  /\ b = l[n] /\ talking' \in Seq(TalkByte) /\ Len(talking') = n - 1 /\ EndOf(talking', l)
  BY <1>1, <1>2, <1>4, EndOfTail
<1>5. escape' \in BOOLEAN
  BY <1>3, Zenon DEF Consume
<1> DEFINE Quiet == UNCHANGED <<step, queue, garbled, intended>>
<1>6. /\ escape /\ b # "IAC" => ~escape' /\ Command(b)
      /\ ~escape /\ b = "IAC" => escape' /\ state' = state /\ Quiet
      /\ (~escape /\ b # "IAC") \/ (escape /\ b = "IAC") => ~escape' /\ Data(b)
  BY <1>3 DEF Consume
<1> HIDE DEF Quiet
<1>6a. ASSUME state # "data", Data(b)
       PROVE  Quiet /\ state' = IF state = "sub" THEN "sub" ELSE "data"
  BY <1>6a DEF Data, Quiet
<1>6b. ASSUME Command(b)
       PROVE  /\ Quiet
              /\ b = "SE" /\ state = "sub" => state' = "data"
              /\ b = "SB" => state' = "sub"
              /\ b \in Verb => state' = b
              /\ b = "NOP" => state' = "data"
  BY <1>6b DEF Command, Quiet, Verb
<1>7. ASSUME EndOf(t, NopBytes), n \in 1..2, state = "data", escape <=> n = 1
      PROVE  /\ talking' \in Seq(TalkByte) /\ escape' \in BOOLEAN /\ Talk(talking', escape', state')
             /\ Quiet
  <2>1. b = NopBytes[n] /\ Len(talking') = n - 1 /\ EndOf(talking', NopBytes) /\ talking' \in Seq(TalkByte)
    BY <1>4, <1>7
  <2>2. b = IF n = 1 THEN "NOP" ELSE "IAC"
    BY <1>7, <2>1 DEF NopBytes
  <2>3. (escape' <=> n = 2) /\ state' = "data" /\ Quiet
    BY <1>6, <1>6b, <1>7, <2>2
  <2>4. Talk(talking', escape', state')
    BY <1>7, <2>1, <2>3 DEF Talk
  <2> QED
    BY <1>5, <2>1, <2>3, <2>4, Zenon
<1>8. ASSUME NEW c \in Verb, EndOf(t, VerbBytes(c)), n \in 1..3, escape <=> n = 2,
             state = IF n = 1 THEN c ELSE "data"
      PROVE  /\ talking' \in Seq(TalkByte) /\ escape' \in BOOLEAN /\ Talk(talking', escape', state')
             /\ Quiet
  <2>1. /\ b = VerbBytes(c)[n] /\ Len(talking') = n - 1 /\ EndOf(talking', VerbBytes(c))
        /\ talking' \in Seq(TalkByte)
    BY <1>4, <1>8
  <2>2. b = IF n = 1 THEN "OPT" ELSE IF n = 2 THEN c ELSE "IAC"
    BY <1>8, <2>1 DEF VerbBytes
  <2>3. c \notin {"data", "sub", "IAC"}
    BY DEF Verb
  <2>4. (escape' <=> n = 3) /\ Quiet /\ state' = IF n = 2 THEN c ELSE "data"
    <3>1. CASE n = 1
      <4>1. ~escape /\ b # "IAC" /\ state = c
        BY <1>8, <2>2, <3>1
      <4>2. ~escape' /\ Data(b)
        <5>1. (~escape /\ b # "IAC") \/ (escape /\ b = "IAC")
          BY <4>1, Zenon
        <5> QED
          BY <1>6, <5>1
      <4>3. Quiet /\ state' = "data"
        BY <1>6a, <2>3, <4>1, <4>2
      <4> QED
        BY <3>1, <4>2, <4>3
    <3>2. CASE n = 2
      <4>1. escape /\ b = c
        BY <1>8, <2>2, <3>2
      <4>2. ~escape' /\ Command(b)
        BY <1>6, <2>3, <4>1
      <4>3. Quiet /\ state' = c
        BY <1>6b, <4>1, <4>2
      <4> QED
        BY <3>2, <4>2, <4>3
    <3>3. CASE n = 3
      <4>1. ~escape /\ b = "IAC" /\ state = "data"
        BY <1>8, <2>2, <3>3
      <4> QED
        BY <1>6, <3>3, <4>1
    <3> QED
      BY <1>8, <3>1, <3>2, <3>3
  <2>5. Talk(talking', escape', state')
    <3>1. CASE n = 1
      BY <2>1, <2>4, <3>1 DEF Talk
    <3>2. CASE n # 1
      <4>1. PICK m \in 1..3 : m = n - 1 /\ Len(talking') = m
        BY <1>8, <2>1, <3>2
      <4>2. /\ escape' <=> m = 2
            /\ state' = IF m = 1 THEN c ELSE "data"
        BY <2>4, <4>1
      <4> QED
        BY <1>8, <2>1, <4>1, <4>2 DEF Talk
    <3> QED
      BY <3>1, <3>2
  <2> QED
    BY <1>5, <2>1, <2>4, <2>5, Zenon
<1>9. ASSUME EndOf(t, SubBytes), n \in 1..9, escape <=> n \in {8, 4, 1},
             state = IF n \in 8..9 THEN "data" ELSE "sub"
      PROVE  /\ talking' \in Seq(TalkByte) /\ escape' \in BOOLEAN /\ Talk(talking', escape', state')
             /\ Quiet
  <2>1. /\ b = SubBytes[n] /\ Len(talking') = n - 1 /\ EndOf(talking', SubBytes)
        /\ talking' \in Seq(TalkByte)
    BY <1>4, <1>9
  <2>2. /\ n \in {9, 5, 4, 2} => b = "IAC"
        /\ n = 8 => b = "SB"
        /\ n = 7 => b = "OPT"
        /\ n = 6 => b = "ESC"
        /\ n = 3 => b = "CR"
        /\ n = 1 => b = "SE"
    BY <2>1 DEF SubBytes
  <2>3. /\ escape' <=> n \in {9, 5, 2}
        /\ state' = IF n \in {9, 1} THEN "data" ELSE "sub"
        /\ Quiet
    <3>1. CASE n \in {9, 5, 2}
      BY <1>6, <1>9, <2>2, <3>1
    <3>2. CASE n \in {8, 1}
      BY <1>6, <1>6b, <1>9, <2>2, <3>2
    <3>3. CASE n \in {7, 6, 4, 3}
      <4>1. state = "sub" /\ ((~escape /\ b # "IAC") \/ (escape /\ b = "IAC"))
        <5>1. CASE n = 4
          BY <1>9, <2>2, <5>1
        <5>2. CASE n \in {7, 6, 3}
          <6>1. b # "IAC"
            BY <2>2, <5>2
          <6>2. ~escape /\ state = "sub"
            BY <1>9, <5>2
          <6>3. (~escape /\ b # "IAC") \/ (escape /\ b = "IAC")
            BY <6>1, <6>2, Zenon
          <6> QED
            BY <6>2, <6>3
        <5> QED
          BY <3>3, <5>1, <5>2
      <4>2. ~escape' /\ Data(b)
        BY <1>6, <4>1
      <4>3. Quiet /\ state' = "sub"
        BY <1>6a, <4>1, <4>2
      <4> QED
        BY <3>3, <4>2, <4>3
    <3> QED
      BY <1>9, <3>1, <3>2, <3>3
  <2>4. Talk(talking', escape', state')
    <3>1. CASE n = 1
      BY <2>1, <2>3, <3>1 DEF Talk
    <3>2. CASE n # 1
      <4>0. n - 1 \in 1..8
        BY <1>9, <3>2
      <4>1. PICK m \in 1..8 : m = n - 1 /\ Len(talking') = m
        BY <2>1, <4>0
      <4>2. /\ escape' <=> m \in {8, 4, 1}
            /\ state' = IF m \in 8..9 THEN "data" ELSE "sub"
        BY <2>3, <4>1
      <4>2a. EndOf(talking', SubBytes) /\ Len(talking') \in 1..9
        <5>1. m \in 1..9
          OBVIOUS
        <5> QED
          BY <2>1, <4>1, <5>1, Zenon
      <4>2b. escape' <=> Len(talking') \in {8, 4, 1}
        BY <4>1, <4>2, Zenon
      <4>2c. state' = IF Len(talking') \in 8..9 THEN "data" ELSE "sub"
        BY <4>1, <4>2, Zenon
      <4>3. /\ EndOf(talking', SubBytes) /\ Len(talking') \in 1..9
            /\ escape' <=> Len(talking') \in {8, 4, 1}
            /\ state' = IF Len(talking') \in 8..9 THEN "data" ELSE "sub"
        BY <4>2a, <4>2b, <4>2c, Zenon
      <4> QED
        BY <4>3, Zenon DEF Talk
    <3> QED
      BY <3>1, <3>2
  <2> QED
    BY <1>5, <2>1, <2>3, <2>4, Zenon
<1>10. /\ talking' \in Seq(TalkByte) /\ escape' \in BOOLEAN /\ Talk(talking', escape', state')
       /\ Quiet
  BY <1>1, <1>7, <1>8, <1>9 DEF KeyInv, Talk
<1> QED
  BY <1>10 DEF Quiet

-----------------------------------------------------------------------------
(* A byte of a key moves the decoder, and only the last one posts an event.  *)

LEMMA OutputNothing ==
    ASSUME NEW b, NEW s, Decoded(b) = To(s, NoKey), Output(b)
    PROVE  step' = s /\ UNCHANGED <<queue, garbled, intended>>
BY DEF Output, To

LEMMA OutputEvent ==
    ASSUME NEW b, Decoded(b) = To("1", intended), Output(b), intended # NoKey, garbled = FALSE
    PROVE  step' = "1" /\ queue' = Append(queue, intended) /\ garbled' = FALSE /\ intended' = NoKey
<1>1. Decoded(b).step = "1" /\ Decoded(b).event = intended
  BY DEF To
<1>2. step' = "1" /\ queue' = Append(queue, intended) /\ intended' = NoKey
  BY <1>1 DEF Output
<1>3. garbled' = (garbled \/ intended # intended)
  BY <1>1 DEF Output
<1> QED
  BY <1>2, <1>3, Zenon

\* What the client keeps of a key it has begun to send.
LEMMA SendByteStep ==
    ASSUME KeyInv, talking = <<>>, Len(sending) # 0, Consume(Head(sending)), sending' = Tail(sending)
    PROVE  /\ sending' \in Seq(KeyByte) /\ escape' = FALSE /\ state' = "data"
           /\ garbled' = FALSE /\ queue' \in Seq(Key) /\ Sending(sending', intended', step')
<1> PICK k : k = intended
  OBVIOUS
<1>1. PICK t \in Seq(KeyByte), n \in Nat : t = sending /\ n = Len(t) /\ n > 0 /\ k = intended
  BY LenProperties DEF KeyInv
<1>2. PICK b : b = Head(t)
  OBVIOUS
<1>3. Consume(b)
  BY <1>1, <1>2
<1>4. ASSUME NEW l, EndOf(t, l)
      PROVE  /\ b = l[n] /\ sending' \in Seq(KeyByte) /\ Len(sending') = n - 1 /\ EndOf(sending', l)
  BY <1>1, <1>2, <1>4, EndOfTail
<1>5. ~escape /\ state = "data"
  <2>1. Len(talking) = 0
    OBVIOUS
  <2> QED
    BY <2>1 DEF KeyInv, Talk
<1> DEFINE Good == /\ sending' \in Seq(KeyByte)
                   /\ garbled' = FALSE /\ queue' \in Seq(Key) /\ Sending(sending', intended', step')
<1>6. ASSUME b # "IAC"
      PROVE  escape' = FALSE /\ state' = "data" /\ Output(b)
  BY <1>3, <1>5, <1>6 DEF Consume, Data
<1>7. queue \in Seq(Key) /\ garbled = FALSE /\ Sending(t, k, step)
  BY <1>1 DEF KeyInv
<1>8. ASSUME NEW x \in {"A", "B", "C", "D", "F", "H"}, k = Arrow[x],
             EndOf(t, ArrowBytes(x)), n \in 1..3,
             step = IF n = 3 THEN "1" ELSE IF n = 2 THEN "2" ELSE "3"
      PROVE  b # "IAC" /\ Good
  <2>1. /\ b = ArrowBytes(x)[n] /\ sending' \in Seq(KeyByte) /\ Len(sending') = n - 1
        /\ EndOf(sending', ArrowBytes(x))
    BY <1>4, <1>8
  <2>2. b = IF n = 1 THEN x ELSE IF n = 2 THEN "[" ELSE "ESC"
    BY <1>8, <2>1 DEF ArrowBytes
  <2>3. b # "IAC"
    BY <2>2
  <2>4. Output(b)
    BY <1>6, <2>3
  <2>5. CASE n = 3
    <3>1. Decoded(b) = To("2", NoKey)
      BY <1>8, <2>2, <2>5 DEF Decoded, Plain
    <3>2. step' = "2" /\ UNCHANGED <<queue, garbled, intended>>
      BY <2>4, <3>1, OutputNothing
    <3>3. Sending(sending', intended', step')
      <4>1. intended' = Arrow[x]
        BY <1>1, <1>8, <3>2
      <4>2. Len(sending') = 2
        <5>1. n - 1 = 2
          BY <2>5
        <5> QED
          BY <2>1, <5>1, Zenon
      <4>3. EndOf(sending', ArrowBytes(x)) /\ Len(sending') \in 1..3
        <5>1. 2 \in 1..3
          OBVIOUS
        <5> QED
          BY <2>1, <4>2, <5>1, Zenon
      <4>4. step' = IF Len(sending') = 3 THEN "1" ELSE IF Len(sending') = 2 THEN "2" ELSE "3"
        BY <3>2, <4>2
      <4> QED
        BY <4>1, <4>3, <4>4, Zenon DEF Sending
    <3> QED
      BY <1>7, <2>1, <2>3, <3>2, <3>3
  <2>6. CASE n = 2
    <3>1. Decoded(b) = To("3", NoKey)
      BY <1>8, <2>2, <2>6 DEF Decoded
    <3>2. step' = "3" /\ UNCHANGED <<queue, garbled, intended>>
      BY <2>4, <3>1, OutputNothing
    <3>3. Sending(sending', intended', step')
      <4>1. intended' = Arrow[x]
        BY <1>1, <1>8, <3>2
      <4>2. Len(sending') = 1
        <5>1. n - 1 = 1
          BY <2>6
        <5> QED
          BY <2>1, <5>1, Zenon
      <4>3. EndOf(sending', ArrowBytes(x)) /\ Len(sending') \in 1..3
        <5>1. 1 \in 1..3
          OBVIOUS
        <5> QED
          BY <2>1, <4>2, <5>1, Zenon
      <4>4. step' = IF Len(sending') = 3 THEN "1" ELSE IF Len(sending') = 2 THEN "2" ELSE "3"
        <5>1. 1 # 3 /\ 1 # 2
          OBVIOUS
        <5> QED
          BY <3>2, <4>2, <5>1, Zenon
      <4> QED
        BY <4>1, <4>3, <4>4, Zenon DEF Sending
    <3> QED
      BY <1>7, <2>1, <2>3, <3>2, <3>3
  <2>7. CASE n = 1
    <3>1. Arrow[x] \in Key /\ Arrow[x] # NoKey /\ x \in DOMAIN Arrow
      BY DEF Arrow, Key, NamedKey, Editing, NoKey
    <3>2. Decoded(b) = To("1", intended)
      BY <1>1, <1>8, <2>2, <2>7, <3>1 DEF Decoded
    <3>3. step' = "1" /\ queue' = Append(queue, intended) /\ garbled' = FALSE /\ intended' = NoKey
      BY <1>1, <1>7, <1>8, <2>4, <3>1, <3>2, OutputEvent
    <3>4. queue' \in Seq(Key)
      <4>1. intended \in Key
        BY <1>1, <1>8, <3>1
      <4> QED
        BY <1>7, <3>3, <4>1
    <3>5. Sending(sending', intended', step')
      BY <2>1, <2>7, <3>3 DEF Sending
    <3> QED
      BY <2>1, <2>3, <3>3, <3>4, <3>5
  <2> HIDE DEF Good
  <2> QED
    BY <1>8, <2>3, <2>5, <2>6, <2>7
<1>9. ASSUME k = "canc", EndOf(t, CancBytes), n \in 1..4,
             step = IF n = 4 THEN "1" ELSE IF n = 3 THEN "2" ELSE IF n = 2 THEN "3" ELSE "4"
      PROVE  b # "IAC" /\ Good
  <2>1. /\ b = CancBytes[n] /\ sending' \in Seq(KeyByte) /\ Len(sending') = n - 1
        /\ EndOf(sending', CancBytes)
    BY <1>4, <1>9
  <2>2. b = IF n = 1 THEN "~" ELSE IF n = 2 THEN "3" ELSE IF n = 3 THEN "[" ELSE "ESC"
    BY <1>9, <2>1 DEF CancBytes
  <2>3. b # "IAC"
    BY <2>2
  <2>4. Output(b)
    BY <1>6, <2>3
  <2>5. CASE n # 1
    <3>1. PICK s : /\ s = IF n = 4 THEN "2" ELSE IF n = 3 THEN "3" ELSE "4"
                   /\ Decoded(b) = To(s, NoKey)
      <4>1. CASE n = 4
        BY <1>9, <2>2, <4>1 DEF Decoded, Plain
      <4>2. CASE n = 3
        BY <1>9, <2>2, <4>2 DEF Decoded
      <4>3. CASE n = 2
        BY <1>9, <2>2, <4>3 DEF Decoded, Arrow
      <4> QED
        BY <1>9, <2>5, <4>1, <4>2, <4>3
    <3>2. step' = s /\ UNCHANGED <<queue, garbled, intended>>
      BY <2>4, <3>1, OutputNothing
    <3>3. Sending(sending', intended', step')
      <4>1. PICK m \in 1..3 : m = n - 1 /\ Len(sending') = m
        <5>1. n - 1 \in 1..3
          BY <1>9, <2>5
        <5> QED
          BY <2>1, <5>1
      <4>2. intended' = "canc"
        BY <1>1, <1>9, <3>2
      <4>3. step' = IF m = 3 THEN "2" ELSE IF m = 2 THEN "3" ELSE "4"
        BY <3>1, <3>2, <4>1
      <4>4. EndOf(sending', CancBytes) /\ Len(sending') \in 1..4
        <5>1. m \in 1..4
          OBVIOUS
        <5> QED
          BY <2>1, <4>1, <5>1, Zenon
      <4>5. step' = IF Len(sending') = 4 THEN "1" ELSE IF Len(sending') = 3 THEN "2" ELSE IF Len(sending') = 2 THEN "3" ELSE "4"
        <5>1. m # 4
          OBVIOUS
        <5> QED
          BY <4>1, <4>3, <5>1, Zenon
      <4> QED
        BY <4>2, <4>4, <4>5, Zenon DEF Sending
    <3> QED
      BY <1>7, <2>1, <2>3, <3>2, <3>3
  <2>6. CASE n = 1
    <3>1. Decoded(b) = To("1", intended) /\ intended # NoKey /\ intended \in Key
      BY <1>1, <1>9, <2>2, <2>6 DEF Decoded, Key, NamedKey, Editing, NoKey
    <3>2. step' = "1" /\ queue' = Append(queue, intended) /\ garbled' = FALSE /\ intended' = NoKey
      BY <1>7, <2>4, <3>1, OutputEvent
    <3>3. queue' \in Seq(Key)
      BY <1>7, <3>1, <3>2
    <3>4. Sending(sending', intended', step')
      BY <2>1, <2>6, <3>2 DEF Sending
    <3> QED
      BY <2>1, <2>3, <3>2, <3>3, <3>4
  <2> QED
    BY <2>5, <2>6
<1>10. ASSUME NEW x \in {"NUL", "LF"}, k = "ret", EndOf(t, RetBytes(x)), n \in 1..2,
              step = IF n = 2 THEN "1" ELSE "wait_0"
       PROVE  b # "IAC" /\ Good
  <2>1. /\ b = RetBytes(x)[n] /\ sending' \in Seq(KeyByte) /\ Len(sending') = n - 1
        /\ EndOf(sending', RetBytes(x))
    BY <1>4, <1>10
  <2>2. b = IF n = 1 THEN x ELSE "CR"
    BY <1>10, <2>1 DEF RetBytes
  <2>3. b # "IAC"
    BY <2>2
  <2>4. Output(b)
    BY <1>6, <2>3
  <2>5. CASE n = 2
    <3>1. Decoded(b) = To("wait_0", NoKey)
      BY <1>10, <2>2, <2>5 DEF Decoded, Plain
    <3>2. step' = "wait_0" /\ UNCHANGED <<queue, garbled, intended>>
      BY <2>4, <3>1, OutputNothing
    <3>3. Sending(sending', intended', step')
      <4>1. intended' = "ret"
        BY <1>1, <1>10, <3>2
      <4>2. Len(sending') = 1
        <5>1. n - 1 = 1
          BY <2>5
        <5> QED
          BY <2>1, <5>1, Zenon
      <4>3. EndOf(sending', RetBytes(x)) /\ Len(sending') \in 1..2
        <5>1. 1 \in 1..2
          OBVIOUS
        <5> QED
          BY <2>1, <4>2, <5>1, Zenon
      <4>4. step' = IF Len(sending') = 2 THEN "1" ELSE "wait_0"
        BY <3>2, <4>2
      <4> QED
        BY <4>1, <4>3, <4>4, Zenon DEF Sending
    <3> QED
      BY <1>7, <2>1, <2>3, <3>2, <3>3
  <2>6. CASE n = 1
    <3>1. Decoded(b) = To("1", intended) /\ intended # NoKey /\ intended \in Key
      BY <1>1, <1>10, <2>2, <2>6 DEF Decoded, Key, NamedKey, NoKey
    <3>2. step' = "1" /\ queue' = Append(queue, intended) /\ garbled' = FALSE /\ intended' = NoKey
      BY <1>7, <2>4, <3>1, OutputEvent
    <3>3. queue' \in Seq(Key)
      BY <1>7, <3>1, <3>2
    <3>4. Sending(sending', intended', step')
      BY <2>1, <2>6, <3>2 DEF Sending
    <3> QED
      BY <2>1, <2>3, <3>2, <3>3, <3>4
  <2> HIDE DEF Good
  <2> QED
    BY <1>10, <2>5, <2>6
<1>11. ASSUME n = 1, step = "1",
              \/ t[1] \in Char /\ k = t[1]
              \/ \E x \in {"EOT", "BS", "DEL", "FF", "TAB"} : t[1] = x /\ k = Plain[x]
       PROVE  b # "IAC" /\ Good
  <2>1. /\ b = t[1] /\ sending' \in Seq(KeyByte) /\ Len(sending') = 0
    <3>1. EndOf(t, t)
      BY <1>1, <1>11 DEF EndOf
    <3> QED
      BY <1>4, <1>11, <3>1
  <2>2. b # "IAC" /\ Decoded(b) = To("1", k) /\ k # NoKey /\ k \in Key
    <3>1. CASE t[1] \in Char /\ k = t[1]
      <4>1. b \in Char /\ k = b
        BY <2>1, <3>1
      <4>2. /\ b \notin {"ESC", "CR", "IAC", "EOT", "BS", "DEL", "FF", "TAB"}
            /\ b # NoKey
        BY <4>1, CharAssumption DEF ControlByte
      <4>3. Decoded(b) = To("1", b)
        BY <1>11, <4>2 DEF Decoded, Plain
      <4> QED
        BY <4>1, <4>2, <4>3 DEF Key
    <3>2. ASSUME NEW x \in {"EOT", "BS", "DEL", "FF", "TAB"}, t[1] = x, k = Plain[x]
          PROVE  b # "IAC" /\ Decoded(b) = To("1", k) /\ k # NoKey /\ k \in Key
      <4>1. x \in DOMAIN Plain /\ Plain[x] \in NamedKey /\ Plain[x] # NoKey
        BY DEF Plain, NamedKey, Editing, NoKey
      <4>2. Decoded(b) = To("1", Plain[x])
        BY <1>11, <2>1, <3>2, <4>1 DEF Decoded
      <4> QED
        BY <2>1, <3>2, <4>1, <4>2 DEF Key
    <3> QED
      BY <1>11, <3>1, <3>2
  <2>3. Output(b)
    BY <1>6, <2>2
  <2>4. step' = "1" /\ queue' = Append(queue, intended) /\ garbled' = FALSE /\ intended' = NoKey
    BY <1>1, <1>7, <2>2, <2>3, OutputEvent
  <2>5. queue' \in Seq(Key)
    BY <1>1, <1>7, <2>2, <2>4
  <2>6. Sending(sending', intended', step')
    BY <2>1, <2>4 DEF Sending
  <2> QED
    BY <2>1, <2>2, <2>4, <2>5, <2>6
<1>12. b # "IAC" /\ Good
  <2> HIDE DEF Good
  <2> QED
    BY <1>1, <1>7, <1>8, <1>9, <1>10, <1>11 DEF Sending
<1> QED
  BY <1>6, <1>12

-----------------------------------------------------------------------------
(* The bytes of a key and of a negotiation, when they are begun.            *)

LEMMA ListOfThree ==
    ASSUME NEW x, NEW y, NEW z
    PROVE  Len(<<x, y, z>>) = 3 /\ EndOf(<<x, y, z>>, <<z, y, x>>)
<1>1. ASSUME NEW i \in 1..3 PROVE <<x, y, z>>[i] = <<z, y, x>>[3 + 1 - i]
  <2>1. i = 1 \/ i = 2 \/ i = 3
    OBVIOUS
  <2> QED
    BY <2>1
<1> QED
  BY <1>1 DEF EndOf

LEMMA KeyBegun ==
    ASSUME NEW k \in Key, NEW t \in Bytes(k)
    PROVE  t \in Seq(KeyByte) /\ Sending(t, k, "1")
<1>1. ASSUME NEW x \in {"A", "B", "C", "D", "F", "H"}, t = <<"ESC", "[", x>>, k = Arrow[x]
      PROVE  t \in Seq(KeyByte) /\ Sending(t, k, "1")
  <2>1. t \in Seq(KeyByte)
    BY <1>1 DEF KeyByte, ControlByte
  <2>2. Len(t) = 3 /\ EndOf(t, ArrowBytes(x))
    BY <1>1, ListOfThree DEF ArrowBytes
  <2>3. Len(t) \in 1..3 /\ "1" = IF Len(t) = 3 THEN "1" ELSE IF Len(t) = 2 THEN "2" ELSE "3"
    BY <2>2
  <2> QED
    BY <1>1, <2>1, <2>2, <2>3, Zenon DEF Sending
<1>2. ASSUME t = <<"ESC", "[", "3", "~">>, k = "canc"
      PROVE  t \in Seq(KeyByte) /\ Sending(t, k, "1")
  <2>1. t \in Seq(KeyByte) /\ Len(t) = 4
    BY <1>2 DEF KeyByte, ControlByte
  <2>2. ASSUME NEW i \in 1..4 PROVE t[i] = CancBytes[4 + 1 - i]
    <3>1. i = 1 \/ i = 2 \/ i = 3 \/ i = 4
      OBVIOUS
    <3> QED
      BY <1>2, <3>1 DEF CancBytes
  <2>3. Len(CancBytes) = 4
    BY DEF CancBytes
  <2>4. EndOf(t, CancBytes)
    BY <2>1, <2>2, <2>3 DEF EndOf
  <2>5. /\ Len(t) \in 1..4
        /\ "1" = IF Len(t) = 4 THEN "1" ELSE IF Len(t) = 3 THEN "2" ELSE IF Len(t) = 2 THEN "3" ELSE "4"
    BY <2>1
  <2> QED
    BY <1>2, <2>1, <2>4, <2>5, Zenon DEF Sending
<1>3. ASSUME NEW x \in {"NUL", "LF"}, t = <<"CR", x>>, k = "ret"
      PROVE  t \in Seq(KeyByte) /\ Sending(t, k, "1")
  <2>1. t \in Seq(KeyByte) /\ Len(t) = 2
    BY <1>3 DEF KeyByte, ControlByte
  <2>2. ASSUME NEW i \in 1..2 PROVE t[i] = RetBytes(x)[2 + 1 - i]
    <3>1. i = 1 \/ i = 2
      OBVIOUS
    <3> QED
      BY <1>3, <3>1 DEF RetBytes
  <2>3. Len(RetBytes(x)) = 2
    BY DEF RetBytes
  <2>4. EndOf(t, RetBytes(x))
    BY <2>1, <2>2, <2>3 DEF EndOf
  <2>5. Len(t) \in 1..2 /\ "1" = IF Len(t) = 2 THEN "1" ELSE "wait_0"
    BY <2>1
  <2> QED
    BY <1>3, <2>1, <2>4, <2>5, Zenon DEF Sending
<1>4. ASSUME NEW x \in {"EOT", "BS", "DEL", "FF", "TAB"}, t = <<x>>, k = Plain[x]
      PROVE  t \in Seq(KeyByte) /\ Sending(t, k, "1")
  <2>1. t \in Seq(KeyByte) /\ Len(t) = 1 /\ t[1] = x
    BY <1>4 DEF KeyByte, ControlByte
  <2> QED
    BY <1>4, <2>1, Zenon DEF Sending
<1>5. ASSUME k \in Char, t = <<k>>
      PROVE  t \in Seq(KeyByte) /\ Sending(t, k, "1")
  <2>1. t \in Seq(KeyByte) /\ Len(t) = 1 /\ t[1] = k
    BY <1>5 DEF KeyByte
  <2> QED
    BY <1>5, <2>1, Zenon DEF Sending
<1>6. CASE k \in Char
  <2>1. k \notin NamedKey
    BY <1>6, CharAssumption
  <2>2. Bytes(k) = {<<k>>}
    BY <2>1 DEF Bytes, NamedKey, Editing
  <2> QED
    BY <1>5, <1>6, <2>2
<1>7. CASE k \in NamedKey
  <2>1. /\ Arrow["A"] = "up" /\ Arrow["B"] = "down" /\ Arrow["C"] = "right"
        /\ Arrow["D"] = "left" /\ Arrow["F"] = "end" /\ Arrow["H"] = "home"
    BY DEF Arrow
  <2>2. /\ Plain["EOT"] = "eof" /\ Plain["BS"] = "backspace" /\ Plain["DEL"] = "backspace"
        /\ Plain["FF"] = "clear" /\ Plain["TAB"] = "tab"
    BY DEF Plain
  <2>3. CASE k = "up"
    <3>1. t = <<"ESC", "[", "A">>
      BY <2>3 DEF Bytes
    <3> QED
      BY <1>1, <2>1, <2>3, <3>1
  <2>4. CASE k = "down"
    <3>1. t = <<"ESC", "[", "B">>
      BY <2>4 DEF Bytes
    <3> QED
      BY <1>1, <2>1, <2>4, <3>1
  <2>5. CASE k = "right"
    <3>1. t = <<"ESC", "[", "C">>
      BY <2>5 DEF Bytes
    <3> QED
      BY <1>1, <2>1, <2>5, <3>1
  <2>6. CASE k = "left"
    <3>1. t = <<"ESC", "[", "D">>
      BY <2>6 DEF Bytes
    <3> QED
      BY <1>1, <2>1, <2>6, <3>1
  <2>7. CASE k = "end"
    <3>1. t = <<"ESC", "[", "F">>
      BY <2>7 DEF Bytes
    <3> QED
      BY <1>1, <2>1, <2>7, <3>1
  <2>8. CASE k = "home"
    <3>1. t = <<"ESC", "[", "H">>
      BY <2>8 DEF Bytes
    <3> QED
      BY <1>1, <2>1, <2>8, <3>1
  <2>9. CASE k = "canc"
    <3>1. t = <<"ESC", "[", "3", "~">>
      BY <2>9 DEF Bytes
    <3> QED
      BY <1>2, <2>9, <3>1
  <2>10. CASE k = "ret"
    <3>1. t = <<"CR", "NUL">> \/ t = <<"CR", "LF">>
      BY <2>10 DEF Bytes
    <3> QED
      BY <1>3, <2>10, <3>1
  <2>11. CASE k = "backspace"
    <3>1. t = <<"BS">> \/ t = <<"DEL">>
      BY <2>11 DEF Bytes
    <3> QED
      BY <1>4, <2>2, <2>11, <3>1
  <2>12. CASE k = "clear"
    <3>1. t = <<"FF">>
      BY <2>12 DEF Bytes
    <3> QED
      BY <1>4, <2>2, <2>12, <3>1
  <2>13. CASE k = "tab"
    <3>1. t = <<"TAB">>
      BY <2>13 DEF Bytes
    <3> QED
      BY <1>4, <2>2, <2>13, <3>1
  <2>14. CASE k = "eof"
    <3>1. t = <<"EOT">>
      BY <2>14 DEF Bytes
    <3> QED
      BY <1>4, <2>2, <2>14, <3>1
  <2> QED
    BY <1>7, <2>3, <2>4, <2>5, <2>6, <2>7, <2>8, <2>9, <2>10, <2>11, <2>12, <2>13, <2>14
       DEF NamedKey, Editing
<1> QED
  BY <1>6, <1>7 DEF Key

LEMMA NegotiationBegun ==
    ASSUME NEW t \in Negotiations, NEW esc, ~esc
    PROVE  t \in Seq(TalkByte) /\ Talk(t, esc, "data")
<1>1. ASSUME t = <<"IAC", "NOP">>
      PROVE  t \in Seq(TalkByte) /\ Talk(t, esc, "data")
  <2>1. t \in Seq(TalkByte) /\ Len(t) = 2
    BY <1>1 DEF TalkByte
  <2>2. ASSUME NEW i \in 1..2 PROVE t[i] = NopBytes[2 + 1 - i]
    <3>1. i = 1 \/ i = 2
      OBVIOUS
    <3> QED
      BY <1>1, <3>1 DEF NopBytes
  <2>3. Len(NopBytes) = 2
    BY DEF NopBytes
  <2>4. EndOf(t, NopBytes)
    BY <2>1, <2>2, <2>3 DEF EndOf
  <2>5. Len(t) \in 1..2 /\ Len(t) # 1
    BY <2>1
  <2> QED
    BY <2>1, <2>4, <2>5, Zenon DEF Talk
<1>2. ASSUME NEW c \in Verb, t = <<"IAC", c, "OPT">>
      PROVE  t \in Seq(TalkByte) /\ Talk(t, esc, "data")
  <2>1. t \in Seq(TalkByte)
    BY <1>2 DEF TalkByte
  <2>2. Len(t) = 3 /\ EndOf(t, VerbBytes(c))
    BY <1>2, ListOfThree DEF VerbBytes
  <2>3. Len(t) \in 1..3 /\ Len(t) # 2 /\ Len(t) # 1
    BY <2>2
  <2> QED
    BY <2>1, <2>2, <2>3, Zenon DEF Talk
<1>3. ASSUME t = <<"IAC", "SB", "OPT", "ESC", "IAC", "IAC", "CR", "IAC", "SE">>
      PROVE  t \in Seq(TalkByte) /\ Talk(t, esc, "data")
  <2>1. t \in Seq(TalkByte) /\ Len(t) = 9
    BY <1>3 DEF TalkByte
  <2>2. ASSUME NEW i \in 1..9 PROVE t[i] = SubBytes[9 + 1 - i]
    <3>1. \/ i = 1 \/ i = 2 \/ i = 3 \/ i = 4 \/ i = 5
          \/ i = 6 \/ i = 7 \/ i = 8 \/ i = 9
      OBVIOUS
    <3> QED
      BY <1>3, <3>1 DEF SubBytes
  <2>3. Len(SubBytes) = 9
    BY DEF SubBytes
  <2>4. EndOf(t, SubBytes)
    BY <2>1, <2>2, <2>3 DEF EndOf
  <2>5. Len(t) \in 1..9 /\ Len(t) \notin {8, 4, 1} /\ Len(t) \in 8..9
    BY <2>1
  <2> QED
    BY <2>1, <2>4, <2>5, Zenon DEF Talk
<1> QED
  BY <1>1, <1>2, <1>3 DEF Negotiations, Verb

-----------------------------------------------------------------------------
(* KeyInv is inductive.                                                     *)

LEMMA NothingBegun ==
    ASSUME NEW t, Len(t) = 0, NEW esc, NEW st, ~esc, st = "data"
    PROVE  Talk(t, esc, st)
BY DEF Talk

LEMMA InitKey == Init => KeyInv
<1> SUFFICES ASSUME Init PROVE KeyInv
  OBVIOUS
<1>1. /\ talking = <<>> /\ sending = <<>> /\ queue = <<>> /\ intended = NoKey
      /\ escape = FALSE /\ state = "data" /\ step = "1" /\ garbled = FALSE
  BY DEF Init
<1>2. talking \in Seq(TalkByte) /\ sending \in Seq(KeyByte) /\ queue \in Seq(Key)
  BY <1>1
<1>3. Len(talking) = 0 /\ Len(sending) = 0
  BY <1>1
<1>4. Talk(talking, escape, state)
  BY <1>1, <1>3 DEF Talk
<1>5. Sending(sending, intended, step)
  BY <1>1, <1>3 DEF Sending
<1> QED
  BY <1>1, <1>2, <1>4, <1>5 DEF KeyInv

LEMMA PressKey ==
    ASSUME KeyInv, NEW k \in Key, Press(k)
    PROVE  KeyInv'
<1>1. /\ sending = <<>> /\ intended' = k /\ sending' \in Bytes(k)
      /\ UNCHANGED <<talking, escape, state, step, garbled, queue>>
  BY DEF Press, decoderVars
<1>2. step = "1"
  <2>1. Len(sending) = 0
    BY <1>1
  <2> QED
    BY <2>1 DEF KeyInv, Sending
<1>3. sending' \in Seq(KeyByte) /\ Sending(sending', k, "1")
  BY <1>1, KeyBegun
<1> QED
  BY <1>1, <1>2, <1>3 DEF KeyInv

LEMMA NegotiateKey ==
    ASSUME KeyInv, NEW n \in Negotiations, Negotiate(n)
    PROVE  KeyInv'
<1>1. /\ talking = <<>> /\ talking' = n
      /\ UNCHANGED <<sending, intended, escape, state, step, garbled, queue>>
  BY DEF Negotiate, decoderVars
<1>2. ~escape /\ state = "data"
  <2>1. Len(talking) = 0
    BY <1>1
  <2> QED
    BY <2>1 DEF KeyInv, Talk
<1>3. n \in Seq(TalkByte) /\ Talk(n, escape, "data")
  BY <1>2, NegotiationBegun
<1> QED
  BY <1>1, <1>2, <1>3 DEF KeyInv

LEMMA ByteKey ==
    ASSUME KeyInv, Byte
    PROVE  KeyInv'
<1>1. CASE talking # <<>>
  <2>1. Len(talking) # 0
    BY <1>1, EmptySeq DEF KeyInv
  <2>2. Consume(Head(talking)) /\ talking' = Tail(talking) /\ sending' = sending
    BY <1>1 DEF Byte
  <2>3. /\ talking' \in Seq(TalkByte) /\ escape' \in BOOLEAN /\ Talk(talking', escape', state')
        /\ UNCHANGED <<step, queue, garbled, intended>>
    BY <2>1, <2>2, TalkByteStep
  <2> QED
    BY <2>2, <2>3 DEF KeyInv
<1>2. CASE talking = <<>>
  <2>1. /\ Consume(Head(sending)) /\ sending # <<>>
        /\ sending' = Tail(sending) /\ talking' = talking
    BY <1>2 DEF Byte
  <2>2. Len(sending) # 0
    BY <2>1, EmptySeq DEF KeyInv
  <2>3. /\ sending' \in Seq(KeyByte) /\ escape' = FALSE /\ state' = "data"
        /\ garbled' = FALSE /\ queue' \in Seq(Key) /\ Sending(sending', intended', step')
    BY <1>2, <2>1, <2>2, SendByteStep
  <2>4. Talk(talking', escape', state')
    <3>1. Len(talking') = 0
      BY <1>2, <2>1
    <3> QED
      BY <2>3, <3>1, NothingBegun
  <2> QED
    BY <2>1, <2>3, <2>4 DEF KeyInv
<1> QED
  BY <1>1, <1>2

LEMMA RunKeyKey ==
    ASSUME KeyInv, RunKey
    PROVE  KeyInv'
<1>1. /\ queue # <<>> /\ queue' = Tail(queue)
      /\ UNCHANGED <<talking, sending, intended, escape, state, step, garbled>>
  BY DEF RunKey, clientVars, decoderVars
<1>2. queue' \in Seq(Key)
  BY <1>1, HeadTailProperties DEF KeyInv
<1> QED
  BY <1>1, <1>2 DEF KeyInv

LEMMA KeyIsInvariant == Spec => []KeyInv
<1>1. KeyInv /\ [Next]_vars => KeyInv'
  <2> SUFFICES ASSUME KeyInv, [Next]_vars PROVE KeyInv'
    OBVIOUS
  <2>1. CASE \E k \in Key : Press(k)
    BY <2>1, PressKey
  <2>2. CASE \E n \in Negotiations : Negotiate(n)
    BY <2>2, NegotiateKey
  <2>3. CASE Byte
    BY <2>3, ByteKey
  <2>4. CASE RunKey
    BY <2>4, RunKeyKey
  <2>5. CASE Broadcast \/ UNCHANGED vars
    <3>1. UNCHANGED <<talking, sending, intended, escape, state, step, garbled, queue>>
      BY <2>5 DEF Broadcast, vars, clientVars, decoderVars
    <3> QED
      BY <3>1 DEF KeyInv
  <2> QED
    BY <2>1, <2>2, <2>3, <2>4, <2>5 DEF Next
<1> QED
  BY <1>1, InitKey, PTL DEF Spec

\* Wherever a negotiation falls, between two bytes of a key included, the
\* decoder posts the events of the keys that were pressed and no other, each
\* with the last byte of its key.
THEOREM EventsAreTheKeys == Spec => []NegotiationIsTransparent
<1>1. KeyInv => NegotiationIsTransparent
  <2> SUFFICES ASSUME KeyInv PROVE NegotiationIsTransparent
    OBVIOUS
  <2>1. ASSUME sending = <<>> PROVE intended = NoKey
    <3>1. Len(sending) = 0
      BY <2>1
    <3> QED
      BY <3>1 DEF KeyInv, Sending
  <2> QED
    BY <2>1 DEF NegotiationIsTransparent, KeyInv
<1> QED
  BY <1>1, KeyIsInvariant, PTL

-----------------------------------------------------------------------------
(* The screen, cell by cell.                                                *)

Shown == Char \cup {">"}
Mark == ">"
Blank == " "
Screen == [row : Seq(Shown), col : Nat]

\* What the line shows i columns after the prompt: blanks after its end.
Cell(l, i) == IF i <= Len(l) THEN l[i] ELSE Blank

RowShows(r, l) ==
    /\ r \in Seq(Shown) /\ Len(r) >= 2 + Len(l)
    /\ r[1] = Mark /\ r[2] = Blank
    /\ \A i \in 1..Len(r) - 2 : r[2 + i] = Cell(l, i)

Shows(scr, l, p) == scr \in Screen /\ RowShows(scr.row, l) /\ scr.col = 2 + p

\* Printing s at the column p of the line l makes it m.
Painted(l, p, s, m) ==
    /\ Len(m) <= Len(l) \/ Len(m) <= p + Len(s)
    /\ \A i \in Nat \ {0} :
        Cell(m, i) = IF p < i /\ i <= p + Len(s) THEN s[i - p] ELSE Cell(l, i)

Cut(s, a, b) == SubSeq(s, a, b)
Joined(s, t) == s \o t

IsCut(u, s, a, b) ==
    /\ u = Cut(s, a, b) /\ Len(u) = b + 1 - a
    /\ \A i \in 1..b + 1 - a : u[i] = s[a + i - 1]
IsJoined(u, s, t, n, k) ==
    /\ u = Joined(s, t) /\ Len(u) = n + k
    /\ \A i \in 1..n : u[i] = s[i]
    /\ \A i \in n + 1..n + k : u[i] = t[i - n]

\* A part of a sequence, and two of them one after the other.
LEMMA CutCells ==
    ASSUME NEW S, NEW s \in Seq(S), NEW n \in Nat, n = Len(s), NEW a \in 1..n + 1, NEW b \in a - 1..n
    PROVE  \E u \in Seq(S) : IsCut(u, s, a, b)
<1>1. PICK u : u = Cut(s, a, b)
  OBVIOUS
<1>2. ASSUME NEW i \in a..b PROVE s[i] \in S
  <2>1. i \in 1..n
    OBVIOUS
  <2> QED
    BY <2>1
<1>3. /\ u \in Seq(S) /\ Len(u) = IF a <= b THEN b - a + 1 ELSE 0
      /\ \A i \in 1..b - a + 1 : u[i] = s[a + i - 1]
  BY <1>1, <1>2, SubSeqProperties, SMTT(20) DEF Cut
<1>4. Len(u) = b + 1 - a
  BY <1>3
<1>5. \A i \in 1..b + 1 - a : u[i] = s[a + i - 1]
  BY <1>3
<1> QED
  BY <1>1, <1>3, <1>4, <1>5, Zenon DEF IsCut

LEMMA JoinedCells ==
    ASSUME NEW S, NEW s \in Seq(S), NEW t \in Seq(S), NEW n \in Nat, n = Len(s), NEW k \in Nat, k = Len(t)
    PROVE  \E u \in Seq(S) : IsJoined(u, s, t, n, k)
<1>1. PICK u : u = Joined(s, t)
  OBVIOUS
<1>2. /\ u \in Seq(S) /\ Len(u) = n + k
      /\ \A i \in 1..n + k : u[i] = IF i <= n THEN s[i] ELSE t[i - n]
  BY <1>1, ConcatProperties DEF Joined
<1>3. ASSUME NEW i \in 1..n PROVE u[i] = s[i]
  <2>1. i \in 1..n + k /\ i <= n
    OBVIOUS
  <2> QED
    BY <1>2, <2>1, Zenon
<1>4. ASSUME NEW i \in n + 1..n + k PROVE u[i] = t[i - n]
  <2>1. i \in 1..n + k /\ ~(i <= n)
    OBVIOUS
  <2> QED
    BY <1>2, <2>1, Zenon
<1> QED
  BY <1>1, <1>2, <1>3, <1>4, Zenon DEF IsJoined

\* s is written over the row r after c columns.
Over(r, c, s) == Joined(Joined(Cut(r, 1, c), s), Cut(r, c + Len(s) + 1, Len(r)))

IsOver(e, r, c, s, k, n) ==
    /\ e = Over(r, c, s)
    /\ Len(e) = IF c + n <= k THEN k ELSE c + n
    /\ \A i \in 1..c : e[i] = r[i]
    /\ \A i \in c + 1..c + n : e[i] = s[i - c]
    /\ \A i \in c + n + 1..k : e[i] = r[i]

LEMMA OverCells ==
    ASSUME NEW S, NEW r \in Seq(S), NEW k \in Nat, k = Len(r), NEW c \in 0..k,
           NEW s \in Seq(S), NEW n \in Nat, n = Len(s)
    PROVE  \E e \in Seq(S) : IsOver(e, r, c, s, k, n)
<1>1. PICK a \in Seq(S) : a = Cut(r, 1, c) /\ Len(a) = c /\ \A i \in 1..c : a[i] = r[i]
  <2>1. 1 \in 1..k + 1 /\ c \in 1 - 1..k
    OBVIOUS
  <2>1a. PICK a \in Seq(S) : IsCut(a, r, 1, c)
    BY <2>1, CutCells
  <2>2. /\ a = Cut(r, 1, c) /\ Len(a) = c + 1 - 1
        /\ \A i \in 1..c + 1 - 1 : a[i] = r[1 + i - 1]
    BY <2>1a, Zenon DEF IsCut
  <2>3. c + 1 - 1 = c
    OBVIOUS
  <2>4. ASSUME NEW i \in 1..c PROVE a[i] = r[i]
    <3>1. i \in 1..c + 1 - 1 /\ 1 + i - 1 = i
      OBVIOUS
    <3> QED
      BY <2>2, <3>1, Zenon
  <2> QED
    BY <2>2, <2>3, <2>4, Zenon
<1>2. PICK d \in Seq(S), z \in Nat :
        /\ d = Cut(r, c + n + 1, k) /\ Len(d) = z
        /\ z = IF c + n <= k THEN k - (c + n) ELSE 0
        /\ \A i \in 1..k - (c + n) : d[i] = r[c + n + i]
  <2>1. ASSUME c + n <= k
        PROVE  \E d \in Seq(S) : /\ d = Cut(r, c + n + 1, k) /\ Len(d) = k - (c + n)
                                 /\ \A i \in 1..k - (c + n) : d[i] = r[c + n + i]
    <3>1. c + n + 1 \in 1..k + 1 /\ k \in c + n + 1 - 1..k
      BY <2>1
    <3>1a. PICK d \in Seq(S) : IsCut(d, r, c + n + 1, k)
      BY <3>1, CutCells
    <3>2. /\ d = Cut(r, c + n + 1, k) /\ Len(d) = k + 1 - (c + n + 1)
          /\ \A i \in 1..k + 1 - (c + n + 1) : d[i] = r[c + n + 1 + i - 1]
      BY <3>1a, Zenon DEF IsCut
    <3>3. k + 1 - (c + n + 1) = k - (c + n)
      OBVIOUS
    <3>4. ASSUME NEW i \in 1..k - (c + n) PROVE d[i] = r[c + n + i]
      <4>1. i \in 1..k + 1 - (c + n + 1) /\ c + n + 1 + i - 1 = c + n + i
        OBVIOUS
      <4> QED
        BY <3>2, <4>1, Zenon
    <3> QED
      BY <3>2, <3>3, <3>4, ZenonT(30)
  <2>2. ASSUME ~(c + n <= k)
        PROVE  Cut(r, c + n + 1, k) \in Seq(S) /\ Len(Cut(r, c + n + 1, k)) = 0
    <3>1. Cut(r, c + n + 1, k) = <<>>
      <4>1. c + n + 1 \in Int /\ k \in Int /\ k < c + n + 1
        BY <2>2
      <4> QED
        BY <4>1, SubSeqEmpty DEF Cut
    <3> QED
      BY <3>1, EmptySeq
  <2>3. CASE c + n <= k
    <3>1. k - (c + n) \in Nat
      BY <2>3
    <3> QED
      BY <2>1, <2>3, <3>1, Zenon
  <2>4. CASE ~(c + n <= k)
    <3>1. \A i \in 1..k - (c + n) : FALSE
      BY <2>4
    <3> QED
      BY <2>2, <2>4, <3>1, Zenon
  <2> QED
    BY <2>3, <2>4, Zenon
<1>2a. PICK b \in Seq(S) : IsJoined(b, a, s, c, n)
  <2>1. c \in Nat /\ c = Len(a) /\ n = Len(s)
    BY <1>1
  <2> QED
    BY <2>1, JoinedCells
<1>3. /\ b = Joined(a, s) /\ Len(b) = c + n
      /\ \A i \in 1..c : b[i] = a[i]
      /\ \A i \in c + 1..c + n : b[i] = s[i - c]
  BY <1>2a, Zenon DEF IsJoined
<1>3a. PICK e \in Seq(S) : IsJoined(e, b, d, c + n, z)
  <2>1. c + n \in Nat /\ c + n = Len(b) /\ z = Len(d)
    BY <1>2, <1>3
  <2> QED
    BY <2>1, JoinedCells
<1>4. /\ e = Joined(b, d) /\ Len(e) = c + n + z
      /\ \A i \in 1..c + n : e[i] = b[i]
      /\ \A i \in c + n + 1..c + n + z : e[i] = d[i - (c + n)]
  BY <1>3a, Zenon DEF IsJoined
<1>5. e = Over(r, c, s)
  BY <1>1, <1>2, <1>3, <1>4, Zenon DEF Over
<1>6. Len(e) = IF c + n <= k THEN k ELSE c + n
  <2>1. c + n + z = IF c + n <= k THEN k ELSE c + n
    <3>1. /\ c + n <= k => z = k - (c + n)
          /\ ~(c + n <= k) => z = 0
      BY <1>2, Zenon
    <3>2. c + n \in Nat
      OBVIOUS
    <3>3. CASE c + n <= k
      <4>1. c + n + z = k
        <5>1. z = k - (c + n)
          BY <3>1, <3>3, Zenon
        <5> QED
          BY <5>1
      <4> QED
        BY <3>3, <4>1, Zenon
    <3>4. CASE ~(c + n <= k)
      BY <3>1, <3>2, <3>4
    <3> QED
      BY <3>3, <3>4
  <2> QED
    BY <1>4, <2>1, Zenon
<1>7. ASSUME NEW i \in 1..c PROVE e[i] = r[i]
  <2>1. i \in 1..c + n
    OBVIOUS
  <2> QED
    BY <1>1, <1>3, <1>4, <2>1, Zenon
<1>8. ASSUME NEW i \in c + 1..c + n PROVE e[i] = s[i - c]
  <2>1. i \in 1..c + n
    OBVIOUS
  <2> QED
    BY <1>3, <1>4, <2>1, Zenon
<1>9. ASSUME NEW i \in c + n + 1..k PROVE e[i] = r[i]
  <2>1. z = k - (c + n)
    BY <1>2
  <2>2. i \in c + n + 1..c + n + z /\ i - (c + n) \in 1..k - (c + n)
    BY <2>1
  <2>3. e[i] = d[i - (c + n)] /\ d[i - (c + n)] = r[c + n + (i - (c + n))]
    BY <1>2, <1>4, <2>2, Zenon
  <2>4. c + n + (i - (c + n)) = i
    OBVIOUS
  <2> QED
    BY <2>3, <2>4, Zenon
<1> QED
  BY <1>5, <1>6, <1>7, <1>8, <1>9, Zenon DEF IsOver

LEMMA PutShows ==
    ASSUME NEW l \in Seq(Char), NEW m \in Seq(Char), NEW s \in Seq(Char),
           NEW p \in Nat, p <= Len(l), NEW scr, Shows(scr, l, p), Painted(l, p, s, m)
    PROVE  Shows(Put(scr, s), m, p + Len(s))
<1>1. PICK n \in Nat, x \in Nat, y \in Nat : n = Len(s) /\ x = Len(l) /\ y = Len(m)
  BY LenProperties
<1>2. PICK r \in Seq(Shown), k \in Nat :
        /\ r = scr.row /\ k = Len(r) /\ k >= 2 + x /\ r[1] = Mark /\ r[2] = Blank
        /\ \A i \in 1..k - 2 : r[2 + i] = Cell(l, i)
  BY <1>1, LenProperties DEF Shows, RowShows
<1>3. scr \in Screen /\ scr.col = 2 + p
  BY Zenon DEF Shows
<1>4. s \in Seq(Shown)
  BY DEF Shown
<1>5. PICK c \in 0..k : c = 2 + p
  <2>1. 2 + p \in 0..k
    BY <1>1, <1>2
  <2> QED
    BY <2>1
<1>5a. PICK e \in Seq(Shown) : IsOver(e, r, c, s, k, n)
  BY <1>1, <1>2, <1>4, OverCells
<1>6. /\ e = Over(r, c, s)
      /\ Len(e) = IF c + n <= k THEN k ELSE c + n
      /\ \A i \in 1..c : e[i] = r[i]
      /\ \A i \in c + 1..c + n : e[i] = s[i - c]
      /\ \A i \in c + n + 1..k : e[i] = r[i]
  BY <1>5a, Zenon DEF IsOver
<1>7. Put(scr, s) = [row |-> e, col |-> c + n]
  BY <1>1, <1>2, <1>3, <1>5, <1>6, Zenon DEF Put, Over, Cut, Joined
<1>8. PICK z \in Nat : z = Len(e) /\ z = IF c + n <= k THEN k ELSE c + n
  BY <1>6
<1>9. z >= 2 + y
  <2>1. y <= x \/ y <= p + n
    BY <1>1, Zenon DEF Painted
  <2> QED
    <3>1. k >= 2 + x /\ c = 2 + p /\ z = IF c + n <= k THEN k ELSE c + n
      BY <1>2, <1>5, <1>8, Zenon
    <3> QED
      BY <2>1, <3>1, SMTT(20)
<1>10. e[1] = Mark /\ e[2] = Blank
  <2>1. 1 \in 1..c /\ 2 \in 1..c
    BY <1>5
  <2> QED
    BY <1>2, <1>6, <2>1, Zenon
<1>11. ASSUME NEW i \in 1..z - 2 PROVE e[2 + i] = Cell(m, i)
  <2>1. i \in Nat \ {0}
    BY <1>8
  <2>2. Cell(m, i) = IF p < i /\ i <= p + n THEN s[i - p] ELSE Cell(l, i)
    BY <1>1, <2>1, Zenon DEF Painted
  <2>3. CASE i <= p
    <3>1. 2 + i \in 1..c /\ i \in 1..k - 2 /\ ~(p < i)
      BY <1>5, <2>1, <2>3
    <3> QED
      BY <1>2, <1>6, <2>2, <3>1, Zenon
  <2>4. CASE p < i /\ i <= p + n
    <3>1. PICK j \in c + 1..c + n : j = 2 + i /\ j - c = i - p
      <4>1. 2 + i \in c + 1..c + n /\ 2 + i - c = i - p
        BY <1>5, <2>1, <2>4
      <4> QED
        BY <4>1
    <3>2. e[j] = s[j - c]
      BY <1>6, Zenon
    <3>3. j = 2 + i /\ j - c = i - p
      BY <3>1
    <3> QED
      BY <2>2, <2>4, <3>2, <3>3, Zenon
  <2>5. CASE p + n < i
    <3>1. 2 + i \in c + n + 1..k /\ i \in 1..k - 2 /\ ~(i <= p + n)
      BY <1>5, <1>8, <2>1, <2>5
    <3> QED
      BY <1>2, <1>6, <2>2, <3>1, Zenon
  <2> QED
    BY <2>1, <2>3, <2>4, <2>5
<1>12. RowShows(e, m)
  <2>1. Len(e) = z /\ Len(m) = y
    BY <1>1, <1>8
  <2> QED
    BY <1>9, <1>10, <1>11, <2>1, Zenon DEF RowShows
<1>13. p + n = c + n - 2 /\ c + n = 2 + (p + n) /\ c + n \in Nat
  BY <1>5
<1>14. [row |-> e, col |-> c + n] \in Screen
  BY <1>13 DEF Screen
<1> QED
  BY <1>1, <1>7, <1>12, <1>13, <1>14 DEF Shows

-----------------------------------------------------------------------------
(* What the editing of a line prints makes the row show the new line.       *)

IsFrom(u, s, p, n) ==
    /\ u = From(s, p) /\ Len(u) = n - p
    /\ \A i \in 1..n - p : u[i] = s[p + i]

LEMMA FromCells ==
    ASSUME NEW S, NEW s \in Seq(S), NEW n \in Nat, n = Len(s), NEW p \in 0..n
    PROVE  \E u \in Seq(S) : IsFrom(u, s, p, n)
<1>1. p + 1 \in 1..n + 1 /\ n \in p + 1 - 1..n
  OBVIOUS
<1>2. PICK u \in Seq(S) : IsCut(u, s, p + 1, n)
  BY <1>1, CutCells
<1>3. /\ u = Cut(s, p + 1, n) /\ Len(u) = n + 1 - (p + 1)
      /\ \A i \in 1..n + 1 - (p + 1) : u[i] = s[p + 1 + i - 1]
  BY <1>2, Zenon DEF IsCut
<1>4. n + 1 - (p + 1) = n - p
  OBVIOUS
<1>5. ASSUME NEW i \in 1..n - p PROVE u[i] = s[p + i]
  <2>1. i \in 1..n + 1 - (p + 1) /\ p + 1 + i - 1 = p + i
    OBVIOUS
  <2> QED
    BY <1>3, <2>1, Zenon
<1>6. u = From(s, p)
  BY <1>3, Zenon DEF From, Cut
<1> QED
  BY <1>3, <1>4, <1>5, <1>6, Zenon DEF IsFrom

Inserted(l, p, c) == Joined(Joined(Cut(l, 1, p), <<c>>), From(l, p))
Removed(l, p) == Joined(Cut(l, 1, p), From(l, p + 1))

LEMMA FirstCells ==
    ASSUME NEW l \in Seq(Char), NEW n \in Nat, n = Len(l), NEW p \in 0..n
    PROVE  \E a \in Seq(Char) : a = Cut(l, 1, p) /\ Len(a) = p /\ \A i \in 1..p : a[i] = l[i]
<1>1. 1 \in 1..n + 1 /\ p \in 1 - 1..n
  OBVIOUS
<1>2. PICK a \in Seq(Char) : IsCut(a, l, 1, p)
  BY <1>1, CutCells
<1>3. /\ a = Cut(l, 1, p) /\ Len(a) = p + 1 - 1
      /\ \A i \in 1..p + 1 - 1 : a[i] = l[1 + i - 1]
  BY <1>2, Zenon DEF IsCut
<1>4. p + 1 - 1 = p
  OBVIOUS
<1>5. ASSUME NEW i \in 1..p PROVE a[i] = l[i]
  <2>1. i \in 1..p + 1 - 1 /\ 1 + i - 1 = i
    OBVIOUS
  <2> QED
    BY <1>3, <2>1, Zenon
<1> QED
  BY <1>3, <1>4, <1>5, Zenon

LEMMA OneCell ==
    ASSUME NEW c \in Char
    PROVE  \E o \in Seq(Char) : o = <<c>> /\ Len(o) = 1 /\ o[1] = c
<1>1. <<c>> \in Seq(Char) /\ Len(<<c>>) = 1 /\ <<c>>[1] = c
  OBVIOUS
<1> QED
  BY <1>1, Zenon

LEMMA InsertPaints ==
    ASSUME NEW l \in Seq(Char), NEW n \in Nat, n = Len(l), NEW p \in 0..n, NEW c \in Char
    PROVE  \E m \in Seq(Char), s \in Seq(Char) :
            /\ m = Inserted(l, p, c) /\ s = Joined(<<c>>, From(l, p))
            /\ Len(m) = n + 1 /\ Len(s) = n - p + 1 /\ Painted(l, p, s, m)
<1>1. PICK a \in Seq(Char) : a = Cut(l, 1, p) /\ Len(a) = p /\ \A i \in 1..p : a[i] = l[i]
  BY FirstCells
<1>2. PICK f \in Seq(Char) : IsFrom(f, l, p, n)
  BY FromCells
<1>3. f = From(l, p) /\ Len(f) = n - p
  BY <1>2, Zenon DEF IsFrom
<1>4. PICK o \in Seq(Char) : o = <<c>> /\ Len(o) = 1 /\ o[1] = c
  BY OneCell
<1>5. p \in Nat /\ n - p \in Nat /\ p + 1 \in Nat
  OBVIOUS
<1>6. PICK h \in Seq(Char) : IsJoined(h, a, o, p, 1)
  BY <1>1, <1>4, <1>5, JoinedCells
<1>7. /\ h = Joined(a, o) /\ Len(h) = p + 1
      /\ \A i \in 1..p : h[i] = a[i]
      /\ \A i \in p + 1..p + 1 : h[i] = o[i - p]
  BY <1>6, Zenon DEF IsJoined
<1>8. PICK m \in Seq(Char) : IsJoined(m, h, f, p + 1, n - p)
  BY <1>3, <1>5, <1>7, JoinedCells
<1>9. /\ m = Joined(h, f) /\ Len(m) = p + 1 + (n - p)
      /\ \A i \in 1..p + 1 : m[i] = h[i]
      /\ \A i \in p + 1 + 1..p + 1 + (n - p) : m[i] = f[i - (p + 1)]
  BY <1>8, Zenon DEF IsJoined
<1>10. PICK s \in Seq(Char) : IsJoined(s, o, f, 1, n - p)
  BY <1>3, <1>4, <1>5, JoinedCells
<1>11. /\ s = Joined(o, f) /\ Len(s) = 1 + (n - p)
       /\ \A i \in 1..1 : s[i] = o[i]
       /\ \A i \in 1 + 1..1 + (n - p) : s[i] = f[i - 1]
  BY <1>10, Zenon DEF IsJoined
<1>12. Len(m) = n + 1 /\ Len(s) = n - p + 1
  <2>1. p + 1 + (n - p) = n + 1 /\ 1 + (n - p) = n - p + 1
    OBVIOUS
  <2> QED
    BY <1>9, <1>11, <2>1, Zenon
<1>13. m = Inserted(l, p, c) /\ s = Joined(<<c>>, From(l, p))
  BY <1>1, <1>3, <1>4, <1>7, <1>9, <1>11, Zenon DEF Inserted
<1>14. ASSUME NEW i \in Nat \ {0}
       PROVE  Cell(m, i) = IF p < i /\ i <= p + Len(s) THEN s[i - p] ELSE Cell(l, i)
  <2>1. CASE i <= p
    <3>1. i \in 1..p /\ i \in 1..p + 1 /\ ~(p < i) /\ i <= n + 1 /\ i <= n
      BY <2>1
    <3>2. m[i] = h[i] /\ h[i] = a[i] /\ a[i] = l[i]
      BY <1>1, <1>7, <1>9, <3>1, Zenon
    <3>3. Cell(m, i) = m[i] /\ Cell(l, i) = l[i]
      BY <1>12, <3>1, Zenon DEF Cell
    <3> QED
      BY <3>1, <3>2, <3>3, Zenon
  <2>2. CASE p < i /\ i <= n + 1
    <3>1. i <= p + (n - p + 1)
      BY <2>2
    <3>2. m[i] = s[i - p]
      <4>1. CASE i = p + 1
        <5>1. i \in 1..p + 1 /\ i \in p + 1..p + 1
          BY <4>1
        <5>2. m[i] = h[i] /\ h[i] = o[i - p]
          BY <1>7, <1>9, <5>1, Zenon
        <5>3. PICK j \in 1..1 : j = i - p
          BY <4>1
        <5>4. s[j] = o[j]
          BY <1>11, Zenon
        <5> QED
          BY <5>2, <5>3, <5>4, Zenon
      <4>2. CASE i # p + 1
        <5>1. /\ i \in p + 1 + 1..p + 1 + (n - p) /\ i - p \in 1 + 1..1 + (n - p)
              /\ i - p - 1 = i - (p + 1)
          BY <2>2, <4>2
        <5>2. m[i] = f[i - (p + 1)] /\ s[i - p] = f[i - p - 1]
          BY <1>9, <1>11, <5>1, Zenon
        <5> QED
          BY <5>1, <5>2, Zenon
      <4> QED
        BY <4>1, <4>2
    <3>3. Cell(m, i) = m[i]
      BY <1>12, <2>2, Zenon DEF Cell
    <3> QED
      BY <1>12, <2>2, <3>1, <3>2, <3>3, Zenon
  <2>3. CASE n + 1 < i
    <3>1. ~(i <= n + 1) /\ ~(i <= n) /\ ~(i <= p + (n - p + 1))
      BY <2>3
    <3>2. Cell(m, i) = Blank /\ Cell(l, i) = Blank
      BY <1>12, <3>1, Zenon DEF Cell
    <3> QED
      BY <1>12, <3>1, <3>2, Zenon
  <2> QED
    BY <2>1, <2>2, <2>3
<1>15. Len(m) <= p + Len(s)
  <2>1. n + 1 <= p + (n - p + 1)
    OBVIOUS
  <2> QED
    BY <1>12, <2>1, Zenon
<1>16. Painted(l, p, s, m)
  BY <1>14, <1>15, Zenon DEF Painted
<1> QED
  BY <1>12, <1>13, <1>16, Zenon

LEMMA RemovePaints ==
    ASSUME NEW l \in Seq(Char), NEW n \in Nat, n = Len(l), NEW p \in 0..n - 1
    PROVE  \E m \in Seq(Char), s \in Seq(Char) :
            /\ m = Removed(l, p) /\ s = Joined(From(l, p + 1), <<Blank>>)
            /\ Len(m) = n - 1 /\ Len(s) = n - p /\ Painted(l, p, s, m)
<1>0. p \in 0..n /\ p + 1 \in 0..n /\ p \in Nat /\ n - (p + 1) \in Nat
  OBVIOUS
<1>1. PICK a \in Seq(Char) : a = Cut(l, 1, p) /\ Len(a) = p /\ \A i \in 1..p : a[i] = l[i]
  BY <1>0, FirstCells
<1>2. PICK f \in Seq(Char) : IsFrom(f, l, p + 1, n)
  BY <1>0, FromCells
<1>3. f = From(l, p + 1) /\ Len(f) = n - (p + 1)
  BY <1>2, Zenon DEF IsFrom
<1>4. PICK o \in Seq(Char) : o = <<Blank>> /\ Len(o) = 1 /\ o[1] = Blank
  <2>1. Blank \in Char
    BY TerminalAssumption DEF Blank
  <2> QED
    BY <2>1, OneCell
<1>5. PICK m \in Seq(Char) : IsJoined(m, a, f, p, n - (p + 1))
  BY <1>0, <1>1, <1>3, JoinedCells
<1>6. /\ m = Joined(a, f) /\ Len(m) = p + (n - (p + 1))
      /\ \A i \in 1..p : m[i] = a[i]
      /\ \A i \in p + 1..p + (n - (p + 1)) : m[i] = f[i - p]
  BY <1>5, Zenon DEF IsJoined
<1>7. PICK s \in Seq(Char) : IsJoined(s, f, o, n - (p + 1), 1)
  BY <1>0, <1>3, <1>4, JoinedCells
<1>8. /\ s = Joined(f, o) /\ Len(s) = n - (p + 1) + 1
      /\ \A i \in 1..n - (p + 1) : s[i] = f[i]
      /\ \A i \in n - (p + 1) + 1..n - (p + 1) + 1 : s[i] = o[i - (n - (p + 1))]
  BY <1>7, Zenon DEF IsJoined
<1>9. Len(m) = n - 1 /\ Len(s) = n - p
  <2>1. p + (n - (p + 1)) = n - 1 /\ n - (p + 1) + 1 = n - p
    OBVIOUS
  <2> QED
    BY <1>6, <1>8, <2>1, Zenon
<1>10. m = Removed(l, p) /\ s = Joined(From(l, p + 1), <<Blank>>)
  BY <1>1, <1>3, <1>4, <1>6, <1>8, Zenon DEF Removed
<1>11. ASSUME NEW i \in Nat \ {0}
       PROVE  Cell(m, i) = IF p < i /\ i <= p + Len(s) THEN s[i - p] ELSE Cell(l, i)
  <2>1. CASE i <= p
    <3>1. i \in 1..p /\ ~(p < i) /\ i <= n - 1 /\ i <= n
      BY <2>1
    <3>2. m[i] = a[i] /\ a[i] = l[i]
      BY <1>1, <1>6, <3>1, Zenon
    <3>3. Cell(m, i) = m[i] /\ Cell(l, i) = l[i]
      BY <1>9, <3>1, Zenon DEF Cell
    <3> QED
      BY <3>1, <3>2, <3>3, Zenon
  <2>2. CASE p < i /\ i <= n - 1
    <3>1. /\ i <= p + (n - p) /\ i \in p + 1..p + (n - (p + 1)) /\ i - p \in 1..n - (p + 1)
      BY <2>2
    <3>2. m[i] = f[i - p] /\ s[i - p] = f[i - p]
      BY <1>6, <1>8, <3>1, Zenon
    <3>3. Cell(m, i) = m[i]
      BY <1>9, <2>2, Zenon DEF Cell
    <3> QED
      BY <1>9, <2>2, <3>1, <3>2, <3>3, Zenon
  <2>3. CASE i = n
    <3>1. ~(n <= n - 1) /\ p < n /\ n <= p + (n - p)
      OBVIOUS
    <3>2. PICK j \in n - (p + 1) + 1..n - (p + 1) + 1 : j = n - p /\ j - (n - (p + 1)) = 1
      <4>1. n - p \in n - (p + 1) + 1..n - (p + 1) + 1 /\ n - p - (n - (p + 1)) = 1
        OBVIOUS
      <4> QED
        BY <4>1
    <3>3. s[j] = o[j - (n - (p + 1))]
      BY <1>8, Zenon
    <3>4. s[n - p] = Blank
      BY <1>4, <3>2, <3>3, Zenon
    <3>5. Cell(m, n) = Blank
      BY <1>9, <3>1, Zenon DEF Cell
    <3> QED
      BY <1>9, <2>3, <3>1, <3>4, <3>5, Zenon
  <2>4. CASE n < i
    <3>1. ~(i <= n - 1) /\ ~(i <= n) /\ ~(i <= p + (n - p))
      BY <2>4
    <3>2. Cell(m, i) = Blank /\ Cell(l, i) = Blank
      BY <1>9, <3>1, Zenon DEF Cell
    <3> QED
      BY <1>9, <3>1, <3>2, Zenon
  <2> QED
    BY <2>1, <2>2, <2>3, <2>4
<1>12. Len(m) <= Len(l)
  <2>1. n - 1 <= n
    OBVIOUS
  <2> QED
    BY <1>9, <2>1, Zenon
<1>13. Painted(l, p, s, m)
  BY <1>11, <1>12, Zenon DEF Painted
<1> QED
  BY <1>9, <1>10, <1>13, Zenon

LEMMA SameLinePaints ==
    ASSUME NEW l \in Seq(Char), NEW n \in Nat, n = Len(l), NEW p \in 0..n,
           NEW s, NEW k \in Nat, k = Len(s), k <= n - p, \A i \in 1..k : s[i] = l[p + i]
    PROVE  Painted(l, p, s, l)
<1>1. ASSUME NEW i \in Nat \ {0}
      PROVE  Cell(l, i) = IF p < i /\ i <= p + Len(s) THEN s[i - p] ELSE Cell(l, i)
  <2>1. CASE p < i /\ i <= p + k
    <3>1. i - p \in 1..k /\ p + (i - p) = i /\ i <= n
      BY <2>1
    <3>2. s[i - p] = l[p + (i - p)]
      BY <3>1, Zenon
    <3>3. Cell(l, i) = l[i]
      BY <3>1, Zenon DEF Cell
    <3> QED
      BY <2>1, <3>1, <3>2, <3>3, Zenon
  <2>2. CASE ~(p < i /\ i <= p + k)
    BY <2>2, Zenon
  <2> QED
    BY <2>1, <2>2
<1>2. Len(l) <= Len(l)
  OBVIOUS
<1> QED
  BY <1>1, <1>2, Zenon DEF Painted

LEMMA BackShows ==
    ASSUME NEW l, NEW p \in Nat, NEW n \in 0..p, NEW scr, Shows(scr, l, p)
    PROVE  Shows(Back(scr, n), l, p - n)
<1>1. scr \in Screen /\ scr.col = 2 + p /\ RowShows(scr.row, l)
  BY Zenon DEF Shows
<1>2. n < 2 + p /\ 2 + p - n = 2 + (p - n) /\ 2 + p - n \in Nat
  OBVIOUS
<1>3. Back(scr, n) = [scr EXCEPT !.col = 2 + p - n]
  BY <1>1, <1>2 DEF Back
<1>4. /\ Back(scr, n) \in Screen /\ Back(scr, n).col = 2 + p - n
      /\ Back(scr, n).row = scr.row
  BY <1>1, <1>2, <1>3 DEF Screen
<1> QED
  BY <1>1, <1>2, <1>4 DEF Shows

LEMMA ConstantLine ==
    ASSUME NEW n \in Nat, NEW c \in Char
    PROVE  /\ [i \in 1..n |-> c] \in Seq(Char) /\ Len([i \in 1..n |-> c]) = n
OBVIOUS

\* SetLine, when the new line is not shorter.
LEMMA LongerLineShows ==
    ASSUME NEW l \in Seq(Char), NEW x \in Nat, x = Len(l), NEW p \in 0..x,
           NEW scr, Shows(scr, l, p), NEW m \in Seq(Char), NEW y \in Nat, y = Len(m), x <= y
    PROVE  Shows(Put(Back(scr, p), m), m, y)
<1>1. p \in Nat /\ p \in 0..p /\ p - p = 0 /\ 0 \in Nat /\ 0 <= x
  OBVIOUS
<1>2. Shows(Back(scr, p), l, p - p)
  BY <1>1, BackShows
<1>3. Shows(Back(scr, p), l, 0)
  BY <1>1, <1>2, Zenon
<1>4. ASSUME NEW i \in Nat \ {0}
      PROVE  Cell(m, i) = IF 0 < i /\ i <= 0 + Len(m) THEN m[i - 0] ELSE Cell(l, i)
  <2>1. CASE i <= y
    <3>1. 0 < i /\ i <= 0 + y /\ i - 0 = i
      BY <2>1
    <3> QED
      BY <2>1, <3>1, Zenon DEF Cell
  <2>2. CASE ~(i <= y)
    <3>1. ~(i <= 0 + y) /\ ~(i <= x)
      BY <2>2
    <3> QED
      BY <2>2, <3>1, Zenon DEF Cell
  <2> QED
    BY <2>1, <2>2
<1>5. 0 + y = y /\ y <= 0 + y
  OBVIOUS
<1>6. Painted(l, 0, m, m)
  BY <1>4, <1>5, Zenon DEF Painted
<1>7. Shows(Put(Back(scr, p), m), m, 0 + Len(m))
  BY <1>1, <1>3, <1>6, PutShows
<1> QED
  BY <1>5, <1>7, Zenon

\* SetLine, when the new line is shorter: the rest of the old one is blanked.
LEMMA ShorterLineShows ==
    ASSUME NEW l \in Seq(Char), NEW x \in Nat, x = Len(l), NEW p \in 0..x,
           NEW scr, Shows(scr, l, p), NEW m \in Seq(Char), NEW y \in Nat, y = Len(m), y < x
    PROVE  Shows(Back(Put(Put(Back(scr, p), m), Blanks(x - y)), x - y), m, y)
<1>1. p \in Nat /\ p \in 0..p /\ p - p = 0 /\ 0 \in Nat /\ 0 <= x
  OBVIOUS
<1>2. Shows(Back(scr, p), l, p - p)
  BY <1>1, BackShows
<1>3. Shows(Back(scr, p), l, 0)
  BY <1>1, <1>2, Zenon
<1>4. PICK h \in Seq(Char) : Len(h) = x /\ \A i \in 1..x : h[i] = IF i <= y THEN m[i] ELSE l[i]
  <2>1. PICK g : g = [i \in 1..x |-> IF i <= y THEN m[i] ELSE l[i]]
    OBVIOUS
  <2>2. ASSUME NEW i \in 1..x PROVE (IF i <= y THEN m[i] ELSE l[i]) \in Char
    <3>1. CASE i <= y
      <4>1. i \in 1..y
        BY <3>1
      <4>2. m[i] \in Char
        BY <4>1
      <4> QED
        BY <3>1, <4>2, Zenon
    <3>2. CASE ~(i <= y)
      <4>1. l[i] \in Char
        OBVIOUS
      <4> QED
        BY <3>2, <4>1, Zenon
    <3> QED
      BY <3>1, <3>2
  <2>3. g \in [1..x -> Char]
    BY <2>1, <2>2, Zenon
  <2>4. g \in Seq(Char) /\ Len(g) = x
    BY <2>3
  <2>5. \A i \in 1..x : g[i] = IF i <= y THEN m[i] ELSE l[i]
    BY <2>1, Zenon
  <2> QED
    BY <2>4, <2>5, Zenon
<1>5. ASSUME NEW i \in Nat \ {0}
      PROVE  Cell(h, i) = IF 0 < i /\ i <= 0 + Len(m) THEN m[i - 0] ELSE Cell(l, i)
  <2>1. CASE i <= y
    <3>1. 0 < i /\ i <= 0 + y /\ i - 0 = i /\ i \in 1..x /\ i <= x
      BY <2>1
    <3>2. h[i] = m[i]
      BY <1>4, <2>1, <3>1, Zenon
    <3> QED
      BY <1>4, <3>1, <3>2, Zenon DEF Cell
  <2>2. CASE y < i /\ i <= x
    <3>1. ~(i <= 0 + y) /\ ~(i <= y) /\ i \in 1..x
      BY <2>2
    <3>2. h[i] = l[i]
      BY <1>4, <3>1, Zenon
    <3> QED
      BY <1>4, <2>2, <3>1, <3>2, Zenon DEF Cell
  <2>3. CASE x < i
    <3>1. ~(i <= 0 + y) /\ ~(i <= x)
      BY <2>3
    <3> QED
      BY <1>4, <3>1, Zenon DEF Cell
  <2> QED
    BY <2>1, <2>2, <2>3
<1>6. x <= x /\ 0 + y = y
  OBVIOUS
<1>7. Painted(l, 0, m, h)
  BY <1>4, <1>5, <1>6, Zenon DEF Painted
<1>8. Shows(Put(Back(scr, p), m), h, 0 + Len(m))
  BY <1>1, <1>3, <1>7, PutShows
<1>9. Shows(Put(Back(scr, p), m), h, y)
  BY <1>6, <1>8, Zenon
<1>10. PICK k \in Nat : k = x - y
  <2>1. x - y \in Nat
    OBVIOUS
  <2> QED
    BY <2>1
<1>11. PICK s \in Seq(Char) : s = Blanks(k) /\ Len(s) = k /\ \A i \in 1..k : s[i] = Blank
  <2>1. PICK g : g = [i \in 1..k |-> Blank]
    OBVIOUS
  <2>2. g \in Seq(Char) /\ Len(g) = k
    BY <2>1, TerminalAssumption, ConstantLine DEF Blank
  <2>3. \A i \in 1..k : g[i] = Blank
    BY <2>1, Zenon
  <2>4. g = Blanks(k)
    BY <2>1, Zenon DEF Blanks, Blank
  <2> QED
    BY <2>2, <2>3, <2>4, Zenon
<1>12. ASSUME NEW i \in Nat \ {0}
       PROVE  Cell(m, i) = IF y < i /\ i <= y + Len(s) THEN s[i - y] ELSE Cell(h, i)
  <2>1. CASE i <= y
    <3>1. ~(y < i) /\ i \in 1..x /\ i <= x
      BY <2>1
    <3>2. h[i] = m[i]
      BY <1>4, <2>1, <3>1, Zenon
    <3> QED
      BY <1>4, <2>1, <3>1, <3>2, Zenon DEF Cell
  <2>2. CASE y < i /\ i <= x
    <3>1. ~(i <= y) /\ i <= y + k /\ i - y \in 1..k
      BY <1>10, <2>2
    <3>2. s[i - y] = Blank
      BY <1>11, <3>1, Zenon
    <3>3. Cell(m, i) = Blank
      BY <3>1, Zenon DEF Cell
    <3> QED
      BY <1>11, <2>2, <3>1, <3>2, <3>3, Zenon
  <2>3. CASE x < i
    <3>1. ~(i <= y) /\ ~(i <= x) /\ ~(i <= y + k)
      BY <1>10, <2>3
    <3> QED
      BY <1>4, <1>11, <3>1, Zenon DEF Cell
  <2> QED
    BY <2>1, <2>2, <2>3
<1>13. y <= x /\ y + k = x /\ k \in 0..x /\ x - k = y
  BY <1>10
<1>14. Painted(h, y, s, m)
  BY <1>4, <1>12, <1>13, Zenon DEF Painted
<1>15. y <= Len(h)
  BY <1>4, <1>13, Zenon
<1>16. Shows(Put(Put(Back(scr, p), m), s), m, y + Len(s))
  BY <1>9, <1>14, <1>15, PutShows
<1>17. Shows(Put(Put(Back(scr, p), m), s), m, x)
  BY <1>11, <1>13, <1>16, Zenon
<1>18. Shows(Back(Put(Put(Back(scr, p), m), s), k), m, x - k)
  BY <1>13, <1>17, BackShows
<1> QED
  BY <1>10, <1>11, <1>13, <1>18, Zenon

LEMMA PromptShows == Shows(Prompted, <<>>, 0)
<1>1. PICK r \in Seq(Shown), s \in Seq(Shown) :
        /\ r = <<>> /\ Len(r) = 0
        /\ s = Prompt /\ Len(s) = 2 /\ s[1] = Mark /\ s[2] = Blank
  <2>1. Mark \in Shown /\ Blank \in Shown
    BY TerminalAssumption DEF Shown, Mark, Blank
  <2>2. Prompt = <<Mark, Blank>>
    BY Zenon DEF Prompt, Mark, Blank
  <2>3. PICK s \in Seq(Shown) : s = <<Mark, Blank>> /\ Len(s) = 2 /\ s[1] = Mark /\ s[2] = Blank
    <3>1. /\ <<Mark, Blank>> \in Seq(Shown) /\ Len(<<Mark, Blank>>) = 2
          /\ <<Mark, Blank>>[1] = Mark /\ <<Mark, Blank>>[2] = Blank
      BY <2>1
    <3> QED
      BY <3>1, Zenon
  <2>4. <<>> \in Seq(Shown) /\ Len(<<>>) = 0
    BY EmptySeq
  <2> QED
    BY <2>2, <2>3, <2>4, Zenon
<1>2. 0 \in 0..0 /\ 0 \in Nat /\ 2 \in Nat
  OBVIOUS
<1>3. PICK e \in Seq(Shown) : IsOver(e, r, 0, s, 0, 2)
  <2>1. 0 = Len(r) /\ 2 = Len(s)
    BY <1>1
  <2> HIDE <1>1
  <2> QED
    BY <1>2, <2>1, OverCells, Zenon
<1>4. /\ e = Over(r, 0, s) /\ Len(e) = IF 0 + 2 <= 0 THEN 0 ELSE 0 + 2
      /\ \A i \in 0 + 1..0 + 2 : e[i] = s[i - 0]
  BY <1>3, Zenon DEF IsOver
<1>5. Len(e) = 2 /\ e[1] = Mark /\ e[2] = Blank
  <2>1. Len(e) = 2
    BY <1>4
  <2>2. 1 \in 0 + 1..0 + 2 /\ 2 \in 0 + 1..0 + 2 /\ 1 - 0 = 1 /\ 2 - 0 = 2
    OBVIOUS
  <2>3. e[1] = s[1 - 0] /\ e[2] = s[2 - 0]
    BY <1>4, <2>2, Zenon
  <2> QED
    BY <1>1, <2>1, <2>2, <2>3, Zenon
<1>6. Prompted = [row |-> e, col |-> 0 + Len(s)]
  <2>1. BlankScreen.row = r /\ BlankScreen.col = 0
    BY <1>1 DEF BlankScreen
  <2> QED
    BY <1>1, <1>4, <2>1, Zenon DEF Prompted, Put, Over, Cut, Joined
<1>7. Prompted = [row |-> e, col |-> 2]
  BY <1>1, <1>6
<1>8. Prompted \in Screen /\ Prompted.row = e /\ Prompted.col = 2 + 0
  BY <1>7 DEF Screen
<1>9. RowShows(e, <<>>)
  <2>1. Len(<<>>) = 0 /\ 2 >= 2 + 0
    OBVIOUS
  <2>2. \A i \in 1..2 - 2 : FALSE
    OBVIOUS
  <2> QED
    BY <1>5, <2>1, <2>2, Zenon DEF RowShows
<1> QED
  BY <1>8, <1>9 DEF Shows

-----------------------------------------------------------------------------
(* One key event: what each operation does to the line and to the screen.   *)

LineInv == line \in Seq(Char) /\ position \in 0..Len(line)
ScreenInv == LineInv /\ (~disturbed /\ ~over => Shows(screen, line, position))

\* An operation keeps the screen true, if it was.
Edited == LineInv' /\ (Shows(screen, line, position) => Shows(screen', line', position'))

LEMMA Lengths ==
    ASSUME LineInv
    PROVE  \E l \in Seq(Char), n \in Nat :
            /\ l = line /\ n = Len(l)
            /\ \E p \in 0..n : p = position /\ p \in Nat /\ p <= Len(l)
<1>1. Len(line) \in Nat /\ position \in 0..Len(line) /\ line \in Seq(Char)
  BY LenProperties DEF LineInv
<1>2. position \in Nat /\ position <= Len(line)
  BY <1>1
<1> QED
  BY <1>1, <1>2, Zenon

LEMMA InsertStep ==
    ASSUME LineInv, NEW c \in Char, Insert(c)
    PROVE  Edited
<1>1. PICK l \in Seq(Char), n \in Nat :
        /\ l = line /\ n = Len(l)
        /\ \E p \in 0..n : p = position /\ p \in Nat /\ p <= Len(l)
  BY Lengths
<1>1a. PICK p \in 0..n : p = position /\ p \in Nat /\ p <= Len(l)
  BY <1>1
<1>2. PICK m \in Seq(Char), s \in Seq(Char) :
        /\ m = Inserted(l, p, c) /\ s = Joined(<<c>>, From(l, p))
        /\ Len(m) = n + 1 /\ Len(s) = n - p + 1 /\ Painted(l, p, s, m)
  <2>1. n = Len(l)
    BY <1>1
  <2> QED
    BY <2>1, InsertPaints
<1>3. line' = m /\ position' = p + 1 /\ screen' = Back(Put(screen, s), n - p)
  BY <1>1, <1>1a, <1>2, Zenon DEF Insert, Edit, Inserted, Joined, Cut
<1>4. p + 1 \in 0..n + 1
  OBVIOUS
<1>5. LineInv'
  BY <1>2, <1>3, <1>4, Zenon DEF LineInv
<1>6. ASSUME Shows(screen, line, position) PROVE Shows(screen', line', position')
  <2>1. Shows(Put(screen, s), m, p + Len(s))
    BY <1>1, <1>1a, <1>2, <1>6, PutShows
  <2>2. PICK q \in Nat : p + (n - p + 1) = q /\ n - p \in 0..q /\ q - (n - p) = p + 1
    <3>1. PICK q \in Nat : q = n + 1
      OBVIOUS
    <3>2. p + (n - p + 1) = q /\ n - p \in 0..q /\ q - (n - p) = p + 1
      BY <3>1
    <3> QED
      BY <3>2, Zenon
  <2>3. Shows(Put(screen, s), m, q)
    BY <1>2, <2>1, <2>2, Zenon
  <2>4. Shows(Back(Put(screen, s), n - p), m, q - (n - p))
    BY <2>2, <2>3, BackShows
  <2> QED
    BY <1>3, <2>2, <2>4, Zenon
<1> QED
  BY <1>5, <1>6 DEF Edited

LEMMA CancStep ==
    ASSUME LineInv, Canc
    PROVE  Edited
<1>1. PICK l \in Seq(Char), n \in Nat :
        /\ l = line /\ n = Len(l)
        /\ \E p \in 0..n : p = position /\ p \in Nat /\ p <= Len(l)
  BY Lengths
<1>1a. PICK p \in 0..n : p = position /\ p \in Nat /\ p <= Len(l)
  BY <1>1
<1>2. CASE p = n
  <2>1. UNCHANGED <<line, position, screen>>
    BY <1>1, <1>1a, <1>2, Zenon DEF Canc
  <2> QED
    BY <2>1 DEF Edited, LineInv
<1>3. CASE p # n
  <2>0. p \in 0..n - 1
    BY <1>3
  <2>1. PICK m \in Seq(Char), s \in Seq(Char) :
          /\ m = Removed(l, p) /\ s = Joined(From(l, p + 1), <<Blank>>)
          /\ Len(m) = n - 1 /\ Len(s) = n - p /\ Painted(l, p, s, m)
    BY <1>1, <1>1a, <2>0, RemovePaints
  <2>2. line' = m /\ position' = p /\ screen' = Back(Put(screen, s), n - p)
    BY <1>1, <1>1a, <1>3, <2>1, Zenon DEF Canc, Edit, Removed, Joined, Cut, Blank
  <2>3. LineInv'
    BY <2>0, <2>1, <2>2, Zenon DEF LineInv
  <2>4. ASSUME Shows(screen, line, position) PROVE Shows(screen', line', position')
    <3>1. Shows(Put(screen, s), m, p + Len(s))
      BY <1>1, <1>1a, <2>1, <2>4, PutShows
    <3>2. PICK q \in Nat : q = p + (n - p) /\ n - p \in 0..q /\ q - (n - p) = p
      <4>1. p + (n - p) = n /\ n - p \in 0..n /\ n - (n - p) = p
        OBVIOUS
      <4> QED
        BY <4>1, Zenon
    <3>3. Shows(Put(screen, s), m, q)
      BY <2>1, <3>1, <3>2, Zenon
    <3>4. Shows(Back(Put(screen, s), n - p), m, q - (n - p))
      BY <3>2, <3>3, BackShows
    <3> QED
      BY <2>2, <3>2, <3>4, Zenon
  <2> QED
    BY <2>3, <2>4 DEF Edited
<1> QED
  BY <1>2, <1>3

LEMMA BackspaceStep ==
    ASSUME LineInv, Backspace
    PROVE  Edited
<1>1. PICK l \in Seq(Char), n \in Nat :
        /\ l = line /\ n = Len(l)
        /\ \E p \in 0..n : p = position /\ p \in Nat /\ p <= Len(l)
  BY Lengths
<1>1a. PICK p \in 0..n : p = position /\ p \in Nat /\ p <= Len(l)
  BY <1>1
<1>2. CASE p = 0
  <2>1. UNCHANGED <<line, position, screen>>
    BY <1>1, <1>1a, <1>2, Zenon DEF Backspace
  <2> QED
    BY <2>1 DEF Edited, LineInv
<1>3. CASE p # 0
  <2>0. PICK o \in 0..n - 1 : o = p - 1 /\ o + 1 = p /\ o \in Nat /\ o <= n
    <3>1. p - 1 \in 0..n - 1 /\ p - 1 + 1 = p /\ p - 1 \in Nat /\ p - 1 <= n
      BY <1>3
    <3> QED
      BY <3>1, Zenon
  <2>1. PICK m \in Seq(Char), s \in Seq(Char) :
          /\ m = Removed(l, o) /\ s = Joined(From(l, o + 1), <<Blank>>)
          /\ Len(m) = n - 1 /\ Len(s) = n - o /\ Painted(l, o, s, m)
    BY <1>1, <1>1a, RemovePaints
  <2>2. From(l, o + 1) = From(l, p)
    BY <2>0, Zenon
  <2>3. Len(From(l, p)) + 1 = n - o
    <3>1. PICK f \in Seq(Char) : IsFrom(f, l, p, n)
      BY <1>1, <1>1a, FromCells
    <3>2. f = From(l, p) /\ Len(f) = n - p
      BY <3>1, Zenon DEF IsFrom
    <3>3. n - p + 1 = n - o
      BY <2>0
    <3> QED
      BY <3>2, <3>3, Zenon
  <2>4. /\ line' = Joined(Cut(l, 1, p - 1), From(l, p)) /\ position' = p - 1
        /\ screen' = Back(Put(Back(screen, 1), Joined(From(l, p), <<Blank>>)), Len(From(l, p)) + 1)
    BY <1>1, <1>1a, <1>3, Zenon DEF Backspace, Edit, Joined, Cut, Blank
  <2>5. line' = m /\ position' = o /\ screen' = Back(Put(Back(screen, 1), s), n - o)
    BY <2>0, <2>1, <2>2, <2>3, <2>4, Zenon DEF Removed
  <2>6. LineInv'
    BY <2>1, <2>5, Zenon DEF LineInv
  <2>7. ASSUME Shows(screen, line, position) PROVE Shows(screen', line', position')
    <3>1. Shows(Back(screen, 1), l, o)
      <4>1. 1 \in 0..p
        BY <1>3
      <4>2. Shows(Back(screen, 1), l, p - 1)
        BY <1>1, <1>1a, <2>7, <4>1, BackShows
      <4> QED
        BY <2>0, <4>2, Zenon
    <3>2. Shows(Put(Back(screen, 1), s), m, o + Len(s))
      <4>1. o \in Nat /\ o <= Len(l)
        BY <1>1, <1>1a, <2>0, Zenon
      <4> QED
        BY <2>1, <3>1, <4>1, PutShows
    <3>3. PICK q \in Nat : q = o + (n - o) /\ n - o \in 0..q /\ q - (n - o) = o
      <4>1. o + (n - o) = n /\ n - o \in 0..n /\ n - (n - o) = o
        OBVIOUS
      <4> QED
        BY <4>1, Zenon
    <3>4. Shows(Put(Back(screen, 1), s), m, q)
      BY <2>1, <3>2, <3>3, Zenon
    <3>5. Shows(Back(Put(Back(screen, 1), s), n - o), m, q - (n - o))
      BY <3>3, <3>4, BackShows
    <3> QED
      BY <2>5, <3>3, <3>5, Zenon
  <2> QED
    BY <2>6, <2>7 DEF Edited
<1> QED
  BY <1>2, <1>3

LEMMA EditKeyStep ==
    ASSUME LineInv, NEW k \in Editing \cup {"ignored"}, EditKey(k)
    PROVE  Edited
<1>1. PICK l \in Seq(Char), n \in Nat :
        /\ l = line /\ n = Len(l)
        /\ \E p \in 0..n : p = position /\ p \in Nat /\ p <= Len(l)
  BY Lengths
<1>1a. PICK p \in 0..n : p = position /\ p \in Nat /\ p <= Len(l)
  BY <1>1
<1>2. ASSUME UNCHANGED <<line, position, screen>> PROVE Edited
  BY <1>2 DEF Edited, LineInv
<1>3. CASE k = "backspace"
  <2>1. Backspace
    BY <1>3 DEF EditKey
  <2> QED
    BY <2>1, BackspaceStep
<1>4. CASE k = "canc"
  <2>1. Canc
    BY <1>4 DEF EditKey
  <2> QED
    BY <2>1, CancStep
<1>5. CASE k = "left"
  <2>1. IF position = 0 THEN UNCHANGED <<line, position, screen>>
        ELSE Edit(line, position - 1, Back(screen, 1))
    BY <1>5 DEF EditKey
  <2>2. ASSUME p # 0, line' = line, position' = p - 1, screen' = Back(screen, 1)
        PROVE  Edited
    <3>1. p - 1 \in 0..n /\ 1 \in 0..p
      BY <2>2
    <3>2. LineInv'
      BY <1>1, <1>1a, <2>2, <3>1, Zenon DEF LineInv
    <3>3. ASSUME Shows(screen, line, position) PROVE Shows(screen', line', position')
      BY <1>1, <1>1a, <2>2, <3>1, <3>3, BackShows
    <3> QED
      BY <3>2, <3>3 DEF Edited
  <2> QED
    BY <1>1, <1>1a, <1>2, <2>1, <2>2, Zenon DEF Edit
<1>6. CASE k = "right"
  <2>1. IF position = Len(line) THEN UNCHANGED <<line, position, screen>>
        ELSE Edit(line, position + 1, Put(screen, <<line[position + 1]>>))
    BY <1>6 DEF EditKey
  <2>2. ASSUME p # n, line' = line, position' = p + 1, screen' = Put(screen, <<l[p + 1]>>)
        PROVE  Edited
    <3>1. p + 1 \in 1..n /\ p + 1 \in 0..n /\ 1 <= n - p
      BY <2>2
    <3>2. l[p + 1] \in Char
      BY <1>1, <1>1a, <3>1
    <3>3. PICK s \in Seq(Char) : s = <<l[p + 1]>> /\ Len(s) = 1 /\ s[1] = l[p + 1]
      BY <3>2, OneCell
    <3>4. Painted(l, p, s, l)
      <4>1. ASSUME NEW i \in 1..1 PROVE s[i] = l[p + i]
        <5>1. i = 1
          OBVIOUS
        <5> QED
          BY <3>3, <5>1, Zenon
      <4>2. 1 \in Nat /\ 1 = Len(s)
        BY <3>3
      <4> QED
        BY <1>1, <1>1a, <3>1, <4>1, <4>2, SameLinePaints
    <3>5. LineInv'
      BY <1>1, <1>1a, <2>2, <3>1, Zenon DEF LineInv
    <3>6. ASSUME Shows(screen, line, position) PROVE Shows(screen', line', position')
      <4>1. Shows(Put(screen, s), l, p + Len(s))
        BY <1>1, <1>1a, <3>4, <3>6, PutShows
      <4> QED
        BY <1>1, <1>1a, <2>2, <3>3, <4>1, Zenon
    <3> QED
      BY <3>5, <3>6 DEF Edited
  <2> QED
    BY <1>1, <1>1a, <1>2, <2>1, <2>2, Zenon DEF Edit
<1>7. CASE k = "home"
  <2>1. line' = line /\ position' = 0 /\ screen' = Back(screen, p)
    BY <1>1, <1>1a, <1>7 DEF EditKey, Edit
  <2>2. 0 \in 0..n /\ p \in 0..p /\ p - p = 0
    OBVIOUS
  <2>3. LineInv'
    BY <1>1, <1>1a, <2>1, <2>2, Zenon DEF LineInv
  <2>4. ASSUME Shows(screen, line, position) PROVE Shows(screen', line', position')
    <3>1. Shows(Back(screen, p), l, p - p)
      BY <1>1, <1>1a, <2>2, <2>4, BackShows
    <3> QED
      BY <1>1, <1>1a, <2>1, <2>2, <3>1, Zenon
  <2> QED
    BY <2>3, <2>4 DEF Edited
<1>8. CASE k = "end"
  <2>1. line' = line /\ position' = n /\ screen' = Put(screen, From(l, p))
    BY <1>1, <1>1a, <1>8 DEF EditKey, Edit
  <2>2. PICK f \in Seq(Char) : IsFrom(f, l, p, n)
    BY <1>1, <1>1a, FromCells
  <2>3. f = From(l, p) /\ Len(f) = n - p /\ \A i \in 1..n - p : f[i] = l[p + i]
    BY <2>2, Zenon DEF IsFrom
  <2>4. n - p \in Nat /\ n - p <= n - p /\ p + (n - p) = n /\ n \in 0..n
    OBVIOUS
  <2>5. Painted(l, p, f, l)
    BY <1>1, <1>1a, <2>3, <2>4, SameLinePaints
  <2>6. LineInv'
    BY <1>1, <1>1a, <2>1, <2>4, Zenon DEF LineInv
  <2>7. ASSUME Shows(screen, line, position) PROVE Shows(screen', line', position')
    <3>1. Shows(Put(screen, f), l, p + Len(f))
      BY <1>1, <1>1a, <2>5, <2>7, PutShows
    <3> QED
      BY <1>1, <1>1a, <2>1, <2>3, <2>4, <3>1, Zenon
  <2> QED
    BY <2>6, <2>7 DEF Edited
<1>9. CASE k = "ignored"
  BY <1>2, <1>9 DEF EditKey
<1> QED
  BY <1>3, <1>4, <1>5, <1>6, <1>7, <1>8, <1>9 DEF Editing

LEMMA SetLineStep ==
    ASSUME LineInv, NEW m \in Seq(Char), SetLineAt(position, screen, m)
    PROVE  Edited
<1>1. PICK l \in Seq(Char), n \in Nat :
        /\ l = line /\ n = Len(l)
        /\ \E p \in 0..n : p = position /\ p \in Nat /\ p <= Len(l)
  BY Lengths
<1>1a. PICK p \in 0..n : p = position /\ p \in Nat /\ p <= Len(l)
  BY <1>1
<1>2. PICK y \in Nat : y = Len(m)
  BY LenProperties
<1>3. /\ line' = m /\ position' = y
      /\ screen' = LET more == IF y < n THEN n - y ELSE 0
                       put == Put(Back(screen, p), m)
                   IN  IF more = 0 THEN put ELSE Back(Put(put, Blanks(more)), more)
  BY <1>1, <1>1a, <1>2, Zenon DEF SetLineAt
<1>4. y \in 0..y
  OBVIOUS
<1>5. LineInv'
  BY <1>2, <1>3, <1>4, Zenon DEF LineInv
<1>6. ASSUME Shows(screen, line, position) PROVE Shows(screen', line', position')
  <2>1. Shows(screen, l, p) /\ n = Len(l)
    BY <1>1, <1>1a, <1>6, Zenon
  <2>2. CASE y < n
    <3>1. n - y # 0
      BY <2>2
    <3>2. screen' = Back(Put(Put(Back(screen, p), m), Blanks(n - y)), n - y)
      BY <1>3, <2>2, <3>1, Zenon
    <3>3. Shows(Back(Put(Put(Back(screen, p), m), Blanks(n - y)), n - y), m, y)
      BY <1>2, <2>1, <2>2, ShorterLineShows
    <3> QED
      BY <1>3, <3>2, <3>3, Zenon
  <2>3. CASE ~(y < n)
    <3>1. n <= y
      BY <2>3
    <3>2. screen' = Put(Back(screen, p), m)
      BY <1>3, <2>3, Zenon
    <3>3. Shows(Put(Back(screen, p), m), m, y)
      BY <1>2, <2>1, <3>1, LongerLineShows
    <3> QED
      BY <1>3, <3>2, <3>3, Zenon
  <2> QED
    BY <2>2, <2>3
<1> QED
  BY <1>5, <1>6 DEF Edited

\* The prompt and the line are printed again on a new row.
LEMMA RedrawStep ==
    ASSUME LineInv, SetLineAt(0, Prompted, line)
    PROVE  LineInv' /\ Shows(screen', line', position')
<1>1. PICK l \in Seq(Char), n \in Nat :
        /\ l = line /\ n = Len(l)
        /\ \E p \in 0..n : p = position /\ p \in Nat /\ p <= Len(l)
  BY Lengths
<1>2. ~(n < n) /\ 0 <= n /\ n \in 0..n
  OBVIOUS
<1>3. line' = l /\ position' = n /\ screen' = Put(Back(Prompted, 0), l)
  BY <1>1, <1>2, Zenon DEF SetLineAt
<1>4. LineInv'
  BY <1>1, <1>2, <1>3, Zenon DEF LineInv
<1>5. Shows(Put(Back(Prompted, 0), l), l, n)
  <2>1. PICK e \in Seq(Char) : e = <<>> /\ Len(e) = 0
    BY EmptySeq
  <2>2. Shows(Prompted, e, 0)
    BY <2>1, PromptShows, Zenon
  <2>3. 0 \in Nat /\ 0 = Len(e) /\ 0 \in 0..0 /\ n = Len(l)
    BY <1>1, <2>1
  <2> QED
    BY <1>2, <2>2, <2>3, LongerLineShows
<1> QED
  BY <1>3, <1>4, <1>5, Zenon

LEMMA KeptScreen ==
    ASSUME ScreenInv, Edited, ~over, disturbed' = disturbed
    PROVE  ScreenInv'
BY Zenon DEF ScreenInv, Edited

LEMMA RunKeyScreen ==
    ASSUME KeyInv, ScreenInv, RunKey
    PROVE  ScreenInv'
<1>1. PICK k \in Key : k = Head(queue)
  <2>1. queue \in Seq(Key) /\ queue # <<>>
    BY DEF KeyInv, RunKey
  <2>2. Head(queue) \in Key
    BY <2>1, HeadTailProperties
  <2> QED
    BY <2>2, Zenon
<1>2. ~over /\ LineInv
  BY Zenon DEF RunKey, ScreenInv
<1>3. k \in Char => k \notin NamedKey
  BY CharAssumption
<1>4. ASSUME LineInv', Shows(screen', line', position') PROVE ScreenInv'
  BY <1>4, Zenon DEF ScreenInv
<1>5. CASE k \in Char
  <2>1. Insert(k) /\ disturbed' = disturbed
    <3>1. k \notin Editing \cup {"ignored"} /\ k \notin {"up", "down", "tab", "clear", "ret", "eof"}
      BY <1>5, CharAssumption DEF NamedKey
    <3> QED
      BY <1>1, <1>5, <3>1 DEF RunKey
  <2>2. Edited
    BY <1>2, <1>5, <2>1, InsertStep
  <2> QED
    BY <1>2, <2>1, <2>2, KeptScreen
<1>6. CASE k \in Editing
  <2>1. EditKey(k) /\ disturbed' = disturbed
    <3>1. k \notin Char /\ k \in Editing \cup {"ignored"}
      BY <1>3, <1>6 DEF NamedKey
    <3>2. k \notin {"up", "down", "tab", "clear", "ret", "eof"}
      BY <1>6 DEF Editing
    <3> QED
      BY <1>1, <3>1, <3>2 DEF RunKey
  <2>2. Edited
    BY <1>2, <1>6, <2>1, EditKeyStep
  <2> QED
    BY <1>2, <2>1, <2>2, KeptScreen
<1>7. CASE k \in {"up", "down"}
  <2>1. Browse
    BY <1>1, <1>3, <1>7 DEF RunKey, NamedKey, Editing
  <2>2. PICK s \in Suggestions \cup {<<>>} : SetLineAt(position, screen, s) /\ disturbed' = disturbed
    BY <2>1 DEF Browse
  <2>3. s \in Seq(Char)
    BY EmptySeq, TerminalAssumption
  <2>4. Edited
    BY <1>2, <2>2, <2>3, SetLineStep
  <2> QED
    BY <1>2, <2>2, <2>4, KeptScreen
<1>8. CASE k = "tab"
  <2>1. Complete
    BY <1>1, <1>3, <1>8 DEF RunKey, NamedKey, Editing
  <2>2. CASE UNCHANGED <<line, position, screen, disturbed>>
    <3>1. Edited
      BY <1>2, <2>2 DEF Edited, LineInv
    <3> QED
      BY <1>2, <2>2, <3>1, KeptScreen
  <2>3. ASSUME NEW m \in Seq(Char), SetLineAt(position, screen, m), disturbed' = disturbed
        PROVE  ScreenInv'
    <3>1. Edited
      BY <1>2, <2>3, SetLineStep
    <3> QED
      BY <1>2, <2>3, <3>1, KeptScreen
  <2>4. ASSUME NEW s \in Suggestions PROVE s \in Seq(Char) /\ s \o <<" ">> \in Seq(Char)
    <3>1. s \in Seq(Char) /\ " " \in Char
      BY TerminalAssumption
    <3>2. <<" ">> \in Seq(Char)
      BY <3>1, OneCell, Zenon
    <3> QED
      BY <3>1, <3>2, ConcatProperties
  <2>5. CASE \E s \in Suggestions : SetLineAt(position, screen, s \o <<" ">>) /\ UNCHANGED disturbed
    BY <2>3, <2>4, <2>5, Zenon
  <2>6. CASE \E s \in Suggestions : /\ Len(s) > Len(line)
                                    /\ SetLineAt(position, screen, s) /\ UNCHANGED disturbed
    BY <2>3, <2>4, <2>6, Zenon
  <2>7. CASE SetLineAt(0, Prompted, line) /\ disturbed' = FALSE
    BY <1>2, <1>4, <2>7, RedrawStep
  <2> QED
    BY <2>1, <2>2, <2>5, <2>6, <2>7, Zenon DEF Complete
<1>9. CASE k = "clear"
  <2>1. Redraw
    BY <1>1, <1>3, <1>9 DEF RunKey, NamedKey, Editing
  <2>2. SetLineAt(0, Prompted, line)
    BY <2>1, Zenon DEF Redraw
  <2> QED
    BY <1>2, <1>4, <2>2, RedrawStep
<1>10. CASE k = "ret"
  <2>1. Enter
    BY <1>1, <1>3, <1>10 DEF RunKey, NamedKey, Editing
  <2>2. line' = <<>> /\ position' = 0 /\ screen' = IF over' THEN BlankScreen ELSE Prompted
    BY <2>1, Zenon DEF Enter, Edit
  <2>3. LineInv'
    <3>1. <<>> \in Seq(Char) /\ 0 \in 0..Len(<<>>)
      BY EmptySeq
    <3> QED
      BY <2>2, <3>1, Zenon DEF LineInv
  <2> QED
    BY <2>2, <2>3, PromptShows, Zenon DEF ScreenInv
<1>11. CASE k = "eof"
  <2>1. UNCHANGED <<line, position, screen, disturbed>>
    BY <1>1, <1>3, <1>11 DEF RunKey, NamedKey, Editing
  <2>2. Edited
    BY <1>2, <2>1 DEF Edited, LineInv
  <2> QED
    BY <1>2, <2>1, <2>2, KeptScreen
<1> QED
  BY <1>5, <1>6, <1>7, <1>8, <1>9, <1>10, <1>11 DEF Key, NamedKey

LEMMA ScreenIsInvariant == Spec => []ScreenInv
<1>1. Init => ScreenInv
  <2> SUFFICES ASSUME Init PROVE ScreenInv
    OBVIOUS
  <2>1. line = <<>> /\ position = 0 /\ screen = Prompted
    BY DEF Init
  <2>2. <<>> \in Seq(Char) /\ 0 \in 0..Len(<<>>)
    BY EmptySeq
  <2> QED
    BY <2>1, <2>2, PromptShows, Zenon DEF ScreenInv, LineInv
<1>2. KeyInv /\ ScreenInv /\ [Next]_vars => ScreenInv'
  <2> SUFFICES ASSUME KeyInv, ScreenInv, [Next]_vars PROVE ScreenInv'
    OBVIOUS
  <2>1. ASSUME UNCHANGED <<line, position, screen, disturbed, over>> PROVE ScreenInv'
    BY <2>1 DEF ScreenInv, LineInv
  <2>2. CASE \E k \in Key : Press(k)
    BY <2>1, <2>2 DEF Press, editVars
  <2>3. CASE \E n \in Negotiations : Negotiate(n)
    BY <2>1, <2>3 DEF Negotiate, editVars
  <2>4. CASE Byte
    BY <2>1, <2>4 DEF Byte, editVars
  <2>5. CASE RunKey
    BY <2>5, RunKeyScreen
  <2>6. CASE Broadcast
    BY <2>6 DEF Broadcast, ScreenInv, LineInv
  <2>7. CASE UNCHANGED vars
    BY <2>1, <2>7 DEF vars, editVars
  <2> QED
    BY <2>2, <2>3, <2>4, <2>5, <2>6, <2>7 DEF Next
<1> QED
  BY <1>1, <1>2, KeyIsInvariant, PTL DEF Spec

\* After any keys, in any order, and whatever the history or a completion puts
\* on the line, the client's row is the prompt, the line and blanks, with the
\* cursor where the next key acts, as long as nothing else was printed on it.
THEOREM ScreenIsTheLine == Spec => []ScreenShowsLine
<1>1. ScreenInv => ScreenShowsLine
  <2> SUFFICES ASSUME ScreenInv, ~disturbed, ~over
               PROVE  LET shown == Prompt \o line
                          n == Len(shown)
                      IN  /\ Len(screen.row) >= n /\ SubSeq(screen.row, 1, n) = shown
                          /\ \A i \in n + 1..Len(screen.row) : screen.row[i] = " "
                          /\ screen.col = Len(Prompt) + position
    BY Zenon DEF ScreenShowsLine
  <2>1. PICK r \in Seq(Shown), l \in Seq(Char), n \in Nat, k \in Nat :
          /\ r = screen.row /\ l = line /\ n = Len(l) /\ k = Len(r)
          /\ k >= 2 + n /\ r[1] = Mark /\ r[2] = Blank
          /\ \A i \in 1..k - 2 : r[2 + i] = Cell(l, i)
    BY LenProperties DEF ScreenInv, Shows, RowShows, LineInv
  <2>2. screen.col = 2 + position
    BY Zenon DEF ScreenInv, Shows
  <2>3. PICK q \in Seq(Shown) : q = Prompt /\ Len(q) = 2 /\ q[1] = Mark /\ q[2] = Blank
    <3>1. Mark \in Shown /\ Blank \in Shown
      BY TerminalAssumption DEF Shown, Mark, Blank
    <3>2. Prompt = <<Mark, Blank>>
      BY Zenon DEF Prompt, Mark, Blank
    <3>3. /\ <<Mark, Blank>> \in Seq(Shown) /\ Len(<<Mark, Blank>>) = 2
          /\ <<Mark, Blank>>[1] = Mark /\ <<Mark, Blank>>[2] = Blank
      BY <3>1
    <3> QED
      BY <3>2, <3>3, Zenon
  <2>4. l \in Seq(Shown)
    BY DEF Shown
  <2>5. PICK w \in Seq(Shown) : IsJoined(w, q, l, 2, n)
    <3>1. 2 \in Nat /\ 2 = Len(q) /\ n = Len(l)
      BY <2>1, <2>3
    <3> QED
      BY <2>4, <3>1, JoinedCells
  <2>6. /\ w = Joined(q, l) /\ Len(w) = 2 + n
        /\ \A i \in 1..2 : w[i] = q[i]
        /\ \A i \in 2 + 1..2 + n : w[i] = l[i - 2]
    BY <2>5, Zenon DEF IsJoined
  <2>7. PICK u \in Seq(Shown) : u = Cut(r, 1, 2 + n) /\ Len(u) = 2 + n /\ \A i \in 1..2 + n : u[i] = r[i]
    <3>1. 1 \in 1..k + 1 /\ 2 + n \in 1 - 1..k /\ k = Len(r)
      BY <2>1
    <3>2. PICK u \in Seq(Shown) : IsCut(u, r, 1, 2 + n)
      BY <3>1, CutCells
    <3>3. /\ u = Cut(r, 1, 2 + n) /\ Len(u) = 2 + n + 1 - 1
          /\ \A i \in 1..2 + n + 1 - 1 : u[i] = r[1 + i - 1]
      BY <3>2, Zenon DEF IsCut
    <3>4. 2 + n + 1 - 1 = 2 + n
      OBVIOUS
    <3>5. ASSUME NEW i \in 1..2 + n PROVE u[i] = r[i]
      <4>1. i \in 1..2 + n + 1 - 1 /\ 1 + i - 1 = i
        OBVIOUS
      <4> QED
        BY <3>3, <4>1, Zenon
    <3> QED
      BY <3>3, <3>4, <3>5, Zenon
  <2>8. ASSUME NEW i \in 1..2 + n PROVE u[i] = w[i]
    <3>1. CASE i = 1 \/ i = 2
      <4>1. i \in 1..2
        BY <3>1
      <4>2. u[i] = r[i] /\ w[i] = q[i]
        BY <2>6, <2>7, <4>1, Zenon
      <4> QED
        BY <2>1, <2>3, <3>1, <4>2, Zenon
    <3>2. CASE i # 1 /\ i # 2
      <4>1. PICK j \in 1..k - 2 : 2 + j = i /\ j = i - 2 /\ j <= n
        <5>1. i - 2 \in 1..k - 2 /\ 2 + (i - 2) = i /\ i - 2 <= n
          BY <2>1, <3>2
        <5> QED
          BY <5>1, Zenon
      <4>2. i \in 2 + 1..2 + n
        BY <3>2
      <4>3. u[i] = r[i] /\ w[i] = l[i - 2]
        BY <2>6, <2>7, <4>2, Zenon
      <4>4. r[2 + j] = Cell(l, j) /\ Cell(l, j) = l[j]
        BY <2>1, <4>1, Zenon DEF Cell
      <4> QED
        BY <4>1, <4>3, <4>4, Zenon
    <3> QED
      BY <3>1, <3>2
  <2>9. u = w
    <3>1. Len(u) = Len(w) /\ \A i \in 1..Len(u) : u[i] = w[i]
      BY <2>6, <2>7, <2>8, Zenon
    <3> QED
      BY <3>1, SeqEqual
  <2>10. ASSUME NEW i \in 2 + n + 1..k PROVE r[i] = Blank
    <3>1. PICK j \in 1..k - 2 : 2 + j = i /\ ~(j <= n)
      <4>1. i - 2 \in 1..k - 2 /\ 2 + (i - 2) = i /\ ~(i - 2 <= n)
        OBVIOUS
      <4> QED
        BY <4>1, Zenon
    <3>2. r[2 + j] = Cell(l, j) /\ Cell(l, j) = Blank
      BY <2>1, <3>1, Zenon DEF Cell
    <3> QED
      BY <3>1, <3>2, Zenon
  <2>11. Prompt \o line = w
    BY <2>1, <2>3, <2>6, Zenon DEF Joined
  <2>12. SubSeq(screen.row, 1, 2 + n) = w
    BY <2>1, <2>7, <2>9, Zenon DEF Cut
  <2>13. Len(screen.row) >= 2 + n
    BY <2>1, Zenon
  <2>14. \A i \in 2 + n + 1..Len(screen.row) : screen.row[i] = " "
    BY <2>1, <2>10, Zenon DEF Blank
  <2>15. screen.col = Len(Prompt) + position
    BY <2>2, <2>3, Zenon
  <2> QED
    BY <2>6, <2>11, <2>12, <2>13, <2>14, <2>15, Zenon
<1> QED
  BY <1>1, ScreenIsInvariant, PTL

=============================================================================
