--------------------------- MODULE ChatRoomProofs ---------------------------
(***************************************************************************)
(* Theorems about ChatRoom, for any set of sessions, any backlog and any   *)
(* number of lines.                                                        *)
(***************************************************************************)
EXTENDS ChatRoom, SequenceTheorems, TLAPS

Joined(s) == reader[s] # "none"

(* What the control states of a session say about its socket, its queue and
   its read buffer, and about its place in the room. *)
Control(s) ==
    /\ s \in participants <=> open[s]
    /\ open[s] => reader[s] \in {"reading", "line", "error"}
    /\ open[s] => writer[s] \in {"waiting", "woken", "writing", "sent", "failed"}
    /\ reader[s] = "reading" => open[s]
    /\ reader[s] = "line" => unread[s] > 0
    /\ unread[s] <= typed[s]
    /\ writer[s] = "waiting" => open[s] /\ queue[s] = <<>>
    /\ writer[s] = "writing" => open[s] /\ queue[s] # <<>>
    /\ writer[s] = "sent" => queue[s] # <<>>
    /\ Joined(s) <=> first[s] # NotJoined
    /\ ~Joined(s) => received[s] = <<>> /\ writer[s] = "none"

ControlInv == \A s \in Session : Control(s)

(* recent_msgs_ is the end of the history, as long as max_recent_msgs allows. *)
RecentInv ==
    /\ Len(recent) = IF Len(log) > MaxRecent THEN MaxRecent ELSE Len(log)
    /\ \A i \in 1..Len(recent) : recent[i] = log[Len(log) - Len(recent) + i]

(* How many lines of the history lie before the queue of s: the line that is
   written but not popped yet is counted in received, and is still queued. *)
Base(s) ==
    IF writer[s] = "sent" THEN first[s] + Len(received[s]) - 1
                          ELSE first[s] + Len(received[s])

Delivered(s) ==
    /\ first[s] + Len(received[s]) <= Len(log)
    /\ \A i \in 1..Len(received[s]) : received[s][i] = log[first[s] + i]

Queued(s) ==
    /\ Base(s) >= 0
    /\ Base(s) + Len(queue[s]) = Len(log)
    /\ \A i \in 1..Len(queue[s]) : queue[s][i] = log[Base(s) + i]

DeliveryInv ==
    \A s \in Session : Joined(s) => Delivered(s) /\ (s \in participants => Queued(s))

IInv == TypeOK /\ ControlInv /\ RecentInv /\ DeliveryInv

-----------------------------------------------------------------------------
(* Operators of the model.                                                  *)

\* push_back leaves a queue that is not empty.
LEMMA AppendNotEmpty ==
    ASSUME NEW q \in Seq(Line), NEW msg \in Line
    PROVE  Append(q, msg) # <<>>
<1>1. Len(Append(q, msg)) = Len(q) + 1 /\ Len(q) \in Nat
    BY AppendProperties, LenProperties
<1> QED
    BY <1>1, EmptySeq

\* What chat_room::deliver keeps is the end of what it held.
LEMMA TrimKeepsTheEnd ==
    ASSUME NEW q \in Seq(Line)
    PROVE  /\ Trim(q) \in Seq(Line)
           /\ Len(Trim(q)) = IF Len(q) > MaxRecent THEN MaxRecent ELSE Len(q)
           /\ \A i \in 1..Len(Trim(q)) : Trim(q)[i] = q[Len(q) - Len(Trim(q)) + i]
<1> DEFINE m == Len(q) - MaxRecent + 1
<1>1. CASE Len(q) > MaxRecent
    <2>1. m \in 1..Len(q) + 1 /\ \A i \in m..Len(q) : q[i] \in Line
        BY <1>1, ChatAssumption, ElementOfSeq, LenProperties
    <2>2. /\ SubSeq(q, m, Len(q)) \in Seq(Line)
          /\ Len(SubSeq(q, m, Len(q))) = MaxRecent
          /\ \A i \in 1..MaxRecent : SubSeq(q, m, Len(q))[i] = q[m + i - 1]
        BY <1>1, <2>1, SubSeqProperties, LenProperties, ChatAssumption
    <2>3. Trim(q) = SubSeq(q, m, Len(q))
        BY <1>1 DEF Trim
    <2> QED
        BY <1>1, <2>2, <2>3, LenProperties, ChatAssumption
<1>2. CASE ~(Len(q) > MaxRecent)
    BY <1>2, LenProperties, ChatAssumption DEF Trim
<1> QED
    BY <1>1, <1>2

\* Where writer() may suspend.
LEMMA WriterAwaitType ==
    ASSUME NEW b \in BOOLEAN, NEW q
    PROVE  WriterAwait(b, q) \in {"done", "waiting", "writing"}
BY DEF WriterAwait

\* Where reader() may suspend.
LEMMA ReaderAwaitType ==
    ASSUME NEW b \in BOOLEAN, NEW n \in Int
    PROVE  ReaderAwait(b, n) \in {"line", "reading", "error"}
BY DEF ReaderAwait

\* Wake and the aborts change one control state each.
LEMMA WakeTypes ==
    ASSUME NEW w \in WriterState, NEW r \in ReaderState
    PROVE  /\ Wake(w) \in WriterState
           /\ AbortWrite(Wake(w)) \in WriterState
           /\ AbortRead(r) \in ReaderState
BY DEF Wake, AbortWrite, AbortRead, WriterState, ReaderState

\* The line that reader() posts next is one its client typed.
LEMMA NextLine ==
    ASSUME TypeOK, ControlInv, NEW s \in Session, reader[s] = "line"
    PROVE  [by |-> s, no |-> typed[s] - unread[s] + 1] \in Line
<1>1. typed[s] \in 0..MaxLines /\ unread[s] \in 0..MaxLines
    BY DEF TypeOK
<1>2. unread[s] > 0 /\ unread[s] <= typed[s]
    BY DEF ControlInv, Control
<1>3. typed[s] - unread[s] + 1 \in 1..MaxLines
    BY <1>1, <1>2, ChatAssumption
<1> QED
    BY <1>3 DEF Line

-----------------------------------------------------------------------------
(* The inductive invariant.                                                 *)

\* The initial state satisfies the inductive invariant.
LEMMA InitIInv == Init => IInv
<1> SUFFICES ASSUME Init PROVE IInv
    OBVIOUS
<1>1. TypeOK
    BY ChatAssumption, EmptySeq DEF Init, TypeOK, ReaderState, WriterState
<1>2. ControlInv
    <2> SUFFICES ASSUME NEW s \in Session PROVE Control(s)
        BY DEF ControlInv
    <2>1. open[s] = FALSE /\ participants = {} /\ reader[s] = "none" /\ writer[s] = "none"
        BY DEF Init
    <2>2. unread[s] = 0 /\ typed[s] = 0 /\ first[s] = NotJoined /\ received[s] = <<>>
        BY DEF Init
    <2> QED
        BY <2>1, <2>2 DEF Control, Joined
<1>3. RecentInv
    BY ChatAssumption, EmptySeq DEF Init, RecentInv
<1>4. DeliveryInv
    BY DEF Init, DeliveryInv, Joined
<1> QED
    BY <1>1, <1>2, <1>3, <1>4 DEF IInv

\* Every step keeps the variables in their types.
LEMMA TypeStep == IInv /\ [Next]_vars => TypeOK'
<1> SUFFICES ASSUME IInv, [Next]_vars PROVE TypeOK'
    OBVIOUS
<1> USE DEF IInv
<1>1. ASSUME NEW s \in Session, Accept(s) PROVE TypeOK'
    <2>1. first'[s] \in Nat
        BY <1>1, LenProperties, ChatAssumption DEF Accept, TypeOK, RecentInv
    <2>2. WriterAwait(TRUE, recent) \in WriterState /\ ReaderAwait(TRUE, 0) \in ReaderState
        BY DEF WriterAwait, ReaderAwait, WriterState, ReaderState
    <2> QED
        BY <1>1, <2>1, <2>2 DEF Accept, TypeOK
<1>2. ASSUME NEW s \in Session, ReaderLine(s) PROVE TypeOK'
    <2> DEFINE msg == [by |-> s, no |-> typed[s] - unread[s] + 1]
    <2>1. msg \in Line
        BY <1>2, NextLine DEF ReaderLine
    <2>2. recent' \in Seq(Line) /\ log' \in Seq(Line)
        <3>1. Append(recent, msg) \in Seq(Line) /\ Append(log, msg) \in Seq(Line)
            BY <2>1, AppendProperties DEF TypeOK
        <3> QED
            BY <1>2, <3>1, TrimKeepsTheEnd DEF ReaderLine
    <2>3. queue' \in [Session -> Seq(Line)]
        <3>1. \A p \in Session : Append(queue[p], msg) \in Seq(Line)
            BY <2>1, AppendProperties DEF TypeOK
        <3> QED
            BY <1>2, <3>1 DEF ReaderLine, TypeOK
    <2>4. writer' \in [Session -> WriterState]
        BY <1>2, WakeTypes DEF ReaderLine, TypeOK
    <2>5. unread' \in [Session -> 0..MaxLines]
        <3>1. unread[s] > 0
            BY <1>2 DEF ControlInv, Control, ReaderLine
        <3>2. unread[s] - 1 \in 0..MaxLines
            BY <3>1, ChatAssumption DEF TypeOK
        <3> QED
            BY <1>2, <3>2 DEF ReaderLine, TypeOK, Erased
    <2>6. reader' \in [Session -> ReaderState]
        <3>1. ReaderAwait(open[s], unread[s] - 1) \in ReaderState
            BY ReaderAwaitType DEF TypeOK, ReaderState
        <3> QED
            BY <1>2, <3>1 DEF ReaderLine, TypeOK, Erased
    <2> QED
        BY <1>2, <2>2, <2>3, <2>4, <2>5, <2>6 DEF ReaderLine, TypeOK
<1>3. ASSUME NEW s \in Session, ReaderError(s) PROVE TypeOK'
    <2>1. AbortWrite(Wake(writer[s])) \in WriterState
        BY WakeTypes DEF TypeOK
    <2> QED
        BY <1>3, <2>1 DEF ReaderError, StopByReader, TypeOK, historyVars, ReaderState
<1>4. ASSUME NEW s \in Session, WriterWoken(s) PROVE TypeOK'
    <2>1. WriterAwait(open[s], queue[s]) \in WriterState
        BY WriterAwaitType DEF TypeOK, WriterState
    <2> QED
        BY <1>4, <2>1 DEF WriterWoken, TypeOK, historyVars, roomVars
<1>5. ASSUME NEW s \in Session, WriterSent(s) PROVE TypeOK'
    <2>1. Tail(queue[s]) \in Seq(Line)
        BY <1>5, HeadTailProperties DEF WriterSent, TypeOK, ControlInv, Control
    <2>2. WriterAwait(open[s], Tail(queue[s])) \in WriterState
        BY WriterAwaitType DEF TypeOK, WriterState
    <2> QED
        BY <1>5, <2>1, <2>2 DEF WriterSent, TypeOK, historyVars
<1>6. ASSUME NEW s \in Session, WriterFailed(s) PROVE TypeOK'
    <2>1. AbortRead(reader[s]) \in ReaderState
        BY WakeTypes DEF TypeOK, WriterState
    <2> QED
        BY <1>6, <2>1 DEF WriterFailed, StopByWriter, TypeOK, historyVars, WriterState
<1>7. ASSUME NEW s \in Session, NEW n \in 1..MaxLines, ReadLines(s, n) PROVE TypeOK'
    <2>1. typed[s] + n \in 0..MaxLines /\ unread[s] + n \in 0..MaxLines
        BY <1>7, ChatAssumption DEF ReadLines, TypeOK, ControlInv, Control
    <2> QED
        BY <1>7, <2>1 DEF ReadLines, TypeOK, historyVars, roomVars, ReaderState
<1>8. ASSUME NEW s \in Session, ReadFails(s) PROVE TypeOK'
    BY <1>8 DEF ReadFails, TypeOK, historyVars, roomVars, ReaderState
<1>9. ASSUME NEW s \in Session, WriteCompletes(s) PROVE TypeOK'
    <2>1. Head(queue[s]) \in Line
        BY <1>9, HeadTailProperties DEF WriteCompletes, TypeOK, ControlInv, Control
    <2>2. Append(received[s], Head(queue[s])) \in Seq(Line)
        BY <2>1, AppendProperties DEF TypeOK
    <2> QED
        BY <1>9, <2>2 DEF WriteCompletes, TypeOK, roomVars, WriterState
<1>10. ASSUME NEW s \in Session, WriteFails(s) PROVE TypeOK'
    BY <1>10 DEF WriteFails, TypeOK, historyVars, roomVars, WriterState
<1>11. CASE Signal
    BY <1>11 DEF Signal, TypeOK, historyVars, roomVars, sessionVars
<1>12. CASE UNCHANGED vars
    BY <1>12 DEF vars, TypeOK, historyVars, roomVars, sessionVars
<1> QED
    BY <1>1, <1>2, <1>3, <1>4, <1>5, <1>6, <1>7, <1>8, <1>9, <1>10, <1>11, <1>12
       DEF Next, Reader, Writer, Kernel

\* Every step keeps what the control states say true.
LEMMA ControlStep == IInv /\ [Next]_vars => ControlInv'
<1> SUFFICES ASSUME IInv, [Next]_vars, NEW t \in Session PROVE Control(t)'
    BY DEF ControlInv
<1> USE DEF IInv
<1>0. Control(t) /\ TypeOK
    BY DEF ControlInv
<1>1. ASSUME NEW s \in Session, Accept(s) PROVE Control(t)'
    <2>1. CASE t = s
        <3>1. /\ participants' = participants \cup {s} /\ open'[s] = TRUE
              /\ reader'[s] = "reading" /\ received'[s] = received[s]
              /\ writer'[s] = (IF recent = <<>> THEN "waiting" ELSE "writing")
              /\ queue'[s] = recent /\ unread'[s] = unread[s] /\ typed'[s] = typed[s]
              /\ first'[s] = Len(log) - Len(recent)
            BY <1>1 DEF Accept, TypeOK, ReaderAwait, WriterAwait
        <3>2. first'[s] # NotJoined
            BY <3>1, LenProperties, ChatAssumption DEF TypeOK, RecentInv, NotJoined
        <3> QED
            BY <1>0, <2>1, <3>1, <3>2 DEF Control, Joined
    <2>2. CASE t # s
        BY <1>0, <1>1, <2>2 DEF Accept, Control, Joined, TypeOK
    <2> QED
        BY <2>1, <2>2
<1>2. ASSUME NEW s \in Session, ReaderLine(s) PROVE Control(t)'
    <2> DEFINE msg == [by |-> s, no |-> typed[s] - unread[s] + 1]
    <2>1. msg \in Line
        BY <1>2, NextLine DEF ReaderLine
    <2>2. Append(queue[t], msg) # <<>>
        <3> HIDE DEF msg
        <3> QED
            BY <2>1, AppendNotEmpty DEF TypeOK
    <2>3. /\ participants' = participants /\ open' = open /\ first' = first
          /\ received' = received /\ typed' = typed
          /\ queue'[t] = IF t \in participants THEN Append(queue[t], msg) ELSE queue[t]
          /\ writer'[t] = IF t \in participants THEN Wake(writer[t]) ELSE writer[t]
        BY <1>2 DEF ReaderLine, TypeOK
    <2>4. t = s => /\ unread'[t] = unread[t] - 1
                   /\ unread[t] \in Nat
                   /\ reader[t] = "line"
                   /\ reader'[t] = ReaderAwait(open[t], unread'[t])
        BY <1>2 DEF ReaderLine, TypeOK, Erased
    <2>5. t # s => unread'[t] = unread[t] /\ reader'[t] = reader[t]
        BY <1>2 DEF ReaderLine, TypeOK
    <2>6. typed[t] \in Nat /\ open[t] \in BOOLEAN
        BY DEF TypeOK
    <2> QED
        BY <1>0, <2>2, <2>3, <2>4, <2>5, <2>6 DEF Control, Joined, ReaderAwait, Wake
<1>3. ASSUME NEW s \in Session, ReaderError(s) PROVE Control(t)'
    BY <1>0, <1>3 DEF ReaderError, StopByReader, Control, Joined, TypeOK, historyVars, Wake, AbortWrite
<1>4. ASSUME NEW s \in Session, WriterWoken(s) PROVE Control(t)'
    BY <1>0, <1>4 DEF WriterWoken, Control, Joined, TypeOK, historyVars, roomVars, WriterAwait
<1>5. ASSUME NEW s \in Session, WriterSent(s) PROVE Control(t)'
    BY <1>0, <1>5 DEF WriterSent, Control, Joined, TypeOK, historyVars, WriterAwait
<1>6. ASSUME NEW s \in Session, WriterFailed(s) PROVE Control(t)'
    BY <1>0, <1>6 DEF WriterFailed, StopByWriter, Control, Joined, TypeOK, historyVars, AbortRead
<1>7. ASSUME NEW s \in Session, NEW n \in 1..MaxLines, ReadLines(s, n) PROVE Control(t)'
    BY <1>0, <1>7, ChatAssumption DEF ReadLines, Control, Joined, TypeOK, historyVars, roomVars
<1>8. ASSUME NEW s \in Session, ReadFails(s) PROVE Control(t)'
    BY <1>0, <1>8 DEF ReadFails, Control, Joined, TypeOK, historyVars, roomVars
<1>9. ASSUME NEW s \in Session, WriteCompletes(s) PROVE Control(t)'
    BY <1>0, <1>9 DEF WriteCompletes, Control, Joined, TypeOK, roomVars
<1>10. ASSUME NEW s \in Session, WriteFails(s) PROVE Control(t)'
    BY <1>0, <1>10 DEF WriteFails, Control, Joined, TypeOK, historyVars, roomVars
<1>11. CASE Signal
    BY <1>0, <1>11 DEF Signal, Control, Joined, historyVars, roomVars, sessionVars
<1>12. CASE UNCHANGED vars
    BY <1>0, <1>12 DEF vars, Control, Joined, historyVars, roomVars, sessionVars
<1> QED
    BY <1>1, <1>2, <1>3, <1>4, <1>5, <1>6, <1>7, <1>8, <1>9, <1>10, <1>11, <1>12
       DEF Next, Reader, Writer, Kernel

\* Every step keeps recent_msgs_ the end of the history.
LEMMA RecentStep == IInv /\ [Next]_vars => RecentInv'
<1> SUFFICES ASSUME IInv, [Next]_vars PROVE RecentInv'
    OBVIOUS
<1> USE DEF IInv
<1>1. ASSUME NEW s \in Session, ReaderLine(s) PROVE RecentInv'
    <2> DEFINE msg == [by |-> s, no |-> typed[s] - unread[s] + 1]
               held == Append(recent, msg)
    <2>1. msg \in Line
        BY <1>1, NextLine DEF ReaderLine
    <2>2. /\ held \in Seq(Line) /\ Len(held) = Len(recent) + 1
          /\ \A i \in 1..Len(recent) : held[i] = recent[i]
          /\ held[Len(recent) + 1] = msg
        BY <2>1, AppendProperties DEF TypeOK
    <2>3. /\ Len(log') = Len(log) + 1
          /\ \A i \in 1..Len(log) : log'[i] = log[i]
          /\ log'[Len(log) + 1] = msg
        BY <1>1, <2>1, AppendProperties DEF TypeOK, ReaderLine
    <2>4. recent' = Trim(held)
        BY <1>1 DEF ReaderLine
    <2>5. /\ Len(recent') = IF Len(held) > MaxRecent THEN MaxRecent ELSE Len(held)
          /\ \A i \in 1..Len(recent') : recent'[i] = held[Len(held) - Len(recent') + i]
        BY <2>2, <2>4, TrimKeepsTheEnd
    <2>6. Len(recent) \in Nat /\ Len(log) \in Nat
        BY LenProperties DEF TypeOK
    <2>7. Len(recent') = IF Len(log') > MaxRecent THEN MaxRecent ELSE Len(log')
        BY <2>2, <2>3, <2>5, <2>6, ChatAssumption DEF RecentInv
    <2>8. ASSUME NEW i \in 1..Len(recent') PROVE recent'[i] = log'[Len(log') - Len(recent') + i]
        <3> DEFINE j == Len(held) - Len(recent') + i
        <3>1. j \in 1..Len(recent) + 1 /\ recent'[i] = held[j]
            <4>1. Len(held) \in Nat /\ Len(recent') \in Nat /\ Len(recent') <= Len(held)
                BY <2>2, <2>5, <2>6, ChatAssumption
            <4>2. j \in 1..Len(held)
                BY <2>8, <4>1
            <4> QED
                BY <2>2, <2>5, <2>8, <4>2
        <3>2. Len(log') - Len(recent') + i = Len(log) - Len(recent) + j
            BY <2>2, <2>3, <2>5, <2>6, ChatAssumption
        <3>3. CASE j = Len(recent) + 1
            BY <2>2, <2>3, <2>6, <3>1, <3>2, <3>3
        <3>4. CASE j # Len(recent) + 1
            <4>1. j \in 1..Len(recent)
                BY <2>6, <3>1, <3>4
            <4>2. Len(log) - Len(recent) + j \in 1..Len(log)
                <5>1. Len(recent) <= Len(log)
                    BY <2>6, ChatAssumption DEF RecentInv
                <5> HIDE DEF j
                <5> QED
                    BY <2>6, <4>1, <5>1
            <4> QED
                BY <2>2, <2>3, <3>1, <3>2, <4>1, <4>2, ZenonT(40) DEF RecentInv
        <3> QED
            BY <3>3, <3>4
    <2> QED
        BY <2>7, <2>8 DEF RecentInv
<1>2. ASSUME UNCHANGED <<recent, log>> PROVE RecentInv'
    BY <1>2 DEF RecentInv
<1>3. ASSUME NEW s \in Session, ~ReaderLine(s),
             Accept(s) \/ Reader(s) \/ Writer(s) \/ Kernel(s)
      PROVE  UNCHANGED <<recent, log>>
    BY <1>3 DEF Accept, Reader, Writer, Kernel, ReaderError, WriterWoken, WriterSent, WriterFailed,
                ReadLines, ReadFails, WriteCompletes, WriteFails, historyVars, roomVars
<1>4. ASSUME Signal \/ UNCHANGED vars PROVE UNCHANGED <<recent, log>>
    BY <1>4 DEF Signal, vars, historyVars, roomVars
<1> QED
    BY <1>1, <1>2, <1>3, <1>4 DEF Next

\* What a session was sent, and what it is owed, after a line is posted.
LEMMA DeliveryOfLine ==
    ASSUME IInv, NEW s \in Session, ReaderLine(s), NEW t \in Session, Joined(t)
    PROVE  Delivered(t)' /\ (t \in participants' => Queued(t)')
<1> DEFINE msg == [by |-> s, no |-> typed[s] - unread[s] + 1]
<1> USE DEF IInv
<1>1. msg \in Line
    BY NextLine DEF ReaderLine
<1>2. log' = Append(log, msg) /\ UNCHANGED <<participants, first, received>>
    BY DEF ReaderLine
<1>3. queue'[t] = IF t \in participants THEN Append(queue[t], msg) ELSE queue[t]
    BY DEF ReaderLine
<1>4. writer'[t] = "sent" <=> writer[t] = "sent"
    BY DEF ReaderLine, TypeOK, Wake
<1> HIDE DEF msg
<1>5. /\ Len(log') = Len(log) + 1
      /\ \A i \in 1..Len(log) : log'[i] = log[i]
      /\ log'[Len(log) + 1] = msg
    BY <1>1, <1>2, AppendProperties DEF TypeOK
<1>6. /\ Len(log) \in Nat /\ Len(received[t]) \in Nat /\ Len(queue[t]) \in Nat
      /\ first[t] \in Nat
    BY LenProperties DEF TypeOK, ControlInv, Control
<1>7. Delivered(t) /\ (t \in participants => Queued(t))
    BY DEF DeliveryInv
<1>8. Delivered(t)'
    <2>1. first'[t] + Len(received'[t]) <= Len(log')
        BY <1>2, <1>5, <1>6, <1>7 DEF Delivered
    <2>2. ASSUME NEW i \in 1..Len(received'[t]) PROVE received'[t][i] = log'[first'[t] + i]
        <3>1. first[t] + i \in 1..Len(log)
            BY <1>2, <1>6, <1>7, <2>2 DEF Delivered
        <3> QED
            BY <1>2, <1>5, <1>7, <2>2, <3>1 DEF Delivered
    <2> QED
        BY <2>1, <2>2 DEF Delivered
<1>9. ASSUME t \in participants' PROVE Queued(t)'
    <2>1. t \in participants /\ Queued(t)
        BY <1>2, <1>7, <1>9
    <2>2. /\ Len(queue'[t]) = Len(queue[t]) + 1
          /\ \A i \in 1..Len(queue[t]) : queue'[t][i] = queue[t][i]
          /\ queue'[t][Len(queue[t]) + 1] = msg
        BY <1>1, <1>3, <2>1, AppendProperties DEF TypeOK
    <2>3. Base(t)' = Base(t) /\ Base(t) \in Nat
        <3>1. Base(t) \in Int
            BY <1>6 DEF Base
        <3>2. Base(t)' = Base(t)
            BY <1>2, <1>4 DEF Base
        <3> QED
            BY <2>1, <3>1, <3>2 DEF Queued
    <2>4. Base(t) \in Nat /\ Base(t) + Len(queue[t]) = Len(log)
        BY <2>1, <2>3 DEF Queued
    <2>5. ASSUME NEW i \in 1..Len(queue'[t]) PROVE queue'[t][i] = log'[Base(t) + i]
        <3>1. CASE i = Len(queue[t]) + 1
            <4>1. Base(t) + i = Len(log) + 1
                <5>1. Len(queue[t]) \in Int /\ Base(t) \in Int
                    BY <1>6, <2>4
                <5>2. Base(t) + (Len(queue[t]) + 1) = (Base(t) + Len(queue[t])) + 1
                    BY <5>1
                <5> QED
                    BY <2>4, <3>1, <5>2
            <4> QED
                BY <1>5, <2>2, <3>1, <4>1
        <3>2. CASE i # Len(queue[t]) + 1
            <4>1. i \in 1..Len(queue[t]) /\ Base(t) + i \in 1..Len(log)
                <5>1. Len(queue[t]) \in Nat /\ Base(t) \in Nat /\ Len(log) \in Nat
                    BY <1>6, <2>4
                <5>2. i \in Nat /\ 1 <= i /\ i <= Len(queue[t])
                    BY <2>2, <2>5, <3>2, <5>1
                <5>3. Base(t) + i <= Base(t) + Len(queue[t]) /\ 1 <= Base(t) + i
                    BY <5>1, <5>2
                <5> QED
                    BY <2>4, <5>1, <5>2, <5>3
            <4> QED
                BY <1>5, <2>1, <2>2, <4>1 DEF Queued
        <3> QED
            BY <3>1, <3>2
    <2> QED
        <3>1. Base(t) + Len(queue'[t]) = Len(log')
            <4>1. Len(queue'[t]) = Len(queue[t]) + 1
                BY <2>2
            <4>2. Len(log') = Len(log) + 1
                BY <1>5
            <4> QED
                BY <1>6, <2>4, <4>1, <4>2
        <3> QED
            BY <2>3, <2>5, <2>4, <3>1 DEF Queued
<1> QED
    BY <1>8, <1>9

\* The line whose write completes is the next one of the session's stretch.
LEMMA WrittenLine ==
    ASSUME IInv, NEW s \in Session, writer[s] = "writing"
    PROVE  /\ s \in participants
           /\ first[s] \in Nat
           /\ Len(received[s]) \in Nat
           /\ first[s] + Len(received[s]) + 1 \in 1..Len(log)
           /\ Head(queue[s]) = log[first[s] + Len(received[s]) + 1]
           /\ Base(s) = first[s] + Len(received[s])
<1> USE DEF IInv
<1>1. s \in participants /\ queue[s] # <<>> /\ Joined(s) /\ first[s] \in Nat
    BY DEF ControlInv, Control, Joined, TypeOK
<1>2. Queued(s)
    BY <1>1 DEF DeliveryInv
<1>3. Len(log) \in Nat /\ Len(received[s]) \in Nat /\ Len(queue[s]) \in Nat \ {0}
    BY <1>1, LenProperties, EmptySeq DEF TypeOK
<1>4. Base(s) = first[s] + Len(received[s])
    BY <1>1, <1>3 DEF Base
<1>5. Head(queue[s]) = queue[s][1]
    BY DEF TypeOK
<1> QED
    BY <1>1, <1>2, <1>3, <1>4, <1>5 DEF Queued

\* Every step keeps the stretch of history of every session.
LEMMA DeliveryStep == IInv /\ [Next]_vars => DeliveryInv'
<1> SUFFICES ASSUME IInv, [Next]_vars, NEW t \in Session, Joined(t)'
             PROVE  Delivered(t)' /\ (t \in participants' => Queued(t)')
    BY DEF DeliveryInv
<1> USE DEF IInv
<1> DEFINE Goal == Delivered(t)' /\ (t \in participants' => Queued(t)')
<1>0. /\ Len(log) \in Nat /\ Len(received[t]) \in Nat /\ Len(queue[t]) \in Nat
      /\ Len(recent) \in Nat /\ Len(recent) <= Len(log)
      /\ Joined(t) => first[t] \in Nat /\ Delivered(t) /\ (t \in participants => Queued(t))
    BY LenProperties, ChatAssumption DEF TypeOK, RecentInv, DeliveryInv, ControlInv, Control
<1>1. ASSUME Joined(t), UNCHANGED <<log, first[t], received[t], queue[t]>>,
             writer'[t] = "sent" <=> writer[t] = "sent",
             t \in participants' => t \in participants
      PROVE  Goal
    BY <1>0, <1>1 DEF Delivered, Queued, Base
<1>2. ASSUME NEW s \in Session, Accept(s) PROVE Goal
    <2>1. CASE t = s
        <3>1. /\ first'[t] = Len(log) - Len(recent) /\ queue'[t] = recent
              /\ received'[t] = received[t] /\ log' = log /\ writer'[t] # "sent"
            BY <1>2, <2>1 DEF Accept, TypeOK, WriterAwait
        <3>2. received[t] = <<>>
            BY <1>2, <2>1 DEF Accept, ControlInv, Control, Joined
        <3>3. Len(received'[t]) = 0
            BY <3>1, <3>2
        <3>4. Base(t)' = Len(log) - Len(recent)
            BY <1>0, <3>1, <3>3 DEF Base
        <3> QED
            BY <1>0, <3>1, <3>3, <3>4 DEF Delivered, Queued, RecentInv
    <2>2. CASE t # s
        BY <1>1, <1>2, <2>2 DEF Accept, TypeOK, Joined
    <2> QED
        BY <2>1, <2>2
<1>3. ASSUME NEW s \in Session, ReaderLine(s) PROVE Goal
    <2>1. Joined(t)
        BY <1>3 DEF ReaderLine, Joined, TypeOK
    <2> QED
        BY <1>3, <2>1, DeliveryOfLine
<1>4. ASSUME NEW s \in Session, ReaderError(s) PROVE Goal
    BY <1>1, <1>4 DEF ReaderError, StopByReader, Joined, TypeOK, historyVars, Wake, AbortWrite
<1>5. ASSUME NEW s \in Session, WriterWoken(s) PROVE Goal
    BY <1>1, <1>5 DEF WriterWoken, Joined, TypeOK, historyVars, roomVars, WriterAwait
<1>6. ASSUME NEW s \in Session, WriterSent(s) PROVE Goal
    <2>1. Joined(t)
        BY <1>6 DEF WriterSent, Joined
    <2>2. CASE t = s
        <3>1. /\ queue'[t] = Tail(queue[t]) /\ writer[t] = "sent" /\ writer'[t] # "sent"
              /\ UNCHANGED <<log, first, received, participants>>
            BY <1>6, <2>2 DEF WriterSent, TypeOK, WriterAwait, historyVars
        <3>2. /\ Len(queue'[t]) = Len(queue[t]) - 1
              /\ \A i \in 1..Len(queue'[t]) : queue'[t][i] = queue[t][i + 1]
            BY <3>1, HeadTailProperties DEF TypeOK, ControlInv, Control
        <3>3. Base(t)' = Base(t) + 1
            BY <1>0, <2>1, <3>1 DEF Base
        <3>4. Delivered(t)'
            BY <1>0, <2>1, <3>1 DEF Delivered
        <3>5. ASSUME t \in participants PROVE Queued(t)'
            <4>1. Queued(t) /\ Base(t) \in Int
                <5>1. Queued(t)
                    BY <1>0, <2>1, <3>5
                <5>2. Base(t) \in Int
                    BY <1>0, <2>1 DEF Base
                <5> QED
                    BY <5>1, <5>2
            <4>2. ASSUME NEW i \in 1..Len(queue'[t]) PROVE queue'[t][i] = log[Base(t) + 1 + i]
                <5>1. i + 1 \in 1..Len(queue[t])
                    BY <1>0, <3>2, <4>2
                <5>2. queue[t][i + 1] = log[Base(t) + (i + 1)]
                    BY <4>1, <5>1 DEF Queued
                <5>3. Base(t) + (i + 1) = Base(t) + 1 + i
                    BY <4>1
                <5> QED
                    BY <3>2, <5>2, <5>3
            <4> QED
                BY <1>0, <3>1, <3>2, <3>3, <4>1, <4>2 DEF Queued
        <3> QED
            BY <3>1, <3>4, <3>5
    <2>3. CASE t # s
        BY <1>1, <1>6, <2>1, <2>3 DEF WriterSent, TypeOK, historyVars
    <2> QED
        BY <2>2, <2>3
<1>7. ASSUME NEW s \in Session, WriterFailed(s) PROVE Goal
    BY <1>1, <1>7 DEF WriterFailed, StopByWriter, Joined, TypeOK, historyVars, AbortRead
<1>8. ASSUME NEW s \in Session, NEW n \in 1..MaxLines, ReadLines(s, n) PROVE Goal
    BY <1>1, <1>8 DEF ReadLines, Joined, TypeOK, historyVars, roomVars
<1>9. ASSUME NEW s \in Session, ReadFails(s) PROVE Goal
    BY <1>1, <1>9 DEF ReadFails, Joined, TypeOK, historyVars, roomVars
<1>10. ASSUME NEW s \in Session, WriteCompletes(s) PROVE Goal
    <2>1. Joined(t)
        BY <1>10 DEF WriteCompletes, Joined, roomVars
    <2>2. CASE t = s
        <3>1. /\ received'[t] = Append(received[t], Head(queue[t]))
              /\ writer[t] = "writing" /\ writer'[t] = "sent"
              /\ UNCHANGED <<log, first, queue, participants>>
            BY <1>10, <2>2 DEF WriteCompletes, TypeOK, roomVars
        <3>2. /\ Head(queue[t]) = log[first[t] + Len(received[t]) + 1]
              /\ first[t] + Len(received[t]) + 1 \in 1..Len(log)
              /\ t \in participants /\ Base(t) = first[t] + Len(received[t])
              /\ Head(queue[t]) \in Line
            BY <3>1, WrittenLine, HeadTailProperties DEF TypeOK, ControlInv, Control
        <3>3. /\ Len(received'[t]) = Len(received[t]) + 1
              /\ \A i \in 1..Len(received[t]) : received'[t][i] = received[t][i]
              /\ received'[t][Len(received[t]) + 1] = Head(queue[t])
            BY <3>1, <3>2, AppendProperties DEF TypeOK
        <3>4. Base(t)' = Base(t)
            BY <1>0, <2>1, <3>1, <3>2, <3>3 DEF Base
        <3>5. Delivered(t)'
            <4>1. first[t] + Len(received'[t]) <= Len(log)
                BY <1>0, <2>1, <3>2, <3>3
            <4>2. ASSUME NEW i \in 1..Len(received'[t]) PROVE received'[t][i] = log[first[t] + i]
                <5>1. CASE i = Len(received[t]) + 1
                    <6>1. first[t] + i = first[t] + Len(received[t]) + 1
                        BY <1>0, <2>1, <5>1
                    <6> QED
                        BY <3>2, <3>3, <5>1, <6>1
                <5>2. CASE i # Len(received[t]) + 1
                    <6>1. i \in 1..Len(received[t])
                        BY <1>0, <3>3, <4>2, <5>2
                    <6> QED
                        BY <1>0, <2>1, <3>3, <6>1 DEF Delivered
                <5> QED
                    BY <5>1, <5>2
            <4> QED
                BY <3>1, <4>1, <4>2 DEF Delivered
        <3> QED
            BY <1>0, <2>1, <3>1, <3>2, <3>4, <3>5 DEF Queued
    <2>3. CASE t # s
        BY <1>1, <1>10, <2>1, <2>3 DEF WriteCompletes, TypeOK, roomVars
    <2> QED
        BY <2>2, <2>3
<1>11. ASSUME NEW s \in Session, WriteFails(s) PROVE Goal
    BY <1>1, <1>11 DEF WriteFails, Joined, TypeOK, historyVars, roomVars
<1>12. CASE Signal
    BY <1>1, <1>12 DEF Signal, Joined, historyVars, roomVars, sessionVars
<1>13. CASE UNCHANGED vars
    BY <1>1, <1>13 DEF vars, Joined, historyVars, roomVars, sessionVars
<1> QED
    BY <1>2, <1>3, <1>4, <1>5, <1>6, <1>7, <1>8, <1>9, <1>10, <1>11, <1>12, <1>13
       DEF Next, Reader, Writer, Kernel

-----------------------------------------------------------------------------
(* Every line is posted once, in the order its client typed them.           *)

\* What LinesPostedOnceInOrder says of a history and of the number of lines
\* each client has had posted.
OnceInOrder(lg, posted) ==
    /\ \A i, j \in 1..Len(lg) : i < j /\ lg[i].by = lg[j].by => lg[i].no < lg[j].no
    /\ \A s \in Session : \A n \in 1..MaxLines :
            (\E i \in 1..Len(lg) : lg[i] = [by |-> s, no |-> n]) <=> n <= posted[s]

\* How many of its lines each client has had posted.
Posted == [s \in Session |-> typed[s] - unread[s]]

LEMMA LinesAreOnceInOrder == LinesPostedOnceInOrder <=> OnceInOrder(log, Posted)
BY DEF LinesPostedOnceInOrder, OnceInOrder, Posted

\* One more line, the next one of its client, at the end of the history.
LEMMA OneMoreLine ==
    ASSUME NEW lg \in Seq(Line), NEW posted \in [Session -> Nat], OnceInOrder(lg, posted),
           NEW s \in Session, NEW k \in 1..MaxLines, k = posted[s] + 1
    PROVE  OnceInOrder(Append(lg, [by |-> s, no |-> k]), [posted EXCEPT ![s] = k])
<1>1. PICK msg \in Line, l \in Nat :
        msg = [by |-> s, no |-> k] /\ msg.by = s /\ msg.no = k /\ l = Len(lg)
    <2>1. [by |-> s, no |-> k] \in Line
        BY DEF Line
    <2>2. [by |-> s, no |-> k].by = s /\ [by |-> s, no |-> k].no = k
        OBVIOUS
    <2>3. Len(lg) \in Nat
        BY LenProperties
    <2> QED
        BY <2>1, <2>2, <2>3, Zenon
<1>2. PICK new \in Seq(Line) :
        /\ new = Append(lg, msg) /\ Len(new) = l + 1
        /\ \A i \in 1..l : new[i] = lg[i]
        /\ new[l + 1] = msg
    <2>1. /\ Append(lg, msg) \in Seq(Line) /\ Len(Append(lg, msg)) = Len(lg) + 1
          /\ \A i \in 1..Len(lg) : Append(lg, msg)[i] = lg[i]
          /\ Append(lg, msg)[Len(lg) + 1] = msg
        BY AppendProperties
    <2> QED
        BY <1>1, <2>1, Zenon
<1>3. PICK now : now = [posted EXCEPT ![s] = k]
    OBVIOUS
<1>4. now[s] = k /\ \A r \in Session : r # s => now[r] = posted[r]
    BY <1>3
<1>5. ASSUME NEW i \in 1..l
      PROVE  /\ lg[i].by \in Session /\ lg[i].no \in 1..MaxLines
             /\ lg[i] = [by |-> lg[i].by, no |-> lg[i].no]
    <2>1. lg[i] \in Line
        BY <1>1
    <2> QED
        BY <2>1 DEF Line
<1>6. ASSUME NEW i \in 1..l, lg[i].by = s PROVE lg[i].no <= posted[s]
    <2>1. lg[i] = [by |-> s, no |-> lg[i].no] /\ lg[i].no \in 1..MaxLines
        BY <1>5, <1>6
    <2> QED
        BY <1>1, <2>1, Zenon DEF OnceInOrder
<1>7. ASSUME NEW i \in 1..Len(new), NEW j \in 1..Len(new), i < j, new[i].by = new[j].by
      PROVE  new[i].no < new[j].no
    <2>1. i \in 1..l /\ new[i] = lg[i]
        BY <1>2, <1>7
    <2>2. CASE j \in 1..l
        <3>1. new[j] = lg[j]
            BY <1>2, <2>2
        <3>2. lg[i].by = lg[j].by
            BY <1>7, <2>1, <3>1, Zenon
        <3>3. lg[i].no < lg[j].no
            BY <1>1, <1>7, <2>1, <2>2, <3>2, Zenon DEF OnceInOrder
        <3> QED
            BY <2>1, <3>1, <3>3, Zenon
    <2>3. CASE j \notin 1..l
        <3>1. j = l + 1
            BY <1>2, <2>3
        <3>2. new[j] = msg
            BY <1>2, <3>1
        <3>3. lg[i].by = s
            BY <1>1, <1>7, <2>1, <3>2, Zenon
        <3>4. lg[i].no <= posted[s] /\ lg[i].no \in 1..MaxLines
            BY <1>5, <1>6, <2>1, <3>3
        <3>5. lg[i].no < k
            BY <3>4
        <3> QED
            BY <1>1, <2>1, <3>2, <3>5, Zenon
    <2> QED
        BY <2>2, <2>3
<1>8. ASSUME NEW r \in Session, NEW n \in 1..MaxLines
      PROVE  (\E i \in 1..Len(new) : new[i] = [by |-> r, no |-> n]) <=> n <= now[r]
    <2>1. (\E i \in 1..Len(lg) : lg[i] = [by |-> r, no |-> n]) <=> n <= posted[r]
        BY DEF OnceInOrder
    <2>2. ASSUME NEW i \in 1..Len(new), new[i] = [by |-> r, no |-> n] PROVE n <= now[r]
        <3>1. CASE i \in 1..l
            <4>1. n <= posted[r]
                BY <1>1, <1>2, <2>1, <2>2, <3>1, Zenon
            <4>2. now[r] = posted[r] \/ (r = s /\ now[r] = posted[r] + 1)
                BY <1>4
            <4> QED
                BY <4>1, <4>2
        <3>2. CASE i \notin 1..l
            <4>1. i = l + 1
                BY <1>2, <3>2
            <4>2. [by |-> s, no |-> k] = [by |-> r, no |-> n]
                BY <1>1, <1>2, <2>2, <4>1, Zenon
            <4>3. k = n /\ r = s
                BY <4>2
            <4> QED
                BY <1>4, <4>3
        <3> QED
            BY <3>1, <3>2
    <2>3. ASSUME n <= now[r] PROVE \E i \in 1..Len(new) : new[i] = [by |-> r, no |-> n]
        <3>1. CASE n <= posted[r]
            <4>1. PICK i \in 1..l : lg[i] = [by |-> r, no |-> n]
                BY <1>1, <2>1, <3>1, Zenon
            <4>2. i \in 1..Len(new) /\ new[i] = lg[i]
                BY <1>2
            <4> QED
                BY <4>1, <4>2, Zenon
        <3>2. CASE ~(n <= posted[r])
            <4>1. r = s
                BY <1>4, <2>3, <3>2
            <4>2. n = k
                BY <1>4, <2>3, <3>2, <4>1
            <4>3. l + 1 \in 1..Len(new)
                BY <1>2
            <4> QED
                BY <1>1, <1>2, <4>1, <4>2, <4>3, Zenon
        <3> QED
            BY <3>1, <3>2
    <2> QED
        BY <2>2, <2>3
<1>9. OnceInOrder(new, now)
    BY <1>7, <1>8, Zenon DEF OnceInOrder
<1> QED
    BY <1>1, <1>2, <1>3, <1>9, Zenon

\* Only reader() posts a line, and the kernel brings those that it holds.
LEMMA LinesStep ==
    IInv /\ LinesPostedOnceInOrder /\ [Next]_vars => LinesPostedOnceInOrder'
<1> SUFFICES ASSUME IInv, OnceInOrder(log, Posted), [Next]_vars PROVE OnceInOrder(log', Posted')
    BY LinesAreOnceInOrder DEF LinesPostedOnceInOrder, OnceInOrder, Posted
<1>1. TypeOK /\ ControlInv
    BY DEF IInv
<1>2. ASSUME UNCHANGED <<log, typed, unread>> PROVE OnceInOrder(log', Posted')
    BY <1>2 DEF Posted
<1>3. ASSUME NEW s \in Session, ReaderLine(s) PROVE OnceInOrder(log', Posted')
    <2>1. /\ typed[s] \in 0..MaxLines /\ unread[s] \in 0..MaxLines
          /\ unread[s] > 0 /\ unread[s] <= typed[s]
        BY <1>1, <1>3 DEF TypeOK, ControlInv, Control, ReaderLine
    <2>2. PICK k \in 1..MaxLines : k = typed[s] - unread[s] + 1
        <3>1. typed[s] - unread[s] + 1 \in 1..MaxLines
            BY <2>1, ChatAssumption
        <3> QED
            BY <3>1
    <2>3. Posted \in [Session -> Nat]
        <3>1. ASSUME NEW r \in Session PROVE typed[r] - unread[r] \in Nat
            <4>1. typed[r] \in 0..MaxLines /\ unread[r] \in 0..MaxLines /\ unread[r] <= typed[r]
                BY <1>1 DEF TypeOK, ControlInv, Control
            <4> QED
                BY <4>1, ChatAssumption
        <3> QED
            BY <3>1 DEF Posted
    <2>4. k = Posted[s] + 1
        BY <2>2 DEF Posted
    <2>5. log' = Append(log, [by |-> s, no |-> k])
        BY <1>3, <2>2 DEF ReaderLine
    <2>6. Posted' = [Posted EXCEPT ![s] = k]
        <3>1. typed' = typed /\ unread' = [unread EXCEPT ![s] = unread[s] - 1]
            BY <1>3 DEF ReaderLine, Erased
        <3>2. unread \in [Session -> 0..MaxLines]
            BY <1>1 DEF TypeOK
        <3>3. ASSUME NEW r \in Session
              PROVE  typed'[r] - unread'[r] = IF r = s THEN k ELSE typed[r] - unread[r]
            BY <2>1, <2>2, <3>1, <3>2
        <3>4. Posted' = [r \in Session |-> IF r = s THEN k ELSE typed[r] - unread[r]]
            BY <3>3, Zenon DEF Posted
        <3> QED
            BY <3>4 DEF Posted
    <2>7. log \in Seq(Line)
        BY <1>1 DEF TypeOK
    <2> QED
        BY <2>3, <2>4, <2>5, <2>6, <2>7, OneMoreLine
<1>4. ASSUME NEW s \in Session, NEW n \in 1..MaxLines, ReadLines(s, n)
      PROVE  OnceInOrder(log', Posted')
    <2>1. /\ log' = log /\ typed' = [typed EXCEPT ![s] = typed[s] + n]
          /\ unread' = [unread EXCEPT ![s] = unread[s] + n]
        BY <1>4 DEF ReadLines, historyVars
    <2>2. typed \in [Session -> 0..MaxLines] /\ unread \in [Session -> 0..MaxLines]
        BY <1>1 DEF TypeOK
    <2>3. ASSUME NEW r \in Session PROVE typed'[r] - unread'[r] = typed[r] - unread[r]
        <3>1. typed[r] \in Int /\ unread[r] \in Int
            BY <2>2
        <3> QED
            BY <2>1, <2>2, <3>1
    <2>4. Posted' = Posted
        BY <2>3, Zenon DEF Posted
    <2> QED
        BY <2>1, <2>4
<1>5. CASE \E s \in Session : Accept(s) \/ ReaderError(s) \/ Writer(s)
    BY <1>2, <1>5 DEF Accept, ReaderError, Writer, WriterWoken, WriterSent, WriterFailed, historyVars
<1>6. CASE \E s \in Session : ReadFails(s) \/ WriteCompletes(s) \/ WriteFails(s)
    BY <1>2, <1>6 DEF ReadFails, WriteCompletes, WriteFails, historyVars
<1>7. CASE Signal \/ UNCHANGED vars
    BY <1>2, <1>7 DEF Signal, vars, sessionVars, historyVars
<1> QED
    BY <1>3, <1>4, <1>5, <1>6, <1>7 DEF Next, Reader, Kernel

-----------------------------------------------------------------------------
(* The theorems.                                                            *)

\* The inductive invariant holds in every reachable state.
THEOREM Inductive == Spec => []IInv
<1>1. IInv /\ [Next]_vars => IInv'
    BY TypeStep, ControlStep, RecentStep, DeliveryStep DEF IInv
<1> QED
    BY <1>1, InitIInv, PTL DEF Spec

\* The variables keep their types.
THEOREM TypeCorrect == Spec => []TypeOK
<1>1. IInv => TypeOK
    BY DEF IInv
<1> QED
    BY <1>1, Inductive, PTL

\* writer() never sleeps on its timer while a line or a close waits for it.
THEOREM WakeupsAreNotLost == Spec => []NoLostWakeup
<1>1. IInv => NoLostWakeup
    BY DEF IInv, ControlInv, Control, NoLostWakeup
<1> QED
    BY <1>1, Inductive, PTL

\* A session is in the room exactly while its socket is open, and its socket
\* is closed once one of its coroutines has returned.
THEOREM SessionsAreWhole == Spec => []NoHalfSession
<1>1. IInv => NoHalfSession
    BY DEF IInv, ControlInv, Control, NoHalfSession
<1> QED
    BY <1>1, Inductive, PTL

\* The history holds the lines a client typed, each once and in its order, up
\* to those that reader() still holds.
THEOREM LinesArePostedOnce == Spec => []LinesPostedOnceInOrder
<1>1. Init => LinesPostedOnceInOrder
    <2> SUFFICES ASSUME Init PROVE LinesPostedOnceInOrder
        OBVIOUS
    <2>1. Len(log) = 0 /\ \A s \in Session : typed[s] = 0 /\ unread[s] = 0
        BY EmptySeq DEF Init
    <2>2. \A i \in 1..Len(log) : FALSE
        BY <2>1
    <2>3. \A s \in Session : \A n \in 1..MaxLines : ~(n <= typed[s] - unread[s])
        BY <2>1
    <2> QED
        BY <2>2, <2>3, Zenon DEF LinesPostedOnceInOrder
<1> QED
    BY <1>1, Inductive, LinesStep, PTL DEF Spec

\* What a participant got and what is still queued for it are one stretch of
\* the history, up to its end.
THEOREM DeliveryIsInOrder == Spec => []InOrderDelivery
<1>1. ASSUME IInv, NEW s \in participants
      PROVE  received[s] \o Pending(s) = SubSeq(log, first[s] + 1, Len(log))
    <2> USE DEF IInv
    <2> DEFINE got == received[s]
               owed == Pending(s)
               stretch == SubSeq(log, first[s] + 1, Len(log))
    <2>0. TypeOK /\ ControlInv /\ DeliveryInv /\ s \in participants
        BY <1>1
    <2>1. s \in Session /\ Joined(s) /\ first[s] \in Nat
        BY <2>0 DEF TypeOK, ControlInv, Control, Joined
    <2>2. Delivered(s) /\ Queued(s)
        BY <2>0, <2>1 DEF DeliveryInv
    <2>3. /\ got \in Seq(Line) /\ Len(got) \in Nat
          /\ Len(log) \in Nat /\ log \in Seq(Line) /\ Len(queue[s]) \in Nat
        BY <2>0, <2>1, LenProperties DEF TypeOK
    <2>4. /\ owed \in Seq(Line) /\ Len(owed) \in Nat
          /\ Len(owed) = Len(log) - (first[s] + Len(got))
          /\ \A i \in 1..Len(owed) : owed[i] = log[first[s] + Len(got) + i]
        <3>1. CASE writer[s] = "sent"
            <4>1. /\ owed \in Seq(Line) /\ Len(owed) = Len(queue[s]) - 1
                  /\ \A i \in 1..Len(owed) : owed[i] = queue[s][i + 1]
                BY <2>0, <2>1, <3>1, HeadTailProperties DEF TypeOK, ControlInv, Control, Pending
            <4>2. Base(s) = first[s] + Len(got) - 1
                BY <3>1 DEF Base
            <4>3. Len(owed) = Len(log) - (first[s] + Len(got))
                <5>1. Base(s) + Len(queue[s]) = Len(log)
                    BY <2>2 DEF Queued
                <5>2. (first[s] + Len(got) - 1) + Len(queue[s]) = Len(log)
                    BY <4>2, <5>1
                <5>3. Len(owed) = Len(queue[s]) - 1
                    BY <4>1
                <5>4. /\ first[s] \in Nat /\ Len(got) \in Nat
                      /\ Len(log) \in Nat /\ Len(queue[s]) \in Nat
                    BY <2>1, <2>3
                <5> HIDE DEF got, owed
                <5> QED
                    BY <5>2, <5>3, <5>4
            <4>4. ASSUME NEW i \in 1..Len(owed) PROVE owed[i] = log[first[s] + Len(got) + i]
                <5>1. i + 1 \in 1..Len(queue[s])
                    BY <2>3, <4>1, <4>4
                <5>2. Base(s) + (i + 1) = first[s] + Len(got) + i
                    <6>1. i \in Int
                        BY <4>4
                    <6>2. first[s] \in Int /\ Len(received[s]) \in Int
                        BY <2>1, <2>3
                    <6>3. Base(s) = first[s] + Len(received[s]) - 1
                        BY <4>2
                    <6> QED
                        BY <6>1, <6>2, <6>3
                <5> QED
                    BY <2>2, <4>1, <5>1, <5>2 DEF Queued
            <4> QED
                BY <4>1, <4>3, <4>4, LenProperties
        <3>2. CASE writer[s] # "sent"
            <4>1. owed = queue[s] /\ Base(s) = first[s] + Len(got)
                BY <3>2 DEF Pending, Base
            <4> QED
                BY <2>0, <2>1, <2>2, <2>3, <4>1 DEF Queued, TypeOK
        <3> QED
            BY <3>1, <3>2
    <2>5. /\ got \o owed \in Seq(Line)
          /\ Len(got \o owed) = Len(log) - first[s]
          /\ \A i \in 1..Len(log) - first[s] :
                (got \o owed)[i] = IF i <= Len(got) THEN got[i] ELSE owed[i - Len(got)]
        <3> HIDE DEF got, owed
        <3>1. Len(got) + Len(owed) = Len(log) - first[s]
            BY <2>1, <2>3, <2>4
        <3> QED
            <4>1. /\ got \o owed \in Seq(Line)
                  /\ Len(got \o owed) = Len(got) + Len(owed)
                  /\ \A i \in 1..Len(got) + Len(owed) :
                        (got \o owed)[i] = IF i <= Len(got) THEN got[i] ELSE owed[i - Len(got)]
                BY <2>3, <2>4, ConcatProperties
            <4> QED
                BY <3>1, <4>1
    <2>6. /\ stretch \in Seq(Line)
          /\ Len(stretch) = Len(log) - first[s]
          /\ \A i \in 1..Len(log) - first[s] : stretch[i] = log[first[s] + i]
        <3>1. first[s] <= Len(log)
            BY <2>1, <2>2, <2>3 DEF Delivered
        <3>2. \A i \in first[s] + 1..Len(log) : log[i] \in Line
            BY <2>1, <2>3, ElementOfSeq
        <3>3. /\ SubSeq(log, first[s] + 1, Len(log)) \in Seq(Line)
              /\ Len(SubSeq(log, first[s] + 1, Len(log))) =
                    IF first[s] + 1 <= Len(log) THEN Len(log) - (first[s] + 1) + 1 ELSE 0
              /\ \A i \in 1..Len(log) - (first[s] + 1) + 1 :
                    SubSeq(log, first[s] + 1, Len(log))[i] = log[first[s] + 1 + i - 1]
            <4>1. first[s] + 1 \in Int /\ Len(log) \in Int
                BY <2>1, <2>3
            <4> QED
                BY <3>2, <4>1, SubSeqProperties
        <3>4. Len(log) - (first[s] + 1) + 1 = Len(log) - first[s]
            BY <2>1, <2>3
        <3>5. \A i \in Int : first[s] + 1 + i - 1 = first[s] + i
            BY <2>1
        <3> QED
            <4>1. Len(stretch) = Len(log) - first[s]
                BY <2>1, <2>3, <3>1, <3>3
            <4>2. ASSUME NEW i \in 1..Len(log) - first[s] PROVE stretch[i] = log[first[s] + i]
                <5>1. stretch[i] = log[first[s] + 1 + i - 1]
                    BY <3>3, <3>4, <4>2
                <5>2. i \in Int
                    BY <4>2
                <5>3. first[s] + 1 + i - 1 = first[s] + i
                    BY <3>5, <5>2
                <5> QED
                    BY <5>1, <5>3
            <4> QED
                BY <3>3, <4>1, <4>2
    <2>7. \A i \in 1..Len(log) - first[s] : (got \o owed)[i] = stretch[i]
        <3> SUFFICES ASSUME NEW i \in 1..Len(log) - first[s]
                     PROVE  (got \o owed)[i] = stretch[i]
            OBVIOUS
        <3> HIDE DEF got, owed, stretch
        <3>1. CASE i <= Len(got)
            <4>1. got[i] = log[first[s] + i]
                BY <2>1, <2>2, <2>3, <3>1 DEF Delivered, got
            <4> QED
                BY <2>5, <2>6, <3>1, <4>1
        <3>2. CASE ~(i <= Len(got))
            <4>1. i - Len(got) \in 1..Len(owed)
                BY <2>1, <2>3, <2>4, <3>2
            <4>2. first[s] + Len(got) + (i - Len(got)) = first[s] + i
                BY <2>1, <2>3
            <4> QED
                BY <2>4, <2>5, <2>6, <3>2, <4>1, <4>2
        <3> QED
            BY <3>1, <3>2
    <2> HIDE DEF got, owed, stretch
    <2>8. got \o owed = stretch
        BY <2>5, <2>6, <2>7, SeqEqual
    <2> QED
        BY <2>8 DEF got, owed, stretch
<1>2. IInv => InOrderDelivery
    BY <1>1 DEF InOrderDelivery
<1> QED
    BY <1>2, Inductive, PTL

\* The detailed server implements what ChatSpec promises: each step of a
\* coroutine or of the kernel is a step of the abstract room, or hidden by it.
THEOREM ServerImplementsRoom == Spec => Abstract!Safety
<1>1. Init => Abstract!Init
    BY DEF Init, Abstract!Init, NotJoined, Abstract!NotJoined
<1>2. IInv /\ [Next]_vars => [Abstract!Next]_(Abstract!vars)
    <2> SUFFICES ASSUME IInv, [Next]_vars PROVE [Abstract!Next]_(Abstract!vars)
        OBVIOUS
    <2> USE DEF IInv
    <2>0. UNCHANGED <<running, log, participants, first, received>>
            => [Abstract!Next]_(Abstract!vars)
        BY DEF Abstract!vars
    <2>1. ASSUME NEW s \in Session, Accept(s) PROVE Abstract!Join(s)
        <3>1. first[s] = Abstract!NotJoined
            BY <2>1 DEF Accept, ControlInv, Control, Joined, NotJoined, Abstract!NotJoined
        <3>2. Len(log) - Len(recent) = IF Len(log) > MaxRecent THEN Len(log) - MaxRecent ELSE 0
            BY LenProperties, ChatAssumption DEF TypeOK, RecentInv
        <3> QED
            BY <2>1, <3>1, <3>2 DEF Accept, Abstract!Join
    <2>2. ASSUME NEW s \in Session, ReaderLine(s) PROVE \E m \in Line : Abstract!Post(m)
        <3>1. [by |-> s, no |-> typed[s] - unread[s] + 1] \in Line
            BY <2>2, NextLine DEF ReaderLine
        <3> QED
            BY <2>2, <3>1 DEF ReaderLine, Abstract!Post
    <2>3. ASSUME NEW s \in Session,
                 participants' = participants \ {s}, running,
                 UNCHANGED <<running, log, first, received>>
          PROVE  [Abstract!Next]_(Abstract!vars)
        <3>1. CASE s \in participants
            BY <2>3, <3>1 DEF Abstract!Leave, Abstract!Next
        <3>2. CASE s \notin participants
            BY <2>0, <2>3, <3>2
        <3> QED
            BY <3>1, <3>2
    <2>4. ASSUME NEW s \in Session, WriteCompletes(s) PROVE Abstract!Receive(s)
        <3>1. /\ s \in participants
              /\ first[s] + Len(received[s]) + 1 \in 1..Len(log)
              /\ Head(queue[s]) = log[first[s] + Len(received[s]) + 1]
            BY <2>4, WrittenLine DEF WriteCompletes
        <3> QED
            BY <2>4, <3>1 DEF WriteCompletes, Abstract!Receive, roomVars
    <2>5. ASSUME NEW s \in Session, ReaderError(s) PROVE [Abstract!Next]_(Abstract!vars)
        BY <2>3, <2>5 DEF ReaderError, StopByReader, historyVars
    <2>6. ASSUME NEW s \in Session, WriterFailed(s) PROVE [Abstract!Next]_(Abstract!vars)
        BY <2>3, <2>6 DEF WriterFailed, StopByWriter, historyVars
    <2>7. ASSUME NEW s \in Session,
                 \/ WriterWoken(s) \/ WriterSent(s)
                 \/ ReadFails(s) \/ WriteFails(s) \/ \E n \in 1..MaxLines : ReadLines(s, n)
          PROVE  [Abstract!Next]_(Abstract!vars)
        BY <2>0, <2>7 DEF WriterWoken, WriterSent, ReadFails, WriteFails, ReadLines,
                          historyVars, roomVars
    <2>8. CASE Signal
        BY <2>8 DEF Signal, historyVars, roomVars, Abstract!Shutdown, Abstract!Next
    <2>9. CASE UNCHANGED vars
        BY <2>0, <2>9 DEF vars, historyVars, roomVars
    <2> QED
        BY <2>1, <2>2, <2>4, <2>5, <2>6, <2>7, <2>8, <2>9
           DEF Next, Reader, Writer, Kernel, Abstract!Next
<1> QED
    BY <1>1, <1>2, Inductive, PTL DEF Spec, Abstract!Safety

=============================================================================
