-------------------------- MODULE ReplSessionsProofs --------------------------
(***************************************************************************)
(* The safety properties of ReplSessions for any number of connections,    *)
(* any commands and any number of keys: no handler finds its session       *)
(* destroyed, and the broadcast list follows the sessions.                 *)
(*                                                                         *)
(* The first one is not inductive.  A session is destroyed by the          *)
(* completion of its read, so the invariant says that this completion is   *)
(* the last handler of the session in the queue, which needs in turn that  *)
(* there is none while a read is outstanding.                              *)
(***************************************************************************)
EXTENDS ReplSessions, SequenceTheorems, TLAPS

\* What the queue may hold: completions belong to connections, key events to
\* connections or to the local terminal.
Handlers ==
    [kind : {"data", "end"}, src : Conn, cmds : Seq(Command)]
    \cup [kind : {"key"}, src : Conn \cup {"local"}, cmds : Seq(Command)]

TInv ==
    /\ ready \in Seq(Handlers)
    /\ session \in [Conn -> {"none", "alive", "dead"}]
    /\ socket \in [Conn -> {"none", "open", "closed"}]
    /\ peerReset \in [Conn -> BOOLEAN]
    /\ reading \in [Conn -> BOOLEAN]

Completion(h) == h.kind # "key"

\* What c has in the queue: nothing unless it is alive, and nothing behind the
\* completion of its read, while which no other read is outstanding.
Queued(c) ==
    /\ \A i \in 1..Len(ready) : ready[i].src = c => session[c] = "alive"
    /\ reading[c] => session[c] = "alive"
    /\ \A i \in 1..Len(ready) :
          ready[i].src = c /\ Completion(ready[i]) =>
              ~reading[c] /\ \A j \in i + 1..Len(ready) : ready[j].src # c

\* A session that is alive has a read outstanding, or its completion queued:
\* it is released by that, sooner or later, and by nothing else.
Held(c) ==
    session[c] = "alive" /\ ~reading[c] =>
        \E i \in 1..Len(ready) : ready[i].src = c /\ Completion(ready[i])

QueueInv == \A c \in Conn : Queued(c) /\ Held(c)

IInv == TInv /\ QueueInv /\ CoutListsLiveSessions

-----------------------------------------------------------------------------
(* The queue.  What a handler leaves in it is described by indices: the old *)
(* element i + 1 becomes element i, and what is added comes after.          *)

LEMMA QueueTail ==
    ASSUME NEW q \in Seq(Handlers), q # <<>>
    PROVE  /\ Head(q) = q[1] /\ Head(q) \in Handlers
           /\ Tail(q) \in Seq(Handlers) /\ Len(Tail(q)) = Len(q) - 1 /\ Len(q) \in Nat \ {0}
           /\ \A i \in 1..Len(Tail(q)) : Tail(q)[i] = q[i + 1]
<1>1. Head(q) = q[1] /\ Len(q) \in Nat \ {0}
  BY EmptySeq
<1> QED
  BY <1>1, HeadTailProperties

\* Queues are put together in any grouping.
LEMMA HandlersConcat ==
    \A u, v, w \in Seq(Handlers) : (u \o v) \o w = u \o (v \o w)
BY ConcatAssociative

LEMMA QueueConcat ==
    ASSUME NEW q \in Seq(Handlers), NEW r \in Seq(Handlers)
    PROVE  /\ q \o r \in Seq(Handlers)
           /\ Len(q \o r) = Len(q) + Len(r) /\ Len(q) \in Nat /\ Len(r) \in Nat
           /\ \A i \in 1..Len(q) : (q \o r)[i] = q[i]
           /\ \A i \in Len(q) + 1..Len(q) + Len(r) : (q \o r)[i] = r[i - Len(q)]
<1>1. Len(q) \in Nat /\ Len(r) \in Nat
  BY LenProperties
<1> QED
  BY <1>1, ConcatProperties

\* What closing a socket, or a reset, adds: at most one completion.
LEMMA AbortedType ==
    ASSUME NEW c \in Conn
    PROVE  /\ Aborted(c) \in Seq(Handlers)
           /\ reading[c] => Len(Aborted(c)) = 1 /\ Aborted(c)[1] = ReadEnd(c)
           /\ ~reading[c] => Aborted(c) = <<>>
<1>1. ReadEnd(c) \in Handlers
  <2>1. <<>> \in Seq(Command)
    BY EmptySeq
  <2> QED
    BY <2>1 DEF ReadEnd, Handlers
<1> QED
  BY <1>1, EmptySeq DEF Aborted

LEMMA Initially == Init => IInv
<1> SUFFICES ASSUME Init PROVE IInv
  OBVIOUS
<1>1. ready \in Seq(Handlers) /\ Len(ready) = 0
  BY EmptySeq DEF Init
<1> QED
  BY <1>1, ReplAssumption DEF Init, IInv, TInv, QueueInv, Queued, Held, CoutListsLiveSessions


-----------------------------------------------------------------------------
(* A step that takes handlers of x off the front of the queue, or none, and *)
(* adds handlers of x, does not disturb another connection.                 *)

LEMMA OthersKeep ==
    ASSUME IInv, NEW x \in Conn \cup {"local"}, NEW q \in Seq(Handlers), NEW r \in Seq(Handlers),
           q = ready \/ (ready # <<>> /\ q = Tail(ready) /\ Head(ready).src = x),
           ready' = q \o r, \A i \in 1..Len(r) : r[i].src = x,
           NEW d \in Conn, d # x, session'[d] = session[d], reading'[d] = reading[d]
    PROVE  Queued(d)' /\ Held(d)'
<1>1. PICK k \in {0, 1} :
        /\ Len(q) = Len(ready) - k /\ Len(ready) \in Nat /\ Len(q) \in Nat
        /\ \A i \in 1..Len(q) : q[i] = ready[i + k]
        /\ k = 1 => Len(ready) > 0 /\ ready[1].src = x
  <2>1. CASE q = ready
    <3>1. Len(ready) \in Nat
      BY LenProperties DEF IInv, TInv
    <3> QED
      BY <2>1, <3>1
  <2>2. CASE ready # <<>> /\ q = Tail(ready) /\ Head(ready).src = x
    <3>1. /\ Head(ready) = ready[1] /\ Len(q) = Len(ready) - 1 /\ Len(ready) \in Nat \ {0}
          /\ \A i \in 1..Len(q) : q[i] = ready[i + 1]
      BY <2>2, QueueTail DEF IInv, TInv
    <3>2. ready[1].src = x
      BY <2>2, <3>1, Zenon
    <3>3. Len(q) \in Nat /\ Len(ready) > 0
      BY <3>1, SMT
    <3> WITNESS 1 \in {0, 1}
    <3> QED
      BY <3>1, <3>2, <3>3
  <2> QED
    BY <2>1, <2>2
<1>2. /\ Len(ready') = Len(q) + Len(r) /\ Len(r) \in Nat
      /\ \A i \in 1..Len(q) : ready'[i] = q[i]
      /\ \A i \in Len(q) + 1..Len(q) + Len(r) : ready'[i] = r[i - Len(q)]
  BY QueueConcat
\* A handler of d in the new queue was in the old one, k places further on.
<1>3. ASSUME NEW i \in 1..Len(ready'), ready'[i].src = d
      PROVE  i \in 1..Len(q) /\ i + k \in 1..Len(ready) /\ ready'[i] = ready[i + k]
  <2>1. CASE i > Len(q)
    <3>1. i \in Len(q) + 1..Len(q) + Len(r) /\ i - Len(q) \in 1..Len(r)
      BY <1>1, <1>2, <2>1
    <3>2. ready'[i].src = x
      BY <1>2, <3>1
    <3> QED
      BY <1>3, <3>2
  <2>2. CASE i <= Len(q)
    <3>1. i \in 1..Len(q) /\ i + k \in 1..Len(ready)
      BY <1>1, <1>2, <2>2
    <3> QED
      BY <1>1, <1>2, <3>1
  <2> QED
    BY <1>1, <1>2, <2>1, <2>2
<1>4. Queued(d) /\ Held(d)
  BY DEF IInv, QueueInv
<1>5. Queued(d)'
  <2>1. ASSUME NEW i \in 1..Len(ready'), ready'[i].src = d PROVE session'[d] = "alive"
    BY <1>3, <1>4, <2>1 DEF Queued
  <2>2. reading'[d] => session'[d] = "alive"
    BY <1>4 DEF Queued
  <2>3. ASSUME NEW i \in 1..Len(ready'), ready'[i].src = d, Completion(ready'[i]),
               NEW j \in i + 1..Len(ready')
        PROVE  ~reading'[d] /\ ready'[j].src # d
    <3>1. i + k \in 1..Len(ready) /\ ready'[i] = ready[i + k]
      BY <1>3, <2>3
    <3>2. SUFFICES ASSUME ready'[j].src = d PROVE FALSE
      BY <1>4, <2>3, <3>1 DEF Queued
    <3>3. j + k \in 1..Len(ready) /\ ready'[j] = ready[j + k]
      BY <1>1, <1>2, <1>3, <2>3, <3>2, SMTT(20)
    <3>4. j + k \in (i + k) + 1..Len(ready)
      BY <1>1, <1>2, <2>3, <3>3
    <3> QED
      BY <1>4, <2>3, <3>1, <3>2, <3>3, <3>4 DEF Queued
  <2>4. ASSUME NEW i \in 1..Len(ready'), ready'[i].src = d, Completion(ready'[i])
        PROVE  ~reading'[d]
    BY <1>3, <1>4, <2>4 DEF Queued
  <2> QED
    BY <2>1, <2>2, <2>3, <2>4 DEF Queued, Completion
<1>6. Held(d)'
  <2>1. SUFFICES ASSUME session'[d] = "alive", ~reading'[d]
                 PROVE  \E i \in 1..Len(ready') : ready'[i].src = d /\ Completion(ready'[i])
    BY DEF Held, Completion
  <2>2. PICK i \in 1..Len(ready) : ready[i].src = d /\ Completion(ready[i])
    BY <1>4, <2>1 DEF Held
  <2>3. i - k \in 1..Len(q) /\ ready'[i - k] = ready[i]
    BY <1>1, <1>2, <2>2
  <2>4. i - k \in 1..Len(ready')
    BY <1>2, <1>1, <2>3
  <2> QED
    BY <2>2, <2>3, <2>4
<1> QED
  BY <1>5, <1>6
-----------------------------------------------------------------------------
(* The five ways in which the queue changes.                                *)

\* It does not, and no read begins or ends.
LEMMA QueueStays ==
    IInv /\ UNCHANGED <<ready, session, reading>> => QueueInv'
BY DEF IInv, QueueInv, Queued, Held, Completion

\* The outstanding read of c completes, in whatever way.
LEMMA ReadCompletes ==
    ASSUME IInv, NEW c \in Conn, reading[c], NEW h \in Handlers, h.src = c, Completion(h),
           ready' = ready \o <<h>>, reading' = [reading EXCEPT ![c] = FALSE], session' = session
    PROVE  QueueInv'
<1>1. <<h>> \in Seq(Handlers) /\ Len(<<h>>) = 1 /\ <<h>>[1] = h
  OBVIOUS
<1>2. ASSUME NEW d \in Conn, d # c PROVE Queued(d)' /\ Held(d)'
  <2>1. reading'[d] = reading[d] /\ session'[d] = session[d]
    BY <1>2 DEF IInv, TInv
  <2>2. ready \in Seq(Handlers) /\ \A i \in 1..Len(<<h>>) : <<h>>[i].src = c
    BY <1>1 DEF IInv, TInv
  <2> QED
    BY <1>1, <1>2, <2>1, <2>2, OthersKeep
<1>3. /\ Len(ready') = Len(ready) + 1 /\ Len(ready) \in Nat
      /\ \A i \in 1..Len(ready) : ready'[i] = ready[i]
      /\ ready'[Len(ready) + 1] = h
  BY <1>1, QueueConcat DEF IInv, TInv
<1>4. Queued(c) /\ session'[c] = "alive" /\ ~reading'[c]
  BY DEF IInv, QueueInv, Queued, TInv
<1>5. \A i \in 1..Len(ready) : ready[i].src = c => ~Completion(ready[i])
  BY <1>4 DEF Queued
<1>6. Queued(c)'
  BY <1>3, <1>4, <1>5 DEF Queued, Completion
<1>7. Held(c)'
  <2>1. Len(ready) + 1 \in 1..Len(ready')
    BY <1>3
  <2> QED
    BY <1>3, <2>1 DEF Held, Completion
<1> QED
  BY <1>2, <1>6, <1>7 DEF QueueInv

\* A reset or the closing of the socket of c, with handlers taken off before.
LEMMA SocketEnds ==
    ASSUME IInv, NEW c \in Conn, NEW q \in Seq(Handlers),
           \/ q = ready
           \/ ready # <<>> /\ q = Tail(ready) /\ Head(ready).src = c /\ ~Completion(Head(ready)),
           session[c] = "alive",
           ready' = q \o Aborted(c), reading' = [reading EXCEPT ![c] = FALSE], session' = session
    PROVE  QueueInv'
<1>1. Aborted(c) \in Seq(Handlers) /\ \A i \in 1..Len(Aborted(c)) : Aborted(c)[i].src = c
  <2>1. CASE reading[c]
    <3>1. ReadEnd(c).src = c
      BY DEF ReadEnd
    <3>2. Len(Aborted(c)) = 1 /\ Aborted(c)[1].src = c /\ Aborted(c) \in Seq(Handlers)
      BY <2>1, <3>1, AbortedType
    <3> QED
      BY <3>2
  <2>2. CASE ~reading[c]
    BY <2>2, AbortedType, EmptySeq
  <2> QED
    BY <2>1, <2>2
<1>2. ASSUME NEW d \in Conn, d # c PROVE Queued(d)' /\ Held(d)'
  <2>1. reading'[d] = reading[d] /\ session'[d] = session[d]
    BY <1>2 DEF IInv, TInv
  <2> QED
    BY <1>1, <1>2, <2>1, OthersKeep
<1>3. PICK k \in {0, 1} :
        /\ Len(q) = Len(ready) - k /\ Len(ready) \in Nat /\ Len(q) \in Nat
        /\ \A i \in 1..Len(q) : q[i] = ready[i + k]
        /\ k = 1 => Len(ready) > 0 /\ ~Completion(ready[1])
  <2>1. CASE q = ready
    <3>1. Len(ready) \in Nat
      BY LenProperties DEF IInv, TInv
    <3> QED
      BY <2>1, <3>1
  <2>2. CASE ready # <<>> /\ q = Tail(ready) /\ ~Completion(Head(ready))
    <3>1. /\ Head(ready) = ready[1] /\ Len(q) = Len(ready) - 1 /\ Len(ready) \in Nat \ {0}
          /\ \A i \in 1..Len(q) : q[i] = ready[i + 1]
      BY <2>2, QueueTail DEF IInv, TInv
    <3>2. ~Completion(ready[1])
      BY <2>2, <3>1, Zenon
    <3>3. Len(q) \in Nat /\ Len(ready) > 0
      BY <3>1, SMT
    <3> WITNESS 1 \in {0, 1}
    <3> QED
      BY <3>1, <3>2, <3>3
  <2> QED
    BY <2>1, <2>2
<1>4. Queued(c) /\ Held(c) /\ session'[c] = "alive" /\ ~reading'[c]
  BY DEF IInv, QueueInv, TInv
<1>5. CASE reading[c]
  <2>1. Len(Aborted(c)) = 1 /\ Aborted(c)[1] = ReadEnd(c)
    BY <1>5, AbortedType
  <2>2. /\ Len(ready') = Len(q) + 1
        /\ \A i \in 1..Len(q) : ready'[i] = ready[i + k] /\ i + k \in 1..Len(ready)
        /\ ready'[Len(q) + 1] = ReadEnd(c)
    <3>1. /\ Len(ready') = Len(q) + Len(Aborted(c))
          /\ \A i \in 1..Len(q) : ready'[i] = q[i]
          /\ \A i \in Len(q) + 1..Len(q) + Len(Aborted(c)) : ready'[i] = Aborted(c)[i - Len(q)]
      BY <1>1, QueueConcat
    <3>2. ready'[Len(q) + 1] = Aborted(c)[1]
      BY <1>3, <2>1, <3>1
    <3> QED
      BY <1>3, <2>1, <3>1, <3>2
  <2>3. \A i \in 1..Len(ready) : ready[i].src = c => ~Completion(ready[i])
    BY <1>4, <1>5 DEF Queued
  <2>4. Queued(c)'
    <3>1. \A i \in 1..Len(ready') :
            ready'[i].src = c /\ Completion(ready'[i]) => i = Len(ready')
      <4> SUFFICES ASSUME NEW i \in 1..Len(ready'), ready'[i].src = c, Completion(ready'[i]),
                          i # Len(ready')
                   PROVE  FALSE
        OBVIOUS
      <4>1. i \in 1..Len(q)
        BY <1>3, <2>2
      <4>2. i + k \in 1..Len(ready) /\ ready'[i] = ready[i + k]
        BY <2>2, <4>1
      <4> QED
        BY <2>3, <4>2
    <3>2. \A i \in 1..Len(ready') : \A j \in i + 1..Len(ready') : i # Len(ready')
      BY <1>3, <2>2
    <3> QED
      BY <1>4, <3>1, <3>2 DEF Queued, Completion
  <2>5. Held(c)'
    <3>1. Len(q) + 1 \in 1..Len(ready')
      BY <1>3, <2>2
    <3> QED
      BY <2>2, <3>1 DEF Held, Completion, ReadEnd
  <2> QED
    BY <1>2, <2>4, <2>5 DEF QueueInv
<1>6. CASE ~reading[c]
  <2>1. Len(Aborted(c)) = 0
    BY <1>6, AbortedType, EmptySeq
  <2>2. /\ Len(ready') = Len(q)
        /\ \A i \in 1..Len(q) : ready'[i] = ready[i + k] /\ i + k \in 1..Len(ready)
    BY <1>1, <1>3, <2>1, QueueConcat
  <2>3. Queued(c)'
    <3>1. ASSUME NEW i \in 1..Len(ready'), ready'[i].src = c, Completion(ready'[i]),
                 NEW j \in i + 1..Len(ready')
          PROVE  ready'[j].src # c
      <4>1. i + k \in 1..Len(ready) /\ j + k \in (i + k) + 1..Len(ready)
            /\ ready'[i] = ready[i + k] /\ ready'[j] = ready[j + k]
        <5>1. i \in Nat /\ j \in Nat /\ i + 1 <= j /\ j <= Len(ready')
          BY <1>3, <2>2, <3>1
        <5>2. i \in 1..Len(q) /\ j \in 1..Len(q)
          BY <1>3, <2>2, <5>1
        <5>3. /\ i + k \in 1..Len(ready) /\ j + k \in 1..Len(ready)
              /\ ready'[i] = ready[i + k] /\ ready'[j] = ready[j + k]
          BY <2>2, <5>2
        <5>4. j + k \in (i + k) + 1..Len(ready)
          BY <5>1, <5>3, SMTT(20)
        <5> QED
          BY <5>3, <5>4
      <4> QED
        BY <1>4, <3>1, <4>1 DEF Queued
    <3> QED
      BY <1>4, <3>1 DEF Queued, Completion
  <2>4. Held(c)'
    <3>1. PICK i \in 1..Len(ready) : ready[i].src = c /\ Completion(ready[i])
      BY <1>4, <1>6 DEF Held
    <3>2. i - k \in 1..Len(ready') /\ ready'[i - k] = ready[i]
      BY <1>3, <2>2, <3>1
    <3> QED
      BY <3>1, <3>2 DEF Held, Completion
  <2> QED
    BY <1>2, <2>3, <2>4 DEF QueueInv
<1> QED
  BY <1>5, <1>6
\* A handler at the front of the queue that is no completion is run, and
\* nothing is added.
LEMMA KeyRuns ==
    ASSUME IInv, ready # <<>>, ~Completion(Head(ready)), ready' = Tail(ready),
           reading' = reading, session' = session
    PROVE  QueueInv'
<1>1. /\ Head(ready) = ready[1] /\ Len(ready') = Len(ready) - 1 /\ Len(ready) \in Nat \ {0}
      /\ \A i \in 1..Len(ready') : ready'[i] = ready[i + 1]
  BY QueueTail DEF IInv, TInv
<1>2. ~Completion(ready[1])
  BY <1>1, Zenon
<1> SUFFICES ASSUME NEW c \in Conn PROVE Queued(c)' /\ Held(c)'
  BY DEF QueueInv
<1>3. Queued(c) /\ Held(c)
  BY DEF IInv, QueueInv
<1>4. \A i \in 1..Len(ready') : i + 1 \in 1..Len(ready)
  BY <1>1
<1>5. Queued(c)'
  <2>1. ASSUME NEW i \in 1..Len(ready'), ready'[i].src = c, Completion(ready'[i]),
               NEW j \in i + 1..Len(ready')
        PROVE  ready'[j].src # c
    <3>1. j \in 1..Len(ready') /\ j + 1 \in (i + 1) + 1..Len(ready)
      BY <1>1, <2>1
    <3> QED
      BY <1>1, <1>3, <1>4, <2>1, <3>1 DEF Queued
  <2> QED
    BY <1>1, <1>3, <1>4, <2>1 DEF Queued, Completion
<1>6. Held(c)'
  <2>1. SUFFICES ASSUME session[c] = "alive", ~reading[c]
                 PROVE  \E i \in 1..Len(ready') : ready'[i].src = c /\ Completion(ready'[i])
    BY DEF Held, Completion
  <2>2. PICK i \in 1..Len(ready) : ready[i].src = c /\ Completion(ready[i])
    BY <1>3, <2>1 DEF Held
  <2>3. i # 1
    BY <1>2, <2>2
  <2>4. i - 1 \in 1..Len(ready') /\ ready'[i - 1] = ready[i]
    BY <1>1, <2>3
  <2> QED
    BY <2>2, <2>4
<1> QED
  BY <1>5, <1>6

\* The completion that releases the session is run.
LEMMA SessionIsReleased ==
    ASSUME IInv, ready # <<>>, NEW c \in Conn, Head(ready).src = c, Completion(Head(ready)),
           DestroySession(c)
    PROVE  QueueInv'
<1>1. /\ Head(ready) = ready[1] /\ Len(Tail(ready)) = Len(ready) - 1 /\ Len(ready) \in Nat \ {0}
      /\ \A i \in 1..Len(Tail(ready)) : Tail(ready)[i] = ready[i + 1]
      /\ Tail(ready) \in Seq(Handlers)
  BY QueueTail DEF IInv, TInv
<1>2. ready[1].src = c /\ Completion(ready[1])
  BY <1>1, Zenon
<1>3. ready' = Tail(ready) /\ reading' = reading /\ session' = [session EXCEPT ![c] = "dead"]
  BY DEF DestroySession
<1>4. ASSUME NEW d \in Conn, d # c PROVE Queued(d)' /\ Held(d)'
  <2>1. reading'[d] = reading[d] /\ session'[d] = session[d]
    BY <1>3, <1>4 DEF IInv, TInv
  <2>2. ready' = Tail(ready) \o <<>>
    BY <1>1, <1>3, ConcatEmptySeq
  <2>3. <<>> \in Seq(Handlers) /\ \A i \in 1..Len(<<>>) : <<>>[i].src = c
    BY EmptySeq
  <2>4. Tail(ready) = Tail(ready) /\ c \in Conn \cup {"local"}
    OBVIOUS
  <2> QED
    BY <1>1, <1>4, <2>1, <2>2, <2>3, <2>4, OthersKeep
<1>5. ~reading[c] /\ \A j \in 2..Len(ready) : ready[j].src # c
  BY <1>1, <1>2 DEF IInv, QueueInv, Queued
<1>6. \A i \in 1..Len(ready') : ready'[i].src # c
  BY <1>1, <1>3, <1>5
<1>7. session'[c] = "dead" /\ ~reading'[c]
  BY <1>3, <1>5 DEF IInv, TInv
<1> QED
  BY <1>4, <1>6, <1>7 DEF QueueInv, Queued, Held
\* The keys that a read posts.
LEMMA KeysType ==
    ASSUME NEW c \in Conn, NEW cmds \in Seq(Command)
    PROVE  LET keyEvents == [i \in 1..Len(cmds) |-> Key(c, cmds[i])]
           IN  /\ keyEvents \in Seq(Handlers) /\ Len(keyEvents) = Len(cmds) /\ Len(cmds) \in Nat
               /\ \A i \in 1..Len(keyEvents) :
                    keyEvents[i].src = c /\ ~Completion(keyEvents[i])
<1> DEFINE keyEvents == [i \in 1..Len(cmds) |-> Key(c, cmds[i])]
<1>1. Len(cmds) \in Nat /\ \A i \in 1..Len(cmds) : cmds[i] \in Command
  BY LenProperties, ElementOfSeq
<1>2. ASSUME NEW i \in 1..Len(cmds) PROVE Key(c, cmds[i]) \in Handlers
  <2>1. <<cmds[i]>> \in Seq(Command)
    BY <1>1
  <2> QED
    BY <2>1 DEF Key, Handlers
<1>3. keyEvents \in [1..Len(cmds) -> Handlers]
  BY <1>2
<1>4. keyEvents \in Seq(Handlers) /\ Len(keyEvents) = Len(cmds)
  BY <1>1, <1>3
<1>5. \A i \in 1..Len(keyEvents) : keyEvents[i].src = c /\ ~Completion(keyEvents[i])
  BY <1>4 DEF Key, Completion
<1> QED
  BY <1>1, <1>4, <1>5

\* What a read with data adds to the queue: its keys and, if the next read
\* finds the connection reset, that read's completion as the last element.
Posted(c, cmds, reset) ==
    [i \in 1..Len(cmds) |-> Key(c, cmds[i])] \o (IF reset THEN <<ReadEnd(c)>> ELSE <<>>)

LEMMA PostedType ==
    ASSUME NEW c \in Conn, NEW cmds \in Seq(Command), NEW reset \in BOOLEAN
    PROVE  LET added == Posted(c, cmds, reset)
           IN  /\ added \in Seq(Handlers)
               /\ \A i \in 1..Len(added) : added[i].src = c
               /\ \A i \in 1..Len(added) : Completion(added[i]) => reset /\ i = Len(added)
               /\ reset => Len(added) > 0 /\ Completion(added[Len(added)])
<1> DEFINE keyEvents == [i \in 1..Len(cmds) |-> Key(c, cmds[i])]
           again == IF reset THEN <<ReadEnd(c)>> ELSE <<>>
           added == keyEvents \o again
<1>1. /\ keyEvents \in Seq(Handlers) /\ Len(keyEvents) \in Nat
      /\ \A i \in 1..Len(keyEvents) : keyEvents[i].src = c /\ ~Completion(keyEvents[i])
  <2>1. Len(keyEvents) = Len(cmds) /\ Len(cmds) \in Nat
    BY KeysType
  <2> QED
    BY <2>1, KeysType
<1>2. /\ again \in Seq(Handlers)
      /\ reset => Len(again) = 1 /\ again[1].src = c /\ Completion(again[1])
      /\ ~reset => Len(again) = 0
  <2>1. ReadEnd(c) \in Handlers /\ ReadEnd(c).src = c /\ Completion(ReadEnd(c))
    BY EmptySeq DEF ReadEnd, Handlers, Completion
  <2>2. CASE reset
    <3>1. again = <<ReadEnd(c)>>
      BY <2>2
    <3> HIDE DEF again
    <3> QED
      BY <2>1, <2>2, <3>1
  <2>3. CASE ~reset
    BY <2>3, EmptySeq
  <2> QED
    BY <2>2, <2>3
<1> HIDE DEF keyEvents, again
<1>3. /\ added \in Seq(Handlers) /\ Len(added) = Len(keyEvents) + Len(again)
      /\ Len(again) \in {0, 1}
      /\ \A i \in 1..Len(keyEvents) : added[i] = keyEvents[i]
      /\ \A i \in Len(keyEvents) + 1..Len(keyEvents) + Len(again) :
            added[i] = again[i - Len(keyEvents)]
  BY <1>1, <1>2, QueueConcat
<1>4. added = Posted(c, cmds, reset)
  BY DEF Posted, keyEvents, again
<1> HIDE DEF added
<1>5. reset => Len(added) = Len(keyEvents) + 1 /\ added[Len(added)] = again[1]
  <2> SUFFICES ASSUME reset PROVE Len(added) = Len(keyEvents) + 1 /\ added[Len(added)] = again[1]
    OBVIOUS
  <2>1. Len(again) = 1 /\ Len(added) = Len(keyEvents) + 1
    BY <1>1, <1>2, <1>3
  <2>2. Len(added) \in Len(keyEvents) + 1..Len(keyEvents) + Len(again)
        /\ Len(added) - Len(keyEvents) = 1
    BY <1>1, <2>1
  <2> QED
    BY <1>3, <2>1, <2>2
<1>6. ~reset => Len(added) = Len(keyEvents)
  BY <1>1, <1>2, <1>3
<1>7. ASSUME NEW i \in 1..Len(added), i \notin 1..Len(keyEvents)
      PROVE  reset /\ i = Len(added)
  BY <1>1, <1>5, <1>6, <1>7
<1>8. \A i \in 1..Len(added) : added[i].src = c
  <2> TAKE i \in 1..Len(added)
  <2>1. CASE i \in 1..Len(keyEvents)
    BY <1>1, <1>3, <2>1
  <2>2. CASE i \notin 1..Len(keyEvents)
    BY <1>2, <1>5, <1>7, <2>2
  <2> QED
    BY <2>1, <2>2
<1>9. \A i \in 1..Len(added) : Completion(added[i]) => reset /\ i = Len(added)
  BY <1>1, <1>3, <1>7
<1>10. reset => Len(added) > 0 /\ Completion(added[Len(added)])
  BY <1>1, <1>2, <1>5
<1> QED
  BY <1>3, <1>4, <1>8, <1>9, <1>10

\* A read with data on an open socket.
LEMMA ReadGoesOn ==
    ASSUME IInv, NEW c \in Conn, NEW cmds \in Seq(Command), NEW reset \in BOOLEAN,
           ready # <<>>, Head(ready).src = c, Completion(Head(ready)),
           ready' = Tail(ready) \o Posted(c, cmds, reset),
           reading' = [reading EXCEPT ![c] = ~reset], session' = session
    PROVE  QueueInv' /\ ready' \in Seq(Handlers)
<1>1. PICK added : added = Posted(c, cmds, reset)
  OBVIOUS
<1>2. /\ added \in Seq(Handlers)
      /\ \A i \in 1..Len(added) : added[i].src = c
      /\ \A i \in 1..Len(added) : Completion(added[i]) => reset /\ i = Len(added)
      /\ reset => Len(added) > 0 /\ Completion(added[Len(added)])
  BY <1>1, PostedType
<1>3. /\ Head(ready) = ready[1] /\ Len(Tail(ready)) = Len(ready) - 1 /\ Len(ready) \in Nat \ {0}
      /\ \A i \in 1..Len(Tail(ready)) : Tail(ready)[i] = ready[i + 1]
      /\ Tail(ready) \in Seq(Handlers)
  BY QueueTail DEF IInv, TInv
<1>4. ready[1].src = c /\ Completion(ready[1])
  BY <1>3, Zenon
<1>5. /\ session[c] = "alive" /\ ~reading[c]
      /\ \A j \in 2..Len(ready) : ready[j].src # c
  BY <1>3, <1>4 DEF IInv, QueueInv, Queued
<1>6. PICK n \in Nat :
        /\ n = Len(ready) - 1 /\ Len(ready') = n + Len(added) /\ Len(added) \in Nat
        /\ \A i \in 1..n : ready'[i] = ready[i + 1]
        /\ \A i \in n + 1..n + Len(added) : ready'[i] = added[i - n]
        /\ ready' \in Seq(Handlers)
  <2>1. /\ ready' \in Seq(Handlers) /\ Len(ready') = Len(Tail(ready)) + Len(added)
        /\ \A i \in 1..Len(Tail(ready)) : ready'[i] = Tail(ready)[i]
        /\ \A i \in Len(Tail(ready)) + 1..Len(Tail(ready)) + Len(added) :
              ready'[i] = added[i - Len(Tail(ready))]
        /\ Len(Tail(ready)) \in Nat /\ Len(added) \in Nat
    BY <1>1, <1>2, <1>3, QueueConcat
  <2> QED
    BY <1>3, <2>1, ZenonT(40)
<1>7. ASSUME NEW d \in Conn, d # c PROVE Queued(d)' /\ Held(d)'
  <2>1. reading'[d] = reading[d] /\ session'[d] = session[d]
    BY <1>7 DEF IInv, TInv
  <2>2. c \in Conn \cup {"local"} /\ ready' = Tail(ready) \o added
    BY <1>1
  <2> QED
    BY <1>2, <1>3, <1>7, <2>1, <2>2, OthersKeep
<1>8. ASSUME NEW i \in 1..Len(ready'), ready'[i].src = c
      PROVE  i - n \in 1..Len(added) /\ ready'[i] = added[i - n]
  <2>1. i \notin 1..n
    BY <1>3, <1>5, <1>6, <1>8
  <2> QED
    BY <1>6, <2>1
<1>9. session'[c] = "alive" /\ (reading'[c] <=> ~reset)
  BY <1>5 DEF IInv, TInv
<1>10. Queued(c)'
  <2>1. ASSUME NEW i \in 1..Len(ready'), ready'[i].src = c, Completion(ready'[i])
        PROVE  ~reading'[c] /\ i = Len(ready')
    <3>1. reset /\ i - n = Len(added)
      BY <1>2, <1>8, <2>1
    <3>2. i = Len(ready')
      <4>1. i \in Int /\ Len(ready') = n + Len(added) /\ Len(added) \in Nat
        BY <1>6
      <4>2. i - n = Len(added)
        BY <3>1, Zenon
      <4> QED
        BY <4>1, <4>2, SMT
    <3>3. ~reading'[c]
      BY <1>9, <3>1
    <3> QED
      BY <3>2, <3>3
  <2>2. \A i \in 1..Len(ready') : \A j \in i + 1..Len(ready') : i # Len(ready')
    BY <1>6
  <2> QED
    BY <1>9, <2>1, <2>2 DEF Queued, Completion
<1>11. Held(c)'
  <2>1. SUFFICES ASSUME reset
                 PROVE  \E i \in 1..Len(ready') : ready'[i].src = c /\ Completion(ready'[i])
    BY <1>9 DEF Held, Completion
  <2>2. Len(ready') \in 1..Len(ready') /\ ready'[Len(ready')] = added[Len(added)]
        /\ Len(added) \in 1..Len(added)
    <3>1. Len(added) > 0 /\ Len(added) \in Nat /\ Len(ready') = n + Len(added)
      BY <1>2, <1>6, <2>1
    <3>2. Len(ready') \in n + 1..n + Len(added) /\ Len(ready') - n = Len(added)
      BY <3>1
    <3> QED
      BY <1>6, <3>1, <3>2
  <2> QED
    BY <1>2, <2>1, <2>2
<1> QED
  BY <1>6, <1>7, <1>10, <1>11 DEF QueueInv
-----------------------------------------------------------------------------
(* The steps of the specification.                                          *)

\* Commands neither create nor destroy sessions; only those that leave touch
\* a socket, and its read.
LEMMA ExecEffect ==
    ASSUME NEW src, NEW cmd, Exec(src, cmd)
    PROVE  /\ session' = session /\ cout' = cout /\ peerReset' = peerReset
           /\ IF cmd \in {"exit", "eof"} /\ src # "local" /\ CanDisconnect(src)
              THEN /\ socket' = [socket EXCEPT ![src] = "closed"]
                   /\ reading' = [reading EXCEPT ![src] = FALSE]
              ELSE UNCHANGED <<socket, reading>>
<1>1. CASE cmd \in {"monitor", "nomonitor", "hello_everysession"}
  BY <1>1 DEF Exec, Monitor, NoMonitor, HelloEverySession, connVars
<1>2. CASE cmd \in {"exit", "eof"}
  BY <1>2 DEF Exec, LocalExit, TelnetExit, Disconnect, connVars
<1>3. CASE cmd \notin {"monitor", "nomonitor", "hello_everysession", "exit", "eof"}
  BY <1>3 DEF Exec, connVars
<1> QED
  BY <1>1, <1>2, <1>3

\* A handler of a read releases its session or posts the keys and goes on.
LEMMA ReadStep == IInv /\ (RunRead \/ RunReadEnd) => IInv'
<1> SUFFICES ASSUME IInv, RunRead \/ RunReadEnd PROVE IInv'
  OBVIOUS
<1>1. PICK h : h = Head(ready)
  OBVIOUS
<1>2. ready # <<>> /\ h \in Handlers /\ h.kind # "key"
  BY <1>1, QueueTail DEF RunRead, RunReadEnd, IInv, TInv
<1>3. PICK c \in Conn : c = h.src
  BY <1>2 DEF Handlers
<1>4. h.cmds \in Seq(Command) /\ Completion(Head(ready)) /\ Head(ready).src = c
  BY <1>1, <1>2, <1>3 DEF Handlers, Completion
<1>5. CASE DestroySession(c)
  <2>1. QueueInv'
    BY <1>2, <1>4, <1>5, SessionIsReleased
  <2>2. TInv'
    <3>1. Tail(ready) \in Seq(Handlers)
      BY <1>2, QueueTail DEF IInv, TInv
    <3> QED
      BY <1>5, <3>1 DEF DestroySession, IInv, TInv
  <2>3. CoutListsLiveSessions'
    BY <1>5 DEF DestroySession, UnRegister, CoutListsLiveSessions, IInv, TInv
  <2> QED
    BY <2>1, <2>2, <2>3 DEF IInv
<1>6. CASE RunRead /\ socket[c] # "closed"
  <2>1. PICK reset \in BOOLEAN : reset = peerReset[c]
    BY DEF IInv, TInv
  <2>2. /\ reading' = [reading EXCEPT ![c] = ~reset]
        /\ UNCHANGED <<session, socket, peerReset, cout>>
    BY <1>1, <1>3, <1>6, <2>1 DEF RunRead
  <2>3. /\ [i \in 1..Len(h.cmds) |-> Key(c, h.cmds[i])] \in Seq(Handlers)
        /\ (IF reset THEN <<ReadEnd(c)>> ELSE <<>>) \in Seq(Handlers)
    <3>1. ReadEnd(c) \in Handlers
      BY EmptySeq DEF ReadEnd, Handlers
    <3> QED
      BY <1>4, <3>1, KeysType, EmptySeq
  <2>4. Tail(ready) \in Seq(Handlers)
    BY <1>2, QueueTail DEF IInv, TInv
  <2>5. ready' = (Tail(ready) \o [i \in 1..Len(h.cmds) |-> Key(c, h.cmds[i])])
                 \o (IF reset THEN <<ReadEnd(c)>> ELSE <<>>)
    BY <1>1, <1>3, <1>6, <2>1 DEF RunRead
  <2>6. ready' = Tail(ready) \o Posted(c, h.cmds, reset)
    <3>1. PICK ks \in Seq(Handlers) : ks = [i \in 1..Len(h.cmds) |-> Key(c, h.cmds[i])]
      BY <2>3
    <3>2. PICK again \in Seq(Handlers) : again = IF reset THEN <<ReadEnd(c)>> ELSE <<>>
      BY <2>3
    <3>3. Posted(c, h.cmds, reset) = ks \o again
      BY <3>1, <3>2 DEF Posted
    <3>4. ready' = (Tail(ready) \o ks) \o again
      BY <2>5, <3>1, <3>2
    <3>5. (Tail(ready) \o ks) \o again = Tail(ready) \o (ks \o again)
      BY <2>4, HandlersConcat, Zenon
    <3> QED
      BY <3>3, <3>4, <3>5, Zenon
  <2>7. QueueInv' /\ ready' \in Seq(Handlers)
    BY <1>2, <1>4, <2>2, <2>6, ReadGoesOn
  <2> QED
    BY <2>2, <2>7 DEF IInv, TInv, CoutListsLiveSessions
<1> QED
  BY <1>1, <1>3, <1>5, <1>6 DEF RunRead, RunReadEnd

\* A key event runs a command.
LEMMA KeyStep == IInv /\ RunKey => IInv'
<1> SUFFICES ASSUME IInv, RunKey PROVE IInv'
  OBVIOUS
<1>1. PICK h : h = Head(ready)
  OBVIOUS
<1>2. ready # <<>> /\ h \in Handlers /\ h.kind = "key" /\ Tail(ready) \in Seq(Handlers)
  BY <1>1, QueueTail DEF RunKey, IInv, TInv
<1>3. PICK src \in Conn \cup {"local"} : src = h.src
  BY <1>2 DEF Handlers
<1>4. PICK cmd : cmd = h.cmds[1]
  OBVIOUS
<1>5. Exec(src, cmd)
  BY <1>1, <1>3, <1>4 DEF RunKey
<1>6. ~Completion(Head(ready)) /\ Head(ready).src = src
  BY <1>1, <1>2, <1>3 DEF Completion
<1>7. "local" \notin Conn
  BY ReplAssumption
<1>8. CASE cmd \in {"exit", "eof"} /\ src \in Conn /\ CanDisconnect(src)
  <2>1. ready' = Tail(ready) \o Aborted(src)
    BY <1>1, <1>3, <1>4, <1>8 DEF RunKey
  <2>2. /\ session' = session /\ cout' = cout /\ peerReset' = peerReset
        /\ socket' = [socket EXCEPT ![src] = "closed"]
        /\ reading' = [reading EXCEPT ![src] = FALSE]
    BY <1>5, <1>7, <1>8, ExecEffect
  <2>3. session[src] = "alive"
    <3>1. Head(ready) = ready[1] /\ Len(ready) \in Nat \ {0}
      BY <1>2, QueueTail DEF IInv, TInv
    <3>2. ready[1].src = src
      BY <1>6, <3>1, Zenon
    <3> QED
      BY <1>8, <3>1, <3>2 DEF IInv, QueueInv, Queued
  <2>4. QueueInv'
    BY <1>2, <1>6, <1>8, <2>1, <2>2, <2>3, SocketEnds
  <2>5. ready' \in Seq(Handlers)
    BY <1>2, <1>8, <2>1, AbortedType, QueueConcat
  <2> QED
    BY <1>8, <2>2, <2>4, <2>5 DEF IInv, TInv, CoutListsLiveSessions
<1>9. CASE ~(cmd \in {"exit", "eof"} /\ src \in Conn /\ CanDisconnect(src))
  <2>1. ready' = Tail(ready)
    <3>1. ready' = Tail(ready) \o <<>>
      BY <1>1, <1>3, <1>4, <1>9 DEF RunKey
    <3> QED
      BY <1>2, <3>1, ConcatEmptySeq
  <2>2. UNCHANGED <<session, cout, peerReset, socket, reading>>
    BY <1>3, <1>5, <1>9, ExecEffect
  <2>3. QueueInv'
    BY <1>2, <1>6, <2>1, <2>2, KeyRuns
  <2> QED
    BY <1>2, <2>1, <2>2, <2>3 DEF IInv, TInv, CoutListsLiveSessions
<1> QED
  BY <1>8, <1>9

\* The network and the terminal.
LEMMA ArrivalStep ==
    ASSUME IInv, NEW c \in Conn,
           \/ Connect(c) \/ PeerCloses(c) \/ PeerResets(c)
           \/ \E cmds \in Batches : Data(c, cmds)
    PROVE  IInv'
<1>1. CASE Connect(c)
  <2>1. session[c] = "none" /\ ready' = ready
    BY <1>1 DEF Connect
  <2>2. session'[c] = "alive" /\ reading'[c] = TRUE
    BY <1>1 DEF Connect, IInv, TInv
  <2>3. \A d \in Conn \ {c} : session'[d] = session[d] /\ reading'[d] = reading[d]
    BY <1>1 DEF Connect, IInv, TInv
  <2>4. Queued(c)' /\ Held(c)'
    BY <2>1, <2>2 DEF IInv, QueueInv, Queued, Held
  <2>5. \A d \in Conn \ {c} : Queued(d)' /\ Held(d)'
    BY <2>1, <2>3 DEF IInv, QueueInv, Queued, Held, Completion
  <2>6. QueueInv'
    BY <2>4, <2>5 DEF QueueInv
  <2>7. TInv' /\ CoutListsLiveSessions'
    BY <1>1 DEF Connect, IInv, TInv, CoutListsLiveSessions
  <2> QED
    BY <2>6, <2>7 DEF IInv
<1>2. CASE PeerResets(c)
  <2>1. ready \in Seq(Handlers) /\ session[c] = "alive" /\ session' = session
    BY <1>2 DEF PeerResets, IInv, TInv
  <2>2. QueueInv'
    BY <1>2, <2>1, SocketEnds DEF PeerResets
  <2>3. ready' \in Seq(Handlers)
    BY <1>2, <2>1, AbortedType, QueueConcat DEF PeerResets
  <2> QED
    BY <1>2, <2>2, <2>3 DEF PeerResets, IInv, TInv, CoutListsLiveSessions
<1>3. ASSUME NEW h \in Handlers, h.src = c, Completion(h), reading[c], ready' = Append(ready, h),
             reading' = [reading EXCEPT ![c] = FALSE], UNCHANGED <<session, socket, peerReset, cout>>
      PROVE  IInv'
  <2>1. ready' = ready \o <<h>> /\ ready' \in Seq(Handlers)
    BY <1>3, AppendIsConcat, AppendProperties DEF IInv, TInv
  <2>2. QueueInv'
    BY <1>3, <2>1, ReadCompletes
  <2> QED
    BY <1>3, <2>1, <2>2 DEF IInv, TInv, CoutListsLiveSessions
<1>4. CASE PeerCloses(c)
  <2>1. ReadEnd(c) \in Handlers /\ ReadEnd(c).src = c /\ Completion(ReadEnd(c))
    BY EmptySeq DEF ReadEnd, Handlers, Completion
  <2> QED
    BY <1>3, <1>4, <2>1 DEF PeerCloses
<1>5. ASSUME NEW cmds \in Batches, Data(c, cmds) PROVE IInv'
  <2>1. cmds \in Seq(Command)
    <3>1. CASE \E a \in Command : cmds = <<a>>
      BY <3>1
    <3>2. CASE \E a \in Command, b \in Command : cmds = <<a, b>>
      BY <3>2
    <3> QED
      BY <3>1, <3>2 DEF Batches
  <2>2. ReadDone(c, cmds) \in Handlers /\ ReadDone(c, cmds).src = c /\ Completion(ReadDone(c, cmds))
    BY <2>1 DEF ReadDone, Handlers, Completion
  <2> QED
    BY <1>3, <1>5, <2>2 DEF Data
<1> QED
  BY <1>1, <1>2, <1>4, <1>5

\* The terminal's keys are of no connection.
LEMMA TerminalStep == ASSUME IInv, NEW cmd \in Command, TerminalKey(cmd) PROVE IInv'
<1>1. Key("local", cmd) \in Handlers /\ Key("local", cmd).src = "local"
  <2>1. <<cmd>> \in Seq(Command)
    OBVIOUS
  <2> QED
    BY <2>1 DEF Key, Handlers
<1>2. /\ ready' = ready \o <<Key("local", cmd)>> /\ ready' \in Seq(Handlers)
      /\ ready \in Seq(Handlers)
  BY <1>1, AppendIsConcat, AppendProperties DEF TerminalKey, IInv, TInv
<1>3. UNCHANGED <<session, socket, peerReset, reading, cout>>
  BY DEF TerminalKey, connVars
<1>4. ASSUME NEW d \in Conn PROVE Queued(d)' /\ Held(d)'
  <2>1. d # "local" /\ session'[d] = session[d] /\ reading'[d] = reading[d]
    BY <1>3, <1>4, ReplAssumption
  <2>2. /\ <<Key("local", cmd)>> \in Seq(Handlers)
        /\ \A i \in 1..Len(<<Key("local", cmd)>>) : <<Key("local", cmd)>>[i].src = "local"
    BY <1>1
  <2> QED
    BY <1>2, <2>1, <2>2, OthersKeep
<1> QED
  BY <1>2, <1>3, <1>4 DEF IInv, TInv, QueueInv, CoutListsLiveSessions

\* What touches neither the queue nor a telnet session.
LEMMA MainStep ==
    IInv /\ (StartFileSession \/ EndOfSetup \/ LogLine \/ Signal \/ UNCHANGED vars) => IInv'
<1> SUFFICES ASSUME IInv, StartFileSession \/ EndOfSetup \/ LogLine \/ Signal \/ UNCHANGED vars
             PROVE  IInv'
  OBVIOUS
<1>1. UNCHANGED <<ready, session, socket, peerReset, reading>>
  BY DEF StartFileSession, EndOfSetup, LogLine, Signal, vars, connVars
<1>2. cout' = cout \/ cout' = cout \cup {"file"}
  BY DEF StartFileSession, EndOfSetup, LogLine, Signal, vars
<1>3. QueueInv'
  BY <1>1, QueueStays
<1> QED
  BY <1>1, <1>2, <1>3, ReplAssumption DEF IInv, TInv, CoutListsLiveSessions

LEMMA FileStep == ASSUME IInv, NEW cmd \in Command, FileLine(cmd) PROVE IInv'
<1>1. UNCHANGED <<ready, session, socket, peerReset, reading, cout>>
  BY ExecEffect DEF FileLine
<1>2. QueueInv'
  BY <1>1, QueueStays
<1> QED
  BY <1>1, <1>2 DEF IInv, TInv, CoutListsLiveSessions

LEMMA Inductive == IInv /\ [Next]_vars => IInv'
BY ReadStep, KeyStep, ArrivalStep, TerminalStep, MainStep, FileStep DEF Next, Handler

-----------------------------------------------------------------------------
\* No handler finds its session destroyed: key events hold raw pointers to the
\* session, which the completion of its read releases.  For any number of
\* connections, however their keys, exits and resets interleave.
THEOREM HandlersAreSafe == Spec => []HandlersFindTheirSession
<1>1. IInv => HandlersFindTheirSession
  BY DEF IInv, QueueInv, Queued, HandlersFindTheirSession
<1> QED
  BY <1>1, Initially, Inductive, PTL DEF Spec

\* The list that Cli::cout() writes to has every live telnet session and no
\* other.
THEOREM BroadcastListIsRight == Spec => []CoutListsLiveSessions
<1>1. IInv => CoutListsLiveSessions
  BY DEF IInv
<1> QED
  BY <1>1, Initially, Inductive, PTL DEF Spec

\* No session leaks: one that has no read outstanding has the completion queued
\* that releases it, so a session whose socket is closed goes away when its
\* turn comes.
THEOREM SessionsAreHeldByTheirRead == Spec => [](\A c \in Conn : Held(c))
<1>1. IInv => \A c \in Conn : Held(c)
  BY DEF IInv, QueueInv
<1> QED
  BY <1>1, Initially, Inductive, PTL DEF Spec

=============================================================================
