--------------------------- MODULE LynxTimersProofs ---------------------------
(***************************************************************************)
(* The safety properties of LynxTimers, for every two counts and however   *)
(* far the thread lags: one countdown, and lines that keep their time.     *)
(*                                                                         *)
(* They rest on the marker of the scheduler: whatever the reactor queued   *)
(* runs before the reactor runs again, so a print that was queued before   *)
(* the handler of timer is gone before the wait that this handler started  *)
(* can expire.                                                             *)
(***************************************************************************)
EXTENDS LynxTimers, SequenceTheorems, FiniteSetTheorems, TLAPS

Ops == {"task", "print", "timer", "aborted"}

TInv ==
    /\ now \in Nat
    /\ count \in Nat
    /\ expiry \in Int
    /\ waiting \in {0, 1}
    /\ timerWaiting \in BOOLEAN
    /\ ready \in Seq(Ops)
    /\ resetAt \in Int
    /\ lines \in Seq(Int)

\* There is one marker, and only what handlers cancelled is behind it.
MarkerInv ==
    \E k \in 1..Len(ready) :
        /\ ready[k] = "task"
        /\ \A i \in 1..Len(ready) : i # k => ready[i] # "task"
        /\ \A i \in 1..Len(ready) : i > k => ready[i] = "aborted"

OnePrintInv ==
    \A i, j \in 1..Len(ready) : ready[i] = "print" /\ ready[j] = "print" => i = j

PrintQueued == \E i \in 1..Len(ready) : ready[i] = "print"

\* A queued print is that of the last wait, which has expired, or it has been
\* overtaken by the handler of timer and nothing has been logged since.
ChainInv ==
    PrintQueued =>
        \/ waiting = 0 /\ expiry <= now
        \/ resetAt # Never /\ lines = <<>>

\* Since the reset t expires in step with the lines.
ExpiryInv ==
    resetAt # Never => expiry = resetAt + 2 * Second + Len(lines) * Second

IInv ==
    /\ TInv
    /\ MarkerInv
    /\ OnePrintInv
    /\ ChainInv
    /\ ExpiryInv
    /\ LinesNotEarly

-----------------------------------------------------------------------------
(* The queue of the scheduler.                                              *)

\* The element i + 1 becomes the element i, and r comes after.
LEMMA QueueMoves ==
    ASSUME NEW q \in Seq(Ops), NEW r \in Seq(Ops), q # <<>>
    PROVE  LET s == Tail(q) \o r
           IN  /\ s \in Seq(Ops)
               /\ Len(q) \in Nat \ {0} /\ Len(r) \in Nat /\ Head(q) = q[1]
               /\ Len(s) = Len(q) - 1 + Len(r)
               /\ \A i \in 1..Len(q) - 1 : s[i] = q[i + 1]
               /\ \A i \in Len(q)..Len(q) - 1 + Len(r) : s[i] = r[i - (Len(q) - 1)]
<1>1. Len(q) \in Nat \ {0} /\ Len(r) \in Nat /\ Head(q) = q[1]
  BY EmptySeq, LenProperties
<1>2. PICK t \in Seq(Ops) :
        t = Tail(q) /\ Len(t) = Len(q) - 1 /\ \A i \in 1..Len(t) : t[i] = q[i + 1]
  BY <1>1, HeadTailProperties
<1>3. /\ t \o r \in Seq(Ops)
      /\ Len(t \o r) = Len(t) + Len(r)
      /\ \A i \in 1..Len(t) : (t \o r)[i] = t[i]
      /\ \A i \in Len(t) + 1..Len(t) + Len(r) : (t \o r)[i] = r[i - Len(t)]
  BY <1>2, ConcatProperties
<1> QED
  BY <1>1, <1>2, <1>3

\* The scheduler always finds something: the marker.
LEMMA NeverEmpty ==
    ASSUME IInv
    PROVE  ready \in Seq(Ops) /\ ready # <<>>
BY EmptySeq DEF IInv, TInv, MarkerInv

\* What a handler leaves in the queue: it may have cancelled a wait.
LEMMA HandlerMoves ==
    ASSUME IInv, Head(ready) # "task", NEW r \in Seq(Ops),
           \A i \in 1..Len(r) : r[i] = "aborted", ready' = Tail(ready) \o r
    PROVE  /\ ready' \in Seq(Ops) /\ MarkerInv' /\ OnePrintInv'
           /\ PrintQueued' => PrintQueued
           /\ Head(ready) = "print" => PrintQueued /\ ~PrintQueued'
<1>1. PICK n \in Nat \ {0}, m \in Nat :
        /\ n = Len(ready) /\ m = Len(r)
        /\ ready' \in Seq(Ops) /\ Head(ready) = ready[1]
        /\ Len(ready') = n - 1 + m
        /\ \A i \in 1..n - 1 : ready'[i] = ready[i + 1]
        /\ \A i \in n..n - 1 + m : ready'[i] = r[i - (n - 1)]
  BY NeverEmpty, QueueMoves
<1>2. \A i \in n..n - 1 + m : ready'[i] = "aborted"
  BY <1>1
<1>3. PICK k \in 1..n :
        /\ ready[k] = "task"
        /\ \A i \in 1..n : i # k => ready[i] # "task"
        /\ \A i \in 1..n : i > k => ready[i] = "aborted"
  BY <1>1 DEF IInv, MarkerInv
<1>4. k # 1
  <2>1. ready[1] # "task"
    BY <1>1
  <2> QED
    BY <2>1, <1>3
<1>5. MarkerInv'
  <2>1. k - 1 \in 1..Len(ready') /\ ready'[k - 1] = "task"
    BY <1>1, <1>3, <1>4
  <2>2. \A i \in 1..Len(ready') : i # k - 1 => ready'[i] # "task"
    BY <1>1, <1>2, <1>3, <1>4
  <2>3. \A i \in 1..Len(ready') : i > k - 1 => ready'[i] = "aborted"
    BY <1>1, <1>2, <1>3, <1>4
  <2> QED
    BY <2>1, <2>2, <2>3 DEF MarkerInv
<1>6. \A i \in 1..Len(ready') :
        ready'[i] = "print" => i + 1 \in 1..n /\ ready[i + 1] = "print"
  BY <1>1, <1>2
<1>7. OnePrintInv'
  BY <1>1, <1>6 DEF IInv, OnePrintInv
<1>8. PrintQueued' => PrintQueued
  BY <1>1, <1>6 DEF PrintQueued
<1>9. ASSUME Head(ready) = "print" PROVE PrintQueued /\ ~PrintQueued'
  <2>1. ready[1] = "print"
    BY <1>1, <1>9
  <2>2. PrintQueued
    BY <1>1, <2>1 DEF PrintQueued
  <2>3. ~PrintQueued'
    BY <1>1, <1>6, <2>1 DEF PrintQueued, IInv, OnePrintInv
  <2> QED
    BY <2>2, <2>3
<1> QED
  BY <1>1, <1>5, <1>7, <1>8, <1>9

\* What the reactor queues: at most one print, and that when t is due.
LEMMA DueShape ==
    ASSUME TInv, NEW due \in ReadyTimers
    PROVE  /\ due \in Seq(Ops) /\ Len(due) \in Nat
           /\ \A i \in 1..Len(due) : due[i] \in {"print", "timer"}
           /\ \A i, j \in 1..Len(due) : due[i] = "print" /\ due[j] = "print" => i = j
           /\ (\E i \in 1..Len(due) : due[i] = "print") => TDue
<1> DEFINE prints == IF TDue THEN [i \in 1..waiting |-> "print"] ELSE <<>>
           timers == IF TimerDue THEN <<"timer">> ELSE <<>>
<1>1. \/ prints = <<>>
      \/ TDue /\ prints = <<"print">>
  <2>1. CASE TDue
    <3>1. waiting = 1
      BY <2>1 DEF TInv, TDue
    <3>2. [i \in 1..waiting |-> "print"] = <<"print">>
      BY <3>1
    <3> QED
      BY <2>1, <3>2
  <2> QED
    BY <2>1
<1>2. timers = <<>> \/ timers = <<"timer">>
  OBVIOUS
<1>3. due = prints \o timers \/ due = timers \o prints
  BY DEF ReadyTimers
<1>4. PICK p \in Seq(Ops), t \in Seq(Ops) :
        /\ due = p \o t \/ due = t \o p
        /\ Len(p) \in {0, 1} /\ Len(t) \in {0, 1}
        /\ Len(p) = 1 => TDue /\ p[1] = "print"
        /\ Len(t) = 1 => t[1] = "timer"
  <2>1. /\ prints \in Seq(Ops) /\ Len(prints) \in {0, 1}
        /\ Len(prints) = 1 => TDue /\ prints[1] = "print"
    <3> HIDE DEF prints
    <3>1. <<>> \in Seq(Ops) /\ <<"print">> \in Seq(Ops)
      BY DEF Ops
    <3>2. CASE prints = <<>>
      BY <3>1, <3>2
    <3>3. CASE TDue /\ prints = <<"print">>
      BY <3>1, <3>3
    <3> QED
      BY <1>1, <3>2, <3>3
  <2>2. /\ timers \in Seq(Ops) /\ Len(timers) \in {0, 1}
        /\ Len(timers) = 1 => timers[1] = "timer"
    <3> HIDE DEF timers
    <3>1. <<>> \in Seq(Ops) /\ <<"timer">> \in Seq(Ops)
      BY DEF Ops
    <3>2. CASE timers = <<>>
      BY <3>1, <3>2
    <3>3. CASE timers = <<"timer">>
      BY <3>1, <3>3
    <3> QED
      BY <1>2, <3>2, <3>3
  <2> HIDE DEF prints, timers
  <2> QED
    BY <2>1, <2>2, <1>3
<1> HIDE DEF prints, timers
<1>5. CASE due = p \o t
  <2>1. /\ due \in Seq(Ops) /\ Len(due) = Len(p) + Len(t)
        /\ \A i \in 1..Len(p) + Len(t) : due[i] = IF i <= Len(p) THEN p[i] ELSE t[i - Len(p)]
    BY <1>5, ConcatProperties
  <2>2. CASE Len(p) = 0
    <3>1. Len(due) = Len(t) /\ \A i \in 1..Len(t) : due[i] = t[i]
      BY <1>4, <2>1, <2>2
    <3>2. Len(t) \in {0, 1} /\ (Len(t) = 1 => t[1] = "timer")
      BY <1>4, Zenon
    <3>3. ASSUME NEW i \in 1..Len(due) PROVE due[i] = "timer"
      <4>1. Len(t) = 1 /\ i = 1
        BY <3>1, <3>2, <3>3
      <4> QED
        BY <3>1, <3>2, <4>1
    <3> QED
      BY <2>1, <3>1, <3>2, <3>3
  <2>3. CASE Len(p) = 1
    <3>1. /\ Len(due) = Len(t) + 1 /\ due[1] = "print"
          /\ Len(t) = 1 => due[2] = "timer"
      BY <1>4, <2>1, <2>3
    <3> QED
      BY <1>4, <2>1, <2>3, <3>1
  <2> QED
    BY <1>4, <2>2, <2>3
<1>6. CASE due = t \o p
  <2>1. /\ due \in Seq(Ops) /\ Len(due) = Len(t) + Len(p)
        /\ \A i \in 1..Len(t) + Len(p) : due[i] = IF i <= Len(t) THEN t[i] ELSE p[i - Len(t)]
    BY <1>6, ConcatProperties
  <2>2. CASE Len(t) = 0
    <3>1. Len(due) = Len(p) /\ \A i \in 1..Len(p) : due[i] = p[i]
      BY <1>4, <2>1, <2>2
    <3> QED
      BY <1>4, <2>1, <3>1
  <2>3. CASE Len(t) = 1
    <3>1. /\ Len(due) = Len(p) + 1 /\ due[1] = "timer"
          /\ Len(p) = 1 => due[2] = "print"
      BY <1>4, <2>1, <2>3
    <3> QED
      BY <1>4, <2>1, <3>1
  <2> QED
    BY <1>4, <2>2, <2>3
<1> QED
  BY <1>4, <1>5, <1>6

LEMMA IdleShape == Idle \in Seq(Ops) /\ Len(Idle) = 1 /\ Idle[1] = "task"
BY DEF Idle, Ops

\* With the marker behind it.
LEMMA BatchShape ==
    ASSUME TInv, NEW due \in ReadyTimers
    PROVE  \E r \in Seq(Ops), m \in Nat \ {0} :
              /\ r = due \o Idle /\ m = Len(r)
              /\ r[m] = "task"
              /\ \A i \in 1..m - 1 : r[i] # "task"
              /\ \A i, j \in 1..m : r[i] = "print" /\ r[j] = "print" => i = j
              /\ (\E i \in 1..m : r[i] = "print") => TDue
<1>1. PICK d \in Nat :
        /\ d = Len(due) /\ due \in Seq(Ops)
        /\ \A i \in 1..d : due[i] \in {"print", "timer"}
        /\ \A i, j \in 1..d : due[i] = "print" /\ due[j] = "print" => i = j
        /\ (\E i \in 1..d : due[i] = "print") => TDue
  BY DueShape
<1>2. PICK idle \in Seq(Ops) : idle = Idle /\ Len(idle) = 1 /\ idle[1] = "task"
  BY IdleShape
<1>3. PICK s \in Seq(Ops) :
        /\ s = due \o idle /\ Len(s) = d + 1
        /\ \A i \in 1..d + 1 : s[i] = IF i <= d THEN due[i] ELSE idle[i - d]
  <2>1. PICK s \in Seq(Ops) :
          /\ s = due \o idle /\ Len(s) = Len(due) + Len(idle)
          /\ \A i \in 1..Len(due) + Len(idle) :
                s[i] = IF i <= Len(due) THEN due[i] ELSE idle[i - Len(due)]
    <3>1. due \in Seq(Ops)
      BY <1>1
    <3>2. /\ due \o idle \in Seq(Ops)
          /\ Len(due \o idle) = Len(due) + Len(idle)
          /\ \A i \in 1..Len(due) + Len(idle) :
                (due \o idle)[i] = IF i <= Len(due) THEN due[i] ELSE idle[i - Len(due)]
      BY <3>1, ConcatProperties
    <3> QED
      BY <3>2, Zenon
  <2> QED
    BY <1>1, <1>2, <2>1
<1>4. s[d + 1] = "task"
  BY <1>2, <1>3
<1>5. \A i \in 1..d : s[i] = due[i]
  BY <1>3
<1>6. \A i \in 1..d + 1 : s[i] = "print" => i \in 1..d /\ due[i] = "print"
  BY <1>4, <1>5
<1>7. \A i, j \in 1..d + 1 : s[i] = "print" /\ s[j] = "print" => i = j
  BY <1>1, <1>6
<1>8. (\E i \in 1..d + 1 : s[i] = "print") => TDue
  BY <1>1, <1>6
<1>9. \A i \in 1..d : s[i] # "task"
  BY <1>1, <1>5
<1>10. s = due \o Idle
  BY <1>2, <1>3
<1>11. PICK m \in Nat \ {0} : m = d + 1 /\ m - 1 = d
  OBVIOUS
<1>12. Len(s) = m /\ s[m] = "task" /\ \A i \in 1..m - 1 : s[i] # "task"
  BY <1>3, <1>4, <1>9, <1>11
<1>13. /\ \A i, j \in 1..m : s[i] = "print" /\ s[j] = "print" => i = j
       /\ (\E i \in 1..m : s[i] = "print") => TDue
  BY <1>7, <1>8, <1>11
<1> WITNESS s \in Seq(Ops), m \in Nat \ {0}
<1> QED
  BY <1>10, <1>12, <1>13

\* When the reactor runs, nothing that it queued before is left.
LEMMA ReactorMoves ==
    ASSUME IInv, Head(ready) = "task",
           NEW r \in Seq(Ops), NEW m \in Nat \ {0}, m = Len(r),
           r[m] = "task", \A i \in 1..m - 1 : r[i] # "task",
           \A i, j \in 1..m : r[i] = "print" /\ r[j] = "print" => i = j,
           ready' = Tail(ready) \o r
    PROVE  /\ ready' \in Seq(Ops) /\ MarkerInv' /\ OnePrintInv'
           /\ PrintQueued' => \E i \in 1..m : r[i] = "print"
<1>1. PICK n \in Nat \ {0} :
        /\ n = Len(ready)
        /\ ready' \in Seq(Ops) /\ Head(ready) = ready[1]
        /\ Len(ready') = n - 1 + m
        /\ \A i \in 1..n - 1 : ready'[i] = ready[i + 1]
        /\ \A i \in n..n - 1 + m : ready'[i] = r[i - (n - 1)]
  BY NeverEmpty, QueueMoves, SMTT(20)
<1>2. \A i \in 2..n : ready[i] = "aborted"
  <2>1. ready[1] = "task"
    BY <1>1
  <2> QED
    BY <1>1, <2>1 DEF IInv, MarkerInv
<1>3. \A i \in 1..n - 1 : ready'[i] = "aborted"
  BY <1>1, <1>2
<1>4. MarkerInv'
  <2>1. n - 1 + m \in 1..Len(ready') /\ ready'[n - 1 + m] = "task"
    BY <1>1
  <2>2. ASSUME NEW i \in 1..Len(ready'), i # n - 1 + m
        PROVE  ready'[i] # "task"
    <3>1. CASE i <= n - 1
      BY <1>1, <1>3, <3>1
    <3>2. CASE i > n - 1
      <4>1. i - (n - 1) \in 1..m - 1 /\ ready'[i] = r[i - (n - 1)]
        BY <1>1, <2>2, <3>2
      <4> QED
        BY <4>1
    <3> QED
      BY <3>1, <3>2
  <2>3. \A i \in 1..Len(ready') : ~(i > n - 1 + m)
    BY <1>1
  <2> QED
    BY <2>1, <2>2, <2>3 DEF MarkerInv
<1>5. \A i \in 1..Len(ready') :
        ready'[i] = "print" => i - (n - 1) \in 1..m /\ r[i - (n - 1)] = "print"
  BY <1>1, <1>3
<1>6. OnePrintInv'
  <2> SUFFICES ASSUME NEW i \in 1..Len(ready'), NEW j \in 1..Len(ready'),
                      ready'[i] = "print", ready'[j] = "print"
               PROVE  i = j
    BY DEF OnePrintInv
  <2>1. i - (n - 1) = j - (n - 1)
    BY <1>5
  <2>2. i \in Int /\ j \in Int
    BY <1>1
  <2> QED
    BY <2>1, <2>2
<1>7. PrintQueued' => \E i \in 1..m : r[i] = "print"
  BY <1>5 DEF PrintQueued
<1> QED
  BY <1>1, <1>4, <1>6, <1>7

-----------------------------------------------------------------------------
(* The steps.                                                               *)

LEMMA Initially == Init => IInv
<1> SUFFICES ASSUME Init PROVE IInv
  OBVIOUS
<1>1. ready \in Seq(Ops) /\ Len(ready) = 1 /\ ready[1] = "task"
  BY IdleShape DEF Init
<1>2. lines \in Seq(Int) /\ Len(lines) = 0
  BY EmptySeq DEF Init
<1>3. TInv
  BY <1>1, <1>2, TimersAssumption DEF Init, TInv, Never
<1>4. MarkerInv
  BY <1>1 DEF MarkerInv
<1>5. OnePrintInv /\ ~PrintQueued
  BY <1>1 DEF OnePrintInv, PrintQueued
<1>6. resetAt = Never
  BY DEF Init
<1>7. ChainInv /\ ExpiryInv /\ LinesNotEarly
  BY <1>5, <1>6 DEF ChainInv, ExpiryInv, LinesNotEarly
<1> QED
  BY <1>3, <1>4, <1>5, <1>7 DEF IInv

LEMMA TickKeeps ==
    ASSUME IInv, Tick
    PROVE  IInv'
<1> USE DEF Tick
<1>1. TInv'
  BY DEF IInv, TInv
<1>2. MarkerInv' /\ OnePrintInv'
  BY DEF IInv, MarkerInv, OnePrintInv
<1>3. ChainInv'
  BY DEF IInv, TInv, ChainInv, PrintQueued
<1>4. ExpiryInv' /\ LinesNotEarly'
  BY DEF IInv, ExpiryInv, LinesNotEarly
<1> QED
  BY <1>1, <1>2, <1>3, <1>4 DEF IInv

\* The reactor finds a wait that has expired, or none.
LEMMA ReactKeeps ==
    ASSUME IInv, React
    PROVE  IInv'
<1>1. PICK due \in ReadyTimers : ready' = Tail(ready) \o due \o Idle
  BY DEF React
<1>2. PICK r \in Seq(Ops), m \in Nat \ {0} :
        /\ r = due \o Idle /\ m = Len(r)
        /\ r[m] = "task"
        /\ \A i \in 1..m - 1 : r[i] # "task"
        /\ \A i, j \in 1..m : r[i] = "print" /\ r[j] = "print" => i = j
        /\ (\E i \in 1..m : r[i] = "print") => TDue
  BY BatchShape DEF IInv
<1>3. ready' = Tail(ready) \o r
  <2>1. Tail(ready) \in Seq(Ops)
    BY NeverEmpty, HeadTailProperties
  <2>2. due \in Seq(Ops) /\ Idle \in Seq(Ops)
    BY DueShape, IdleShape DEF IInv
  <2>3. (Tail(ready) \o due) \o Idle = Tail(ready) \o (due \o Idle)
    <3>1. \A p, q, s \in Seq(Ops) : (p \o q) \o s = p \o (q \o s)
      <4> TAKE p, q, s \in Seq(Ops)
      <4> QED
        BY ConcatAssociative
    <3> QED
      BY <2>1, <2>2, <3>1, Zenon
  <2> QED
    BY <1>1, <1>2, <2>3, Zenon
<1>4. /\ ready' \in Seq(Ops) /\ MarkerInv' /\ OnePrintInv'
      /\ PrintQueued' => TDue
  <2>1. Head(ready) = "task"
    BY DEF React
  <2>2. /\ ready' \in Seq(Ops) /\ MarkerInv' /\ OnePrintInv'
        /\ PrintQueued' => \E i \in 1..m : r[i] = "print"
    BY <1>2, <1>3, <2>1, ReactorMoves
  <2> QED
    BY <1>2, <2>2
<1>5. TInv'
  <2>1. (timerWaiting /\ ~TimerDue) \in BOOLEAN
    OBVIOUS
  <2> QED
    BY <1>4, <2>1 DEF React, IInv, TInv
<1>6. ChainInv'
  <2>1. UNCHANGED <<now, expiry, resetAt, lines>> /\ waiting' = IF TDue THEN 0 ELSE waiting
    BY DEF React
  <2> QED
    BY <1>4, <2>1 DEF ChainInv, TDue
<1>7. ExpiryInv' /\ LinesNotEarly'
  BY DEF React, IInv, ExpiryInv, LinesNotEarly
<1> QED
  BY <1>4, <1>5, <1>6, <1>7 DEF IInv

\* What a handler cancels when it arms t.
LEMMA RearmShape ==
    ASSUME TInv
    PROVE  /\ Rearm.queued \in Seq(Ops) /\ Rearm.outstanding = 1
           /\ \A i \in 1..Len(Rearm.queued) : Rearm.queued[i] = "aborted"
<1>1. waiting \in Nat
  BY DEF TInv
<1>2. PICK q : q = [i \in 1..waiting |-> "aborted"]
  OBVIOUS
<1>3. Rearm.queued = q /\ Rearm.outstanding = 1
  BY <1>2 DEF Rearm
<1>4. q \in [1..waiting -> Ops] /\ \A i \in 1..waiting : q[i] = "aborted"
  BY <1>2 DEF Ops
<1>5. q \in Seq(Ops) /\ Len(q) = waiting
  BY <1>1, <1>4
<1> QED
  BY <1>3, <1>4, <1>5

LEMMA PrintCountKeeps ==
    ASSUME IInv, PrintCount
    PROVE  IInv'
<1>1. Head(ready) = "print" /\ UNCHANGED <<now, timerWaiting, resetAt>>
  BY DEF PrintCount
<1>2. PICK r \in Seq(Ops) :
        /\ ready' = Tail(ready) \o r
        /\ \A i \in 1..Len(r) : r[i] = "aborted"
        /\ count # 0 => waiting' = 1
  <2>1. CASE count = 0
    <3>1. <<>> \in Seq(Ops) /\ Len(<<>>) = 0
      BY EmptySeq
    <3>2. Tail(ready) \o <<>> = Tail(ready)
      <4>1. Tail(ready) \in Seq(Ops)
        BY NeverEmpty, HeadTailProperties
      <4> QED
        BY <4>1, ConcatEmptySeq
    <3>3. ready' = Tail(ready) \o <<>>
      BY <2>1, <3>2 DEF PrintCount
    <3> WITNESS <<>> \in Seq(Ops)
    <3> QED
      BY <2>1, <3>1, <3>3
  <2>2. CASE count # 0
    BY <2>2, RearmShape DEF PrintCount, IInv
  <2> QED
    BY <2>1, <2>2
<1>3. /\ ready' \in Seq(Ops) /\ MarkerInv' /\ OnePrintInv'
      /\ PrintQueued /\ ~PrintQueued'
  BY <1>1, <1>2, HandlerMoves
<1>4. ChainInv'
  BY <1>3 DEF ChainInv
<1>5. CASE count = 0
  <2>1. UNCHANGED <<count, expiry, waiting, lines>>
    BY <1>5 DEF PrintCount
  <2>2. TInv' /\ ExpiryInv' /\ LinesNotEarly'
    BY <1>1, <1>3, <2>1 DEF IInv, TInv, ExpiryInv, LinesNotEarly
  <2> QED
    BY <1>3, <1>4, <2>2 DEF IInv
<1>6. CASE count # 0
  <2>1. /\ count' = count - 1 /\ lines' = Append(lines, now)
        /\ expiry' = expiry + 2 /\ waiting' = 1
    BY <1>2, <1>6 DEF PrintCount, NextExpiry, Second
  <2>2. PICK n \in Nat : n = Len(lines)
    BY LenProperties DEF IInv, TInv
  <2>3. /\ lines' \in Seq(Int) /\ Len(lines') = n + 1
        /\ lines'[n + 1] = now
        /\ \A i \in 1..n : lines'[i] = lines[i]
    BY <2>1, <2>2, AppendProperties DEF IInv, TInv
  <2>4. TInv'
    BY <1>1, <1>3, <1>6, <2>1, <2>3 DEF IInv, TInv
  <2>5. ExpiryInv'
    <3>1. ASSUME resetAt # Never
          PROVE  expiry + 2 = resetAt + 2 * 2 + (n + 1) * 2
      <4>1. expiry = resetAt + 2 * 2 + n * 2
        BY <2>2, <3>1 DEF IInv, ExpiryInv, Second
      <4> QED
        BY <4>1 DEF IInv, TInv
    <3> QED
      BY <1>1, <2>1, <2>3, <3>1 DEF ExpiryInv, Second
  <2>6. LinesNotEarly'
    <3> SUFFICES ASSUME NEW i \in 2..n + 1, resetAt # Never
                 PROVE  lines'[i] >= resetAt + 2 * 2 + (i - 1) * 2
      BY <1>1, <2>3 DEF LinesNotEarly, Second
    <3>1. CASE i <= n
      <4>1. lines[i] >= resetAt + 2 * 2 + (i - 1) * 2
        BY <2>2, <3>1 DEF IInv, LinesNotEarly, Second
      <4> QED
        BY <2>3, <3>1, <4>1
    <3>2. CASE i = n + 1
      <4>1. n > 0 /\ lines # <<>>
        BY <2>2, <3>2, EmptySeq
      <4>2. expiry <= now
        BY <1>3, <4>1 DEF IInv, ChainInv
      <4>3. expiry = resetAt + 2 * 2 + n * 2
        BY <2>2 DEF IInv, ExpiryInv, Second
      <4>4. i - 1 = n
        BY <3>2
      <4> QED
        BY <2>3, <3>2, <4>2, <4>3, <4>4 DEF IInv, TInv
    <3> QED
      BY <3>1, <3>2
  <2> QED
    BY <1>3, <1>4, <2>4, <2>5, <2>6 DEF IInv
<1> QED
  BY <1>5, <1>6

LEMMA PrintAbortedKeeps ==
    ASSUME IInv, PrintAborted
    PROVE  IInv'
<1>1. Tail(ready) \in Seq(Ops)
  BY NeverEmpty, HeadTailProperties
<1>2. Tail(ready) \o <<>> = Tail(ready)
  BY <1>1, ConcatEmptySeq
<1>3. <<>> \in Seq(Ops) /\ Len(<<>>) = 0
  BY EmptySeq
<1>4. PICK r \in Seq(Ops) : ready' = Tail(ready) \o r /\ Len(r) = 0
  BY <1>2, <1>3 DEF PrintAborted
<1>5. /\ ready' \in Seq(Ops) /\ MarkerInv' /\ OnePrintInv'
      /\ PrintQueued' => PrintQueued
  <2>1. Head(ready) # "task"
    BY DEF PrintAborted
  <2>2. \A i \in 1..Len(r) : r[i] = "aborted"
    BY <1>4
  <2> QED
    BY <1>4, <2>1, <2>2, HandlerMoves
<1>6. UNCHANGED <<now, count, expiry, waiting, timerWaiting, resetAt, lines>>
  BY DEF PrintAborted
<1>7. TInv' /\ ChainInv' /\ ExpiryInv' /\ LinesNotEarly'
  BY <1>5, <1>6 DEF IInv, TInv, ChainInv, ExpiryInv, LinesNotEarly
<1> QED
  BY <1>5, <1>7 DEF IInv

LEMMA TimerKeeps ==
    ASSUME IInv, Timer
    PROVE  IInv'
<1>1. /\ Head(ready) = "timer" /\ ready' = Tail(ready) \o Rearm.queued
      /\ count' = SecondCount /\ expiry' = now + 2 * 2 /\ waiting' = Rearm.outstanding
      /\ resetAt' = now /\ lines' = <<>> /\ UNCHANGED <<now, timerWaiting>>
  BY DEF Timer, Second
<1>2. ready' \in Seq(Ops) /\ MarkerInv' /\ OnePrintInv'
  BY <1>1, RearmShape, HandlerMoves DEF IInv
<1>3. lines' \in Seq(Int) /\ Len(lines') = 0
  BY <1>1, EmptySeq
<1>4. TInv'
  BY <1>1, <1>2, <1>3, RearmShape, TimersAssumption DEF IInv, TInv
<1>5. ChainInv'
  BY <1>1 DEF ChainInv, IInv, TInv, Never
<1>6. ExpiryInv'
  BY <1>1, <1>3 DEF ExpiryInv, Second, IInv, TInv
<1>7. LinesNotEarly'
  BY <1>3 DEF LinesNotEarly
<1> QED
  BY <1>2, <1>4, <1>5, <1>6, <1>7 DEF IInv

LEMMA Step == IInv /\ [Next]_vars => IInv'
<1> SUFFICES ASSUME IInv, [Next]_vars PROVE IInv'
  OBVIOUS
<1>1. CASE UNCHANGED vars
  BY <1>1 DEF vars, IInv, TInv, MarkerInv, OnePrintInv, ChainInv, PrintQueued, ExpiryInv,
              LinesNotEarly
<1> QED
  BY <1>1, TickKeeps, ReactKeeps, PrintCountKeeps, PrintAbortedKeeps, TimerKeeps
     DEF Next, Handler

-----------------------------------------------------------------------------
(* The theorems.                                                            *)

LEMMA Invariance == Spec => []IInv
<1> QED
  BY Initially, Step, PTL DEF Spec

\* The prints that are queued: none, or one.
LEMMA PrintsCounted ==
    ASSUME IInv
    PROVE  LET P == {i \in 1..Len(ready) : ready[i] = "print"}
           IN  /\ ~PrintQueued => Cardinality(P) = 0
               /\ PrintQueued => Cardinality(P) = 1
<1> DEFINE P == {i \in 1..Len(ready) : ready[i] = "print"}
<1>1. ASSUME ~PrintQueued PROVE Cardinality(P) = 0
  <2>1. P = {}
    BY <1>1 DEF PrintQueued
  <2> QED
    BY <2>1, FS_EmptySet
<1>2. ASSUME PrintQueued PROVE Cardinality(P) = 1
  <2>1. PICK i \in 1..Len(ready) : ready[i] = "print"
    BY <1>2 DEF PrintQueued
  <2>2. P = {i}
    BY <2>1 DEF IInv, OnePrintInv
  <2> HIDE DEF P
  <2> QED
    BY <2>2, FS_Singleton
<1> QED
  BY <1>1, <1>2

\* However far the thread lags, there is one countdown, or two until one of
\* them has logged the first line since the reset.
THEOREM CountdownIsOne == Spec => []OneCountdown
<1>1. IInv => OneCountdown
  <2> SUFFICES ASSUME IInv PROVE OneCountdown
    OBVIOUS
  <2>1. CASE ~PrintQueued
    <3>1. Chains = waiting + 0
      BY <2>1, PrintsCounted DEF Chains
    <3> QED
      BY <3>1 DEF OneCountdown, IInv, TInv
  <2>2. CASE PrintQueued
    <3>1. Chains = waiting + 1
      BY <2>2, PrintsCounted DEF Chains
    <3>2. waiting = 0 \/ (waiting = 1 /\ resetAt # Never /\ lines = <<>>)
      BY <2>2 DEF IInv, TInv, ChainInv
    <3> QED
      BY <3>1, <3>2 DEF OneCountdown
  <2> QED
    BY <2>1, <2>2
<1> QED
  BY <1>1, Invariance, PTL

\* However far the thread lags, no line but the first after the reset is
\* logged before its time.
THEOREM LinesKeepTheirTime == Spec => []LinesNotEarly
<1>1. IInv => LinesNotEarly
  BY DEF IInv
<1> QED
  BY <1>1, Invariance, PTL

=============================================================================
