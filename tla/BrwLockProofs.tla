--------------------------- MODULE BrwLockProofs ---------------------------
(***************************************************************************)
(* Proofs about BrwLock for any set of threads.                            *)
(***************************************************************************)
EXTENDS BrwLock, FiniteSetTheorems, SequenceTheorems, TLAPS

(* The threads that the word counts as readers, of which those in           *)
(* read_contended have yet to find out that they may not be.                *)
Counted == {t \in Threads :
  pc[t] \in {"reading", "upgrade_contended", "read_contended", "woken_reader"}}

Holding == {t \in Threads :
  pc[t] \in {"reading", "upgrade_contended", "woken_reader"}}

(* The threads that it counts as waiters.                                   *)
Waiters == {t \in Threads :
  \/ pc[t] \in {"read_decide", "write_decide", "upgrade_decide", "asleep"}
  \/ pc[t] \in {"wake", "woke"} /\ after[t] \in {"read", "write"}}

(* The threads for which its bit may stand.                                 *)
Writers == {t \in Threads : pc[t] \in {"writing", "woken_writer", "write_release"}}

CountsOK ==
  /\ IsFiniteSet(Counted) /\ readers = Cardinality(Counted)
  /\ IsFiniteSet(Waiters) /\ waiting = Cardinality(Waiters)

ExclusionOK ==
  /\ writing <=> Writers # {}
  /\ \A s, t \in Writers : s = t
  /\ Writers # {} => Holding = {}

(* Who has the thread lock.                                                 *)
TlockOK ==
  \A t \in Threads : (tlock = t) <=>
    pc[t] \in {"read_decide", "write_decide", "upgrade_decide", "wake", "woke"}

QueueOK ==
  /\ \A i \in DOMAIN queue : pc[queue[i].thread] = "asleep"
  /\ \A i, j \in DOMAIN queue : queue[i].thread = queue[j].thread => i = j

(* What the word said before a thread became a waiter still holds when it   *)
(* decides: a waiter keeps the fast paths closed.                           *)
DecideOK ==
  \A t \in Threads :
    /\ (pc[t] \in {"read_decide", "write_decide", "upgrade_decide"}
          /\ ~PrevWriter(t)) => ~writing
    /\ (pc[t] \in {"read_decide", "upgrade_decide"}
          /\ ~PrevWriter(t) /\ PrevReaders(t) = 1) => Holding = {}
    /\ (pc[t] = "write_decide"
          /\ ~PrevWriter(t) /\ PrevReaders(t) = 0) => Holding = {}

(* A thread wakes others while nobody is inside, and after the first reader *)
(* it has woken that one keeps writers out.                                 *)
WakeOK ==
  \A t \in Threads :
    /\ pc[t] \notin {"wake", "woke"} => ownership[t] = "Normal"
    /\ (pc[t] = "wake" /\ ownership[t] = "Normal") =>
         ~writing /\ Holding = {} /\ waiting # 0
    /\ ownership[t] = "Reader" =>
         ~writing /\ \E u \in Threads : pc[u] = "woken_reader"

BrwInv ==
  /\ TypeOK /\ CountsOK /\ ExclusionOK /\ TlockOK /\ QueueOK /\ DecideOK /\ WakeOK
-----------------------------------------------------------------------------
(* Counting.                                                                *)
LEMMA Added ==
  ASSUME NEW S, NEW T, NEW x, IsFiniteSet(S), x \notin S, T = S \cup {x}
  PROVE  IsFiniteSet(T) /\ Cardinality(T) = Cardinality(S) + 1
BY FS_AddElement

LEMMA Removed ==
  ASSUME NEW S, NEW T, NEW x, IsFiniteSet(S), x \in S, T = S \ {x}
  PROVE  IsFiniteSet(T) /\ Cardinality(T) = Cardinality(S) - 1
BY FS_RemoveElement

LEMMA WordFacts ==
  ASSUME CountsOK
  PROVE  /\ readers = 0 <=> Counted = {}
         /\ waiting = 0 <=> Waiters = {}
         /\ readers = 1 => \A t \in Counted : Counted = {t}
         /\ Holding \subseteq Counted
<1>1. readers = 0 <=> Counted = {}
  BY FS_EmptySet DEF CountsOK
<1>2. waiting = 0 <=> Waiters = {}
  BY FS_EmptySet DEF CountsOK
<1>3. readers = 1 => \E x : Counted = {x}
  BY FS_Singleton DEF CountsOK
<1> QED BY <1>1, <1>2, <1>3 DEF Holding, Counted

(* The thread lock has one holder, so one thread at a time is past it.      *)
LEMMA OneInside ==
  ASSUME TlockOK, NEW t \in Threads, NEW u \in Threads,
         pc[t] \in {"read_decide", "write_decide", "upgrade_decide", "wake", "woke"},
         pc[u] \in {"read_decide", "write_decide", "upgrade_decide", "wake", "woke"}
  PROVE  t = u
BY DEF TlockOK

LEMMA QueueFacts ==
  ASSUME TypeOK
  PROVE  /\ Len(queue) \in Nat /\ DOMAIN queue = 1 .. Len(queue)
         /\ \A i \in DOMAIN queue : queue[i].thread \in Threads
<1> DEFINE R == [thread : Threads, write : BOOLEAN]
<1>1. queue \in Seq(R)
  BY DEF TypeOK
<1>2. Len(queue) \in Nat /\ DOMAIN queue = 1 .. Len(queue)
  BY <1>1
<1>3. \A i \in 1 .. Len(queue) : queue[i] \in R
  <2> HIDE DEF R
  <2> QED BY <1>1
<1>4. \A r \in R : r.thread \in Threads
  OBVIOUS
<1> QED BY <1>2, <1>3, <1>4
-----------------------------------------------------------------------------
LEMMA ReadAcquireInv ==
  ASSUME BrwInv, NEW t \in Threads, ReadAcquire(t)
  PROVE  BrwInv'
<1> USE DEF BrwInv
<1>1. /\ Counted' = Counted \cup {t} /\ t \notin Counted
      /\ Waiters' = Waiters /\ Writers' = Writers
      /\ Holding' = IF waiting = 0 /\ ~writing THEN Holding \cup {t} ELSE Holding
  BY DEF ReadAcquire, Goto, Counted, Waiters, Writers, Holding, wakeVars, TypeOK
<1>2. TypeOK'
  <2>1. pc' \in [Threads -> Labels]
    BY DEF ReadAcquire, Goto, TypeOK, Labels
  <2>2. readers' \in Nat /\ waiting' \in Nat
    BY DEF ReadAcquire, Add, TypeOK
  <2> QED BY <2>1, <2>2 DEF ReadAcquire, wakeVars, TypeOK
<1>3. CountsOK'
  <2>1. IsFiniteSet(Counted') /\ Cardinality(Counted') = Cardinality(Counted) + 1
    BY <1>1, Added DEF CountsOK
  <2> QED BY <1>1, <2>1 DEF ReadAcquire, Add, CountsOK, TypeOK
<1>4. ExclusionOK'
  BY <1>1 DEF ReadAcquire, ExclusionOK
<1>5. TlockOK'
  BY DEF ReadAcquire, Goto, TlockOK, TypeOK
<1>6. QueueOK'
  BY QueueFacts DEF ReadAcquire, Goto, QueueOK, TypeOK
<1>7. \A u \in Threads :
        pc[u] \in {"read_decide", "write_decide", "upgrade_decide"} => waiting # 0
  BY WordFacts DEF Waiters
<1>8. DecideOK'
  BY <1>1, <1>7 DEF ReadAcquire, Goto, DecideOK, PrevWriter, PrevReaders, TypeOK
<1>9. WakeOK'
  BY <1>1 DEF ReadAcquire, Add, Goto, wakeVars, WakeOK, TypeOK
<1> QED BY <1>2, <1>3, <1>4, <1>5, <1>6, <1>8, <1>9

(* The two exchanges of CommonWriteAcquire.                                 *)
LEMMA WriteNowInv ==
  ASSUME BrwInv, NEW t \in Threads,
         \/ pc[t] = "idle" /\ WriteNow(t, Unlocked)
         \/ pc[t] = "reading" /\ WriteNow(t, OneReader),
         Goto(t, "writing"), UNCHANGED <<queue, owner, tlock, prev, wakeVars>>
  PROVE  /\ BrwInv'
         /\ Holding = IF pc[t] = "idle" THEN {} ELSE {t}
         /\ Writers = {}
<1> USE DEF BrwInv
<1>1. /\ waiting = 0 /\ ~writing
      /\ pc[t] = "idle" => readers = 0
      /\ pc[t] = "reading" => readers = 1
      /\ readers' = 0 /\ waiting' = 0 /\ writing' = TRUE /\ writer' = t
  BY DEF WriteNow, word, Unlocked, OneReader
<1>2. Waiters = {} /\ Writers = {}
  BY <1>1, WordFacts DEF ExclusionOK
<1>3. /\ Counted \ {t} = {} /\ Holding \ {t} = {}
      /\ pc[t] = "idle" => Holding = {}
  BY <1>1, WordFacts DEF Counted, Holding, TypeOK
<1>4. /\ Counted' = {} /\ Holding' = {} /\ Waiters' = {} /\ Writers' = {t}
  BY <1>2, <1>3 DEF Goto, Counted, Holding, Waiters, Writers, wakeVars, TypeOK
<1>5. TypeOK'
  <2>1. pc' \in [Threads -> Labels]
    BY DEF Goto, TypeOK, Labels
  <2> QED BY <1>1, <2>1 DEF wakeVars, TypeOK
<1>6. CountsOK'
  BY <1>1, <1>4, FS_EmptySet DEF CountsOK
<1>7. ExclusionOK'
  BY <1>1, <1>4 DEF ExclusionOK
<1>8. TlockOK'
  BY DEF Goto, TlockOK, TypeOK
<1>9. QueueOK'
  BY QueueFacts DEF Goto, QueueOK, TypeOK
<1>10. \A u \in Threads :
         pc[u] \notin {"read_decide", "write_decide", "upgrade_decide"}
  BY <1>2 DEF Waiters
<1>11. DecideOK'
  BY <1>10 DEF Goto, DecideOK, TypeOK
<1>12. WakeOK'
  <2>1. \A u \in Threads : pc[u] # "woken_reader"
    BY <1>3 DEF Holding
  <2>2. \A u \in Threads : ownership[u] = "Normal" /\ pc[u] # "wake"
    BY <1>1, <2>1 DEF WakeOK, TypeOK
  <2> QED BY <2>2 DEF Goto, WakeOK, wakeVars, TypeOK
<1>13. pc[t] = "reading" => Holding = {t}
  BY <1>3 DEF Holding
<1> QED BY <1>2, <1>3, <1>5, <1>6, <1>7, <1>8, <1>9, <1>11, <1>12, <1>13

(* Steps that change neither the sets the word counts nor the word.         *)
LEMMA LabelInv ==
  ASSUME BrwInv, NEW t \in Threads, NEW l \in Labels, Goto(t, l),
         \/ pc[t] = "idle" /\ l = "write_contended"
         \/ pc[t] = "reading" /\ l = "upgrade_contended"
         \/ pc[t] = "writing" /\ l = "write_release"
         \/ pc[t] = "release" /\ l = "idle",
         writer' \in Threads \cup {None},
         UNCHANGED <<word, queue, owner, tlock, prev, wakeVars>>
  PROVE  BrwInv'
<1> USE DEF BrwInv
<1>1. /\ Counted' = Counted /\ Holding' = Holding
      /\ Waiters' = Waiters /\ Writers' = Writers
  BY DEF Goto, Counted, Holding, Waiters, Writers, wakeVars, TypeOK
<1>2. TypeOK'
  <2>1. pc' \in [Threads -> Labels]
    BY DEF Goto, TypeOK
  <2> QED BY <2>1 DEF wakeVars, word, TypeOK
<1>3. CountsOK' /\ ExclusionOK'
  BY <1>1 DEF CountsOK, ExclusionOK, word
<1>4. TlockOK'
  BY DEF Goto, TlockOK, TypeOK
<1>5. QueueOK'
  BY QueueFacts DEF Goto, QueueOK, TypeOK
<1>6. DecideOK'
  BY <1>1 DEF Goto, DecideOK, PrevWriter, PrevReaders, word, TypeOK
<1>7. WakeOK'
  BY <1>1 DEF Goto, WakeOK, word, wakeVars, TypeOK
<1> QED BY <1>2, <1>3, <1>4, <1>5, <1>6, <1>7
-----------------------------------------------------------------------------
LEMMA BecomeWaiterInv ==
  ASSUME BrwInv, NEW t \in Threads, NEW r \in Int, NEW l \in Labels,
         \/ pc[t] = "read_contended" /\ r = -1 /\ l = "read_decide"
         \/ pc[t] = "write_contended" /\ r = 0 /\ l = "write_decide"
         \/ pc[t] = "upgrade_contended" /\ r = -1 /\ l = "upgrade_decide",
         BecomeWaiter(t, r, l)
  PROVE  BrwInv'
<1> USE DEF BrwInv
<1> USE BrwLockAssumption
<1>1. /\ Counted' = Counted \ {t} /\ (r = -1 <=> t \in Counted)
      /\ Waiters' = Waiters \cup {t} /\ t \notin Waiters
      /\ Writers' = Writers /\ Holding' = Holding \ {t}
      /\ Writers # {} => Holding = {}
  BY DEF BecomeWaiter, Goto, Counted, Holding, Waiters, Writers, wakeVars, TypeOK,
     ExclusionOK
<1>2. CountsOK'
  <2>1. IsFiniteSet(Waiters') /\ Cardinality(Waiters') = Cardinality(Waiters) + 1
    BY <1>1, Added DEF CountsOK
  <2>2. IsFiniteSet(Counted') /\ Cardinality(Counted') = Cardinality(Counted) + r
    <3>1. CASE r = -1
      BY <1>1, <3>1, Removed, FS_CardinalityType DEF CountsOK
    <3>2. CASE r = 0
      <4>1. Counted' = Counted
        BY <1>1, <3>2
      <4> QED BY <3>2, <4>1, FS_CardinalityType DEF CountsOK
    <3> QED BY <3>1, <3>2
  <2> QED BY <2>1, <2>2 DEF BecomeWaiter, Add, CountsOK
<1>3. TypeOK'
  <2>1. pc' \in [Threads -> Labels]
    BY DEF BecomeWaiter, Goto, TypeOK
  <2>2. readers' \in Nat /\ waiting' \in Nat
    BY <1>2, FS_CardinalityType DEF CountsOK
  <2>3. prev' \in [Threads -> Nat \X Nat \X BOOLEAN]
    BY DEF BecomeWaiter, Remember, word, TypeOK
  <2> QED BY <2>1, <2>2, <2>3 DEF BecomeWaiter, wakeVars, TypeOK
<1>4. ExclusionOK'
  BY <1>1 DEF BecomeWaiter, ExclusionOK
<1>5. \A u \in Threads :
        pc[u] \notin {"read_decide", "write_decide", "upgrade_decide", "wake", "woke"}
  BY DEF BecomeWaiter, TlockOK
<1>6. TlockOK'
  BY <1>5 DEF BecomeWaiter, Goto, TlockOK, TypeOK
<1>7. QueueOK'
  BY QueueFacts DEF BecomeWaiter, Goto, QueueOK, TypeOK
<1>8. DecideOK'
  <2>1. \A u \in Threads \ {t} :
          pc'[u] \notin {"read_decide", "write_decide", "upgrade_decide"}
    BY <1>5 DEF BecomeWaiter, Goto, TypeOK
  <2>2. PrevWriter(t)' = writing /\ PrevReaders(t)' = readers /\ writing' = writing
    BY DEF BecomeWaiter, Remember, word, PrevWriter, PrevReaders, TypeOK
  <2>3. pc'[t] = l
    BY DEF BecomeWaiter, Goto, TypeOK
  <2>4. l # "write_decide" /\ readers = 1 => Holding' = {}
    BY <1>1, WordFacts
  <2>5. l = "write_decide" /\ readers = 0 => Holding' = {}
    BY <1>1, WordFacts
  <2> QED BY <2>1, <2>2, <2>3, <2>4, <2>5 DEF DecideOK
<1>9. WakeOK'
  BY <1>5 DEF BecomeWaiter, Goto, WakeOK, wakeVars, TypeOK
<1> QED BY <1>2, <1>3, <1>4, <1>6, <1>7, <1>8, <1>9

(* A thread that decides or has woken others has the thread lock, and what  *)
(* it leaves behind when it drops it: nobody decides, nobody wakes.         *)
Deciding(t) == pc[t] \in {"read_decide", "write_decide", "upgrade_decide"}

LEMMA LeavesTlock ==
  ASSUME BrwInv, NEW t \in Threads, NEW l \in Labels, Goto(t, l), tlock' = None,
         l \in {"asleep", "reading", "writing", "idle"},
         \/ Deciding(t) /\ UNCHANGED wakeVars
         \/ /\ pc[t] = "woke"
            /\ after' = [after EXCEPT ![t] = "none"]
            /\ ownership' = [ownership EXCEPT ![t] = "Normal"]
  PROVE  TlockOK' /\ DecideOK' /\ WakeOK' /\ pc' \in [Threads -> Labels]
         /\ after' \in [Threads -> {"none", "read", "write", "release"}]
         /\ ownership' \in [Threads -> {"Normal", "Reader"}]
<1> USE BrwLockAssumption DEF BrwInv
<1>1. \A u \in Threads \ {t} :
        pc[u] \notin {"read_decide", "write_decide", "upgrade_decide", "wake", "woke"}
  BY OneInside DEF Deciding
<1>2. /\ pc' \in [Threads -> Labels]
      /\ after' \in [Threads -> {"none", "read", "write", "release"}]
      /\ ownership' \in [Threads -> {"Normal", "Reader"}]
  BY DEF Goto, wakeVars, TypeOK
<1>3. \A u \in Threads :
        pc'[u] \notin {"read_decide", "write_decide", "upgrade_decide", "wake", "woke"}
  BY <1>1 DEF Goto, TypeOK
<1>4. \A u \in Threads : ownership'[u] = "Normal"
  BY <1>1 DEF Deciding, wakeVars, WakeOK, TypeOK
<1>5. TlockOK'
  BY <1>3 DEF TlockOK
<1>6. DecideOK'
  BY <1>3 DEF DecideOK
<1>7. WakeOK'
  BY <1>3, <1>4 DEF WakeOK
<1> QED BY <1>2, <1>5, <1>6, <1>7

(* A waiter that holds the thread lock, about to decide what it becomes.    *)
Waiter(t) ==
  \/ Deciding(t) /\ UNCHANGED wakeVars
  \/ /\ pc[t] = "woke" /\ after[t] \in {"read", "write"}
     /\ after' = [after EXCEPT ![t] = "none"]
     /\ ownership' = [ownership EXCEPT ![t] = "Normal"]

LEMMA WaiterMoves ==
  ASSUME BrwInv, NEW t \in Threads, NEW l \in Labels, Waiter(t), Goto(t, l),
         l \in {"asleep", "reading", "writing"}
  PROVE  /\ t \in Waiters /\ t \notin Counted
         /\ Waiters' = IF l = "asleep" THEN Waiters ELSE Waiters \ {t}
         /\ Counted' = IF l = "reading" THEN Counted \cup {t} ELSE Counted
         /\ Holding' = IF l = "reading" THEN Holding \cup {t} ELSE Holding
         /\ Writers' = IF l = "writing" THEN Writers \cup {t} ELSE Writers
BY DEF BrwInv, TypeOK, Waiter, Deciding, Goto, wakeVars, Waiters, Counted, Holding,
   Writers

(* r is q with e put in at place i.                                         *)
Inserted(r, q, i, e) ==
  /\ DOMAIN r = 1 .. Len(q) + 1
  /\ \A j \in 1 .. Len(q) + 1 :
       /\ j < i => r[j] = q[j]
       /\ j = i => r[j] = e
       /\ j > i => r[j] = q[j - 1]

LEMMA InsertFacts ==
  ASSUME NEW R, NEW q \in Seq(R), NEW e \in R, NEW i \in 1 .. Len(q) + 1
  PROVE  /\ InsertAt(q, i, e) \in Seq(R)
         /\ Inserted(InsertAt(q, i, e), q, i, e)
<1> DEFINE a == SubSeq(q, 1, i - 1)
           b == SubSeq(q, i, Len(q))
           c == a \o <<e>>
<1>0. Len(q) \in Nat /\ i \in Int /\ 1 <= i /\ i <= Len(q) + 1
  OBVIOUS
<1>1. a \in Seq(R) /\ Len(a) = i - 1 /\ \A j \in 1 .. i - 1 : a[j] = q[j]
  BY <1>0
<1>2. b \in Seq(R) /\ Len(b) = Len(q) + 1 - i
      /\ \A j \in 1 .. Len(q) + 1 - i : b[j] = q[i + j - 1]
  BY <1>0
<1>3. <<e>> \in Seq(R) /\ Len(<<e>>) = 1 /\ <<e>>[1] = e
  OBVIOUS
<1> HIDE DEF a, b
<1>4. c \in Seq(R) /\ Len(c) = i
      /\ \A j \in 1 .. i : c[j] = IF j < i THEN q[j] ELSE e
  BY <1>0, <1>1, <1>3
<1> HIDE DEF c
<1>5. c \o b \in Seq(R) /\ Len(c \o b) = Len(q) + 1
      /\ \A j \in 1 .. Len(q) + 1 :
           (c \o b)[j] = IF j <= i THEN c[j] ELSE b[j - i]
  <2>1. /\ c \o b \in Seq(R) /\ Len(c \o b) = Len(c) + Len(b)
        /\ \A j \in 1 .. Len(c) + Len(b) :
             (c \o b)[j] = IF j <= Len(c) THEN c[j] ELSE b[j - Len(c)]
    BY <1>2, <1>4, ConcatProperties
  <2>2. Len(c) = i /\ Len(c) + Len(b) = Len(q) + 1
    BY <1>0, <1>2, <1>4
  <2> QED BY <2>1, <2>2
<1> DEFINE d == c \o b
<1>6. InsertAt(q, i, e) = d
  BY DEF InsertAt, a, b, c
<1>7. d \in Seq(R) /\ DOMAIN d = 1 .. Len(q) + 1
      /\ \A j \in 1 .. Len(q) + 1 : d[j] = IF j <= i THEN c[j] ELSE b[j - i]
  BY <1>5
<1> HIDE DEF d
<1>8. \A j \in 1 .. Len(q) + 1 :
        /\ j < i => d[j] = q[j]
        /\ j = i => d[j] = e
        /\ j > i => d[j] = q[j - 1]
  <2> SUFFICES ASSUME NEW j \in 1 .. Len(q) + 1
               PROVE  /\ j < i => d[j] = q[j]
                      /\ j = i => d[j] = e
                      /\ j > i => d[j] = q[j - 1]
    OBVIOUS
  <2>1. CASE j <= i
    BY <1>0, <1>4, <1>7, <2>1
  <2>2. CASE j > i
    <3>1. j - i \in 1 .. Len(q) + 1 - i /\ i + (j - i) - 1 = j - 1
      BY <1>0, <2>2
    <3>2. b[j - i] = q[i + (j - i) - 1]
      BY <1>2, <3>1
    <3> QED BY <1>0, <1>7, <2>2, <3>1, <3>2
  <2> QED BY <1>0, <2>1, <2>2
<1> QED BY <1>6, <1>7, <1>8 DEF Inserted

LEMMA BlockInv ==
  ASSUME BrwInv, NEW t \in Threads, NEW write \in BOOLEAN, Block(t, write), Waiter(t)
  PROVE  BrwInv'
<1> USE BrwLockAssumption DEF BrwInv
<1> DEFINE R == [thread : Threads, write : BOOLEAN]
           e == [thread |-> t, write |-> write]
<1>1. PICK i \in 1 .. Len(queue) + 1 : queue' = InsertAt(queue, i, e)
  BY DEF Block
<1> HIDE DEF R, e
<1>2. e \in R /\ queue \in Seq(R) /\ e.thread = t
  BY DEF TypeOK, R, e
<1>3. /\ queue' \in Seq(R)
      /\ DOMAIN queue' = 1 .. Len(queue) + 1
      /\ \A j \in 1 .. Len(queue) + 1 :
           /\ j < i => queue'[j] = queue[j]
           /\ j = i => queue'[j] = e
           /\ j > i => queue'[j] = queue[j - 1]
  <2>1. InsertAt(queue, i, e) \in Seq(R) /\ Inserted(InsertAt(queue, i, e), queue, i, e)
    BY <1>2, InsertFacts
  <2> QED BY <1>1, <2>1 DEF Inserted
<1>4. Goto(t, "asleep") /\ "asleep" \in Labels /\ tlock' = None
  BY DEF Block, Labels
<1>5. /\ Waiters' = Waiters /\ Counted' = Counted /\ Holding' = Holding
      /\ Writers' = Writers
  BY <1>4, WaiterMoves
<1>6. /\ TlockOK' /\ DecideOK' /\ WakeOK' /\ pc' \in [Threads -> Labels]
      /\ after' \in [Threads -> {"none", "read", "write", "release"}]
      /\ ownership' \in [Threads -> {"Normal", "Reader"}]
  BY <1>4, LeavesTlock DEF Waiter
<1>7. TypeOK'
  <2>1. prev' \in [Threads -> Nat \X Nat \X BOOLEAN]
    BY DEF Block, Forget, Unlocked, TypeOK
  <2> QED BY <1>3, <1>6, <2>1 DEF Block, word, TypeOK, R
<1>8. CountsOK' /\ ExclusionOK'
  BY <1>5 DEF Block, word, CountsOK, ExclusionOK
<1>9. QueueOK'
  <2>1. Len(queue) \in Nat /\ DOMAIN queue = 1 .. Len(queue)
    BY QueueFacts
  <2>2. \A j \in DOMAIN queue : queue[j].thread # t
    BY DEF Waiter, Deciding, QueueOK
  <2>3. pc'[t] = "asleep" /\ \A u \in Threads \ {t} : pc'[u] = pc[u]
    BY <1>4 DEF Goto, TypeOK
  <2>4. \A j \in DOMAIN queue : pc'[queue[j].thread] = "asleep"
    BY <2>2, <2>3, QueueFacts DEF QueueOK
  <2>5. \A j \in DOMAIN queue' :
          \/ j < i /\ j \in DOMAIN queue
          \/ j = i
          \/ j > i /\ j - 1 \in DOMAIN queue
    <3>1. i \in Int /\ 1 <= i /\ i <= Len(queue) + 1
      BY <2>1
    <3> QED BY <1>3, <2>1, <3>1
  <2>6. \A j \in DOMAIN queue' : pc'[queue'[j].thread] = "asleep"
    BY <1>2, <1>3, <2>3, <2>4, <2>5
  <2>7. ASSUME NEW j \in DOMAIN queue', NEW k \in DOMAIN queue',
               queue'[j].thread = queue'[k].thread
        PROVE  j = k
    <3>1. \A m, n \in DOMAIN queue : queue[m].thread = queue[n].thread => m = n
      BY DEF QueueOK
    <3>2. i \in Int /\ j \in Int /\ k \in Int
      BY <1>3, <2>1
    <3>3. CASE j < i
      BY <1>2, <1>3, <2>1, <2>2, <2>5, <2>7, <3>1, <3>2, <3>3
    <3>4. CASE j = i
      BY <1>2, <1>3, <2>2, <2>5, <2>7, <3>4
    <3>5. CASE j > i
      <4>1. j - 1 \in DOMAIN queue /\ queue'[j] = queue[j - 1]
        BY <1>3, <2>5, <3>2, <3>5
      <4>2. k # i
        BY <1>2, <1>3, <2>2, <2>7, <4>1
      <4>3. CASE k < i
        <5>1. k \in DOMAIN queue /\ queue'[k] = queue[k]
          BY <1>3, <2>5, <3>2, <4>3
        <5>2. j - 1 = k
          BY <2>7, <3>1, <4>1, <5>1
        <5> QED BY <3>2, <3>5, <4>3, <5>2
      <4>4. CASE k > i
        <5>1. k - 1 \in DOMAIN queue /\ queue'[k] = queue[k - 1]
          BY <1>3, <2>5, <3>2, <4>4
        <5>2. j - 1 = k - 1
          BY <2>7, <3>1, <4>1, <5>1
        <5> QED BY <3>2, <5>2
      <4> QED BY <3>2, <4>2, <4>3, <4>4
    <3> QED BY <3>2, <3>3, <3>4, <3>5
  <2> QED BY <2>6, <2>7 DEF QueueOK
<1> QED BY <1>6, <1>7, <1>8, <1>9

LEMMA JoinReadersInv ==
  ASSUME BrwInv, NEW t \in Threads, JoinReaders(t), Waiter(t), ~writing
  PROVE  BrwInv' /\ Writers = {}
<1> USE BrwLockAssumption DEF BrwInv
<1>1. Goto(t, "reading") /\ "reading" \in Labels /\ tlock' = None
  BY DEF JoinReaders, Labels
<1>2. /\ t \in Waiters /\ t \notin Counted /\ Waiters' = Waiters \ {t}
      /\ Counted' = Counted \cup {t} /\ Holding' = Holding \cup {t}
      /\ Writers' = Writers
  BY <1>1, WaiterMoves
<1>3. /\ TlockOK' /\ DecideOK' /\ WakeOK' /\ pc' \in [Threads -> Labels]
      /\ after' \in [Threads -> {"none", "read", "write", "release"}]
      /\ ownership' \in [Threads -> {"Normal", "Reader"}]
  BY <1>1, LeavesTlock DEF Waiter
<1>4. CountsOK'
  <2>1. IsFiniteSet(Waiters') /\ Cardinality(Waiters') = Cardinality(Waiters) - 1
    BY <1>2, Removed DEF CountsOK
  <2>2. IsFiniteSet(Counted') /\ Cardinality(Counted') = Cardinality(Counted) + 1
    BY <1>2, Added DEF CountsOK
  <2>3. Cardinality(Waiters) \in Nat
    BY FS_CardinalityType DEF CountsOK
  <2> QED BY <2>1, <2>2, <2>3 DEF JoinReaders, Add, CountsOK
<1>5. TypeOK'
  <2>1. prev' \in [Threads -> Nat \X Nat \X BOOLEAN]
    BY DEF JoinReaders, Forget, Unlocked, TypeOK
  <2>2. readers' \in Nat /\ waiting' \in Nat
    BY <1>4, FS_CardinalityType DEF CountsOK
  <2> QED BY <1>3, <2>1, <2>2 DEF JoinReaders, TypeOK
<1>6. Writers = {}
  BY DEF ExclusionOK
<1>7. ExclusionOK'
  BY <1>2, <1>6 DEF JoinReaders, ExclusionOK
<1>8. QueueOK'
  BY QueueFacts DEF Waiter, Deciding, JoinReaders, Goto, QueueOK, TypeOK
<1> QED BY <1>3, <1>4, <1>5, <1>6, <1>7, <1>8

LEMMA BecomeWriterInv ==
  ASSUME BrwInv, NEW t \in Threads, BecomeWriter(t), Waiter(t), ~writing,
         Holding = {}
  PROVE  BrwInv' /\ Writers = {}
<1> USE BrwLockAssumption DEF BrwInv
<1>1. Goto(t, "writing") /\ "writing" \in Labels /\ tlock' = None
  BY DEF BecomeWriter, Labels
<1>2. /\ t \in Waiters /\ Waiters' = Waiters \ {t} /\ Counted' = Counted
      /\ Holding' = Holding /\ Writers' = Writers \cup {t}
  BY <1>1, WaiterMoves
<1>3. /\ TlockOK' /\ DecideOK' /\ WakeOK' /\ pc' \in [Threads -> Labels]
      /\ after' \in [Threads -> {"none", "read", "write", "release"}]
      /\ ownership' \in [Threads -> {"Normal", "Reader"}]
  BY <1>1, LeavesTlock DEF Waiter
<1>4. CountsOK'
  <2>1. IsFiniteSet(Waiters') /\ Cardinality(Waiters') = Cardinality(Waiters) - 1
    BY <1>2, Removed DEF CountsOK
  <2>2. Cardinality(Waiters) \in Nat /\ Cardinality(Counted) \in Nat
    BY FS_CardinalityType DEF CountsOK
  <2> QED BY <1>2, <2>1, <2>2 DEF BecomeWriter, Add, CountsOK
<1>5. TypeOK'
  <2>1. prev' \in [Threads -> Nat \X Nat \X BOOLEAN]
    BY DEF BecomeWriter, Forget, Unlocked, TypeOK
  <2>2. readers' \in Nat /\ waiting' \in Nat
    BY <1>4, FS_CardinalityType DEF CountsOK
  <2> QED BY <1>3, <2>1, <2>2 DEF BecomeWriter, TypeOK
<1>6. Writers = {}
  BY DEF ExclusionOK
<1>7. ExclusionOK'
  BY <1>2, <1>6 DEF BecomeWriter, ExclusionOK
<1>8. QueueOK'
  BY QueueFacts DEF Waiter, Deciding, BecomeWriter, Goto, QueueOK, TypeOK
<1> QED BY <1>3, <1>4, <1>5, <1>6, <1>7, <1>8

(* Nobody but t is past the thread lock.                                    *)
LEMMA OthersOutside ==
  ASSUME TlockOK, NEW t \in Threads,
         pc[t] \in {"read_decide", "write_decide", "upgrade_decide", "wake", "woke"}
  PROVE  \A u \in Threads \ {t} :
           pc[u] \notin {"read_decide", "write_decide", "upgrade_decide", "wake", "woke"}
BY OneInside

LEMMA HeadTailFacts ==
  ASSUME TypeOK, queue # <<>>
  PROVE  /\ Head(queue) = queue[1] /\ 1 \in DOMAIN queue
         /\ Head(queue).thread \in Threads /\ Head(queue).write \in BOOLEAN
         /\ Tail(queue) \in Seq([thread : Threads, write : BOOLEAN])
         /\ \A i \in DOMAIN Tail(queue) :
              i + 1 \in DOMAIN queue /\ Tail(queue)[i] = queue[i + 1] /\ i \in Nat
<1> DEFINE R == [thread : Threads, write : BOOLEAN]
<1> HIDE DEF R
<1>1. queue \in Seq(R)
  BY DEF TypeOK, R
<1>2. /\ Head(queue) = queue[1] /\ 1 \in DOMAIN queue /\ Head(queue) \in R
      /\ Tail(queue) \in Seq(R)
      /\ \A i \in DOMAIN Tail(queue) :
           i + 1 \in DOMAIN queue /\ Tail(queue)[i] = queue[i + 1] /\ i \in Nat
  BY <1>1
<1>3. \A r \in R : r.thread \in Threads /\ r.write \in BOOLEAN
  BY DEF R
<1> QED BY <1>2, <1>3 DEF R

(* The head of the queue leaves it.                                         *)
LEMMA DequeueQueueOK ==
  ASSUME TypeOK, QueueOK, queue # <<>>, queue' = Tail(queue),
         NEW t \in Threads, pc[t] # "asleep",
         \A u \in Threads \ {t, Head(queue).thread} : pc'[u] = pc[u]
  PROVE  QueueOK'
<1>1. \A i \in DOMAIN Tail(queue) :
        i + 1 \in DOMAIN queue /\ Tail(queue)[i] = queue[i + 1] /\ i \in Nat
  BY HeadTailFacts
<1>2. ASSUME NEW i \in DOMAIN Tail(queue)
      PROVE  pc'[Tail(queue)[i].thread] = "asleep"
  <2>1. i + 1 \in DOMAIN queue /\ Tail(queue)[i] = queue[i + 1] /\ i + 1 # 1
    BY <1>1, <1>2
  <2>2. queue[i + 1].thread \in Threads /\ pc[queue[i + 1].thread] = "asleep"
    BY <2>1, QueueFacts DEF QueueOK
  <2>3. queue[i + 1].thread # queue[1].thread
    BY <2>1, HeadTailFacts DEF QueueOK
  <2>4. queue[i + 1].thread # t /\ Head(queue).thread = queue[1].thread
    BY <2>2, HeadTailFacts
  <2> QED BY <2>1, <2>2, <2>3, <2>4
<1>3. ASSUME NEW i \in DOMAIN Tail(queue), NEW j \in DOMAIN Tail(queue),
             Tail(queue)[i].thread = Tail(queue)[j].thread
      PROVE  i = j
  <2>1. i + 1 = j + 1
    BY <1>1, <1>3 DEF QueueOK
  <2> QED BY <1>1, <2>1
<1> QED BY <1>2, <1>3 DEF QueueOK

LEMMA StartWakeInv ==
  ASSUME BrwInv, NEW t \in Threads, Deciding(t), NEW next \in {"read", "write"},
         StartWake(t, next), ~writing, Holding = {}
  PROVE  BrwInv'
<1> USE DEF BrwInv
<1>1. /\ Waiters' = Waiters /\ Counted' = Counted /\ Holding' = Holding
      /\ Writers' = Writers /\ t \in Waiters
  BY DEF StartWake, Goto, Deciding, Waiters, Counted, Holding, Writers, TypeOK
<1>2. TypeOK'
  <2>1. pc' \in [Threads -> Labels]
    BY DEF StartWake, Goto, TypeOK, Labels
  <2>2. after' \in [Threads -> {"none", "read", "write", "release"}]
    BY DEF StartWake, TypeOK
  <2> QED BY <2>1, <2>2 DEF StartWake, word, TypeOK
<1>3. CountsOK' /\ ExclusionOK'
  BY <1>1 DEF StartWake, word, CountsOK, ExclusionOK
<1>4. TlockOK'
  BY DEF StartWake, Goto, Deciding, TlockOK, TypeOK
<1>5. QueueOK'
  BY QueueFacts DEF StartWake, Goto, Deciding, QueueOK, TypeOK
<1>6. \A u \in Threads \ {t} :
        pc[u] \notin {"read_decide", "write_decide", "upgrade_decide", "wake", "woke"}
  BY OthersOutside DEF Deciding
<1>7. DecideOK'
  BY <1>6 DEF StartWake, Goto, DecideOK, TypeOK
<1>8. waiting # 0
  BY <1>1, WordFacts
<1>9. WakeOK'
  <2>1. \A u \in Threads : ownership[u] = "Normal"
    BY <1>6 DEF Deciding, WakeOK
  <2> QED BY <1>1, <1>6, <1>8, <2>1 DEF StartWake, word, Goto, WakeOK, TypeOK
<1> QED BY <1>2, <1>3, <1>4, <1>5, <1>7, <1>9

LEMMA WakeWriterInv ==
  ASSUME BrwInv, NEW t \in Threads, WakeWriter(t)
  PROVE  BrwInv'
<1> USE DEF BrwInv
<1> DEFINE h == Head(queue).thread
<1>1. /\ h \in Threads /\ pc[h] = "asleep" /\ h # t /\ pc[t] = "wake"
  BY HeadTailFacts DEF WakeWriter, QueueOK
<1> HIDE DEF h
<1>2. /\ pc' = [pc EXCEPT ![h] = "woken_writer", ![t] = "woke"]
      /\ writer' = h /\ owner' = Inheritor(h)
  BY DEF WakeWriter, h
<1>3. /\ pc'[h] = "woken_writer" /\ pc'[t] = "woke"
      /\ \A u \in Threads \ {t, h} : pc'[u] = pc[u]
      /\ pc' \in [Threads -> Labels]
  BY <1>1, <1>2 DEF TypeOK, Labels
<1>4. ~writing /\ Holding = {} /\ Writers = {}
  BY DEF WakeWriter, WakeOK, ExclusionOK
<1>5. /\ Waiters' = Waiters \ {h} /\ h \in Waiters /\ Counted' = Counted
      /\ Holding' = Holding /\ Writers' = Writers \cup {h}
  BY <1>1, <1>3 DEF WakeWriter, Waiters, Counted, Holding, Writers
<1>6. CountsOK'
  <2>1. IsFiniteSet(Waiters') /\ Cardinality(Waiters') = Cardinality(Waiters) - 1
    BY <1>5, Removed DEF CountsOK
  <2>2. Cardinality(Waiters) \in Nat /\ Cardinality(Counted) \in Nat
    BY FS_CardinalityType DEF CountsOK
  <2> QED BY <1>5, <2>1, <2>2 DEF WakeWriter, Add, CountsOK
<1>7. TypeOK'
  <2>1. readers' \in Nat /\ waiting' \in Nat
    BY <1>6, FS_CardinalityType DEF CountsOK
  <2>2. queue' \in Seq([thread : Threads, write : BOOLEAN])
    BY HeadTailFacts DEF WakeWriter
  <2>3. owner' \in Threads \cup {None}
    BY <1>1, <1>2 DEF Inheritor
  <2> QED BY <1>1, <1>2, <1>3, <2>1, <2>2, <2>3 DEF WakeWriter, TypeOK
<1>8. ExclusionOK'
  BY <1>4, <1>5 DEF WakeWriter, ExclusionOK
<1>9. TlockOK'
  BY <1>1, <1>3 DEF WakeWriter, TlockOK
<1>10. QueueOK'
  <2>1. \A u \in Threads \ {t, Head(queue).thread} : pc'[u] = pc[u]
    BY <1>3 DEF h
  <2> QED BY <1>1, <2>1, DequeueQueueOK DEF WakeWriter
<1>11. \A u \in Threads \ {t} :
         pc[u] \notin {"read_decide", "write_decide", "upgrade_decide", "wake", "woke"}
  BY <1>1, OthersOutside
<1>12. DecideOK'
  BY <1>1, <1>3, <1>11 DEF DecideOK
<1>13. WakeOK'
  <2>1. \A u \in Threads : ownership'[u] = "Normal"
    BY <1>1, <1>11 DEF WakeWriter, WakeOK
  <2>2. \A u \in Threads : pc'[u] # "wake"
    BY <1>1, <1>3, <1>11
  <2> QED BY <2>1, <2>2 DEF WakeOK
<1> QED BY <1>6, <1>7, <1>8, <1>9, <1>10, <1>12, <1>13

LEMMA WakeReaderInv ==
  ASSUME BrwInv, NEW t \in Threads, WakeReader(t)
  PROVE  BrwInv'
<1> USE DEF BrwInv
<1> DEFINE h == Head(queue).thread
<1>1. /\ h \in Threads /\ pc[h] = "asleep" /\ h # t /\ pc[t] = "wake"
  BY HeadTailFacts DEF WakeReader, QueueOK
<1> HIDE DEF h
<1>2. /\ pc'[h] = "woken_reader"
      /\ \A u \in Threads \ {h} : pc'[u] = pc[u]
      /\ pc' \in [Threads -> Labels]
  BY <1>1 DEF WakeReader, h, TypeOK, Labels
<1>3. ownership[t] \in {"Normal", "Reader"}
  BY DEF TypeOK
<1>4. ~writing /\ Writers = {}
  BY <1>1, <1>3 DEF WakeOK, ExclusionOK
<1>5. /\ Waiters' = Waiters \ {h} /\ h \in Waiters
      /\ Counted' = Counted \cup {h} /\ h \notin Counted
      /\ Writers' = Writers
  BY <1>1, <1>2 DEF WakeReader, Waiters, Counted, Writers
<1>6. CountsOK'
  <2>1. IsFiniteSet(Waiters') /\ Cardinality(Waiters') = Cardinality(Waiters) - 1
    BY <1>5, Removed DEF CountsOK
  <2>2. IsFiniteSet(Counted') /\ Cardinality(Counted') = Cardinality(Counted) + 1
    BY <1>5, Added DEF CountsOK
  <2>3. Cardinality(Waiters) \in Nat
    BY FS_CardinalityType DEF CountsOK
  <2> QED BY <2>1, <2>2, <2>3 DEF WakeReader, Add, CountsOK
<1>7. TypeOK'
  <2>1. readers' \in Nat /\ waiting' \in Nat
    BY <1>6, FS_CardinalityType DEF CountsOK
  <2>2. queue' \in Seq([thread : Threads, write : BOOLEAN])
    BY HeadTailFacts DEF WakeReader
  <2>3. ownership' \in [Threads -> {"Normal", "Reader"}]
    BY DEF WakeReader, TypeOK
  <2> QED BY <1>2, <2>1, <2>2, <2>3 DEF WakeReader, TypeOK
<1>8. ExclusionOK'
  BY <1>4, <1>5 DEF WakeReader, ExclusionOK
<1>9. TlockOK'
  BY <1>1, <1>2 DEF WakeReader, TlockOK
<1>10. QueueOK'
  <2>1. \A u \in Threads \ {t, Head(queue).thread} : pc'[u] = pc[u]
    BY <1>2 DEF h
  <2> QED BY <1>1, <2>1, DequeueQueueOK DEF WakeReader
<1>11. \A u \in Threads \ {t} :
         pc[u] \notin {"read_decide", "write_decide", "upgrade_decide", "wake", "woke"}
  BY <1>1, OthersOutside
<1>12. DecideOK'
  BY <1>1, <1>2, <1>11 DEF DecideOK
<1>13. WakeOK'
  <2>1. ownership'[t] = "Reader" /\ \A u \in Threads \ {t} : ownership'[u] = "Normal"
    BY <1>11 DEF WakeReader, WakeOK, TypeOK
  <2>2. \A u \in Threads \ {t} : pc'[u] # "wake"
    BY <1>2, <1>11
  <2>3. pc'[t] = "wake"
    BY <1>1, <1>2
  <2>4. ~writing' /\ \E u \in Threads : pc'[u] = "woken_reader"
    BY <1>1, <1>2, <1>4 DEF WakeReader
  <2> QED BY <2>1, <2>2, <2>3, <2>4 DEF WakeOK
<1> QED BY <1>6, <1>7, <1>8, <1>9, <1>10, <1>12, <1>13

LEMMA WakeDoneInv ==
  ASSUME BrwInv, NEW t \in Threads, WakeDone(t)
  PROVE  BrwInv'
<1> USE DEF BrwInv
<1>1. /\ Waiters' = Waiters /\ Counted' = Counted /\ Holding' = Holding
      /\ Writers' = Writers
  BY DEF WakeDone, Goto, Waiters, Counted, Holding, Writers, TypeOK
<1>2. TypeOK'
  <2>1. pc' \in [Threads -> Labels]
    BY DEF WakeDone, Goto, TypeOK, Labels
  <2> QED BY <2>1 DEF WakeDone, word, TypeOK
<1>3. CountsOK' /\ ExclusionOK'
  BY <1>1 DEF WakeDone, word, CountsOK, ExclusionOK
<1>4. TlockOK'
  BY DEF WakeDone, Goto, TlockOK, TypeOK
<1>5. QueueOK'
  BY QueueFacts DEF WakeDone, Goto, QueueOK, TypeOK
<1>6. DecideOK'
  BY <1>1 DEF WakeDone, word, Goto, DecideOK, PrevWriter, PrevReaders, TypeOK
<1>7. WakeOK'
  BY <1>1 DEF WakeDone, word, Goto, WakeOK, TypeOK
<1> QED BY <1>2, <1>3, <1>4, <1>5, <1>6, <1>7

(* The caller of Wake that has given the lock back.                         *)
LEMMA WokenLeavesInv ==
  ASSUME BrwInv, NEW t \in Threads, pc[t] = "woke", after[t] = "release",
         tlock' = None, Goto(t, "idle"),
         UNCHANGED <<word, writer, queue, owner, prev>>,
         after' = [after EXCEPT ![t] = "none"],
         ownership' = [ownership EXCEPT ![t] = "Normal"]
  PROVE  BrwInv'
<1> USE BrwLockAssumption DEF BrwInv
<1>1. /\ Waiters' = Waiters /\ Counted' = Counted /\ Holding' = Holding
      /\ Writers' = Writers
  BY DEF Goto, Waiters, Counted, Holding, Writers, TypeOK
<1>2. "idle" \in Labels
  BY DEF Labels
<1>3. /\ TlockOK' /\ DecideOK' /\ WakeOK' /\ pc' \in [Threads -> Labels]
      /\ after' \in [Threads -> {"none", "read", "write", "release"}]
      /\ ownership' \in [Threads -> {"Normal", "Reader"}]
  BY <1>2, LeavesTlock
<1>4. TypeOK'
  BY <1>3 DEF word, TypeOK
<1>5. CountsOK' /\ ExclusionOK'
  BY <1>1 DEF word, CountsOK, ExclusionOK
<1>6. QueueOK'
  BY QueueFacts DEF Goto, QueueOK, TypeOK
<1> QED BY <1>3, <1>4, <1>5, <1>6

LEMMA ResumeInv ==
  ASSUME BrwInv, NEW t \in Threads, Resume(t)
  PROVE  /\ BrwInv'
         /\ pc[t] = "woken_writer" => Writers = {t} /\ Holding = {}
         /\ pc[t] = "woken_reader" => Writers = {}
<1> USE BrwLockAssumption DEF BrwInv
<1>1. /\ Waiters' = Waiters /\ Counted' = Counted /\ Holding' = Holding
      /\ Writers' = Writers
  BY DEF Resume, Goto, Waiters, Counted, Holding, Writers, wakeVars, TypeOK
<1>2. TypeOK'
  <2>1. pc' \in [Threads -> Labels]
    BY DEF Resume, Goto, TypeOK, Labels
  <2> QED BY <2>1 DEF Resume, word, wakeVars, TypeOK
<1>3. CountsOK' /\ ExclusionOK'
  BY <1>1 DEF Resume, word, CountsOK, ExclusionOK
<1>4. \A u \in Threads :
        pc[u] \notin {"read_decide", "write_decide", "upgrade_decide", "wake", "woke"}
  BY DEF Resume, TlockOK
<1>5. \A u \in Threads :
        pc'[u] \notin {"read_decide", "write_decide", "upgrade_decide", "wake", "woke"}
  BY <1>4 DEF Resume, Goto, TypeOK
<1>6. TlockOK'
  BY <1>5 DEF Resume, TlockOK
<1>7. QueueOK'
  BY QueueFacts DEF Resume, Goto, QueueOK, TypeOK
<1>8. DecideOK'
  BY <1>5 DEF DecideOK
<1>9. WakeOK'
  BY <1>4, <1>5 DEF Resume, wakeVars, WakeOK
<1>10. /\ pc[t] = "woken_writer" => Writers = {t} /\ Holding = {}
       /\ pc[t] = "woken_reader" => Writers = {}
  BY DEF ExclusionOK, Writers, Holding
<1> QED BY <1>2, <1>3, <1>6, <1>7, <1>8, <1>9, <1>10

LEMMA ReadReleaseInv ==
  ASSUME BrwInv, NEW t \in Threads, ReadRelease(t)
  PROVE  BrwInv'
<1> USE DEF BrwInv
<1>1. /\ Counted' = Counted \ {t} /\ t \in Counted /\ Waiters' = Waiters
      /\ Writers' = Writers /\ Holding' = Holding \ {t}
  BY DEF ReadRelease, Goto, Counted, Waiters, Writers, Holding, wakeVars, TypeOK
<1>2. CountsOK'
  <2>1. IsFiniteSet(Counted') /\ Cardinality(Counted') = Cardinality(Counted) - 1
    BY <1>1, Removed DEF CountsOK
  <2>2. Cardinality(Waiters) \in Nat /\ Cardinality(Counted) \in Nat
    BY FS_CardinalityType DEF CountsOK
  <2> QED BY <1>1, <2>1, <2>2 DEF ReadRelease, Add, CountsOK
<1>3. TypeOK'
  <2>1. pc' \in [Threads -> Labels]
    BY DEF ReadRelease, Goto, TypeOK, Labels
  <2>2. readers' \in Nat /\ waiting' \in Nat
    BY <1>2, FS_CardinalityType DEF CountsOK
  <2> QED BY <2>1, <2>2 DEF ReadRelease, wakeVars, TypeOK
<1>4. ExclusionOK'
  BY <1>1 DEF ReadRelease, ExclusionOK
<1>5. TlockOK'
  BY DEF ReadRelease, Goto, TlockOK, TypeOK
<1>6. QueueOK'
  BY QueueFacts DEF ReadRelease, Goto, QueueOK, TypeOK
<1>7. DecideOK'
  BY <1>1 DEF ReadRelease, Goto, DecideOK, PrevWriter, PrevReaders, TypeOK
<1>8. WakeOK'
  <2>1. waiting' = waiting
    BY DEF ReadRelease, Add, TypeOK
  <2> QED BY <1>1, <2>1 DEF ReadRelease, Goto, wakeVars, WakeOK, TypeOK
<1> QED BY <1>2, <1>3, <1>4, <1>5, <1>6, <1>7, <1>8

LEMMA WriteReleaseWordInv ==
  ASSUME BrwInv, NEW t \in Threads, WriteReleaseWord(t)
  PROVE  BrwInv'
<1> USE DEF BrwInv
<1>1. Writers = {t}
  BY DEF WriteReleaseWord, Writers, ExclusionOK
<1>2. /\ Counted' = Counted /\ Waiters' = Waiters
      /\ Writers' = {} /\ Holding' = Holding
  BY <1>1 DEF WriteReleaseWord, Goto, Counted, Waiters, Writers, Holding, wakeVars,
     TypeOK
<1>3. CountsOK'
  BY <1>2 DEF WriteReleaseWord, CountsOK
<1>4. TypeOK'
  <2>1. pc' \in [Threads -> Labels]
    BY DEF WriteReleaseWord, Goto, TypeOK, Labels
  <2> QED BY <2>1 DEF WriteReleaseWord, wakeVars, TypeOK
<1>5. ExclusionOK'
  BY <1>2 DEF WriteReleaseWord, ExclusionOK
<1>6. TlockOK'
  BY DEF WriteReleaseWord, Goto, TlockOK, TypeOK
<1>7. QueueOK'
  BY QueueFacts DEF WriteReleaseWord, Goto, QueueOK, TypeOK
<1>8. DecideOK'
  BY <1>2 DEF WriteReleaseWord, Goto, DecideOK, PrevWriter, PrevReaders, TypeOK
<1>9. WakeOK'
  BY <1>2 DEF WriteReleaseWord, Goto, wakeVars, WakeOK, TypeOK
<1> QED BY <1>3, <1>4, <1>5, <1>6, <1>7, <1>8, <1>9

LEMMA ReleaseWakeupInv ==
  ASSUME BrwInv, NEW t \in Threads, ReleaseWakeup(t)
  PROVE  BrwInv'
<1> USE BrwLockAssumption DEF BrwInv
<1>1. CASE waiting # 0 /\ ~writing /\ readers = 0
  <2>0. /\ pc[t] = "release" /\ tlock = None /\ tlock' = t
        /\ pc' = [pc EXCEPT ![t] = "wake"]
        /\ after' = [after EXCEPT ![t] = "release"]
        /\ UNCHANGED <<word, writer, queue, owner, prev, ownership>>
    BY <1>1 DEF ReleaseWakeup, Goto
  <2>1. /\ Waiters' = Waiters /\ Counted' = Counted /\ Holding' = Holding
        /\ Writers' = Writers
    BY <2>0 DEF Waiters, Counted, Holding, Writers, TypeOK
  <2>2. TypeOK'
    <3>1. pc' \in [Threads -> Labels]
      BY <2>0 DEF TypeOK, Labels
    <3>2. after' \in [Threads -> {"none", "read", "write", "release"}]
      BY <2>0 DEF TypeOK
    <3> QED BY <2>0, <3>1, <3>2 DEF word, TypeOK
  <2>3. CountsOK' /\ ExclusionOK'
    BY <2>0, <2>1 DEF word, CountsOK, ExclusionOK
  <2>4. \A u \in Threads :
          pc[u] \notin {"read_decide", "write_decide", "upgrade_decide", "wake", "woke"}
    BY <2>0 DEF TlockOK
  <2>5. TlockOK'
    BY <2>0, <2>4 DEF TlockOK, TypeOK
  <2>6. QueueOK'
    BY <2>0, QueueFacts DEF QueueOK, TypeOK
  <2>7. DecideOK'
    BY <2>0, <2>4 DEF DecideOK, TypeOK
  <2>8. Holding = {}
    BY <1>1, WordFacts
  <2>9. WakeOK'
    <3>1. \A u \in Threads : ownership'[u] = "Normal"
      BY <2>0, <2>4 DEF WakeOK
    <3> QED BY <1>1, <2>0, <2>1, <2>4, <2>8, <3>1 DEF word, WakeOK, TypeOK
  <2> QED BY <2>2, <2>3, <2>5, <2>6, <2>7, <2>9
<1>2. CASE ~(waiting # 0 /\ ~writing /\ readers = 0)
  <2>1. /\ pc[t] = "release" /\ Goto(t, "idle") /\ "idle" \in Labels
        /\ UNCHANGED <<word, writer, queue, owner, tlock, prev, wakeVars>>
    BY <1>2 DEF ReleaseWakeup, wakeVars, Labels
  <2>2. writer' \in Threads \cup {None}
    BY <2>1 DEF TypeOK
  <2> QED BY <2>1, <2>2, LabelInv
<1> QED BY <1>1, <1>2
-----------------------------------------------------------------------------
(* The steps that decide, and what they may do.                             *)
LEMMA ReadDecideCases ==
  ASSUME BrwInv, NEW t \in Threads, ReadDecide(t)
  PROVE  /\ Deciding(t)
         /\ \/ StartWake(t, "read") /\ ~writing /\ Holding = {}
            \/ JoinReaders(t) /\ Waiter(t) /\ ~writing
            \/ Block(t, FALSE) /\ Waiter(t)
<1>1. CASE ~PrevWriter(t) /\ PrevWaiters(t) # 0 /\ OnlyReader(t)
  BY <1>1 DEF ReadDecide, BrwInv, DecideOK, OnlyReader, Deciding
<1>2. CASE ~(~PrevWriter(t) /\ PrevWaiters(t) # 0 /\ OnlyReader(t))
  BY <1>2 DEF ReadDecide, BrwInv, DecideOK, Deciding, Waiter, wakeVars
<1> QED BY <1>1, <1>2

LEMMA WriteDecideCases ==
  ASSUME BrwInv, NEW t \in Threads, WriteDecide(t)
  PROVE  /\ Deciding(t)
         /\ \/ StartWake(t, "write") /\ ~writing /\ Holding = {}
            \/ BecomeWriter(t) /\ Waiter(t) /\ ~writing /\ Holding = {}
            \/ Block(t, TRUE) /\ Waiter(t)
<1>1. CASE ~PrevWriter(t) /\ PrevReaders(t) = 0 /\ PrevWaiters(t) # 0
  BY <1>1 DEF WriteDecide, BrwInv, DecideOK, Deciding
<1>2. CASE ~(~PrevWriter(t) /\ PrevReaders(t) = 0 /\ PrevWaiters(t) # 0)
  BY <1>2 DEF WriteDecide, BrwInv, DecideOK, Deciding, Waiter, wakeVars
<1> QED BY <1>1, <1>2

LEMMA UpgradeDecideCases ==
  ASSUME BrwInv, NEW t \in Threads, UpgradeDecide(t)
  PROVE  /\ Deciding(t) /\ Waiter(t)
         /\ \/ BecomeWriter(t) /\ ~writing /\ Holding = {}
            \/ Block(t, TRUE)
BY DEF UpgradeDecide, CanUpgrade, BrwInv, DecideOK, Deciding, Waiter, wakeVars

LEMMA AfterWakeCases ==
  ASSUME BrwInv, NEW t \in Threads, AfterWake(t)
  PROVE  /\ pc[t] = "woke"
         /\ \/ JoinReaders(t) /\ Waiter(t) /\ ~writing
            \/ \E write \in BOOLEAN : Block(t, write) /\ Waiter(t)
            \/ /\ after[t] = "release" /\ tlock' = None /\ Goto(t, "idle")
               /\ UNCHANGED <<word, writer, queue, owner, prev>>
               /\ after' = [after EXCEPT ![t] = "none"]
               /\ ownership' = [ownership EXCEPT ![t] = "Normal"]
BY DEF AfterWake, BrwInv, WakeOK, Waiter

(* A fast path of a writer that finds the lock taken.                       *)
LEMMA ContendedInv ==
  ASSUME BrwInv, NEW t \in Threads, NEW l \in Labels, Goto(t, l),
         \/ pc[t] = "idle" /\ l = "write_contended"
         \/ pc[t] = "reading" /\ l = "upgrade_contended",
         UNCHANGED <<word, writer>>,
         UNCHANGED <<queue, owner, tlock, prev, wakeVars>>
  PROVE  BrwInv'
<1>1. writer' \in Threads \cup {None}
  BY DEF BrwInv, TypeOK
<1> QED BY <1>1, LabelInv
-----------------------------------------------------------------------------
LEMMA InitInv == Init => BrwInv
<1> SUFFICES ASSUME Init PROVE BrwInv
  OBVIOUS
<1> USE BrwLockAssumption
<1>1. TypeOK
  <2>1. queue \in Seq([thread : Threads, write : BOOLEAN])
    BY DEF Init
  <2>2. prev \in [Threads -> Nat \X Nat \X BOOLEAN]
    BY DEF Init, Unlocked
  <2>3. pc \in [Threads -> Labels]
    BY DEF Init, Labels
  <2> QED BY <2>1, <2>2, <2>3 DEF Init, TypeOK
<1>2. Counted = {} /\ Holding = {} /\ Waiters = {} /\ Writers = {}
  BY DEF Init, Counted, Holding, Waiters, Writers
<1>3. CountsOK /\ ExclusionOK
  BY <1>2, FS_EmptySet DEF Init, CountsOK, ExclusionOK
<1>4. TlockOK /\ QueueOK /\ DecideOK /\ WakeOK
  BY DEF Init, TlockOK, QueueOK, DecideOK, WakeOK
<1> QED BY <1>1, <1>3, <1>4 DEF BrwInv

LEMMA StepInv ==
  ASSUME BrwInv, [Next]_vars
  PROVE  BrwInv'
<1>1. CASE UNCHANGED vars
  BY <1>1 DEF vars, word, wakeVars, BrwInv, TypeOK, CountsOK, ExclusionOK, TlockOK,
     QueueOK, DecideOK, WakeOK, Counted, Holding, Waiters, Writers, PrevReaders,
     PrevWriter
<1>2. CASE Next
  <2>1. PICK t \in Threads :
          ReadAcquire(t) \/ WriteAcquire(t) \/ ReadUpgrade(t) \/ Release(t) \/ InCall(t)
    BY <1>2 DEF Next
  <2>2. CASE ReadAcquire(t)
    BY <2>2, ReadAcquireInv
  <2>3. CASE WriteAcquire(t)
    <3>1. "write_contended" \in Labels
      BY DEF Labels
    <3> QED BY <2>3, <3>1, WriteNowInv, ContendedInv DEF WriteAcquire
  <2>4. CASE ReadUpgrade(t)
    <3>1. "upgrade_contended" \in Labels
      BY DEF Labels
    <3> QED BY <2>4, <3>1, WriteNowInv, ContendedInv DEF ReadUpgrade
  <2>5. CASE ReadRelease(t)
    BY <2>5, ReadReleaseInv
  <2>6. CASE WriteRelease(t)
    <3>1. "write_release" \in Labels /\ writer' \in Threads \cup {None}
      BY <2>6 DEF WriteRelease, Labels
    <3> QED BY <2>6, <3>1, LabelInv DEF WriteRelease
  <2>7. CASE ContendedReadAcquire(t)
    <3>1. -1 \in Int /\ "read_decide" \in Labels
      BY DEF Labels
    <3> QED BY <2>7, <3>1, BecomeWaiterInv DEF ContendedReadAcquire
  <2>8. CASE ContendedWriteAcquire(t)
    <3>1. 0 \in Int /\ "write_decide" \in Labels
      BY DEF Labels
    <3> QED BY <2>8, <3>1, BecomeWaiterInv DEF ContendedWriteAcquire
  <2>9. CASE ContendedReadUpgrade(t)
    <3>1. -1 \in Int /\ "upgrade_decide" \in Labels
      BY DEF Labels
    <3> QED BY <2>9, <3>1, BecomeWaiterInv DEF ContendedReadUpgrade
  <2>10. CASE ReadDecide(t)
    BY <2>10, ReadDecideCases, StartWakeInv, JoinReadersInv, BlockInv
  <2>11. CASE WriteDecide(t)
    BY <2>11, WriteDecideCases, StartWakeInv, BecomeWriterInv, BlockInv
  <2>12. CASE UpgradeDecide(t)
    BY <2>12, UpgradeDecideCases, BecomeWriterInv, BlockInv
  <2>13. CASE WakeWriter(t)
    BY <2>13, WakeWriterInv
  <2>14. CASE WakeReader(t)
    BY <2>14, WakeReaderInv
  <2>15. CASE WakeDone(t)
    BY <2>15, WakeDoneInv
  <2>16. CASE AfterWake(t)
    BY <2>16, AfterWakeCases, JoinReadersInv, BlockInv, WokenLeavesInv
  <2>17. CASE Resume(t)
    BY <2>17, ResumeInv
  <2>18. CASE WriteReleaseWord(t)
    BY <2>18, WriteReleaseWordInv
  <2>19. CASE ReleaseWakeup(t)
    BY <2>19, ReleaseWakeupInv
  <2> QED BY <2>1, <2>2, <2>3, <2>4, <2>5, <2>6, <2>7, <2>8, <2>9, <2>10, <2>11,
             <2>12, <2>13, <2>14, <2>15, <2>16, <2>17, <2>18, <2>19
          DEF Release, InCall
<1> QED BY <1>1, <1>2

(* The word counts exactly the threads that are in the lock or on their way *)
(* into it, a writer is alone, the queue holds every sleeper once, and a    *)
(* thread decides and wakes on grounds that still hold.                     *)
THEOREM BrwInvariant == Spec => []BrwInv
BY InitInv, StepInv, PTL DEF Spec

(* Every variable of the lock keeps its type; in particular neither field   *)
(* of the word is ever counted below zero.                                  *)
THEOREM BrwTypeCorrect == Spec => []TypeOK
<1>1. BrwInv => TypeOK
  BY DEF BrwInv
<1> QED BY <1>1, BrwInvariant, PTL
-----------------------------------------------------------------------------
(* The threads inside are among those the word keeps others out for.        *)
LEMMA InsideFacts == Reading \subseteq Holding /\ Writing \subseteq Writers
BY DEF Reading, Writing, Holding, Writers

LEMMA RefineStutter ==
  ASSUME BrwInv, NEW t \in Threads, NEW l, Goto(t, l),
         pc[t] \notin {"reading", "upgrade_contended", "writing"},
         l \notin {"reading", "upgrade_contended", "writing"}
  PROVE  UNCHANGED Lock!lockVars
<1>1. Reading' = Reading /\ Writing' = Writing
  BY DEF Goto, Reading, Writing, BrwInv, TypeOK
<1> QED BY <1>1 DEF Lock!lockVars

LEMMA RefineEnterRead ==
  ASSUME BrwInv, NEW t \in Threads, Goto(t, "reading"), Writers = {},
         pc[t] \notin {"reading", "upgrade_contended", "writing"}
  PROVE  Lock!EnterRead(t)
<1>1. /\ Reading' = Reading \cup {t} /\ Writing' = Writing /\ t \notin Reading
      /\ Writing = {}
  BY InsideFacts DEF Goto, Reading, Writing, BrwInv, TypeOK
<1> QED BY <1>1 DEF Lock!EnterRead

LEMMA RefineEnterWrite ==
  ASSUME BrwInv, NEW t \in Threads, Goto(t, "writing"),
         Writers \subseteq {t}, Holding = {}, pc[t] # "writing"
  PROVE  Lock!EnterWrite(t)
<1>1. Reading = {} /\ Writing = {}
  BY InsideFacts DEF Writing
<1>2. Reading' = {} /\ Writing' = {t}
  BY <1>1 DEF Goto, Reading, Writing, BrwInv, TypeOK
<1> QED BY <1>1, <1>2 DEF Lock!EnterWrite

LEMMA RefineLeaveRead ==
  ASSUME BrwInv, NEW t \in Threads, NEW l, Goto(t, l),
         pc[t] \in {"reading", "upgrade_contended"},
         l \notin {"reading", "upgrade_contended", "writing"}
  PROVE  Lock!LeaveRead(t)
<1>1. Reading' = Reading \ {t} /\ Writing' = Writing /\ t \in Reading
  BY DEF Goto, Reading, Writing, BrwInv, TypeOK
<1> QED BY <1>1 DEF Lock!LeaveRead

LEMMA StepRefines ==
  ASSUME BrwInv, [Next]_vars
  PROVE  [Lock!Next]_(Lock!lockVars)
<1>1. CASE UNCHANGED vars
  BY <1>1 DEF vars, Reading, Writing, Lock!lockVars
<1>2. CASE Next
  <2>1. PICK t \in Threads :
          ReadAcquire(t) \/ WriteAcquire(t) \/ ReadUpgrade(t) \/ Release(t) \/ InCall(t)
    BY <1>2 DEF Next
  <2>2. SUFFICES \/ UNCHANGED Lock!lockVars
                 \/ Lock!EnterRead(t) \/ Lock!EnterWrite(t) \/ Lock!LeaveRead(t)
                 \/ Lock!LeaveWrite(t) \/ Lock!Upgrade(t)
    BY DEF Lock!Next
  <2>3. CASE ReadAcquire(t)
    <3>1. CASE waiting = 0 /\ ~writing
      <4>1. Writers = {} /\ pc[t] = "idle" /\ Goto(t, "reading")
        BY <2>3, <3>1 DEF ReadAcquire, BrwInv, ExclusionOK
      <4> QED BY <4>1, RefineEnterRead
    <3>2. CASE ~(waiting = 0 /\ ~writing)
      <4>1. pc[t] = "idle" /\ Goto(t, "read_contended")
        BY <2>3, <3>2 DEF ReadAcquire
      <4> QED BY <4>1, RefineStutter
    <3> QED BY <3>1, <3>2
  <2>4. CASE WriteAcquire(t)
    <3>1. CASE WriteNow(t, Unlocked) /\ Goto(t, "writing")
      <4>1. pc[t] = "idle" /\ Writers = {} /\ Holding = {}
        BY <2>4, <3>1, WriteNowInv DEF WriteAcquire
      <4> QED BY <3>1, <4>1, RefineEnterWrite
    <3>2. CASE Goto(t, "write_contended")
      BY <2>4, <3>2, RefineStutter DEF WriteAcquire
    <3> QED BY <2>4, <3>1, <3>2 DEF WriteAcquire
  <2>5. CASE ReadUpgrade(t)
    <3>1. CASE WriteNow(t, OneReader) /\ Goto(t, "writing")
      <4>1. pc[t] = "reading" /\ Writers = {} /\ Holding = {t}
        BY <2>5, <3>1, WriteNowInv DEF ReadUpgrade
      <4>2. Reading = {t} /\ Writing = {}
        BY <4>1, InsideFacts DEF Reading
      <4>3. Reading' = {} /\ Writing' = {t}
        BY <3>1, <4>2 DEF Goto, Reading, Writing, BrwInv, TypeOK
      <4> QED BY <4>2, <4>3 DEF Lock!Upgrade
    <3>2. CASE Goto(t, "upgrade_contended")
      <4>1. Reading' = Reading /\ Writing' = Writing
        BY <2>5, <3>2 DEF ReadUpgrade, Goto, Reading, Writing, BrwInv, TypeOK
      <4> QED BY <4>1 DEF Lock!lockVars
    <3> QED BY <2>5, <3>1, <3>2 DEF ReadUpgrade
  <2>6. CASE ReadRelease(t)
    BY <2>6, RefineLeaveRead DEF ReadRelease
  <2>7. CASE WriteRelease(t)
    <3>1. Writing' = Writing \ {t} /\ Reading' = Reading /\ t \in Writing
      BY <2>7 DEF WriteRelease, Goto, Reading, Writing, BrwInv, TypeOK
    <3> QED BY <3>1 DEF Lock!LeaveWrite
  <2>8. CASE ContendedReadAcquire(t)
    BY <2>8, RefineStutter DEF ContendedReadAcquire, BecomeWaiter
  <2>9. CASE ContendedWriteAcquire(t)
    BY <2>9, RefineStutter DEF ContendedWriteAcquire, BecomeWaiter
  <2>10. CASE ContendedReadUpgrade(t)
    BY <2>10, RefineLeaveRead DEF ContendedReadUpgrade, BecomeWaiter
  <2>11. ASSUME NEW write \in BOOLEAN, Block(t, write), Deciding(t) \/ pc[t] = "woke"
         PROVE  UNCHANGED Lock!lockVars
    BY <2>11, RefineStutter DEF Block, Deciding
  <2>12. ASSUME JoinReaders(t), Waiter(t), ~writing
         PROVE  Lock!EnterRead(t)
    BY <2>12, JoinReadersInv, RefineEnterRead DEF JoinReaders, Waiter, Deciding
  <2>13. ASSUME BecomeWriter(t), Waiter(t), ~writing, Holding = {}
         PROVE  Lock!EnterWrite(t)
    BY <2>13, BecomeWriterInv, RefineEnterWrite DEF BecomeWriter, Waiter, Deciding
  <2>14. ASSUME NEW next, StartWake(t, next), Deciding(t)
         PROVE  UNCHANGED Lock!lockVars
    BY <2>14, RefineStutter DEF StartWake, Deciding
  <2>15. CASE ReadDecide(t)
    BY <2>11, <2>12, <2>14, <2>15, ReadDecideCases
  <2>16. CASE WriteDecide(t)
    BY <2>11, <2>13, <2>14, <2>16, WriteDecideCases
  <2>17. CASE UpgradeDecide(t)
    BY <2>11, <2>13, <2>17, UpgradeDecideCases
  <2>18. CASE WakeWriter(t)
    <3>1. pc[t] = "wake" /\ Head(queue).thread \in Threads
          /\ pc[Head(queue).thread] = "asleep"
      BY <2>18, HeadTailFacts DEF WakeWriter, BrwInv, QueueOK
    <3>2. Reading' = Reading /\ Writing' = Writing
      BY <2>18, <3>1 DEF WakeWriter, Reading, Writing, BrwInv, TypeOK
    <3> QED BY <3>2 DEF Lock!lockVars
  <2>19. CASE WakeReader(t)
    <3>1. Head(queue).thread \in Threads /\ pc[Head(queue).thread] = "asleep"
      BY <2>19, HeadTailFacts DEF WakeReader, BrwInv, QueueOK
    <3>2. Reading' = Reading /\ Writing' = Writing
      BY <2>19, <3>1 DEF WakeReader, Reading, Writing, BrwInv, TypeOK
    <3> QED BY <3>2 DEF Lock!lockVars
  <2>20. CASE WakeDone(t)
    BY <2>20, RefineStutter DEF WakeDone
  <2>21. CASE AfterWake(t)
    <3>1. CASE after[t] = "release" /\ Goto(t, "idle")
      BY <2>21, <3>1, RefineStutter DEF AfterWake
    <3> QED BY <2>11, <2>12, <2>21, <3>1, AfterWakeCases
  <2>22. CASE Resume(t)
    <3>1. CASE pc[t] = "woken_reader" /\ Goto(t, "reading")
      BY <2>22, <3>1, ResumeInv, RefineEnterRead
    <3>2. CASE pc[t] = "woken_writer" /\ Goto(t, "writing")
      BY <2>22, <3>2, ResumeInv, RefineEnterWrite
    <3> QED BY <2>22, <3>1, <3>2 DEF Resume
  <2>23. CASE WriteReleaseWord(t)
    BY <2>23, RefineStutter DEF WriteReleaseWord
  <2>24. CASE ReleaseWakeup(t)
    BY <2>24, RefineStutter DEF ReleaseWakeup
  <2> QED BY <2>1, <2>3, <2>4, <2>5, <2>6, <2>7, <2>8, <2>9, <2>10, <2>15, <2>16,
             <2>17, <2>18, <2>19, <2>20, <2>21, <2>22, <2>23, <2>24
          DEF Release, InCall
<1> QED BY <1>1, <1>2

(* BrwLockPi implements the reader-writer lock its clients rely on: by      *)
(* whichever fast path, race, upgrade or hand-off a thread comes in,        *)
(* readers keep writers out and a writer keeps everybody out.               *)
THEOREM BrwLockIsSharedLock == Spec => ReadersWriters
<1>1. Init => Lock!Init
  BY DEF Init, Lock!Init, Reading, Writing
<1>2. BrwInv /\ [Next]_vars => [Lock!Next]_(Lock!lockVars)
  BY StepRefines
<1> QED BY <1>1, <1>2, BrwInvariant, PTL DEF Spec, ReadersWriters, Lock!Spec
-----------------------------------------------------------------------------
(* Why nobody is stranded: a thread goes to sleep only while somebody is    *)
(* inside, or has left and is on its way to the thread lock.                *)
Releasing == {t \in Threads : pc[t] = "release"}

SleepersOK ==
  \A t \in Threads : pc[t] = "asleep" => \E i \in DOMAIN queue : queue[i].thread = t

(* What the word said of others before a thread became a waiter is accounted *)
(* for until the thread has decided.                                        *)
GroundsOK ==
  \A t \in Threads :
    /\ Deciding(t) =>
         /\ PrevWriter(t) => Writers \cup Releasing # {}
         /\ PrevWaiters(t) # 0 => queue # <<>>
    /\ pc[t] \in {"read_decide", "upgrade_decide"} =>
         PrevReaders(t) # 0 /\ (PrevReaders(t) # 1 => Counted \cup Releasing # {})
    /\ pc[t] = "write_decide" =>
         (PrevReaders(t) # 0 => Counted \cup Releasing # {})

(* Wake finds somebody to wake.                                             *)
WokeOK ==
  \A t \in Threads : ownership[t] = "Normal" =>
    /\ pc[t] = "wake" => queue # <<>>
    /\ pc[t] = "woke" => \E u \in Threads : pc[u] = "woken_writer"

StrandInv == SleepersOK /\ GroundsOK /\ WokeOK /\ NobodyStranded

(* A thread that is neither outside the lock nor asleep.                    *)
Awake(t) == pc[t] \notin {"idle", "asleep", "write_contended"}

LEMMA AwakeSuffices ==
  ASSUME BrwInv', NEW t \in Threads, Awake(t)'
  PROVE  NobodyStranded'
BY DEF BrwInv, NobodyStranded, Awake

(* Sleepers are waiters, and while nobody is past the thread lock they are  *)
(* the only ones.                                                           *)
LEMMA SleepersFacts ==
  ASSUME BrwInv, SleepersOK
  PROVE  /\ queue # <<>> => waiting # 0
         /\ tlock = None /\ waiting # 0 => queue # <<>>
<1>1. ASSUME queue # <<>> PROVE waiting # 0
  <2>1. Head(queue).thread \in Waiters
    BY <1>1, HeadTailFacts DEF BrwInv, QueueOK, Waiters
  <2> QED BY <2>1, WordFacts DEF BrwInv
<1>2. ASSUME tlock = None, waiting # 0 PROVE queue # <<>>
  <2>1. PICK u \in Waiters : TRUE
    BY <1>2, WordFacts DEF BrwInv
  <2>2. pc[u] = "asleep" /\ u \in Threads
    BY <1>2, <2>1, BrwLockAssumption DEF BrwInv, TlockOK, Waiters
  <2>3. PICK i \in DOMAIN queue : queue[i].thread = u
    BY <2>2 DEF SleepersOK
  <2> QED BY <2>3, QueueFacts DEF BrwInv
<1> QED BY <1>1, <1>2

LEMMA SleepersSame ==
  ASSUME BrwInv, SleepersOK, NEW t \in Threads, NEW l, Goto(t, l), l # "asleep",
         queue' = queue
  PROVE  SleepersOK'
BY DEF BrwInv, TypeOK, SleepersOK, Goto

(* While a thread decides there is a waiter.                                *)
LEMMA DecidingWaits ==
  ASSUME BrwInv, NEW t \in Threads, Deciding(t)
  PROVE  waiting # 0
BY WordFacts DEF BrwInv, Deciding, Waiters

(* Steps of others leave the grounds of a thread that decides in place.     *)
LEMMA GroundsSame ==
  ASSUME GroundsOK, UNCHANGED <<queue, prev>>,
         \A u \in Threads : Deciding(u)' => pc'[u] = pc[u],
         (\E u \in Threads : Deciding(u)) =>
           /\ Writers \cup Releasing # {} => Writers' \cup Releasing' # {}
           /\ Counted \cup Releasing # {} => Counted' \cup Releasing' # {}
  PROVE  GroundsOK'
BY DEF GroundsOK, Deciding, PrevWriter, PrevWaiters, PrevReaders

LEMMA NobodyInside ==
  ASSUME \A u \in Threads :
           pc'[u] \notin {"read_decide", "write_decide", "upgrade_decide", "wake", "woke"}
  PROVE  GroundsOK' /\ WokeOK'
BY DEF GroundsOK, WokeOK, Deciding

LEMMA WokeSame ==
  ASSUME BrwInv, WokeOK, NEW t \in Threads, NEW l, Goto(t, l),
         l \notin {"wake", "woke"}, pc[t] # "woken_writer",
         UNCHANGED <<queue, ownership>>
  PROVE  WokeOK'
BY DEF WokeOK, BrwInv, TypeOK, Goto

LEMMA ReadAcquireStrand ==
  ASSUME BrwInv, BrwInv', StrandInv, NEW t \in Threads, ReadAcquire(t)
  PROVE  StrandInv'
<1> USE DEF StrandInv
<1>1. PICK l : Goto(t, l) /\ l \in {"reading", "read_contended"}
  BY DEF ReadAcquire
<1>2. /\ pc[t] = "idle" /\ UNCHANGED <<queue, prev, ownership>>
      /\ pc'[t] = l /\ \A u \in Threads \ {t} : pc'[u] = pc[u]
  BY <1>1 DEF ReadAcquire, wakeVars, Goto, BrwInv, TypeOK
<1>3. SleepersOK' /\ WokeOK'
  BY <1>1, <1>2, SleepersSame, WokeSame
<1>4. Counted \subseteq Counted' /\ Writers' = Writers /\ Releasing' = Releasing
  BY <1>1, <1>2 DEF Counted, Writers, Releasing
<1>5. \A u \in Threads : Deciding(u)' => pc'[u] = pc[u]
  BY <1>1, <1>2 DEF Deciding
<1>6. GroundsOK'
  BY <1>2, <1>4, <1>5, GroundsSame
<1>7. NobodyStranded'
  BY <1>1, <1>2, AwakeSuffices DEF Awake
<1> QED BY <1>3, <1>6, <1>7

LEMMA WriteNowStrand ==
  ASSUME BrwInv, BrwInv', StrandInv, NEW t \in Threads,
         \/ pc[t] = "idle" /\ WriteNow(t, Unlocked)
         \/ pc[t] = "reading" /\ WriteNow(t, OneReader),
         Goto(t, "writing"), UNCHANGED <<queue, owner, tlock, prev, wakeVars>>
  PROVE  StrandInv'
<1> USE DEF StrandInv
<1>1. waiting = 0
  BY DEF WriteNow, word, Unlocked, OneReader
<1>2. \A u \in Threads : ~Deciding(u)
  BY <1>1, DecidingWaits
<1>3. /\ pc'[t] = "writing" /\ \A u \in Threads \ {t} : pc'[u] = pc[u]
      /\ UNCHANGED <<queue, prev, ownership>>
  BY DEF Goto, wakeVars, BrwInv, TypeOK
<1>4. SleepersOK' /\ WokeOK'
  BY <1>3, SleepersSame, WokeSame
<1>5. GroundsOK'
  BY <1>2, <1>3, GroundsSame DEF Deciding
<1>6. NobodyStranded'
  BY <1>3, AwakeSuffices DEF Awake
<1> QED BY <1>4, <1>5, <1>6

(* The steps of LabelInv but the last, which has a lemma of its own.        *)
LEMMA LabelStrand ==
  ASSUME BrwInv, BrwInv', StrandInv, NEW t \in Threads, NEW l \in Labels, Goto(t, l),
         \/ pc[t] = "idle" /\ l = "write_contended"
         \/ pc[t] = "reading" /\ l = "upgrade_contended"
         \/ pc[t] = "writing" /\ l = "write_release",
         UNCHANGED <<queue, prev, ownership>>
  PROVE  StrandInv'
<1> USE DEF StrandInv
<1>1. pc'[t] = l /\ \A u \in Threads \ {t} : pc'[u] = pc[u]
  BY DEF Goto, BrwInv, TypeOK
<1>2. SleepersOK' /\ WokeOK'
  BY SleepersSame, WokeSame
<1>3. Counted' = Counted /\ Writers' = Writers /\ Releasing' = Releasing
  BY <1>1 DEF Counted, Writers, Releasing
<1>4. GroundsOK'
  BY <1>1, <1>3, GroundsSame DEF Deciding
<1>5. NobodyStranded'
  BY <1>1 DEF NobodyStranded, BrwInv
<1> QED BY <1>2, <1>4, <1>5

LEMMA BecomeWaiterStrand ==
  ASSUME BrwInv, BrwInv', StrandInv, NEW t \in Threads, NEW r \in Int, NEW l \in Labels,
         \/ pc[t] = "read_contended" /\ r = -1 /\ l = "read_decide"
         \/ pc[t] = "write_contended" /\ r = 0 /\ l = "write_decide"
         \/ pc[t] = "upgrade_contended" /\ r = -1 /\ l = "upgrade_decide",
         BecomeWaiter(t, r, l)
  PROVE  StrandInv'
<1> USE DEF StrandInv
<1>1. /\ Goto(t, l) /\ tlock = None /\ UNCHANGED <<queue, ownership>>
      /\ pc'[t] = l /\ \A u \in Threads \ {t} : pc'[u] = pc[u]
  BY DEF BecomeWaiter, Goto, wakeVars, BrwInv, TypeOK
<1>2. /\ PrevWriter(t)' = writing /\ PrevReaders(t)' = readers
      /\ PrevWaiters(t)' = waiting
  BY DEF BecomeWaiter, Remember, word, PrevWriter, PrevReaders, PrevWaiters, BrwInv,
     TypeOK
<1>3. SleepersOK' /\ WokeOK'
  BY <1>1, SleepersSame, WokeSame
<1>4. writing => Writers' # {}
  <2>1. Writers' = Writers
    BY <1>1 DEF Writers
  <2> QED BY <2>1 DEF BrwInv, ExclusionOK
<1>5. waiting # 0 => queue' # <<>>
  BY <1>1, SleepersFacts
<1>6. l \in {"read_decide", "upgrade_decide"} =>
        readers # 0 /\ (readers # 1 => Counted' # {})
  <2> SUFFICES ASSUME l \in {"read_decide", "upgrade_decide"}
               PROVE  readers # 0 /\ (readers # 1 => Counted' # {})
    OBVIOUS
  <2>1. t \in Counted /\ Counted' = Counted \ {t}
    BY <1>1 DEF Counted
  <2>2. readers # 0
    BY <2>1, WordFacts DEF BrwInv
  <2>3. Counted' = {} => readers = 1
    <3>1. Counted' = {} => Counted = {t}
      BY <2>1
    <3>2. Cardinality({t}) = 1
      BY FS_Singleton
    <3> QED BY <3>1, <3>2 DEF BrwInv, CountsOK
  <2> QED BY <2>2, <2>3
<1>7. l = "write_decide" /\ readers # 0 => Counted' # {}
  <2>1. l = "write_decide" => Counted' = Counted
    BY <1>1 DEF Counted
  <2> QED BY <2>1, WordFacts DEF BrwInv
<1>8. \A u \in Threads \ {t} : ~Deciding(u)'
  BY <1>1, BrwLockAssumption DEF Deciding, BrwInv, TlockOK
<1>9. GroundsOK'
  <2> SUFFICES ASSUME NEW u \in Threads, Deciding(u)'
               PROVE  /\ PrevWriter(u)' => Writers' \cup Releasing' # {}
                      /\ PrevWaiters(u)' # 0 => queue' # <<>>
                      /\ pc'[u] \in {"read_decide", "upgrade_decide"} =>
                           /\ PrevReaders(u)' # 0
                           /\ PrevReaders(u)' # 1 => Counted' \cup Releasing' # {}
                      /\ pc'[u] = "write_decide" =>
                           (PrevReaders(u)' # 0 => Counted' \cup Releasing' # {})
    BY DEF GroundsOK, Deciding
  <2>1. u = t
    BY <1>8
  <2> QED BY <1>1, <1>2, <1>4, <1>5, <1>6, <1>7, <2>1
<1>10. NobodyStranded'
  BY <1>1, AwakeSuffices DEF Awake
<1> QED BY <1>3, <1>9, <1>10

(* A thread may go to sleep if another one is awake.                        *)
LEMMA BlockStrand ==
  ASSUME BrwInv, BrwInv', StrandInv, NEW t \in Threads, NEW write \in BOOLEAN,
         Block(t, write), Waiter(t), \E u \in Threads \ {t} : Awake(u)
  PROVE  StrandInv'
<1> USE DEF StrandInv
<1> DEFINE R == [thread : Threads, write : BOOLEAN]
           e == [thread |-> t, write |-> write]
<1>1. PICK i \in 1 .. Len(queue) + 1 : queue' = InsertAt(queue, i, e)
  BY DEF Block
<1> HIDE DEF R, e
<1>2. e \in R /\ queue \in Seq(R) /\ e.thread = t
  BY DEF BrwInv, TypeOK, R, e
<1>3. Inserted(queue', queue, i, e)
  BY <1>1, <1>2, InsertFacts
<1>4. pc'[t] = "asleep" /\ \A u \in Threads \ {t} : pc'[u] = pc[u]
  BY DEF Block, Goto, BrwInv, TypeOK
<1>5. SleepersOK'
  <2>1. Len(queue) \in Nat /\ DOMAIN queue = 1 .. Len(queue)
    BY QueueFacts DEF BrwInv
  <2>2. i \in DOMAIN queue' /\ queue'[i].thread = t
    BY <1>2, <1>3 DEF Inserted
  <2>3. ASSUME NEW u \in Threads \ {t}, pc'[u] = "asleep"
        PROVE  \E j \in DOMAIN queue' : queue'[j].thread = u
    <3>1. PICK j \in DOMAIN queue : queue[j].thread = u
      BY <1>4, <2>3 DEF SleepersOK
    <3>2. i \in Int /\ j \in 1 .. Len(queue)
      BY <2>1
    <3>3. CASE j < i
      <4>1. j \in DOMAIN queue' /\ queue'[j] = queue[j]
        BY <1>3, <2>1, <3>2, <3>3 DEF Inserted
      <4> QED BY <3>1, <4>1
    <3>4. CASE j >= i
      <4>1. j + 1 \in 1 .. Len(queue) + 1 /\ j + 1 > i /\ (j + 1) - 1 = j
        BY <2>1, <3>2, <3>4
      <4>2. j + 1 \in DOMAIN queue' /\ queue'[j + 1] = queue[j]
        BY <1>3, <4>1 DEF Inserted
      <4> QED BY <3>1, <4>2
    <3> QED BY <3>2, <3>3, <3>4
  <2> QED BY <2>2, <2>3 DEF SleepersOK
<1>6. GroundsOK' /\ WokeOK'
  <2>1. \A u \in Threads \ {t} :
          pc[u] \notin {"read_decide", "write_decide", "upgrade_decide", "wake", "woke"}
    BY OthersOutside DEF BrwInv, Waiter, Deciding
  <2> QED BY <1>4, <2>1, NobodyInside
<1>7. NobodyStranded'
  BY <1>4, AwakeSuffices DEF Awake
<1> QED BY <1>5, <1>6, <1>7

(* A waiter turns into a reader or the writer.                              *)
LEMMA TurnStrand ==
  ASSUME BrwInv, BrwInv', StrandInv, NEW t \in Threads, Waiter(t),
         NEW l \in {"reading", "writing"}, Goto(t, l), queue' = queue
  PROVE  StrandInv'
<1> USE DEF StrandInv
<1>1. pc'[t] = l /\ \A u \in Threads \ {t} : pc'[u] = pc[u]
  BY DEF Goto, BrwInv, TypeOK
<1>2. \A u \in Threads \ {t} :
        pc[u] \notin {"read_decide", "write_decide", "upgrade_decide", "wake", "woke"}
  BY OthersOutside DEF BrwInv, Waiter, Deciding
<1>3. GroundsOK' /\ WokeOK'
  BY <1>1, <1>2, NobodyInside
<1>4. SleepersOK'
  BY SleepersSame
<1>5. NobodyStranded'
  BY <1>1, AwakeSuffices DEF Awake
<1> QED BY <1>3, <1>4, <1>5

LEMMA StartWakeStrand ==
  ASSUME BrwInv, BrwInv', StrandInv, NEW t \in Threads, Deciding(t), NEW next,
         StartWake(t, next), PrevWaiters(t) # 0
  PROVE  StrandInv'
<1> USE DEF StrandInv
<1>1. /\ pc'[t] = "wake" /\ \A u \in Threads \ {t} : pc'[u] = pc[u]
      /\ UNCHANGED <<queue, ownership>> /\ Goto(t, "wake")
  BY DEF StartWake, Goto, BrwInv, TypeOK
<1>2. \A u \in Threads \ {t} :
        pc[u] \notin {"read_decide", "write_decide", "upgrade_decide", "wake", "woke"}
  BY OthersOutside DEF BrwInv, Deciding
<1>3. queue # <<>>
  BY DEF GroundsOK
<1>4. GroundsOK' /\ WokeOK'
  BY <1>1, <1>2, <1>3 DEF GroundsOK, WokeOK, Deciding
<1>5. SleepersOK'
  BY <1>1, SleepersSame
<1>6. NobodyStranded'
  BY <1>1, AwakeSuffices DEF Awake
<1> QED BY <1>4, <1>5, <1>6

(* The head of the queue wakes up.                                          *)
LEMMA DequeueSleepersOK ==
  ASSUME BrwInv, SleepersOK, queue # <<>>, queue' = Tail(queue),
         pc'[Head(queue).thread] # "asleep",
         \A u \in Threads : pc'[u] = "asleep" => pc[u] = "asleep"
  PROVE  SleepersOK'
<1> SUFFICES ASSUME NEW u \in Threads, pc'[u] = "asleep"
             PROVE  \E j \in DOMAIN queue' : queue'[j].thread = u
  BY DEF SleepersOK
<1> DEFINE R == [thread : Threads, write : BOOLEAN]
<1> HIDE DEF R
<1>1. queue \in Seq(R)
  BY DEF BrwInv, TypeOK, R
<1>2. PICK i \in DOMAIN queue : queue[i].thread = u
  BY DEF SleepersOK
<1>3. i # 1
  BY <1>2, HeadTailFacts DEF BrwInv
<1>4. i - 1 \in DOMAIN Tail(queue) /\ Tail(queue)[i - 1] = queue[i]
  BY <1>1, <1>2, <1>3
<1> QED BY <1>2, <1>4

LEMMA WakeWriterStrand ==
  ASSUME BrwInv, BrwInv', StrandInv, NEW t \in Threads, WakeWriter(t)
  PROVE  StrandInv'
<1> USE DEF StrandInv
<1> DEFINE h == Head(queue).thread
<1>1. h \in Threads /\ pc[h] = "asleep" /\ pc[t] = "wake"
  BY HeadTailFacts DEF WakeWriter, BrwInv, QueueOK
<1>2. pc' = [pc EXCEPT ![h] = "woken_writer", ![t] = "woke"]
  BY DEF WakeWriter
<1> HIDE DEF h
<1>3. /\ pc'[h] = "woken_writer" /\ pc'[t] = "woke"
      /\ \A u \in Threads \ {t, h} : pc'[u] = pc[u]
  BY <1>1, <1>2 DEF BrwInv, TypeOK
<1>4. SleepersOK'
  <2>1. queue # <<>> /\ queue' = Tail(queue)
    BY DEF WakeWriter
  <2>2. /\ pc'[Head(queue).thread] # "asleep"
        /\ \A u \in Threads : pc'[u] = "asleep" => pc[u] = "asleep"
    BY <1>3 DEF h
  <2> QED BY <2>1, <2>2, DequeueSleepersOK
<1>5. \A u \in Threads \ {t} :
        pc[u] \notin {"read_decide", "write_decide", "upgrade_decide", "wake", "woke"}
  BY <1>1, OthersOutside DEF BrwInv
<1>6. GroundsOK' /\ WokeOK'
  BY <1>1, <1>3, <1>5 DEF GroundsOK, WokeOK, Deciding
<1>7. NobodyStranded'
  BY <1>3, AwakeSuffices DEF Awake
<1> QED BY <1>4, <1>6, <1>7

LEMMA WakeReaderStrand ==
  ASSUME BrwInv, BrwInv', StrandInv, NEW t \in Threads, WakeReader(t)
  PROVE  StrandInv'
<1> USE DEF StrandInv
<1> DEFINE h == Head(queue).thread
<1>1. h \in Threads /\ pc[h] = "asleep" /\ pc[t] = "wake"
  BY HeadTailFacts DEF WakeReader, BrwInv, QueueOK
<1>2. pc' = [pc EXCEPT ![h] = "woken_reader"]
  BY DEF WakeReader
<1> HIDE DEF h
<1>3. /\ pc'[h] = "woken_reader" /\ pc'[t] = "wake"
      /\ \A u \in Threads \ {h} : pc'[u] = pc[u]
  BY <1>1, <1>2 DEF BrwInv, TypeOK
<1>4. SleepersOK'
  <2>1. queue # <<>> /\ queue' = Tail(queue)
    BY DEF WakeReader
  <2>2. /\ pc'[Head(queue).thread] # "asleep"
        /\ \A u \in Threads : pc'[u] = "asleep" => pc[u] = "asleep"
    BY <1>3 DEF h
  <2> QED BY <2>1, <2>2, DequeueSleepersOK
<1>5. \A u \in Threads \ {t} :
        pc[u] \notin {"read_decide", "write_decide", "upgrade_decide", "wake", "woke"}
  BY <1>1, OthersOutside DEF BrwInv
<1>6. ownership'[t] = "Reader"
  BY DEF WakeReader, BrwInv, TypeOK
<1>7. GroundsOK' /\ WokeOK'
  BY <1>1, <1>3, <1>5, <1>6 DEF GroundsOK, WokeOK, Deciding
<1>8. NobodyStranded'
  BY <1>3, AwakeSuffices DEF Awake
<1> QED BY <1>4, <1>7, <1>8

LEMMA WakeDoneStrand ==
  ASSUME BrwInv, BrwInv', StrandInv, NEW t \in Threads, WakeDone(t)
  PROVE  StrandInv'
<1> USE DEF StrandInv
<1>1. /\ pc[t] = "wake" /\ pc'[t] = "woke" /\ \A u \in Threads \ {t} : pc'[u] = pc[u]
      /\ UNCHANGED <<queue, ownership>> /\ Goto(t, "woke")
  BY DEF WakeDone, Goto, BrwInv, TypeOK
<1>2. \A u \in Threads \ {t} :
        pc[u] \notin {"read_decide", "write_decide", "upgrade_decide", "wake", "woke"}
  BY <1>1, OthersOutside DEF BrwInv
<1>3. ownership[t] # "Normal"
  BY <1>1 DEF WakeDone, WokeOK
<1>4. GroundsOK' /\ WokeOK'
  BY <1>1, <1>2, <1>3 DEF GroundsOK, WokeOK, Deciding
<1>5. SleepersOK'
  BY <1>1, SleepersSame
<1>6. NobodyStranded'
  BY <1>1, AwakeSuffices DEF Awake
<1> QED BY <1>4, <1>5, <1>6

(* Whom Wake has woken is still on the way.                                 *)
LEMMA SomebodyWoken ==
  ASSUME BrwInv, StrandInv, NEW t \in Threads, pc[t] = "woke"
  PROVE  \E u \in Threads \ {t} : Awake(u) /\ pc[u] \in {"woken_reader", "woken_writer"}
<1>1. ownership[t] \in {"Normal", "Reader"}
  BY DEF BrwInv, TypeOK
<1>2. \E u \in Threads : pc[u] \in {"woken_reader", "woken_writer"}
  BY <1>1 DEF BrwInv, WakeOK, StrandInv, WokeOK
<1> QED BY <1>2 DEF Awake

LEMMA WokenLeavesStrand ==
  ASSUME BrwInv, BrwInv', StrandInv, NEW t \in Threads, pc[t] = "woke",
         Goto(t, "idle"), queue' = queue
  PROVE  StrandInv'
<1> USE DEF StrandInv
<1>1. pc'[t] = "idle" /\ \A u \in Threads \ {t} : pc'[u] = pc[u]
  BY DEF Goto, BrwInv, TypeOK
<1>2. \A u \in Threads \ {t} :
        pc[u] \notin {"read_decide", "write_decide", "upgrade_decide", "wake", "woke"}
  BY OthersOutside DEF BrwInv
<1>3. GroundsOK' /\ WokeOK'
  BY <1>1, <1>2, NobodyInside
<1>4. SleepersOK'
  BY SleepersSame
<1>5. NobodyStranded'
  BY <1>1, SomebodyWoken, AwakeSuffices DEF Awake
<1> QED BY <1>3, <1>4, <1>5

LEMMA ResumeStrand ==
  ASSUME BrwInv, BrwInv', StrandInv, NEW t \in Threads, Resume(t)
  PROVE  StrandInv'
<1> USE DEF StrandInv
<1>1. PICK l : Goto(t, l) /\ l \in {"reading", "writing"}
  BY DEF Resume
<1>2. /\ pc'[t] = l /\ \A u \in Threads \ {t} : pc'[u] = pc[u]
      /\ queue' = queue
  BY <1>1 DEF Resume, Goto, BrwInv, TypeOK
<1>3. \A u \in Threads :
        pc[u] \notin {"read_decide", "write_decide", "upgrade_decide", "wake", "woke"}
  BY BrwLockAssumption DEF Resume, BrwInv, TlockOK
<1>4. GroundsOK' /\ WokeOK'
  BY <1>1, <1>2, <1>3, NobodyInside
<1>5. SleepersOK'
  BY <1>1, <1>2, SleepersSame
<1>6. NobodyStranded'
  BY <1>1, <1>2, AwakeSuffices DEF Awake
<1> QED BY <1>4, <1>5, <1>6

LEMMA ReadReleaseStrand ==
  ASSUME BrwInv, BrwInv', StrandInv, NEW t \in Threads, ReadRelease(t)
  PROVE  StrandInv'
<1> USE DEF StrandInv
<1>1. PICK l : Goto(t, l) /\ l = IF LastReaderWakes THEN "release" ELSE "idle"
  BY DEF ReadRelease
<1>2. /\ pc[t] = "reading" /\ pc'[t] = l /\ \A u \in Threads \ {t} : pc'[u] = pc[u]
      /\ UNCHANGED <<queue, prev, ownership>> /\ l \in {"release", "idle"}
  BY <1>1 DEF ReadRelease, Goto, wakeVars, BrwInv, TypeOK
<1>3. SleepersOK' /\ WokeOK'
  BY <1>1, <1>2, SleepersSame, WokeSame
<1>4. waiting # 0 => Counted' \cup Releasing' # {}
  <2>1. t \in Counted /\ Counted' = Counted \ {t}
    BY <1>2 DEF Counted
  <2>2. Counted' = {} => readers = 1
    <3>1. Counted' = {} => Counted = {t}
      BY <2>1
    <3>2. Cardinality({t}) = 1
      BY FS_Singleton
    <3> QED BY <3>1, <3>2 DEF BrwInv, CountsOK
  <2>3. readers = 1 /\ waiting # 0 => t \in Releasing'
    BY <1>1, <1>2 DEF LastReaderWakes, Releasing, BrwInv, TypeOK
  <2> QED BY <2>2, <2>3
<1>5. Writers' = Writers /\ Releasing \subseteq Releasing'
  BY <1>2 DEF Writers, Releasing
<1>6. (\E u \in Threads : Deciding(u)) => waiting # 0
  BY DecidingWaits
<1>7. \A u \in Threads : Deciding(u)' => pc'[u] = pc[u]
  BY <1>2 DEF Deciding
<1>8. GroundsOK'
  BY <1>2, <1>4, <1>5, <1>6, <1>7, GroundsSame
<1>9. NobodyStranded'
  <2>1. CASE waiting = 0
    <3>1. queue' = <<>>
      BY <1>2, <2>1, SleepersFacts
    <3> QED BY <3>1 DEF BrwInv, NobodyStranded
  <2>2. CASE waiting # 0
    <3>1. PICK u \in Counted' \cup Releasing' : TRUE
      BY <1>4, <2>2
    <3>2. u \in Threads /\ Awake(u)'
      BY <3>1 DEF Counted, Releasing, Awake
    <3> QED BY <3>2, AwakeSuffices
  <2> QED BY <2>1, <2>2
<1> QED BY <1>3, <1>8, <1>9

LEMMA WriteReleaseWordStrand ==
  ASSUME BrwInv, BrwInv', StrandInv, NEW t \in Threads, WriteReleaseWord(t)
  PROVE  StrandInv'
<1> USE DEF StrandInv
<1>1. PICK l : Goto(t, l) /\ l = IF waiting # 0 THEN "release" ELSE "idle"
  BY DEF WriteReleaseWord
<1>2. /\ pc[t] = "write_release" /\ pc'[t] = l
      /\ \A u \in Threads \ {t} : pc'[u] = pc[u]
      /\ UNCHANGED <<queue, prev, ownership>> /\ l \in {"release", "idle"}
  BY <1>1 DEF WriteReleaseWord, Goto, wakeVars, BrwInv, TypeOK
<1>3. SleepersOK' /\ WokeOK'
  BY <1>1, <1>2, SleepersSame, WokeSame
<1>4. waiting # 0 => t \in Releasing'
  BY <1>1, <1>2 DEF Releasing
<1>5. (\E u \in Threads : Deciding(u)) => waiting # 0
  BY DecidingWaits
<1>6. \A u \in Threads : Deciding(u)' => pc'[u] = pc[u]
  BY <1>2 DEF Deciding
<1>7. GroundsOK'
  BY <1>2, <1>4, <1>5, <1>6, GroundsSame
<1>8. NobodyStranded'
  <2>1. CASE waiting = 0
    <3>1. queue' = <<>>
      BY <1>2, <2>1, SleepersFacts
    <3> QED BY <3>1 DEF BrwInv, NobodyStranded
  <2>2. CASE waiting # 0
    BY <1>1, <1>2, <2>2, AwakeSuffices DEF Awake
  <2> QED BY <2>1, <2>2
<1> QED BY <1>3, <1>7, <1>8

LEMMA ReleaseWakeupStrand ==
  ASSUME BrwInv, BrwInv', StrandInv, NEW t \in Threads, ReleaseWakeup(t)
  PROVE  StrandInv'
<1> USE BrwLockAssumption DEF StrandInv
<1>1. PICK l : /\ Goto(t, l)
               /\ l = IF waiting # 0 /\ ~writing /\ readers = 0 THEN "wake" ELSE "idle"
  BY DEF ReleaseWakeup
<1>2. /\ pc[t] = "release" /\ pc'[t] = l /\ tlock = None
      /\ \A u \in Threads \ {t} : pc'[u] = pc[u]
      /\ UNCHANGED <<queue, word>> /\ l \in {"wake", "idle"}
  BY <1>1 DEF ReleaseWakeup, Goto, BrwInv, TypeOK
<1>3. \A u \in Threads :
        pc[u] \notin {"read_decide", "write_decide", "upgrade_decide", "wake", "woke"}
  BY <1>2 DEF BrwInv, TlockOK
<1>4. SleepersOK'
  BY <1>1, <1>2, SleepersSame
<1>5. l = "wake" => queue' # <<>>
  BY <1>1, <1>2, SleepersFacts
<1>6. GroundsOK' /\ WokeOK'
  BY <1>2, <1>3, <1>5 DEF GroundsOK, WokeOK, Deciding
<1>7. NobodyStranded'
  <2>1. CASE l = "wake"
    BY <1>2, <2>1, AwakeSuffices DEF Awake
  <2>2. CASE waiting = 0
    <3>1. queue' = <<>>
      BY <1>2, <2>2, SleepersFacts
    <3> QED BY <3>1 DEF BrwInv, NobodyStranded
  <2>3. CASE writing \/ readers # 0
    <3>1. Writers \cup Counted # {}
      BY <2>3, WordFacts DEF BrwInv, ExclusionOK
    <3>2. PICK u \in Threads : u # t /\ Awake(u)
      BY <1>2, <3>1 DEF Writers, Counted, Awake
    <3>3. Awake(u)'
      BY <1>2, <3>2 DEF Awake
    <3> QED BY <3>3, AwakeSuffices
  <2> QED BY <1>1, <2>1, <2>2, <2>3
<1> QED BY <1>4, <1>6, <1>7
-----------------------------------------------------------------------------
(* Whoever the word promised is awake when a thread goes to sleep.          *)
LEMMA ReadDecideStrand ==
  ASSUME BrwInv, BrwInv', StrandInv, NEW t \in Threads, ReadDecide(t)
  PROVE  StrandInv'
<1>1. CASE ~PrevWriter(t) /\ PrevWaiters(t) # 0 /\ OnlyReader(t)
  BY <1>1, StartWakeStrand DEF ReadDecide, Deciding
<1>2. CASE ~PrevWriter(t) /\ PrevWaiters(t) = 0
  BY <1>2, TurnStrand DEF ReadDecide, JoinReaders, Waiter, Deciding, wakeVars
<1>3. CASE PrevWriter(t) \/ (PrevWaiters(t) # 0 /\ ~OnlyReader(t))
  <2>1. Writers \cup Counted \cup Releasing # {}
    BY <1>3 DEF ReadDecide, Deciding, StrandInv, GroundsOK, OnlyReader
  <2>2. \E u \in Threads \ {t} : Awake(u)
    BY <2>1 DEF ReadDecide, Writers, Counted, Releasing, Awake
  <2>3. Block(t, FALSE) /\ Waiter(t)
    BY <1>3 DEF ReadDecide, Waiter, Deciding, wakeVars
  <2> QED BY <2>2, <2>3, BlockStrand
<1> QED BY <1>1, <1>2, <1>3

LEMMA WriteDecideStrand ==
  ASSUME BrwInv, BrwInv', StrandInv, NEW t \in Threads, WriteDecide(t)
  PROVE  StrandInv'
<1>1. CASE ~PrevWriter(t) /\ PrevReaders(t) = 0 /\ PrevWaiters(t) # 0
  BY <1>1, StartWakeStrand DEF WriteDecide, Deciding
<1>2. CASE ~PrevWriter(t) /\ PrevReaders(t) = 0 /\ PrevWaiters(t) = 0
  BY <1>2, TurnStrand DEF WriteDecide, BecomeWriter, Waiter, Deciding, wakeVars
<1>3. CASE PrevWriter(t) \/ PrevReaders(t) # 0
  <2>1. Writers \cup Counted \cup Releasing # {}
    BY <1>3 DEF WriteDecide, Deciding, StrandInv, GroundsOK
  <2>2. \E u \in Threads \ {t} : Awake(u)
    BY <2>1 DEF WriteDecide, Writers, Counted, Releasing, Awake
  <2>3. Block(t, TRUE) /\ Waiter(t)
    BY <1>3 DEF WriteDecide, Waiter, Deciding, wakeVars
  <2> QED BY <2>2, <2>3, BlockStrand
<1> QED BY <1>1, <1>2, <1>3

LEMMA UpgradeDecideStrand ==
  ASSUME BrwInv, BrwInv', StrandInv, NEW t \in Threads, UpgradeDecide(t)
  PROVE  StrandInv'
<1>1. CASE CanUpgrade(t)
  BY <1>1, TurnStrand DEF UpgradeDecide, BecomeWriter, Waiter, Deciding, wakeVars
<1>2. CASE ~CanUpgrade(t)
  <2>1. Writers \cup Counted \cup Releasing # {}
    BY <1>2 DEF UpgradeDecide, CanUpgrade, Deciding, StrandInv, GroundsOK
  <2>2. \E u \in Threads \ {t} : Awake(u)
    BY <2>1 DEF UpgradeDecide, Writers, Counted, Releasing, Awake
  <2>3. Block(t, TRUE) /\ Waiter(t)
    BY <1>2 DEF UpgradeDecide, Waiter, Deciding, wakeVars
  <2> QED BY <2>2, <2>3, BlockStrand
<1> QED BY <1>1, <1>2

LEMMA AfterWakeStrand ==
  ASSUME BrwInv, BrwInv', StrandInv, NEW t \in Threads, AfterWake(t)
  PROVE  StrandInv'
<1>1. pc[t] = "woke"
  BY DEF AfterWake
<1>2. \E u \in Threads \ {t} : Awake(u)
  BY <1>1, SomebodyWoken
<1>3. CASE JoinReaders(t) /\ Waiter(t)
  BY <1>3, TurnStrand DEF JoinReaders
<1>4. CASE \E write \in BOOLEAN : Block(t, write) /\ Waiter(t)
  BY <1>2, <1>4, BlockStrand
<1>5. CASE Goto(t, "idle") /\ UNCHANGED <<word, writer, queue, owner, prev>>
  BY <1>1, <1>5, WokenLeavesStrand
<1> QED BY <1>3, <1>4, <1>5, AfterWakeCases

LEMMA StrandInit == Init => StrandInv
<1> SUFFICES ASSUME Init PROVE StrandInv
  OBVIOUS
<1>1. SleepersOK /\ GroundsOK /\ WokeOK
  BY DEF Init, SleepersOK, GroundsOK, WokeOK, Deciding
<1>2. NobodyStranded
  BY InitInv DEF Init, BrwInv, NobodyStranded
<1> QED BY <1>1, <1>2 DEF StrandInv

LEMMA StrandStep ==
  ASSUME BrwInv, BrwInv', StrandInv, [Next]_vars
  PROVE  StrandInv'
<1>1. CASE UNCHANGED vars
  BY <1>1 DEF vars, word, wakeVars, BrwInv, StrandInv, SleepersOK, GroundsOK, WokeOK,
     NobodyStranded, Counted, Writers, Releasing, Deciding, PrevReaders, PrevWriter,
     PrevWaiters
<1>2. CASE Next
  <2>1. PICK t \in Threads :
          ReadAcquire(t) \/ WriteAcquire(t) \/ ReadUpgrade(t) \/ Release(t) \/ InCall(t)
    BY <1>2 DEF Next
  <2>2. CASE ReadAcquire(t)
    BY <2>2, ReadAcquireStrand
  <2>3. CASE WriteAcquire(t)
    <3>1. "write_contended" \in Labels
      BY DEF Labels
    <3>2. UNCHANGED <<queue, prev, ownership>>
      BY <2>3 DEF WriteAcquire, wakeVars
    <3> QED BY <2>3, <3>1, <3>2, WriteNowStrand, LabelStrand DEF WriteAcquire
  <2>4. CASE ReadUpgrade(t)
    <3>1. "upgrade_contended" \in Labels
      BY DEF Labels
    <3>2. UNCHANGED <<queue, prev, ownership>>
      BY <2>4 DEF ReadUpgrade, wakeVars
    <3> QED BY <2>4, <3>1, <3>2, WriteNowStrand, LabelStrand DEF ReadUpgrade
  <2>5. CASE ReadRelease(t)
    BY <2>5, ReadReleaseStrand
  <2>6. CASE WriteRelease(t)
    <3>1. "write_release" \in Labels
      BY DEF Labels
    <3>2. UNCHANGED <<queue, prev, ownership>>
      BY <2>6 DEF WriteRelease, wakeVars
    <3> QED BY <2>6, <3>1, <3>2, LabelStrand DEF WriteRelease
  <2>7. CASE ContendedReadAcquire(t)
    <3>1. -1 \in Int /\ "read_decide" \in Labels
      BY DEF Labels
    <3> QED BY <2>7, <3>1, BecomeWaiterStrand DEF ContendedReadAcquire
  <2>8. CASE ContendedWriteAcquire(t)
    <3>1. 0 \in Int /\ "write_decide" \in Labels
      BY DEF Labels
    <3> QED BY <2>8, <3>1, BecomeWaiterStrand DEF ContendedWriteAcquire
  <2>9. CASE ContendedReadUpgrade(t)
    <3>1. -1 \in Int /\ "upgrade_decide" \in Labels
      BY DEF Labels
    <3> QED BY <2>9, <3>1, BecomeWaiterStrand DEF ContendedReadUpgrade
  <2>10. CASE ReadDecide(t) \/ WriteDecide(t) \/ UpgradeDecide(t) \/ AfterWake(t)
    BY <2>10, ReadDecideStrand, WriteDecideStrand, UpgradeDecideStrand, AfterWakeStrand
  <2>11. CASE WakeWriter(t) \/ WakeReader(t) \/ WakeDone(t)
    BY <2>11, WakeWriterStrand, WakeReaderStrand, WakeDoneStrand
  <2>12. CASE Resume(t) \/ WriteReleaseWord(t) \/ ReleaseWakeup(t)
    BY <2>12, ResumeStrand, WriteReleaseWordStrand, ReleaseWakeupStrand
  <2> QED BY <2>1, <2>2, <2>3, <2>4, <2>5, <2>6, <2>7, <2>8, <2>9, <2>10, <2>11, <2>12
          DEF Release, InCall
<1> QED BY <1>1, <1>2

(* No wake-up is lost, for any number of threads: whenever a thread sleeps  *)
(* in the queue, another is inside or on its way to wake it.                *)
THEOREM NobodyStrandedHolds == Spec => []NobodyStranded
<1>1. BrwInv /\ BrwInv' /\ StrandInv /\ [Next]_vars => StrandInv'
  BY StrandStep
<1>2. StrandInv => NobodyStranded
  BY DEF StrandInv
<1> QED BY <1>1, <1>2, StrandInit, BrwInvariant, PTL DEF Spec
-----------------------------------------------------------------------------
(* Who inherits the priority of the queue.  writer_ names a thread that is  *)
(* inside, ...                                                              *)
WriterOK == writer # None => pc[writer] \in {"writing", "woken_writer"}

(* ... the queue waits for the thread that inherits from it, ...            *)
LentOK ==
  /\ queue # <<>>
  /\ \/ owner \in Writers
     \/ /\ Holding = {} /\ Writers = {}
        /\ \/ pc[owner] = "release"
           \/ pc[owner] # "asleep" /\ \E t \in Threads : pc[t] = "read_contended"

(* ... and a thread that has the thread lock blocks or wakes somebody, and  *)
(* with that says who inherits next, before it drops it.                    *)
OwnerOK ==
  owner # None =>
    /\ tlock = None => LentOK
    /\ \A t \in Threads :
         /\ Deciding(t) => PrevWaiters(t) # 0 /\ pc[t] # "upgrade_decide"
         /\ pc[t] = "woke" =>
              ownership[t] = "Normal" /\ queue # <<>> /\ pc[owner] = "woken_writer"

OwnerInv == WriterOK /\ OwnerOK

(* While there is an inheritor and the thread lock is free, only that       *)
(* thread may be inside.                                                    *)
LEMMA LentFacts ==
  ASSUME BrwInv, StrandInv, OwnerInv, owner # None, tlock = None
  PROVE  /\ owner \in Threads /\ queue # <<>> /\ waiting # 0 /\ LentOK
         /\ \A u \in Threads :
              /\ pc[u] \notin {"reading", "upgrade_contended", "woken_reader"}
              /\ pc[u] \in {"writing", "woken_writer", "write_release"} => u = owner
              /\ pc[u] \notin {"read_decide", "write_decide", "upgrade_decide",
                               "wake", "woke"}
<1>1. owner \in Threads /\ LentOK
  BY DEF BrwInv, TypeOK, OwnerInv, OwnerOK
<1>2. waiting # 0
  BY <1>1, SleepersFacts DEF StrandInv, LentOK
<1>3. Holding = {} /\ \A u \in Writers : u = owner
  BY <1>1 DEF LentOK, BrwInv, ExclusionOK
<1>4. \A u \in Threads :
        /\ pc[u] \notin {"reading", "upgrade_contended", "woken_reader"}
        /\ pc[u] \in {"writing", "woken_writer", "write_release"} => u = owner
  BY <1>3 DEF Holding, Writers
<1>5. \A u \in Threads :
        pc[u] \notin {"read_decide", "write_decide", "upgrade_decide", "wake", "woke"}
  BY BrwLockAssumption DEF BrwInv, TlockOK
<1> QED BY <1>1, <1>2, <1>4, <1>5 DEF LentOK

(* With no inheritor the invariant says who the writer is, and no more.     *)
LEMMA NoInheritor == ASSUME WriterOK', owner' = None PROVE OwnerInv'
BY DEF OwnerInv, OwnerOK

(* An inheritor while nobody is past the thread lock.                       *)
LEMMA Inherits ==
  ASSUME WriterOK', LentOK',
         \A u \in Threads :
           pc'[u] \notin {"read_decide", "write_decide", "upgrade_decide", "wake", "woke"}
  PROVE  OwnerInv'
BY DEF OwnerInv, OwnerOK, Deciding

(* A thread outside moves while another has the thread lock.                *)
LEMMA LockedOwner ==
  ASSUME BrwInv, OwnerInv, NEW t \in Threads, NEW l, Goto(t, l),
         l \notin {"read_decide", "write_decide", "upgrade_decide", "wake", "woke"},
         pc[t] # "woken_writer", WriterOK', tlock # None,
         UNCHANGED <<queue, owner, tlock, prev, ownership>>
  PROVE  OwnerInv'
<1>1. pc'[t] = l /\ \A u \in Threads \ {t} : pc'[u] = pc[u]
  BY DEF BrwInv, TypeOK, Goto
<1>2. OwnerOK'
  <2> SUFFICES ASSUME owner' # None PROVE OwnerOK'
    BY DEF OwnerOK
  <2>1. owner # None /\ owner \in Threads
    BY DEF BrwInv, TypeOK
  <2>2. \A u \in Threads : Deciding(u)' =>
          PrevWaiters(u)' # 0 /\ pc'[u] # "upgrade_decide"
    BY <1>1, <2>1 DEF OwnerInv, OwnerOK, Deciding, PrevWaiters
  <2>3. \A u \in Threads : pc'[u] = "woke" =>
          ownership'[u] = "Normal" /\ queue' # <<>> /\ pc'[owner] = "woken_writer"
    BY <1>1, <2>1 DEF OwnerInv, OwnerOK
  <2> QED BY <2>2, <2>3 DEF OwnerOK
<1> QED BY <1>2 DEF OwnerInv

(* ReadAcquire: with a queue there, the reader is contended.                *)
LEMMA ReadAcquireOwner ==
  ASSUME BrwInv, StrandInv, OwnerInv, NEW t \in Threads, ReadAcquire(t)
  PROVE  OwnerInv'
<1>1. PICK l \in {"reading", "read_contended"} :
        /\ Goto(t, l) /\ (waiting # 0 => l = "read_contended")
        /\ UNCHANGED <<writer, queue, owner, tlock, prev, ownership>>
  BY DEF ReadAcquire, wakeVars
<1>2. pc[t] = "idle" /\ pc'[t] = l /\ \A u \in Threads \ {t} : pc'[u] = pc[u]
  BY <1>1 DEF ReadAcquire, BrwInv, TypeOK, Goto
<1>3. WriterOK'
  BY <1>1, <1>2 DEF OwnerInv, WriterOK, BrwInv, TypeOK
<1>4. CASE owner # None /\ tlock = None
  <2>1. pc'[t] = "read_contended" /\ LentOK /\ owner \in Threads
    BY <1>1, <1>2, <1>4, LentFacts
  <2>2. Holding' = Holding /\ Writers' = Writers
    BY <1>2, <2>1 DEF Holding, Writers
  <2>3. LentOK'
    BY <1>1, <1>2, <2>1, <2>2 DEF LentOK
  <2> QED BY <1>2, <1>3, <1>4, <2>1, <2>3, LentFacts, Inherits
<1> QED BY <1>1, <1>2, <1>3, <1>4, NoInheritor, LockedOwner

(* A fast path that finds the lock taken.                                   *)
LEMMA ContendedOwner ==
  ASSUME BrwInv, StrandInv, OwnerInv, NEW t \in Threads, NEW l, Goto(t, l),
         \/ pc[t] = "idle" /\ l = "write_contended"
         \/ pc[t] = "reading" /\ l = "upgrade_contended",
         UNCHANGED <<writer, queue, owner, tlock, prev, ownership>>
  PROVE  OwnerInv'
<1>1. pc'[t] = l /\ \A u \in Threads \ {t} : pc'[u] = pc[u]
  BY DEF BrwInv, TypeOK, Goto
<1>2. WriterOK'
  BY <1>1 DEF OwnerInv, WriterOK, BrwInv, TypeOK
<1>3. CASE owner # None /\ tlock = None
  <2>1. LentOK /\ pc[t] = "idle" /\ l = "write_contended" /\ owner \in Threads
    BY <1>3, LentFacts
  <2>2. Holding' = Holding /\ Writers' = Writers
    BY <1>1, <2>1 DEF Holding, Writers
  <2>3. LentOK'
    BY <1>1, <2>1, <2>2 DEF LentOK
  <2> QED BY <1>1, <1>2, <1>3, <2>1, <2>3, LentFacts, Inherits
<1> QED BY <1>1, <1>2, <1>3, NoInheritor, LockedOwner

(* A fast path of a writer succeeds only when there is no queue.            *)
LEMMA WriteNowOwner ==
  ASSUME BrwInv, StrandInv, OwnerInv, NEW t \in Threads, NEW from,
         WriteNow(t, from), from \in {Unlocked, OneReader}, Goto(t, "writing"),
         pc[t] \in {"idle", "reading"},
         UNCHANGED <<queue, owner, tlock, prev, ownership>>
  PROVE  OwnerInv'
<1>1. pc'[t] = "writing" /\ \A u \in Threads \ {t} : pc'[u] = pc[u]
  BY DEF BrwInv, TypeOK, Goto
<1>2. waiting = 0 /\ writer' = t
  BY DEF WriteNow, word, Unlocked, OneReader
<1>3. WriterOK'
  BY <1>1, <1>2 DEF WriterOK
<1>4. ~(owner # None /\ tlock = None)
  BY <1>2, LentFacts
<1> QED BY <1>1, <1>3, <1>4, NoInheritor, LockedOwner

(* A slow path begins.                                                      *)
LEMMA BecomeWaiterOwner ==
  ASSUME BrwInv, StrandInv, OwnerInv, NEW t \in Threads, NEW r, NEW l,
         BecomeWaiter(t, r, l),
         \/ pc[t] = "read_contended" /\ l = "read_decide"
         \/ pc[t] = "write_contended" /\ l = "write_decide"
         \/ pc[t] = "upgrade_contended" /\ l = "upgrade_decide"
  PROVE  OwnerInv'
<1>1. /\ pc'[t] = l /\ \A u \in Threads \ {t} : pc'[u] = pc[u]
      /\ tlock = None /\ tlock' = t
      /\ prev'[t] = word
      /\ UNCHANGED <<writer, queue, owner>>
  BY DEF BecomeWaiter, Remember, BrwInv, TypeOK, Goto
<1>2. WriterOK'
  BY <1>1 DEF OwnerInv, WriterOK, BrwInv, TypeOK
<1>3. CASE owner # None
  <2>1. waiting # 0 /\ pc[t] # "upgrade_contended"
    BY <1>1, <1>3, LentFacts
  <2>2. \A u \in Threads \ {t} :
          pc[u] \notin {"read_decide", "write_decide", "upgrade_decide", "wake", "woke"}
    BY <1>1, <1>3, LentFacts
  <2>3. PrevWaiters(t)' # 0
    BY <1>1, <2>1 DEF PrevWaiters, word
  <2>4. tlock' # None
    BY <1>1, BrwLockAssumption
  <2> QED BY <1>1, <1>2, <2>1, <2>2, <2>3, <2>4 DEF OwnerInv, OwnerOK, Deciding
<1> QED BY <1>1, <1>2, <1>3, NoInheritor

(* Block lends the priority to the writer, or to nobody.                    *)
LEMMA BlockOwner ==
  ASSUME BrwInv, BrwInv', OwnerInv, NEW t \in Threads, NEW write \in BOOLEAN,
         Block(t, write),
         Deciding(t) \/ pc[t] = "woke"
  PROVE  OwnerInv'
<1>1. /\ pc'[t] = "asleep" /\ \A u \in Threads \ {t} : pc'[u] = pc[u]
      /\ owner' = writer /\ writer' = writer /\ tlock' = None
  BY DEF Block, BrwInv, TypeOK, Goto
<1>2. writer # None => writer # t /\ writer \in Threads
  BY DEF OwnerInv, WriterOK, Deciding, BrwInv, TypeOK
<1>3. WriterOK'
  BY <1>1, <1>2 DEF OwnerInv, WriterOK
<1>4. CASE writer # None
  <2>1. owner' \in Writers'
    BY <1>1, <1>2, <1>3, <1>4 DEF WriterOK, Writers
  <2>3. queue' # <<>>
    <3>1. PICK i \in 1 .. Len(queue) + 1 :
            queue' = InsertAt(queue, i, [thread |-> t, write |-> write])
      BY DEF Block
    <3> DEFINE R == [thread : Threads, write : BOOLEAN]
               e == [thread |-> t, write |-> write]
    <3>2. queue \in Seq(R) /\ e \in R
      BY DEF BrwInv, TypeOK
    <3>3. queue' = InsertAt(queue, i, e) /\ Len(queue) \in Nat
      BY <3>1, <3>2
    <3> HIDE DEF R, e
    <3>4. DOMAIN queue' = 1 .. Len(queue) + 1
      BY <3>2, <3>3, InsertFacts DEF Inserted
    <3>5. 1 \in DOMAIN queue'
      BY <3>3, <3>4
    <3> QED BY <3>5
  <2>4. LentOK'
    BY <2>1, <2>3 DEF LentOK
  <2>5. \A u \in Threads \ {t} :
          pc[u] \notin {"read_decide", "write_decide", "upgrade_decide", "wake", "woke"}
    BY OthersOutside DEF BrwInv, Deciding
  <2> QED BY <1>1, <1>3, <2>4, <2>5, Inherits
<1> QED BY <1>1, <1>3, <1>4, NoInheritor

(* A thread that drops the thread lock with nobody inheriting.              *)
LEMMA TurnOwner ==
  ASSUME BrwInv, OwnerInv, NEW t \in Threads, JoinReaders(t) \/ BecomeWriter(t),
         Deciding(t) \/ pc[t] = "woke", owner = None
  PROVE  OwnerInv'
<1>1. /\ owner' = None /\ \A u \in Threads \ {t} : pc'[u] = pc[u]
      /\ \/ writer' = writer /\ pc'[t] = "reading"
         \/ writer' = t /\ pc'[t] = "writing"
  BY DEF JoinReaders, BecomeWriter, BrwInv, TypeOK, Goto
<1>2. WriterOK'
  BY <1>1 DEF OwnerInv, WriterOK, Deciding, BrwInv, TypeOK
<1> QED BY <1>1, <1>2, NoInheritor

(* A decision to wake others first.                                         *)
LEMMA StartWakeOwner ==
  ASSUME BrwInv, OwnerInv, NEW t \in Threads, NEW next, StartWake(t, next), Deciding(t)
  PROVE  OwnerInv'
<1>1. /\ pc'[t] = "wake" /\ \A u \in Threads \ {t} : pc'[u] = pc[u]
      /\ UNCHANGED <<writer, tlock>>
  BY DEF StartWake, BrwInv, TypeOK, Goto
<1>2. WriterOK'
  BY <1>1 DEF OwnerInv, WriterOK, Deciding, BrwInv, TypeOK
<1>3. tlock' # None
  BY <1>1, BrwLockAssumption DEF Deciding, BrwInv, TlockOK
<1>4. \A u \in Threads \ {t} :
        pc[u] \notin {"read_decide", "write_decide", "upgrade_decide", "wake", "woke"}
  BY OthersOutside DEF BrwInv, Deciding
<1> QED BY <1>1, <1>2, <1>3, <1>4 DEF OwnerInv, OwnerOK, Deciding

(* The decisions of the slow paths.                                         *)
LEMMA DecideOwner ==
  ASSUME BrwInv, BrwInv', OwnerInv, NEW t \in Threads,
         ReadDecide(t) \/ WriteDecide(t) \/ UpgradeDecide(t)
  PROVE  OwnerInv'
<1>1. CASE ReadDecide(t)
  <2>1. Deciding(t) /\ (PrevWaiters(t) = 0 => owner = None)
    BY <1>1 DEF ReadDecide, Deciding, OwnerInv, OwnerOK
  <2>2. \/ StartWake(t, "read")
        \/ Block(t, FALSE)
        \/ JoinReaders(t) /\ PrevWaiters(t) = 0
    BY <1>1 DEF ReadDecide
  <2> QED BY <2>1, <2>2, StartWakeOwner, BlockOwner, TurnOwner
<1>2. CASE WriteDecide(t)
  <2>1. Deciding(t) /\ (PrevWaiters(t) = 0 => owner = None)
    BY <1>2 DEF WriteDecide, Deciding, OwnerInv, OwnerOK
  <2>2. \/ StartWake(t, "write")
        \/ Block(t, TRUE)
        \/ BecomeWriter(t) /\ PrevWaiters(t) = 0
    BY <1>2 DEF WriteDecide
  <2> QED BY <2>1, <2>2, StartWakeOwner, BlockOwner, TurnOwner
<1>3. CASE UpgradeDecide(t)
  <2>1. Deciding(t) /\ owner = None
    BY <1>3 DEF UpgradeDecide, Deciding, OwnerInv, OwnerOK
  <2>2. Block(t, TRUE) \/ BecomeWriter(t)
    BY <1>3 DEF UpgradeDecide
  <2> QED BY <2>1, <2>2, BlockOwner, TurnOwner
<1> QED BY <1>1, <1>2, <1>3

(* The woken writer inherits what is left of the queue.                     *)
LEMMA WakeWriterOwner ==
  ASSUME BrwInv, OwnerInv, NEW t \in Threads, WakeWriter(t)
  PROVE  OwnerInv'
<1> DEFINE h == Head(queue).thread
<1>1. h \in Threads /\ pc[h] = "asleep" /\ h # t
  BY HeadTailFacts DEF WakeWriter, BrwInv, QueueOK
<1>2. /\ pc'[h] = "woken_writer" /\ pc'[t] = "woke"
      /\ \A u \in Threads \ {t, h} : pc'[u] = pc[u]
      /\ writer' = h /\ owner' = Inheritor(h) /\ queue' = Tail(queue)
      /\ ownership'[t] = "Normal" /\ tlock' = tlock
  BY <1>1 DEF WakeWriter, BrwInv, TypeOK
<1>3. WriterOK'
  BY <1>1, <1>2 DEF WriterOK
<1>4. CASE Len(queue) = 1
  BY <1>2, <1>3, <1>4, NoInheritor DEF Inheritor
<1>5. CASE Len(queue) # 1
  <2>1. owner' = h
    BY <1>2, <1>5 DEF Inheritor
  <2>2. queue' # <<>>
    <3>1. queue \in Seq([thread : Threads, write : BOOLEAN]) /\ queue # <<>>
      BY DEF WakeWriter, BrwInv, TypeOK
    <3>2. Len(Tail(queue)) # 0
      BY <1>5, <3>1
    <3>3. Len(<<>>) = 0
      OBVIOUS
    <3> HIDE DEF h
    <3> QED BY <1>2, <3>2, <3>3
  <2>3. tlock' # None
    BY <1>2, BrwLockAssumption DEF WakeWriter, BrwInv, TlockOK
  <2>4. \A u \in Threads \ {t} :
          pc[u] \notin {"read_decide", "write_decide", "upgrade_decide", "wake", "woke"}
    BY OthersOutside DEF WakeWriter, BrwInv
  <2> QED BY <1>1, <1>2, <1>3, <2>1, <2>2, <2>3, <2>4 DEF OwnerInv, OwnerOK, Deciding
<1> QED BY <1>4, <1>5

(* Woken readers leave the inheritor to WakeDone.                           *)
LEMMA WakeReaderOwner ==
  ASSUME BrwInv, OwnerInv, NEW t \in Threads, WakeReader(t)
  PROVE  OwnerInv'
<1> DEFINE h == Head(queue).thread
<1>1. h \in Threads /\ pc[h] = "asleep" /\ h # t
  BY HeadTailFacts DEF WakeReader, BrwInv, QueueOK
<1>2. /\ pc'[h] = "woken_reader"
      /\ \A u \in Threads \ {h} : pc'[u] = pc[u]
      /\ writer' = writer /\ tlock' = tlock
  BY <1>1 DEF WakeReader, BrwInv, TypeOK
<1>3. WriterOK'
  BY <1>1, <1>2 DEF OwnerInv, WriterOK, BrwInv, TypeOK
<1>4. tlock' # None /\ pc[t] = "wake"
  BY <1>2, BrwLockAssumption DEF WakeReader, BrwInv, TlockOK
<1>5. \A u \in Threads \ {t} :
        pc[u] \notin {"read_decide", "write_decide", "upgrade_decide", "wake", "woke"}
  BY OthersOutside DEF WakeReader, BrwInv
<1> QED BY <1>1, <1>2, <1>3, <1>4, <1>5 DEF OwnerInv, OwnerOK, Deciding

(* After readers were woken nobody inherits.                                *)
LEMMA WakeDoneOwner ==
  ASSUME BrwInv, OwnerInv, NEW t \in Threads, WakeDone(t)
  PROVE  OwnerInv'
<1>1. /\ owner' = None /\ writer' = writer
      /\ pc[t] = "wake" /\ pc'[t] = "woke" /\ \A u \in Threads \ {t} : pc'[u] = pc[u]
  BY DEF WakeDone, BrwInv, TypeOK, Goto
<1>2. WriterOK'
  BY <1>1 DEF OwnerInv, WriterOK, BrwInv, TypeOK
<1> QED BY <1>1, <1>2, NoInheritor

(* The caller of Wake goes on.                                              *)
LEMMA AfterWakeOwner ==
  ASSUME BrwInv, BrwInv', OwnerInv, NEW t \in Threads, AfterWake(t)
  PROVE  OwnerInv'
<1>1. pc[t] = "woke"
  BY DEF AfterWake
<1>2. CASE JoinReaders(t) /\ ownership[t] = "Reader"
  <2>1. owner = None
    BY <1>1, <1>2 DEF OwnerInv, OwnerOK
  <2> QED BY <1>1, <1>2, <2>1, TurnOwner
<1>3. CASE Block(t, FALSE) \/ Block(t, TRUE)
  BY <1>1, <1>3, BlockOwner
<1>4. CASE /\ tlock' = None /\ Goto(t, "idle")
           /\ UNCHANGED <<word, writer, queue, owner, prev>>
  <2>1. pc'[t] = "idle" /\ \A u \in Threads \ {t} : pc'[u] = pc[u]
    BY <1>4 DEF BrwInv, TypeOK, Goto
  <2>2. WriterOK'
    BY <1>1, <1>4, <2>1 DEF OwnerInv, WriterOK, BrwInv, TypeOK
  <2>3. CASE owner # None
    <3>1. /\ queue # <<>> /\ pc[owner] = "woken_writer" /\ owner \in Threads
      BY <1>1, <2>3 DEF OwnerInv, OwnerOK, BrwInv, TypeOK
    <3>2. LentOK'
      BY <1>1, <1>4, <2>1, <3>1 DEF LentOK, Writers
    <3>3. \A u \in Threads \ {t} :
            pc[u] \notin {"read_decide", "write_decide", "upgrade_decide", "wake", "woke"}
      BY <1>1, OthersOutside DEF BrwInv
    <3> QED BY <2>1, <2>2, <3>2, <3>3, Inherits
  <2> QED BY <1>4, <2>2, <2>3, NoInheritor
<1> QED BY <1>2, <1>3, <1>4 DEF AfterWake

(* A woken thread runs.                                                     *)
LEMMA ResumeOwner ==
  ASSUME BrwInv, StrandInv, OwnerInv, NEW t \in Threads, Resume(t)
  PROVE  OwnerInv'
<1>1. /\ \A u \in Threads \ {t} : pc'[u] = pc[u]
      /\ \/ pc[t] = "woken_reader" /\ pc'[t] = "reading"
         \/ pc[t] = "woken_writer" /\ pc'[t] = "writing"
      /\ tlock = None /\ UNCHANGED <<writer, queue, owner>>
  BY DEF Resume, BrwInv, TypeOK, Goto
<1>2. WriterOK'
  BY <1>1 DEF OwnerInv, WriterOK, BrwInv, TypeOK
<1>3. CASE owner # None
  <2>1. pc[t] = "woken_writer" /\ t = owner /\ queue # <<>>
    BY <1>1, <1>3, LentFacts
  <2>2. LentOK'
    BY <1>1, <2>1 DEF LentOK, Writers
  <2> QED BY <1>1, <1>2, <1>3, <2>1, <2>2, LentFacts, Inherits
<1> QED BY <1>1, <1>2, <1>3, NoInheritor

(* The holder gives the lock back.                                          *)
LEMMA ReleaseOwner ==
  ASSUME BrwInv, StrandInv, OwnerInv, NEW t \in Threads,
         ReadRelease(t) \/ WriteRelease(t) \/ WriteReleaseWord(t)
  PROVE  OwnerInv'
<1>1. PICK l \in {"idle", "release", "write_release"} :
        /\ Goto(t, l) /\ UNCHANGED <<queue, owner, tlock, prev, ownership>>
        /\ \/ pc[t] = "reading" /\ writer' = writer
           \/ pc[t] = "writing" /\ writer' = None /\ l = "write_release"
           \/ /\ pc[t] = "write_release" /\ writer' = writer
              /\ waiting # 0 => l = "release"
  BY DEF ReadRelease, WriteRelease, WriteReleaseWord, wakeVars
<1>2. pc'[t] = l /\ \A u \in Threads \ {t} : pc'[u] = pc[u]
  BY <1>1 DEF BrwInv, TypeOK, Goto
<1>3. WriterOK'
  BY <1>1, <1>2 DEF OwnerInv, WriterOK, BrwInv, TypeOK
<1>4. CASE owner # None /\ tlock = None
  <2>1. /\ t = owner /\ queue # <<>> /\ waiting # 0
        /\ \/ l = "write_release"
           \/ pc[t] = "write_release" /\ l = "release"
    BY <1>1, <1>4, LentFacts
  <2>2. ASSUME l = "write_release" PROVE LentOK'
    BY <1>1, <1>2, <2>1, <2>2 DEF LentOK, Writers
  <2>3. ASSUME l = "release" PROVE LentOK'
    <3>1. Holding' = {} /\ Writers' = {}
      BY <1>1, <1>2, <1>4, <2>1, <2>3, LentFacts DEF Holding, Writers
    <3> QED BY <1>1, <1>2, <2>1, <2>3, <3>1 DEF LentOK
  <2>4. LentOK'
    BY <2>1, <2>2, <2>3
  <2> QED BY <1>2, <1>3, <1>4, <2>4, LentFacts, Inherits
<1> QED BY <1>1, <1>2, <1>3, <1>4, NoInheritor, LockedOwner

(* A reader that got in the way takes the wake-up over.                     *)
LEMMA ReleaseWakeupOwner ==
  ASSUME BrwInv, StrandInv, OwnerInv, NEW t \in Threads, ReleaseWakeup(t)
  PROVE  OwnerInv'
<1>1. /\ pc[t] = "release" /\ tlock = None /\ UNCHANGED <<writer, queue, owner>>
      /\ \A u \in Threads \ {t} : pc'[u] = pc[u]
      /\ \/ tlock' = t /\ pc'[t] = "wake"
         \/ /\ ~(waiting # 0 /\ ~writing /\ readers = 0)
            /\ tlock' = tlock /\ pc'[t] = "idle"
  BY DEF ReleaseWakeup, BrwInv, TypeOK, Goto
<1>2. WriterOK'
  BY <1>1 DEF OwnerInv, WriterOK, BrwInv, TypeOK
<1>3. CASE owner # None /\ pc'[t] = "wake"
  <2>1. tlock' # None
    BY <1>1, <1>3, BrwLockAssumption
  <2> QED BY <1>1, <1>2, <1>3, <2>1, LentFacts DEF OwnerInv, OwnerOK, Deciding
<1>4. CASE owner # None /\ pc'[t] = "idle"
  <2>1. Holding' = Holding /\ Writers' = Writers
    BY <1>1, <1>4 DEF Holding, Writers
  <2>2. ASSUME owner # t PROVE LentOK'
    BY <1>1, <1>4, <2>1, <2>2, LentFacts DEF LentOK
  <2>3. ASSUME owner = t PROVE LentOK'
    <3>1. Holding = {} /\ Writers = {} /\ waiting # 0
      BY <1>1, <1>4, <2>3, LentFacts DEF LentOK, Writers
    <3>2. ~writing
      BY <3>1 DEF BrwInv, ExclusionOK
    <3>3. Counted # {}
      BY <1>1, <1>4, <3>1, <3>2, WordFacts DEF BrwInv
    <3>4. PICK u \in Threads : pc[u] = "read_contended"
      BY <3>1, <3>3 DEF Counted, Holding
    <3>5. queue # <<>>
      BY <1>1, <1>4, LentFacts
    <3> QED BY <1>1, <1>4, <2>1, <2>3, <3>1, <3>4, <3>5 DEF LentOK
  <2> QED BY <1>1, <1>2, <1>4, <2>2, <2>3, LentFacts, Inherits
<1> QED BY <1>1, <1>2, <1>3, <1>4, NoInheritor

(* Every step keeps the invariant.                                          *)
LEMMA OwnerStep ==
  ASSUME BrwInv, BrwInv', StrandInv, OwnerInv, [Next]_vars
  PROVE  OwnerInv'
<1>1. CASE UNCHANGED vars
  BY <1>1 DEF vars, word, wakeVars, OwnerInv, WriterOK, OwnerOK, LentOK, Holding,
     Writers, Deciding, PrevWaiters
<1>2. CASE Next
  <2>1. PICK t \in Threads :
          ReadAcquire(t) \/ WriteAcquire(t) \/ ReadUpgrade(t) \/ Release(t) \/ InCall(t)
    BY <1>2 DEF Next
  <2>2. CASE ReadAcquire(t)
    BY <2>2, ReadAcquireOwner
  <2>3. CASE WriteAcquire(t) \/ ReadUpgrade(t)
    <3>1. UNCHANGED <<queue, owner, tlock, prev, ownership>>
      BY <2>3 DEF WriteAcquire, ReadUpgrade, wakeVars
    <3> QED BY <2>3, <3>1, WriteNowOwner, ContendedOwner DEF WriteAcquire, ReadUpgrade
  <2>4. CASE ContendedReadAcquire(t) \/ ContendedWriteAcquire(t) \/ ContendedReadUpgrade(t)
    BY <2>4, BecomeWaiterOwner
       DEF ContendedReadAcquire, ContendedWriteAcquire, ContendedReadUpgrade
  <2>5. CASE ReadDecide(t) \/ WriteDecide(t) \/ UpgradeDecide(t)
    BY <2>5, DecideOwner
  <2>6. CASE WakeWriter(t) \/ WakeReader(t) \/ WakeDone(t) \/ AfterWake(t)
    BY <2>6, WakeWriterOwner, WakeReaderOwner, WakeDoneOwner, AfterWakeOwner
  <2>7. CASE Resume(t) \/ ReleaseWakeup(t)
    BY <2>7, ResumeOwner, ReleaseWakeupOwner
  <2>8. CASE ReadRelease(t) \/ WriteRelease(t) \/ WriteReleaseWord(t)
    BY <2>8, ReleaseOwner
  <2> QED BY <2>1, <2>2, <2>3, <2>4, <2>5, <2>6, <2>7, <2>8 DEF Release, InCall
<1> QED BY <1>1, <1>2

(* The thread that inherits the priority of the queue is the one the queue  *)
(* waits for, whatever fast paths ran between a release and its wake-up     *)
(* (brwlock.cc:20-100, 185-240).                                            *)
THEOREM InheritorHoldsAlways == Spec => []InheritorHolds
<1>1. Init => OwnerInv
  BY DEF Init, OwnerInv, WriterOK, OwnerOK
<1>2. BrwInv /\ BrwInv' /\ StrandInv /\ OwnerInv /\ [Next]_vars => OwnerInv'
  BY OwnerStep
<1>3. OwnerInv => InheritorHolds
  BY DEF OwnerInv, OwnerOK, LentOK, InheritorHolds, Writers
<1>4. BrwInv /\ BrwInv' /\ StrandInv /\ [Next]_vars => StrandInv'
  BY StrandStep
<1> QED BY <1>1, <1>2, <1>3, <1>4, StrandInit, BrwInvariant, PTL DEF Spec
=============================================================================
