------------------------------ MODULE BrwLock ------------------------------
(***************************************************************************)
(* The blocking reader-writer lock with priority inheritance               *)
(* (kernel/brwlock.cc, include/kernel/brwlock.h; BrwLockPi).               *)
(*                                                                         *)
(* One word counts readers and waiters and has a bit for the writer; each  *)
(* step below changes it with one atomic operation.  A reader adds itself  *)
(* first and looks afterwards, so the count of readers may include threads *)
(* that will have to wait.  The slow paths run under the thread lock,      *)
(* while the fast paths of other threads go on changing the word.          *)
(***************************************************************************)
EXTENDS Integers, Sequences, SequencesExt

CONSTANTS
  Threads,
  None

ASSUME BrwLockAssumption == None \notin Threads

VARIABLES
  readers, waiting, writing,   \* the fields of state_
  writer,      \* writer_
  queue,       \* wait_: sequence of [thread, write]
  owner,       \* wait_.owner()
  tlock,       \* the thread that holds the thread lock
  pc,
  prev,        \* the word before the atomic operation of a slow path
  after,       \* for what a thread is in Wake: "read", "write", "release"
  ownership    \* what Wake returns: whether it has woken readers

word == <<readers, waiting, writing>>
wakeVars == <<after, ownership>>
vars == <<word, writer, queue, owner, tlock, pc, prev, wakeVars>>

Unlocked == <<0, 0, FALSE>>
OneReader == <<1, 0, FALSE>>

Init ==
  /\ readers = 0 /\ waiting = 0 /\ writing = FALSE
  /\ writer = None
  /\ queue = <<>>
  /\ owner = None
  /\ tlock = None
  /\ pc = [t \in Threads |-> "idle"]
  /\ prev = [t \in Threads |-> Unlocked]
  /\ after = [t \in Threads |-> "none"]
  /\ ownership = [t \in Threads |-> "Normal"]

Goto(t, label) == pc' = [pc EXCEPT ![t] = label]

(* fetch_add on the word.                                                   *)
Add(r, w) == readers' = readers + r /\ waiting' = waiting + w

Remember(t) == prev' = [prev EXCEPT ![t] = word]
Forget(t) == prev' = [prev EXCEPT ![t] = Unlocked]

PrevReaders(t) == prev[t][1]
PrevWaiters(t) == prev[t][2]
PrevWriter(t) == prev[t][3]
-----------------------------------------------------------------------------
(* ReadAcquire: count ourselves, and see whether there were only readers.   *)
ReadAcquire(t) ==
  /\ pc[t] = "idle"
  /\ Add(1, 0)
  /\ Goto(t, IF waiting = 0 /\ ~writing THEN "reading" ELSE "read_contended")
  /\ UNCHANGED <<writing, writer, queue, owner, tlock, prev, wakeVars>>

(* CommonWriteAcquire: word and writer_ change in one exchange.             *)
WriteNow(t, from) ==
  /\ word = from /\ writer = None
  /\ readers' = 0 /\ waiting' = 0 /\ writing' = TRUE
  /\ writer' = t

WriteAcquire(t) ==
  /\ pc[t] = "idle"
  /\ \/ WriteNow(t, Unlocked) /\ Goto(t, "writing")
     \/ /\ ~(word = Unlocked /\ writer = None)
        /\ Goto(t, "write_contended")
        /\ UNCHANGED <<word, writer>>
  /\ UNCHANGED <<queue, owner, tlock, prev, wakeVars>>

ReadUpgrade(t) ==
  /\ pc[t] = "reading"
  /\ \/ WriteNow(t, OneReader) /\ Goto(t, "writing")
     \/ /\ ~(word = OneReader /\ writer = None)
        /\ Goto(t, "upgrade_contended")
        /\ UNCHANGED <<word, writer>>
  /\ UNCHANGED <<queue, owner, tlock, prev, wakeVars>>
-----------------------------------------------------------------------------
(* The slow paths begin by entering the thread lock and becoming a waiter.  *)
BecomeWaiter(t, r, label) ==
  /\ tlock = None
  /\ tlock' = t
  /\ Remember(t)
  /\ Add(r, 1)
  /\ Goto(t, label)
  /\ UNCHANGED <<writing, writer, queue, owner, wakeVars>>

ContendedReadAcquire(t) == pc[t] = "read_contended" /\ BecomeWaiter(t, -1, "read_decide")
ContendedWriteAcquire(t) == pc[t] = "write_contended" /\ BecomeWaiter(t, 0, "write_decide")
ContendedReadUpgrade(t) == pc[t] = "upgrade_contended" /\ BecomeWaiter(t, -1, "upgrade_decide")

(* Block: sleep in the queue, at the place our priority gives us, and lend  *)
(* it to the writer.                                                        *)
Block(t, write) ==
  /\ \E i \in 1 .. Len(queue) + 1 :
       queue' = InsertAt(queue, i, [thread |-> t, write |-> write])
  /\ owner' = writer
  /\ tlock' = None
  /\ Forget(t)
  /\ Goto(t, "asleep")
  /\ UNCHANGED <<word, writer>>

(* A waiter turns into a reader without having slept, ...                   *)
JoinReaders(t) ==
  /\ Add(1, -1)
  /\ tlock' = None
  /\ Forget(t)
  /\ Goto(t, "reading")
  /\ UNCHANGED <<writing, writer, queue, owner>>

(* ... or into the writer.  The store to writer_ and the fetch_add after it *)
(* are one step: writer_ is read by holders of the thread lock, which this  *)
(* thread has, and by the writer itself, and as the word counts this waiter *)
(* no fast path of a writer, which would set writer_, succeeds in between.  *)
BecomeWriter(t) ==
  /\ Add(0, -1)
  /\ writing' = TRUE
  /\ writer' = t
  /\ tlock' = None
  /\ Forget(t)
  /\ Goto(t, "writing")
  /\ UNCHANGED <<queue, owner>>

(* Wake somebody first and go on with next afterwards.                      *)
StartWake(t, next) ==
  /\ Goto(t, "wake")
  /\ after' = [after EXCEPT ![t] = next]
  /\ UNCHANGED <<word, writer, queue, owner, tlock, prev, ownership>>

(* We were the only thread that the word counted as a reader.               *)
OnlyReader(t) == PrevReaders(t) = 1

ReadDecide(t) ==
  /\ pc[t] = "read_decide"
  /\ IF ~PrevWriter(t) /\ PrevWaiters(t) # 0 /\ OnlyReader(t)
       THEN StartWake(t, "read")
       ELSE /\ IF ~PrevWriter(t) /\ PrevWaiters(t) = 0
                 THEN JoinReaders(t)
                 ELSE Block(t, FALSE)
            /\ UNCHANGED <<after, ownership>>

WriteDecide(t) ==
  /\ pc[t] = "write_decide"
  /\ IF ~PrevWriter(t) /\ PrevReaders(t) = 0 /\ PrevWaiters(t) # 0
       THEN StartWake(t, "write")
       ELSE /\ IF ~PrevWriter(t) /\ PrevReaders(t) = 0
                 THEN BecomeWriter(t)
                 ELSE Block(t, TRUE)
            /\ UNCHANGED <<after, ownership>>

NoWriter(t) == ~PrevWriter(t)

(* No other reader and no writer; threads that only wait are passed by,     *)
(* since we had the lock already.                                           *)
CanUpgrade(t) == PrevReaders(t) = 1 /\ ~PrevWriter(t)

UpgradeDecide(t) ==
  /\ pc[t] = "upgrade_decide"
  /\ IF CanUpgrade(t) THEN BecomeWriter(t) ELSE Block(t, TRUE)
  /\ UNCHANGED <<after, ownership>>
-----------------------------------------------------------------------------
AlwaysInherits(w) == w

(* The woken writer inherits the priority of those left in the queue.       *)
Inheritor(w) == IF Len(queue) = 1 THEN None ELSE w

(* Wake, one thread of the queue at a time: the first if it is a writer, ...*)
WakeWriter(t) ==
  /\ pc[t] = "wake" /\ ownership[t] = "Normal"
  /\ queue # <<>> /\ Head(queue).write
  /\ Add(0, -1)
  /\ writing' = TRUE
  /\ writer' = Head(queue).thread
  /\ queue' = Tail(queue)
  /\ owner' = Inheritor(Head(queue).thread)
  /\ pc' = [pc EXCEPT ![Head(queue).thread] = "woken_writer", ![t] = "woke"]
  /\ UNCHANGED <<tlock, prev, after, ownership>>

(* ... else the readers up to the first writer, ...                         *)
WakeReader(t) ==
  /\ pc[t] = "wake"
  /\ queue # <<>> /\ ~Head(queue).write
  /\ Add(1, -1)
  /\ queue' = Tail(queue)
  /\ ownership' = [ownership EXCEPT ![t] = "Reader"]
  /\ pc' = [pc EXCEPT ![Head(queue).thread] = "woken_reader"]
  /\ UNCHANGED <<writing, writer, owner, tlock, prev, after>>

(* ... after which the queue has no owner.                                  *)
WakeDone(t) ==
  /\ pc[t] = "wake"
  /\ queue # <<>> => Head(queue).write /\ ownership[t] = "Reader"
  /\ owner' = None
  /\ Goto(t, "woke")
  /\ UNCHANGED <<word, writer, queue, tlock, prev, after, ownership>>

(* What the caller of Wake does next: join the readers it has woken, sleep, *)
(* or leave.                                                                *)
AfterWake(t) ==
  /\ pc[t] = "woke"
  /\ \/ /\ after[t] = "read" /\ ownership[t] = "Reader"
        /\ JoinReaders(t)
     \/ /\ after[t] = "read" /\ ownership[t] = "Normal"
        /\ Block(t, FALSE)
     \/ /\ after[t] = "write"
        /\ Block(t, TRUE)
     \/ /\ after[t] = "release"
        /\ tlock' = None
        /\ Goto(t, "idle")
        /\ UNCHANGED <<word, writer, queue, owner, prev>>
  /\ after' = [after EXCEPT ![t] = "none"]
  /\ ownership' = [ownership EXCEPT ![t] = "Normal"]

(* A woken thread runs once its waker has dropped the thread lock.          *)
Resume(t) ==
  /\ tlock = None
  /\ \/ pc[t] = "woken_reader" /\ Goto(t, "reading")
     \/ pc[t] = "woken_writer" /\ Goto(t, "writing")
  /\ UNCHANGED <<word, writer, queue, owner, tlock, prev, wakeVars>>
-----------------------------------------------------------------------------
NoReaderWakes == readers = 0 /\ waiting > 0

(* The last reader has waiters to wake.                                     *)
LastReaderWakes == readers = 1 /\ waiting > 0

ReadRelease(t) ==
  /\ pc[t] = "reading"
  /\ Add(-1, 0)
  /\ Goto(t, IF LastReaderWakes THEN "release" ELSE "idle")
  /\ UNCHANGED <<writing, writer, queue, owner, tlock, prev, wakeVars>>

(* WriteRelease forgets the writer first, ...                               *)
WriteRelease(t) ==
  /\ pc[t] = "writing"
  /\ writer' = None
  /\ Goto(t, "write_release")
  /\ UNCHANGED <<word, queue, owner, tlock, prev, wakeVars>>

(* ... then the bit.                                                        *)
WriteReleaseWord(t) ==
  /\ pc[t] = "write_release"
  /\ writing' = FALSE
  /\ Goto(t, IF waiting # 0 THEN "release" ELSE "idle")
  /\ UNCHANGED <<readers, waiting, writer, queue, owner, tlock, prev, wakeVars>>

(* ReleaseWakeup: others may have come and gone since.                      *)
ReleaseWakeup(t) ==
  /\ pc[t] = "release"
  /\ tlock = None
  /\ IF waiting # 0 /\ ~writing /\ readers = 0
       THEN /\ tlock' = t
            /\ after' = [after EXCEPT ![t] = "release"]
            /\ Goto(t, "wake")
       ELSE Goto(t, "idle") /\ UNCHANGED <<tlock, after>>
  /\ UNCHANGED <<word, writer, queue, owner, prev, ownership>>
-----------------------------------------------------------------------------
InCall(t) ==
  \/ ContendedReadAcquire(t) \/ ContendedWriteAcquire(t) \/ ContendedReadUpgrade(t)
  \/ ReadDecide(t) \/ WriteDecide(t) \/ UpgradeDecide(t)
  \/ WakeWriter(t) \/ WakeReader(t) \/ WakeDone(t) \/ AfterWake(t) \/ Resume(t)
  \/ WriteReleaseWord(t) \/ ReleaseWakeup(t)

Release(t) == ReadRelease(t) \/ WriteRelease(t)

Next ==
  \E t \in Threads :
    ReadAcquire(t) \/ WriteAcquire(t) \/ ReadUpgrade(t) \/ Release(t) \/ InCall(t)

Spec == Init /\ [][Next]_vars

(* Threads in a slow path go on when the thread lock is theirs for the      *)
(* taking, and a thread that has the lock gives it back.  The thread lock   *)
(* may pass a thread by, so that fairness is weak.                          *)
FairSpec ==
  /\ Spec
  /\ \A t \in Threads : WF_vars(InCall(t) \/ Release(t))
-----------------------------------------------------------------------------
Reading == {t \in Threads : pc[t] \in {"reading", "upgrade_contended"}}
Writing == {t \in Threads : pc[t] = "writing"}

Lock == INSTANCE SharedLock WITH readers <- Reading, writers <- Writing

Labels == {"idle", "reading", "writing", "read_contended", "write_contended",
           "upgrade_contended", "read_decide", "write_decide", "upgrade_decide",
           "asleep", "wake", "woke", "woken_reader", "woken_writer",
           "write_release", "release"}

TypeOK ==
  /\ readers \in Nat
  /\ waiting \in Nat
  /\ writing \in BOOLEAN
  /\ writer \in Threads \cup {None}
  /\ owner \in Threads \cup {None}
  /\ tlock \in Threads \cup {None}
  /\ pc \in [Threads -> Labels]
  /\ queue \in Seq([thread : Threads, write : BOOLEAN])
  /\ prev \in [Threads -> Nat \X Nat \X BOOLEAN]
  /\ after \in [Threads -> {"none", "read", "write", "release"}]
  /\ ownership \in [Threads -> {"Normal", "Reader"}]

(* Readers exclude writers and a writer everybody, by whichever of the fast *)
(* paths, races, upgrades and hand-offs they came in.                       *)
ReadersWriters == Lock!Spec

(* Nobody sleeps in a free lock: if there is a queue, a thread is inside or *)
(* is on its way to wake the next.  (Every variable keeps its type.)        *)
NobodyStranded ==
  /\ TypeOK
  /\ queue # <<>> =>
       \E t \in Threads : pc[t] \notin {"idle", "asleep", "write_contended"}

(* The thread that inherits the priority of the queue is the one the queue  *)
(* waits for: the writer, or a thread that is giving the lock back.  It     *)
(* keeps the priority longer only while a reader that got in the way of its *)
(* wake-up is on the way to the thread lock to do that instead; and no      *)
(* thread inherits from a queue it sleeps in.                               *)
InheritorHolds ==
  (owner # None /\ tlock = None) =>
    /\ queue # <<>>
    /\ \/ pc[owner] \in {"writing", "woken_writer", "write_release", "release"}
       \/ pc[owner] # "asleep" /\ \E t \in Threads : pc[t] = "read_contended"

(* A lock that is free while threads want it is taken in the end.  Which of *)
(* them gets it is up to their priorities and to who comes between.         *)
Wanting == {t \in Threads :
  pc[t] \in {"read_contended", "write_contended", "asleep"}}

TakenAgain ==
  (Reading \cup Writing = {} /\ Wanting # {}) ~> (Reading \cup Writing # {})
=============================================================================
