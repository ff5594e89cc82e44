----------------------------- MODULE SharedLock -----------------------------
(***************************************************************************)
(* What a lock of the kernel promises its clients: any number of threads   *)
(* inside as readers, or one as a writer.  A mutex has no readers.         *)
(***************************************************************************)
CONSTANT Threads

VARIABLES
  readers,   \* the threads inside a read-side critical section
  writers    \* the threads inside a write-side critical section

lockVars == <<readers, writers>>

Init == readers = {} /\ writers = {}

EnterRead(t) ==
  /\ writers = {}
  /\ t \notin readers
  /\ readers' = readers \cup {t}
  /\ UNCHANGED writers

EnterWrite(t) ==
  /\ readers = {} /\ writers = {}
  /\ writers' = {t}
  /\ UNCHANGED readers

LeaveRead(t) ==
  /\ t \in readers
  /\ readers' = readers \ {t}
  /\ UNCHANGED writers

LeaveWrite(t) ==
  /\ t \in writers
  /\ writers' = writers \ {t}
  /\ UNCHANGED readers

(* The only reader becomes the writer, nobody having been inside between.   *)
Upgrade(t) ==
  /\ readers = {t} /\ writers = {}
  /\ readers' = {}
  /\ writers' = {t}

Next ==
  \E t \in Threads :
    EnterRead(t) \/ EnterWrite(t) \/ LeaveRead(t) \/ LeaveWrite(t) \/ Upgrade(t)

Spec == Init /\ [][Next]_lockVars
=============================================================================
