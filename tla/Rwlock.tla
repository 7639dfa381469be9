------------------------------- MODULE Rwlock -------------------------------
(***************************************************************************)
(* The queue read-write lock: xen/include/xen/rwlock.h for the fast paths  *)
(* and xen/common/rwlock.c for the slow paths.  The lock word cnts holds a *)
(* writer state, the number of the write-locking CPU and a reader count;   *)
(* contended callers wait in a spinlock, here the FIFO queue that module   *)
(* Spinlock implements.  One step is one atomic access to cnts or to the   *)
(* queue.                                                                  *)
(***************************************************************************)
EXTENDS Naturals, FiniteSets, Sequences

CONSTANTS
  NCPU,       \* number of CPUs
  ReaderMax,  \* INT_MAX >> _QR_SHIFT, the largest count _can_read_lock() takes
  MaxHold     \* bound: read locks one CPU holds at a time

CPUs == 0..(NCPU - 1)

(***************************************************************************)
(* BUILD_BUG_ON(NR_CPUS * _QR_BIAS > INT_MAX) lets every CPU be a reader.  *)
(* The room a write-lock holder needs to nest read locks while every other *)
(* CPU tries the fast path is what _can_read_lock()'s comment says "ought  *)
(* to be fine": there are 2^15 - 1 biases and at most 2^12 CPUs.           *)
(***************************************************************************)
ASSUME RwlockAssumption ==
  /\ NCPU \in Nat \ {0}
  /\ MaxHold \in Nat \ {0}
  /\ ReaderMax \in Nat /\ NCPU + MaxHold <= ReaderMax + 1

VARIABLES
  cnts,     \* the lock word: writer state w, CPU number cpu, reader count r
  queue,    \* the spinlock the slow paths wait in
  pc,       \* where each CPU is in its current call
  seen,     \* the reader count the writer slow path last read, 0 elsewhere
  rheld,    \* read locks each CPU holds, from its calls' point of view
  wheld     \* does it hold the write lock

vars == << cnts, queue, pc, seen, rheld, wheld >>

Fifo == INSTANCE FifoLock

(***************************************************************************)
(* out      not in a call                                                  *)
(* rsub     queue_read_lock_slowpath() is to undo the fast path            *)
(* renq     it is to join the queue                                        *)
(* rq       it waits for the writer state to be 0, at the queue's head     *)
(* radd     it has seen that and is to add its bias                        *)
(* rspin    rspin_until_writer_unlock()                                    *)
(* rdeq     it has the lock and is to leave the queue                      *)
(* rtadd    read_trylock() is to add its bias                              *)
(* rtsub    read_trylock() failed and is to subtract it again              *)
(* wenq     queue_write_lock_slowpath() is to join the queue               *)
(* wq       it is to look at cnts when at the queue's head                 *)
(* wcas     it has seen 0 and is to lock directly                          *)
(* wset     it is to find no writer state                                  *)
(* wsetcas  it has found none and is to set the waiting flag               *)
(* wwait    it waits for the readers to leave                              *)
(* wgrab    it has seen the last one leave and is to lock                  *)
(* wdeq     it has the lock and is to leave the queue                      *)
(* wtcas    write_trylock() has seen 0 and is to lock                      *)
(***************************************************************************)
PCs == {"out", "rsub", "renq", "rq", "radd", "rspin", "rdeq", "rtadd",
        "rtsub", "wenq", "wq", "wcas", "wset", "wsetcas", "wwait", "wgrab",
        "wdeq", "wtcas"}

Unlocked == [w |-> "none", cpu |-> 0, r |-> 0]
Waiting == [w |-> "waiting", cpu |-> 0, r |-> 0]             \* _QW_WAITING
WriteLockVal(c) == [w |-> "locked", cpu |-> c, r |-> 0]      \* _write_lock_val()

IsWriteLockedByMe(c, v) == v.w = "locked" /\ v.cpu = c

CanReadLockAnyOwner(c, v) ==                    \* mutant of CanReadLock
  v.r <= ReaderMax /\ v.w # "waiting"

CanReadLockWaiting(c, v) ==                     \* mutant of CanReadLock
  /\ v.r <= ReaderMax
  /\ v.w # "locked" \/ IsWriteLockedByMe(c, v)

CanReadLock(c, v) ==
  /\ v.r <= ReaderMax
  /\ v.w = "none" \/ IsWriteLockedByMe(c, v)

Goto(c, l) == pc' = [pc EXCEPT ![c] = l]

Hold(c) == rheld' = [rheld EXCEPT ![c] = @ + 1]

AddBias == [cnts EXCEPT !.r = @ + 1]
SubBias == [cnts EXCEPT !.r = @ - 1]

Init ==
  /\ cnts = Unlocked
  /\ queue = << >>
  /\ pc = [c \in CPUs |-> "out"]
  /\ seen = [c \in CPUs |-> 0]
  /\ rheld = [c \in CPUs |-> 0]
  /\ wheld = [c \in CPUs |-> FALSE]

-----------------------------------------------------------------------------
(***************************************************************************)
(* Readers.  check_lock() forbids read_lock() to a CPU that already reads. *)
(***************************************************************************)
read_lock(c) ==
  /\ pc[c] = "out"
  /\ rheld[c] = 0 \/ (wheld[c] /\ rheld[c] < MaxHold)
  /\ cnts' = AddBias
  /\ IF CanReadLock(c, AddBias)
       THEN Hold(c) /\ UNCHANGED pc
       ELSE Goto(c, "rsub") /\ UNCHANGED rheld
  /\ UNCHANGED << queue, seen, wheld >>

ReadSlowNoSub(c) ==                             \* mutant of ReadSlowSub
  /\ pc[c] = "rsub"
  /\ Goto(c, "renq")
  /\ UNCHANGED << cnts, queue, seen, rheld, wheld >>

ReadSlowSub(c) ==
  /\ pc[c] = "rsub"
  /\ cnts' = SubBias
  /\ Goto(c, "renq")
  /\ UNCHANGED << queue, seen, rheld, wheld >>

ReadSlowEnqueue(c) ==
  /\ pc[c] = "renq"
  /\ Fifo!Acquire(c)
  /\ Goto(c, "rq")
  /\ UNCHANGED << cnts, seen, rheld, wheld >>

ReadSlowNoWriter(c) ==
  /\ pc[c] = "rq" /\ Fifo!Holds(c)
  /\ cnts.w = "none"
  /\ Goto(c, "radd")
  /\ UNCHANGED << cnts, queue, seen, rheld, wheld >>

(***************************************************************************)
(* A writer may have stolen the lock since: the value atomic_add_return()  *)
(* gives is the first that rspin_until_writer_unlock() looks at.           *)
(***************************************************************************)
ReadSlowNoSpin(c) ==                            \* mutant of ReadSlowAdd
  /\ pc[c] = "radd"
  /\ cnts' = AddBias
  /\ Goto(c, "rdeq") /\ Hold(c)
  /\ UNCHANGED << queue, seen, wheld >>

ReadSlowAdd(c) ==
  /\ pc[c] = "radd"
  /\ cnts' = AddBias
  /\ IF cnts.w = "locked"
       THEN Goto(c, "rspin") /\ UNCHANGED rheld
       ELSE Goto(c, "rdeq") /\ Hold(c)
  /\ UNCHANGED << queue, seen, wheld >>

rspin_until_writer_unlock(c) ==
  /\ pc[c] = "rspin"
  /\ cnts.w # "locked"
  /\ Goto(c, "rdeq") /\ Hold(c)
  /\ UNCHANGED << cnts, queue, seen, wheld >>

Dequeue(c) ==
  /\ pc[c] \in {"rdeq", "wdeq"}
  /\ Fifo!Release(c)
  /\ Goto(c, "out")
  /\ UNCHANGED << cnts, seen, rheld, wheld >>

read_trylock(c) ==
  /\ pc[c] = "out" /\ rheld[c] < MaxHold
  /\ CanReadLock(c, cnts)
  /\ Goto(c, "rtadd")
  /\ UNCHANGED << cnts, queue, seen, rheld, wheld >>

ReadTryAdd(c) ==
  /\ pc[c] = "rtadd"
  /\ cnts' = AddBias
  /\ IF CanReadLock(c, AddBias)
       THEN Hold(c) /\ Goto(c, "out")
       ELSE Goto(c, "rtsub") /\ UNCHANGED rheld
  /\ UNCHANGED << queue, seen, wheld >>

ReadTrySub(c) ==
  /\ pc[c] = "rtsub"
  /\ cnts' = SubBias
  /\ Goto(c, "out")
  /\ UNCHANGED << queue, seen, rheld, wheld >>

read_unlock(c) ==
  /\ pc[c] = "out" /\ rheld[c] > 0
  /\ cnts' = SubBias
  /\ rheld' = [rheld EXCEPT ![c] = @ - 1]
  /\ UNCHANGED << queue, pc, seen, wheld >>

-----------------------------------------------------------------------------
(***************************************************************************)
(* Writers.  Cmpxchg(c, old, new, yes, no) is atomic_cmpxchg() on cnts and *)
(* where the call goes on when it succeeds and when it fails.              *)
(***************************************************************************)
Cmpxchg(c, old, new, yes, no) ==
  /\ IF cnts = old
       THEN cnts' = new /\ Goto(c, yes)
       ELSE cnts' = cnts /\ Goto(c, no)
  /\ wheld' = [wheld EXCEPT ![c] = cnts = old /\ new.w = "locked"]
  /\ seen' = [seen EXCEPT ![c] = 0]
  /\ UNCHANGED << queue, rheld >>

write_lock(c) ==
  /\ pc[c] = "out" /\ ~wheld[c] /\ rheld[c] = 0
  /\ Cmpxchg(c, Unlocked, WriteLockVal(c), "out", "wenq")

WriteSlowEnqueue(c) ==
  /\ pc[c] = "wenq"
  /\ Fifo!Acquire(c)
  /\ Goto(c, "wq")
  /\ UNCHANGED << cnts, seen, rheld, wheld >>

WriteSlowLook(c) ==
  /\ pc[c] = "wq" /\ Fifo!Holds(c)
  /\ Goto(c, IF cnts = Unlocked THEN "wcas" ELSE "wset")
  /\ UNCHANGED << cnts, queue, seen, rheld, wheld >>

WriteSlowDirect(c) ==
  /\ pc[c] = "wcas"
  /\ Cmpxchg(c, Unlocked, WriteLockVal(c), "wdeq", "wset")

WriteSlowNoWriter(c) ==
  /\ pc[c] = "wset"
  /\ cnts.w = "none"
  /\ seen' = [seen EXCEPT ![c] = cnts.r]
  /\ Goto(c, "wsetcas")
  /\ UNCHANGED << cnts, queue, rheld, wheld >>

WriteSlowSetWaiting(c) ==
  /\ pc[c] = "wsetcas"
  /\ Cmpxchg(c, [Unlocked EXCEPT !.r = seen[c]], [Waiting EXCEPT !.r = seen[c]],
             "wwait", "wset")

WriteSlowNoReader(c) ==
  /\ pc[c] = "wwait"
  /\ cnts = Waiting
  /\ Goto(c, "wgrab")
  /\ UNCHANGED << cnts, queue, seen, rheld, wheld >>

WriteSlowGrab(c) ==
  /\ pc[c] = "wgrab"
  /\ Cmpxchg(c, Waiting, WriteLockVal(c), "wdeq", "wwait")

write_trylock(c) ==
  /\ pc[c] = "out" /\ ~wheld[c]
  /\ cnts = Unlocked
  /\ Goto(c, "wtcas")
  /\ UNCHANGED << cnts, queue, seen, rheld, wheld >>

WriteTryCas(c) ==
  /\ pc[c] = "wtcas"
  /\ Cmpxchg(c, Unlocked, WriteLockVal(c), "out", "out")

(***************************************************************************)
(* atomic_and() clears the writer state and the CPU number and leaves the  *)
(* reader count: a writer that also reads becomes a reader.                *)
(***************************************************************************)
write_unlock(c) ==
  /\ pc[c] = "out" /\ wheld[c]
  /\ cnts' = [cnts EXCEPT !.w = "none", !.cpu = 0]
  /\ wheld' = [wheld EXCEPT ![c] = FALSE]
  /\ UNCHANGED << queue, pc, seen, rheld >>

-----------------------------------------------------------------------------
(***************************************************************************)
(* The steps within a call, and those that the caller decides on.          *)
(***************************************************************************)
Progress(c) ==
  \/ ReadSlowSub(c) \/ ReadSlowEnqueue(c) \/ ReadSlowNoWriter(c)
  \/ ReadSlowAdd(c) \/ rspin_until_writer_unlock(c) \/ Dequeue(c)
  \/ ReadTryAdd(c) \/ ReadTrySub(c)
  \/ WriteSlowEnqueue(c) \/ WriteSlowLook(c) \/ WriteSlowDirect(c)
  \/ WriteSlowNoWriter(c) \/ WriteSlowSetWaiting(c)
  \/ WriteSlowNoReader(c) \/ WriteSlowGrab(c) \/ WriteTryCas(c)

Use(c) ==
  \/ read_lock(c) \/ read_trylock(c) \/ read_unlock(c)
  \/ write_lock(c) \/ write_trylock(c) \/ write_unlock(c)

Next == \E c \in CPUs : Progress(c) \/ Use(c)

(***************************************************************************)
(* CPUs run and critical sections end.                                     *)
(***************************************************************************)
Fairness == \A c \in CPUs : /\ WF_vars(Progress(c))
                            /\ WF_vars(read_unlock(c))
                            /\ SF_vars(write_unlock(c))

Spec == Init /\ [][Next]_vars

FairSpec == Spec /\ Fairness

-----------------------------------------------------------------------------
LockWords == [w : {"none", "waiting", "locked"}, cpu : CPUs, r : Nat]

TypeOK ==
  /\ cnts \in LockWords
  /\ queue \in Seq(CPUs)
  /\ pc \in [CPUs -> PCs]
  /\ seen \in [CPUs -> Nat]
  /\ rheld \in [CPUs -> 0..MaxHold]
  /\ wheld \in [CPUs -> BOOLEAN]

(***************************************************************************)
(* While one CPU is inside the write lock no other CPU is inside the lock  *)
(* at all, whatever mix of fast paths, slow paths and trylocks got them    *)
(* there.                                                                  *)
(***************************************************************************)
RwExclusion ==
  \A b, c \in CPUs : wheld[c] /\ b # c => ~wheld[b] /\ rheld[b] = 0

(***************************************************************************)
(* The bias a CPU has in cnts: one for each read lock it holds and one     *)
(* while a call of its own is between adding it and taking it back or      *)
(* being let in.                                                           *)
(***************************************************************************)
Bias(c) == rheld[c] + IF pc[c] \in {"rsub", "rtsub", "rspin"} THEN 1 ELSE 0

BiasTokens == {t \in CPUs \X (1..MaxHold + 1) : t[2] <= Bias(t[1])}

(***************************************************************************)
(* The reader count is exact: no path leaks a bias or takes one back       *)
(* twice, so a lock that nobody uses has the value 0 the writer fast path  *)
(* waits for, and the count never borrows from the writer bits below it.   *)
(***************************************************************************)
CountExact == cnts.r = Cardinality(BiasTokens)

(***************************************************************************)
(* The writer bits are exact: they name the write-lock holder and nobody   *)
(* else, as _is_write_locked_by_me() relies on, and the waiting flag is up *)
(* only while the CPU at the head of the queue waits for readers to leave. *)
(***************************************************************************)
WriterExact ==
  /\ \A c \in CPUs : wheld[c] <=> IsWriteLockedByMe(c, cnts)
  /\ cnts.w # "locked" => cnts.cpu = 0
  /\ cnts.w = "waiting" <=> \E c \in CPUs : pc[c] \in {"wwait", "wgrab"}

(***************************************************************************)
(* Both at once: whatever mix of fast paths, slow paths and trylocks has   *)
(* run, the lock word says who holds the lock and who is about to.         *)
(***************************************************************************)
LockWordExact == TypeOK /\ CountExact /\ WriterExact

(***************************************************************************)
(* rwlock_t implements the read-write lock its users reason with.          *)
(***************************************************************************)
Rw == INSTANCE RwlockSpec WITH writers <- {c \in CPUs : wheld[c]},
                               readers <- rheld

ImplementsRwlock == Rw!Spec

(***************************************************************************)
(* Once a writer in queue_write_lock_slowpath() has put up the waiting     *)
(* flag it gets the lock: readers that arrive later queue behind it, and   *)
(* neither their short-lived biases nor trylocks hold it up for ever.  And *)
(* a queued reader that has added its bias gets it: the bias keeps further *)
(* writers out, so it only waits for the one that overtook it.             *)
(***************************************************************************)
QueueHeadLocks ==
  \A c \in CPUs : /\ pc[c] = "wwait" ~> wheld[c]
                  /\ pc[c] = "rspin" ~> rheld[c] > 0

=============================================================================
