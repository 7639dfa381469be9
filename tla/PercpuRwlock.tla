---------------------------- MODULE PercpuRwlock ----------------------------
(***************************************************************************)
(* The per-CPU read-write lock of xen/include/xen/rwlock.h and             *)
(* _percpu_write_lock() of xen/common/rwlock.c, as the grant tables and    *)
(* the p2m use it.  A reader only writes a slot of its own CPU; a writer   *)
(* announces itself, which sends new readers to the embedded rwlock, and   *)
(* then waits until it has seen every slot without its lock.               *)
(*                                                                         *)
(* Several locks share one set of slots: a CPU that reads a second lock    *)
(* falls back to that lock's rwlock.  The rwlock is the one RwlockSpec     *)
(* describes (module Rwlock implements it).                                *)
(*                                                                         *)
(* The protocol is a store on one side against a load on the other, so     *)
(* stores are not atomic here: each CPU has a FIFO store buffer, drained   *)
(* at any time.  smp_mb() and atomic read-modify-writes wait for it.       *)
(***************************************************************************)
EXTENDS Naturals, FiniteSets, Sequences

CONSTANTS
  CPUs,
  Pluggable,  \* CPUs that may go offline
  NLocks,     \* number of percpu_rwlock_t that share the slots
  Reads,      \* pairs of a CPU and a lock that it reads
  Writes      \* pairs of a CPU and a lock that it writes

Locks == 1..NLocks                 \* in the order callers nest them
NULL == 0

ASSUME PercpuRwlockAssumption ==
  NLocks \in Nat \ {0} /\ IsFiniteSet(CPUs) /\ Pluggable \subseteq CPUs

VARIABLES
  slot,      \* per_cpu_ptr(per_cpudata, c) in memory
  act,       \* writer_activating of each lock in memory
  buf,       \* the stores of each CPU that are not in memory yet
  writer,    \* CPUs that hold the embedded rwlock for writing
  readers,   \* CPUs that hold it for reading
  online,    \* cpu_online_map
  pc,        \* where each CPU is in its current call
  lock,      \* the lock that call is about
  mask,      \* percpu_rwlock_readers of each CPU
  reading,   \* percpu_rwlock_t each CPU holds for reading, innermost last
  writing    \* and for writing

vars == << slot, act, buf, writer, readers, online, pc, lock, mask, reading,
           writing >>
rwlocks == << writer, readers >>
holds == << reading, writing >>

PCs == {"out", "rcheck", "rnull", "rwait", "rset", "rdrop", "fallback",
        "wlock", "wact", "wmask", "wscan", "wrel"}

Elements(s) == {s[i] : i \in 1..Len(s)}

Goto(c, l) == pc' = [pc EXCEPT ![c] = l]

(***************************************************************************)
(* Stores: to the CPU's own slot, and to writer_activating.                *)
(***************************************************************************)
SlotStore(v) == [to |-> "slot", lock |-> NULL, val |-> v]
ActStore(l, v) == [to |-> "act", lock |-> l, val |-> v]

Store(c, s) == buf' = [buf EXCEPT ![c] = Append(@, s)]

Drained(c) == buf[c] = << >>

(***************************************************************************)
(* this_cpu_ptr(per_cpudata): the CPU sees its own latest store.           *)
(***************************************************************************)
Mine(c) ==
  LET mine == {i \in 1..Len(buf[c]) : buf[c][i].to = "slot"}
  IN IF mine = {} THEN slot[c]
     ELSE buf[c][CHOOSE i \in mine : \A j \in mine : j <= i].val

(***************************************************************************)
(* Callers nest locks in one order and do not take a lock they hold.       *)
(***************************************************************************)
MayTake(c, l) ==
  /\ pc[c] = "out" /\ c \in online
  /\ \A k \in Elements(reading[c]) \cup writing[c] : k < l

Init ==
  /\ slot = [c \in CPUs |-> NULL]
  /\ act = [l \in Locks |-> FALSE]
  /\ buf = [c \in CPUs |-> << >>]
  /\ writer = [l \in Locks |-> {}]
  /\ readers = [l \in Locks |-> {}]
  /\ online = CPUs
  /\ pc = [c \in CPUs |-> "out"]
  /\ lock = [c \in CPUs |-> NULL]
  /\ mask = [c \in CPUs |-> {}]
  /\ reading = [c \in CPUs |-> << >>]
  /\ writing = [c \in CPUs |-> {}]

(***************************************************************************)
(* The memory system: the oldest buffered store of a CPU takes effect.     *)
(***************************************************************************)
Drain(c) ==
  /\ buf[c] # << >>
  /\ LET s == Head(buf[c])
     IN IF s.to = "slot"
          THEN slot' = [slot EXCEPT ![c] = s.val] /\ act' = act
          ELSE act' = [act EXCEPT ![s.lock] = s.val] /\ slot' = slot
  /\ buf' = [buf EXCEPT ![c] = Tail(@)]
  /\ UNCHANGED << rwlocks, online, pc, lock, mask, holds >>

-----------------------------------------------------------------------------
(***************************************************************************)
(* _percpu_read_lock(): announce the read in the slot, or fall back when   *)
(* the slot is taken by another lock.                                      *)
(***************************************************************************)
ReadOverwritesSlot(c, l) ==                     \* mutant of percpu_read_lock
  /\ MayTake(c, l)
  /\ lock' = [lock EXCEPT ![c] = l]
  /\ Goto(c, "rcheck") /\ Store(c, SlotStore(l))
  /\ UNCHANGED << slot, act, rwlocks, online, mask, holds >>

percpu_read_lock(c, l) ==
  /\ MayTake(c, l)
  /\ lock' = [lock EXCEPT ![c] = l]
  /\ IF Mine(c) # NULL
       THEN Goto(c, "fallback") /\ buf' = buf
       ELSE Goto(c, "rcheck") /\ Store(c, SlotStore(l))
  /\ UNCHANGED << slot, act, rwlocks, online, mask, holds >>

Enter(c) == reading' = [reading EXCEPT ![c] = Append(@, lock[c])]

ReadCheckNoBarrier(c) ==                        \* mutant of ReadCheck
  /\ pc[c] = "rcheck"
  /\ IF act[lock[c]]
       THEN Goto(c, "rnull") /\ UNCHANGED reading
       ELSE Goto(c, "out") /\ Enter(c)
  /\ UNCHANGED << slot, act, buf, rwlocks, online, lock, mask, writing >>

(***************************************************************************)
(* smp_mb(), then look for a writer.                                       *)
(***************************************************************************)
ReadCheck(c) ==
  /\ pc[c] = "rcheck" /\ Drained(c)
  /\ IF act[lock[c]]
       THEN Goto(c, "rnull") /\ UNCHANGED reading
       ELSE Goto(c, "out") /\ Enter(c)
  /\ UNCHANGED << slot, act, buf, rwlocks, online, lock, mask, writing >>

ReadNull(c) ==
  /\ pc[c] = "rnull"
  /\ Store(c, SlotStore(NULL))
  /\ Goto(c, "rwait")
  /\ UNCHANGED << slot, act, rwlocks, online, lock, mask, holds >>

(***************************************************************************)
(* read_lock(&percpu_rwlock->rwlock), on either path.                      *)
(***************************************************************************)
ReadWait(c) ==
  /\ pc[c] \in {"rwait", "fallback"} /\ Drained(c)
  /\ writer[lock[c]] \subseteq {c}
  /\ readers' = [readers EXCEPT ![lock[c]] = @ \cup {c}]
  /\ IF pc[c] = "rwait"
       THEN Goto(c, "rset") /\ UNCHANGED reading
       ELSE Goto(c, "out") /\ Enter(c)
  /\ UNCHANGED << slot, act, buf, writer, online, lock, mask, writing >>

ReadSet(c) ==
  /\ pc[c] = "rset"
  /\ Store(c, SlotStore(lock[c]))
  /\ Goto(c, "rdrop")
  /\ UNCHANGED << slot, act, rwlocks, online, lock, mask, holds >>

ReadDrop(c) ==
  /\ pc[c] = "rdrop" /\ Drained(c)
  /\ readers' = [readers EXCEPT ![lock[c]] = @ \ {c}]
  /\ Goto(c, "out") /\ Enter(c)
  /\ UNCHANGED << slot, act, buf, writer, online, lock, mask, writing >>

(***************************************************************************)
(* _percpu_read_unlock() of the lock taken last.                           *)
(***************************************************************************)
percpu_read_unlock(c) ==
  /\ pc[c] = "out" /\ reading[c] # << >>
  /\ LET l == reading[c][Len(reading[c])]
     IN /\ reading' = [reading EXCEPT ![c] = SubSeq(@, 1, Len(@) - 1)]
        /\ IF Mine(c) # l
             THEN /\ Drained(c)
                  /\ readers' = [readers EXCEPT ![l] = @ \ {c}]
                  /\ buf' = buf
             ELSE Store(c, SlotStore(NULL)) /\ UNCHANGED readers
  /\ UNCHANGED << slot, act, writer, online, pc, lock, mask, writing >>

-----------------------------------------------------------------------------
percpu_write_lock(c, l) ==
  /\ MayTake(c, l)
  /\ lock' = [lock EXCEPT ![c] = l]
  /\ Goto(c, "wlock")
  /\ UNCHANGED << slot, act, buf, rwlocks, online, mask, holds >>

WriteAcquire(c) ==
  /\ pc[c] = "wlock" /\ Drained(c)
  /\ writer[lock[c]] = {} /\ readers[lock[c]] = {}
  /\ writer' = [writer EXCEPT ![lock[c]] = {c}]
  /\ Goto(c, "wact")
  /\ UNCHANGED << slot, act, buf, readers, online, lock, mask, holds >>


WriteActivate(c) ==
  /\ pc[c] = "wact"
  /\ Store(c, ActStore(lock[c], TRUE))
  /\ Goto(c, "wmask")
  /\ UNCHANGED << slot, act, rwlocks, online, lock, mask, holds >>

(***************************************************************************)
(* smp_mb(), then copy cpu_online_map.                                     *)
(***************************************************************************)
WriteMask(c) ==
  /\ pc[c] = "wmask" /\ Drained(c)
  /\ mask' = [mask EXCEPT ![c] = online]
  /\ Goto(c, "wscan")
  /\ UNCHANGED << slot, act, buf, rwlocks, online, lock, holds >>

(***************************************************************************)
(* The scan drops the CPUs it sees with another lock, or none, in the      *)
(* slot; it goes round until none is left.                                 *)
(***************************************************************************)
WriteScan(c, b) ==
  /\ pc[c] = "wscan" /\ b \in mask[c]
  /\ (IF b = c THEN Mine(b) ELSE slot[b]) # lock[c]
  /\ mask' = [mask EXCEPT ![c] = @ \ {b}]
  /\ UNCHANGED << slot, act, buf, rwlocks, online, pc, lock, holds >>

WriteScanEnd(c) ==
  /\ pc[c] = "wscan" /\ mask[c] = {}
  /\ writing' = [writing EXCEPT ![c] = @ \cup {lock[c]}]
  /\ Goto(c, "out")
  /\ UNCHANGED << slot, act, buf, rwlocks, online, lock, mask, reading >>

percpu_write_unlock(c, l) ==
  /\ pc[c] = "out" /\ l \in writing[c]
  /\ lock' = [lock EXCEPT ![c] = l]
  /\ writing' = [writing EXCEPT ![c] = @ \ {l}]
  /\ Store(c, ActStore(l, FALSE))
  /\ Goto(c, "wrel")
  /\ UNCHANGED << slot, act, rwlocks, online, mask, reading >>

WriteRelease(c) ==
  /\ pc[c] = "wrel" /\ Drained(c)
  /\ writer' = [writer EXCEPT ![lock[c]] = {}]
  /\ Goto(c, "out")
  /\ UNCHANGED << slot, act, buf, readers, online, lock, mask, holds >>

-----------------------------------------------------------------------------
(***************************************************************************)
(* CPUs go down holding no lock (stop-machine context) and come back up.   *)
(***************************************************************************)
CpuDown(c) ==
  /\ c \in online \cap Pluggable /\ pc[c] = "out" /\ Drained(c)
  /\ reading[c] = << >> /\ writing[c] = {}
  /\ online' = online \ {c}
  /\ UNCHANGED << slot, act, buf, rwlocks, pc, lock, mask, holds >>

CpuUp(c) ==
  /\ c \notin online
  /\ online' = online \cup {c}
  /\ UNCHANGED << slot, act, buf, rwlocks, pc, lock, mask, holds >>

Progress(c) ==
  \/ ReadCheck(c) \/ ReadNull(c) \/ ReadWait(c) \/ ReadSet(c) \/ ReadDrop(c)
  \/ WriteAcquire(c) \/ WriteActivate(c) \/ WriteMask(c)
  \/ (\E b \in CPUs : WriteScan(c, b)) \/ WriteScanEnd(c) \/ WriteRelease(c)

Take(c) == \E l \in Locks : \/ <<c, l>> \in Reads /\ percpu_read_lock(c, l)
                            \/ <<c, l>> \in Writes /\ percpu_write_lock(c, l)

Unlock(c) ==
  percpu_read_unlock(c) \/ \E l \in Locks : percpu_write_unlock(c, l)

Next == \E c \in CPUs : \/ Drain(c) \/ Progress(c) \/ Take(c) \/ Unlock(c)
                        \/ CpuDown(c) \/ CpuUp(c)

(***************************************************************************)
(* Stores reach memory, CPUs run and critical sections end, the outermost  *)
(* one included.  The embedded rwlock serves those who wait for it in      *)
(* turn, so nobody who may have it again and again is passed over for ever.*)
(***************************************************************************)
Fairness == \A c \in CPUs : /\ WF_vars(Drain(c))
                            /\ WF_vars(Progress(c))
                            /\ WF_vars(Unlock(c))
                            /\ SF_vars(ReadWait(c) \/ WriteAcquire(c))
                            /\ SF_vars(percpu_read_unlock(c) /\ Len(reading[c]) = 1)

Spec == Init /\ [][Next]_vars

FairSpec == Spec /\ Fairness

-----------------------------------------------------------------------------
Stores == {SlotStore(v) : v \in Locks \cup {NULL}}
          \cup {ActStore(l, v) : l \in Locks, v \in BOOLEAN}

(***************************************************************************)
(* Types.  A CPU has at most two stores under way: the slot it cleared and *)
(* the one it sets or writer_activating.                                   *)
(***************************************************************************)
TypeOK ==
  /\ slot \in [CPUs -> Locks \cup {NULL}]
  /\ act \in [Locks -> BOOLEAN]
  /\ buf \in [CPUs -> Seq(Stores)] /\ \A c \in CPUs : Len(buf[c]) <= 2
  /\ writer \in [Locks -> SUBSET CPUs]
  /\ readers \in [Locks -> SUBSET CPUs]
  /\ online \in SUBSET CPUs
  /\ pc \in [CPUs -> PCs]
  /\ lock \in [CPUs -> Locks \cup {NULL}]
  /\ mask \in [CPUs -> SUBSET CPUs]
  /\ reading \in [CPUs -> Seq(Locks)]
  /\ writing \in [CPUs -> SUBSET Locks]

(***************************************************************************)
(* When _percpu_write_lock() has returned, no other CPU is inside that     *)
(* lock, neither through its slot nor through the fallback, and none gets  *)
(* in before percpu_write_unlock().  This rests on the two smp_mb(): the   *)
(* reader's between its slot and writer_activating, the writer's between   *)
(* writer_activating and the slots.                                        *)
(***************************************************************************)
PercpuExclusion ==
  \A b, c \in CPUs : \A l \in writing[c] :
    b # c => l \notin writing[b] /\ l \notin Elements(reading[b])

(***************************************************************************)
(* ASSERT(this_cpu_ptr(per_cpudata) != NULL) of _percpu_read_unlock(): as  *)
(* long as a CPU reads any lock its slot names the outermost of them, so   *)
(* each unlock undoes the path its lock call took.                         *)
(***************************************************************************)
SlotNamesOutermost ==
  /\ TypeOK
  /\ \A c \in CPUs :
       pc[c] = "out" => Mine(c) = IF reading[c] = << >> THEN NULL ELSE reading[c][1]


=============================================================================
