------------------------------ MODULE Spinlock ------------------------------
(***************************************************************************)
(* The ticket spinlock of xen/common/spinlock.c, with the recursive and    *)
(* the non-recursive interface to an rspinlock_t (names that begin with    *)
(* rspin and with nrspin) and spin_barrier().  A plain spinlock_t is an    *)
(* rspinlock_t on which only the non-recursive forms are used.             *)
(*                                                                         *)
(* One step is one access to the lock word or to recurse_cpu, which other  *)
(* CPUs read without holding the lock.  recurse_cnt is only accessed by    *)
(* the holder, so its updates ride along with the neighbouring access.     *)
(* The memory model is sequentially consistent: the barriers of the code   *)
(* are taken to do their job.                                              *)
(***************************************************************************)
EXTENDS Naturals, FiniteSets, Sequences

CONSTANTS
  NCPU,       \* number of CPUs
  Tickets,    \* 2^16 in the code: head and tail are uint16_t
  MaxRecurse  \* SPINLOCK_MAX_RECURSE

CPUs == 0..(NCPU - 1)
NoCPU == NCPU                      \* SPINLOCK_NO_CPU, never a CPU's number

(***************************************************************************)
(* BUILD_BUG_ON(NR_CPUS > SPINLOCK_NO_CPU) keeps the number of CPUs below  *)
(* 2^SPINLOCK_CPU_BITS = 2^12, far below the 2^16 tickets.                 *)
(***************************************************************************)
ASSUME SpinlockAssumption ==
  /\ NCPU \in Nat \ {0}
  /\ Tickets \in Nat
  /\ NCPU < Tickets
  /\ MaxRecurse \in Nat \ {0}

VARIABLES
  head,         \* ticket being served
  tail,         \* next ticket to hand out
  recurse_cpu,  \* CPU that holds the lock through rspin_lock(), or NoCPU
  recurse_cnt,  \* nesting of its rspin_lock() calls
  pc,           \* what each CPU is doing with the lock
  ticket,       \* tickets.tail of a spinning CPU, or what a trylock observed
  depth,        \* ghost: rspin_lock() calls a CPU has yet to undo
  owed          \* ghost: holders a barrier saw that have not released since

lockvars == << head, tail, recurse_cpu, recurse_cnt >>
vars == << head, tail, recurse_cpu, recurse_cnt, pc, ticket, depth, owed >>

(***************************************************************************)
(* idle     not using the lock                                             *)
(* spin     has a ticket, from spin_lock() or nrspin_lock()                *)
(* rspin    has a ticket, from rspin_lock()                                *)
(* try      spin_trylock() found the lock free, cmpxchg() is next          *)
(* rtry     the same within rspin_trylock()                                *)
(* rgot     owns the ticket lock, recurse_cpu is to be written             *)
(* held     in the critical section of a non-recursive acquisition         *)
(* rheld    in the critical section of a recursive acquisition             *)
(* rel      rspin_unlock() has cleared recurse_cpu, head is next           *)
(* barrier  spins in spin_barrier()                                        *)
(***************************************************************************)
PCs == {"idle", "spin", "rspin", "try", "rtry", "rgot", "held", "rheld",
        "rel", "barrier"}

Inc(t) == IF t = Tickets - 1 THEN 0 ELSE t + 1     \* uint16_t t + 1

Goto(c, l) == pc' = [pc EXCEPT ![c] = l]

(***************************************************************************)
(* The CPUs that own the ticket being served.                              *)
(***************************************************************************)
Owns(c) == pc[c] \in {"rgot", "held", "rheld", "rel"}

Init ==
  /\ head = 0 /\ tail = 0
  /\ recurse_cpu = NoCPU /\ recurse_cnt = 0
  /\ pc = [c \in CPUs |-> "idle"]
  /\ ticket = [c \in CPUs |-> 0]
  /\ depth = [c \in CPUs |-> 0]
  /\ owed = [c \in CPUs |-> {}]

(***************************************************************************)
(* spin_lock_common(): take a ticket ...                                   *)
(***************************************************************************)
TakeTicket(c, l) ==
  /\ ticket' = [ticket EXCEPT ![c] = tail]
  /\ tail' = Inc(tail)
  /\ Goto(c, l)
  /\ UNCHANGED << head, recurse_cpu, recurse_cnt, depth, owed >>

nrspin_lock(c) == pc[c] = "idle" /\ TakeTicket(c, "spin")

rspin_lock(c) ==
  /\ pc[c] = "idle"
  /\ recurse_cpu # c
  /\ TakeTicket(c, "rspin")

(***************************************************************************)
(* Mutant: a waiter looks for an unlocked word instead of its ticket.      *)
(***************************************************************************)
SpinEndWhenFree(c) ==
  /\ pc[c] \in {"spin", "rspin"}
  /\ Inc(head) = tail
  /\ head = ticket[c]
  /\ Goto(c, IF pc[c] = "spin" THEN "held" ELSE "rgot")
  /\ UNCHANGED << lockvars, ticket, depth, owed >>

(***************************************************************************)
(* ... and spin until it is served.                                        *)
(***************************************************************************)
SpinEnd(c) ==
  /\ pc[c] \in {"spin", "rspin"}
  /\ head = ticket[c]
  /\ Goto(c, IF pc[c] = "spin" THEN "held" ELSE "rgot")
  /\ UNCHANGED << lockvars, ticket, depth, owed >>

(***************************************************************************)
(* The tail of rspin_lock() and rspin_trylock() after the ticket lock has  *)
(* been acquired.                                                          *)
(***************************************************************************)
SetRecurseCpu(c) ==
  /\ pc[c] = "rgot"
  /\ recurse_cpu' = c
  /\ recurse_cnt' = recurse_cnt + 1
  /\ depth' = [depth EXCEPT ![c] = @ + 1]
  /\ Goto(c, "rheld")
  /\ UNCHANGED << head, tail, ticket, owed >>

(***************************************************************************)
(* rspin_lock() or rspin_trylock() by a CPU that finds its own number in   *)
(* recurse_cpu.  The ASSERT() on the depth is an obligation of the caller. *)
(***************************************************************************)
Renter(c) ==
  /\ pc[c] \in {"idle", "rheld"}
  /\ recurse_cpu = c
  /\ recurse_cnt < MaxRecurse
  /\ recurse_cnt' = recurse_cnt + 1
  /\ depth' = [depth EXCEPT ![c] = @ + 1]
  /\ Goto(c, "rheld")
  /\ UNCHANGED << head, tail, recurse_cpu, ticket, owed >>

(***************************************************************************)
(* spin_trylock_common(): observe a free lock (a lock that is taken makes  *)
(* the call fail without a trace).  nrspin_trylock() looks at recurse_cpu  *)
(* first, rspin_trylock() only gets here when recurse_cpu is not its own.  *)
(***************************************************************************)
Observe(c, l) ==
  /\ pc[c] = "idle"
  /\ head = tail
  /\ ticket' = [ticket EXCEPT ![c] = tail]
  /\ Goto(c, l)
  /\ UNCHANGED << lockvars, depth, owed >>

nrspin_trylock(c) == recurse_cpu = NoCPU /\ Observe(c, "try")

rspin_trylock(c) == recurse_cpu # c /\ Observe(c, "rtry")

(***************************************************************************)
(* Mutant: the cmpxchg() compares head only.                               *)
(***************************************************************************)
TryCmpxchgHeadOnly(c) ==
  /\ pc[c] \in {"try", "rtry"}
  /\ IF head = ticket[c]
       THEN /\ tail' = Inc(tail)
            /\ Goto(c, IF pc[c] = "try" THEN "held" ELSE "rgot")
       ELSE tail' = tail /\ Goto(c, "idle")
  /\ UNCHANGED << head, recurse_cpu, recurse_cnt, ticket, depth, owed >>

(***************************************************************************)
(* The cmpxchg() of spin_trylock_common() compares head and tail at once.  *)
(***************************************************************************)
TryCmpxchg(c) ==
  /\ pc[c] \in {"try", "rtry"}
  /\ IF head = ticket[c] /\ tail = ticket[c]
       THEN /\ tail' = Inc(tail)
            /\ Goto(c, IF pc[c] = "try" THEN "held" ELSE "rgot")
       ELSE tail' = tail /\ Goto(c, "idle")
  /\ UNCHANGED << head, recurse_cpu, recurse_cnt, ticket, depth, owed >>

(***************************************************************************)
(* Mutant: an unlock that marks the lock free and forgets the waiters.     *)
(***************************************************************************)
UnlockToTail(c) ==
  /\ head' = tail
  /\ Goto(c, "idle")
  /\ owed' = [b \in CPUs |-> owed[b] \ {c}]
  /\ UNCHANGED << tail, ticket, recurse_cpu, recurse_cnt, depth >>

(***************************************************************************)
(* spin_unlock_common(): serve the next ticket.                            *)
(***************************************************************************)
spin_unlock_common(c) ==
  /\ head' = Inc(head)
  /\ Goto(c, "idle")
  /\ owed' = [b \in CPUs |-> owed[b] \ {c}]
  /\ UNCHANGED << tail, ticket, recurse_cpu, recurse_cnt, depth >>

nrspin_unlock(c) == pc[c] = "held" /\ spin_unlock_common(c)

(***************************************************************************)
(* Mutant: recurse_cpu is not cleared on the outermost unlock.             *)
(***************************************************************************)
UnlockKeepsCpu(c) ==
  /\ pc[c] = "rheld"
  /\ depth[c] > 0
  /\ recurse_cnt' = recurse_cnt - 1
  /\ depth' = [depth EXCEPT ![c] = @ - 1]
  /\ pc' = IF recurse_cnt = 1 THEN [pc EXCEPT ![c] = "rel"] ELSE pc
  /\ UNCHANGED << head, tail, recurse_cpu, ticket, owed >>

rspin_unlock(c) ==
  /\ pc[c] = "rheld"
  /\ depth[c] > 0
  /\ recurse_cnt' = recurse_cnt - 1
  /\ depth' = [depth EXCEPT ![c] = @ - 1]
  /\ IF recurse_cnt = 1
       THEN recurse_cpu' = NoCPU /\ Goto(c, "rel")
       ELSE recurse_cpu' = recurse_cpu /\ pc' = pc
  /\ UNCHANGED << head, tail, ticket, owed >>

rspin_release(c) == pc[c] = "rel" /\ spin_unlock_common(c)

(***************************************************************************)
(* Mutant: the barrier waits for head to differ from the sampled tail.     *)
(***************************************************************************)
BarrierOnTail(c) ==
  /\ pc[c] = "idle"
  /\ head # tail
  /\ ticket' = [ticket EXCEPT ![c] = tail]
  /\ owed' = [owed EXCEPT ![c] = {b \in CPUs : Owns(b)}]
  /\ Goto(c, "barrier")
  /\ UNCHANGED << lockvars, depth >>

(***************************************************************************)
(* spin_barrier() samples the lock and, if it is taken, waits for head to  *)
(* move.  owed is what the caller relies on.                               *)
(***************************************************************************)
BarrierBegin(c) ==
  /\ pc[c] = "idle"
  /\ head # tail
  /\ ticket' = [ticket EXCEPT ![c] = head]
  /\ owed' = [owed EXCEPT ![c] = {b \in CPUs : Owns(b)}]
  /\ Goto(c, "barrier")
  /\ UNCHANGED << lockvars, depth >>

BarrierEnd(c) ==
  /\ pc[c] = "barrier"
  /\ head # ticket[c]
  /\ Goto(c, "idle")
  /\ UNCHANGED << lockvars, ticket, depth, owed >>

(***************************************************************************)
(* The steps the lock's own code takes, and those its user decides on.     *)
(***************************************************************************)
Progress(c) == SpinEnd(c) \/ SetRecurseCpu(c) \/ TryCmpxchg(c) \/ rspin_release(c)

Unlock(c) == nrspin_unlock(c) \/ rspin_unlock(c)

Use(c) ==
  \/ nrspin_lock(c) \/ rspin_lock(c) \/ Renter(c)
  \/ nrspin_trylock(c) \/ rspin_trylock(c)
  \/ BarrierBegin(c) \/ BarrierEnd(c)

Next == \E c \in CPUs : Progress(c) \/ Unlock(c) \/ Use(c)

(***************************************************************************)
(* CPUs run, and a critical section under a spinlock runs with preemption  *)
(* disabled and ends, so unlocks come; a holder that nests does not do so  *)
(* for ever, so the outermost unlock comes too.                            *)
(***************************************************************************)
Fairness ==
  \A c \in CPUs : /\ WF_vars(Progress(c))
                  /\ WF_vars(Unlock(c))
                  /\ SF_vars(rspin_unlock(c) /\ recurse_cnt = 1)

Spec == Init /\ [][Next]_vars

FairSpec == Spec /\ Fairness

-----------------------------------------------------------------------------
TypeOK ==
  /\ head \in 0..(Tickets - 1) /\ tail \in 0..(Tickets - 1)
  /\ recurse_cpu \in CPUs \cup {NoCPU}
  /\ recurse_cnt \in 0..MaxRecurse
  /\ pc \in [CPUs -> PCs]
  /\ ticket \in [CPUs -> 0..(Tickets - 1)]
  /\ depth \in [CPUs -> 0..MaxRecurse]
  /\ owed \in [CPUs -> SUBSET CPUs]

(***************************************************************************)
(* At most one CPU is between acquiring the ticket lock, by whichever of   *)
(* the lock and trylock calls, and releasing it.                           *)
(***************************************************************************)
MutualExclusion == \A b, c \in CPUs : Owns(b) /\ Owns(c) => b = c

(***************************************************************************)
(* rspin_lock() decides from an unlocked read of recurse_cpu whether the   *)
(* caller already holds the lock.  That is sound: the field names exactly  *)
(* the CPU with rspin_lock() calls to undo, that CPU owns the lock, and    *)
(* recurse_cnt counts those calls.                                         *)
(***************************************************************************)
RecursionOwner ==
  \A c \in CPUs :
    /\ recurse_cpu = c <=> depth[c] > 0
    /\ depth[c] > 0 => pc[c] = "rheld" /\ recurse_cnt = depth[c]

(***************************************************************************)
(* spin_barrier() returns only after the CPU that held the lock when the   *)
(* barrier began has left its critical section, even if the lock has been  *)
(* taken again, and however often, in between.                             *)
(***************************************************************************)
BarrierWaits ==
  [][\A c \in CPUs : pc[c] = "barrier" /\ pc'[c] # "barrier" => owed[c] = {}]_vars

(***************************************************************************)
(* The queue that the tickets encode: position i is the CPU with ticket    *)
(* head + i - 1.                                                           *)
(***************************************************************************)
Waiting(c) == pc[c] \in {"spin", "rspin"}

Dist(a, b) == IF a >= b THEN a - b ELSE a - b + Tickets      \* (uint16_t)(a - b)

TicketQueue ==
  [i \in 1..Dist(tail, head) |->
     CHOOSE c \in CPUs : /\ Waiting(c) \/ Owns(c)
                         /\ Dist(ticket[c], head) = i - 1]

Fifo == INSTANCE FifoLock WITH queue <- TicketQueue

(***************************************************************************)
(* The ticket lock implements the FIFO lock: tickets are served in the     *)
(* order of the fetch-and-adds, also across the wrap of the 16-bit head    *)
(* and tail, and a trylock only succeeds when nobody waits.                *)
(***************************************************************************)
ImplementsFifo == Fifo!Spec

(***************************************************************************)
(* Every CPU that has taken a ticket in spin_lock() or rspin_lock() gets   *)
(* the lock.                                                               *)
(***************************************************************************)
NoStarvation == \A c \in CPUs : Waiting(c) ~> Owns(c)

=============================================================================
