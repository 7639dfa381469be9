------------------------------ MODULE FifoLock ------------------------------
(***************************************************************************)
(* What xen/common/spinlock.c promises to its users: a lock with a queue.  *)
(* The CPU at the front of the queue holds the lock, a CPU that asks for   *)
(* the lock joins the queue at the back, and nobody overtakes.             *)
(*                                                                         *)
(* The module is used in two ways.  Spinlock shows that the ticket         *)
(* algorithm implements it, and Rwlock takes it as the wait queue of a     *)
(* read-write lock.                                                        *)
(***************************************************************************)
EXTENDS Naturals, Sequences

CONSTANT CPUs      \* the CPUs that use the lock

VARIABLE queue     \* holder and waiters, in the order they asked

(***************************************************************************)
(* The CPUs that have asked for the lock and not released it.              *)
(***************************************************************************)
Queued(c) == \E i \in 1..Len(queue) : queue[i] = c

Holds(c) == queue # << >> /\ Head(queue) = c

Init == queue = << >>

(***************************************************************************)
(* spin_lock() asks for the lock; the caller then waits to hold it.  A     *)
(* trylock that succeeds is the same step taken when the queue is empty.   *)
(***************************************************************************)
Acquire(c) ==
  /\ ~Queued(c)
  /\ queue' = Append(queue, c)

Release(c) ==
  /\ Holds(c)
  /\ queue' = Tail(queue)

Next == \E c \in CPUs : Acquire(c) \/ Release(c)

Spec == Init /\ [][Next]_queue

=============================================================================
