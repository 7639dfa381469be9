--------------------------- MODULE SpinlockProofs ---------------------------
(***************************************************************************)
(* Proofs about the ticket lock, for any number of CPUs below the number   *)
(* of tickets and any recursion limit.                                     *)
(*                                                                         *)
(* The argument for mutual exclusion is about tickets: the CPUs that have  *)
(* asked for the lock have pairwise different tickets, all between head    *)
(* and tail, and an owner's ticket is head.  It has to survive the wrap of *)
(* head and tail, which it does because as many CPUs are queued as there   *)
(* are tickets between the two, so that with fewer CPUs than tickets tail  *)
(* never catches up with head from behind.                                 *)
(***************************************************************************)
EXTENDS Spinlock, FiniteSetTheorems, TLAPS

Queued == {c \in CPUs : Waiting(c) \/ Owns(c)}

TicketInv ==
  /\ \A c \in Queued : Dist(ticket[c], head) < Dist(tail, head)
  /\ \A b, c \in Queued : ticket[b] = ticket[c] => b = c
  /\ \A c \in CPUs : Owns(c) => ticket[c] = head
  /\ Cardinality(Queued) = Dist(tail, head)

RecursionInv ==
  /\ RecursionOwner
  /\ \A c \in CPUs : pc[c] = "rheld" => depth[c] > 0
  /\ (\A c \in CPUs : depth[c] = 0) => recurse_cnt = 0

BarrierInv ==
  \A c \in CPUs : owed[c] # {} =>
    /\ pc[c] = "barrier" /\ ticket[c] = head
    /\ \A b \in owed[c] : Owns(b)

IInv == TypeOK /\ TicketInv /\ RecursionInv /\ BarrierInv

-----------------------------------------------------------------------------
(***************************************************************************)
(* How far head and tail are apart, when either moves.                     *)
(***************************************************************************)
LEMMA DistInc ==
  ASSUME NEW a \in 0..(Tickets - 1), NEW b \in 0..(Tickets - 1)
  PROVE  /\ Dist(a, b) \in 0..(Tickets - 1)
         /\ Inc(a) \in 0..(Tickets - 1)
         /\ Dist(a, b) = 0 <=> a = b
         /\ Dist(a, b) + 1 < Tickets => Dist(Inc(a), b) = Dist(a, b) + 1
         /\ a # b => Dist(a, Inc(b)) = Dist(a, b) - 1
BY SpinlockAssumption DEF Dist, Inc

(***************************************************************************)
(* Two tickets at the same distance from head are the same ticket.         *)
(***************************************************************************)
LEMMA DistInjective ==
  ASSUME NEW a \in 0..(Tickets - 1), NEW b \in 0..(Tickets - 1),
         NEW h \in 0..(Tickets - 1), Dist(a, h) = Dist(b, h)
  PROVE  a = b
BY SpinlockAssumption DEF Dist

(***************************************************************************)
(* The queue is a finite set, and one CPU short of full when some CPU is   *)
(* not in it.                                                              *)
(***************************************************************************)
LEMMA QueuedFinite ==
  /\ IsFiniteSet(Queued) /\ Cardinality(Queued) \in Nat
  /\ \A c \in CPUs \ Queued : Cardinality(Queued) < NCPU
<1>1. IsFiniteSet(CPUs) /\ Cardinality(CPUs) = NCPU
  <2>1. 0 \in Int /\ NCPU - 1 \in Int /\ ~(0 > NCPU - 1) /\ NCPU - 1 - 0 + 1 = NCPU
    BY SpinlockAssumption
  <2> QED BY <2>1, FS_Interval DEF CPUs
<1>2. Queued \in SUBSET CPUs
  BY DEF Queued
<1>3. /\ IsFiniteSet(Queued) /\ Cardinality(Queued) <= Cardinality(CPUs)
      /\ Cardinality(CPUs) = Cardinality(Queued) => CPUs = Queued
  BY <1>1, <1>2, FS_Subset
<1>4. Cardinality(Queued) \in Nat
  BY <1>3, FS_CardinalityType
<1>5. ASSUME NEW c \in CPUs \ Queued PROVE Cardinality(Queued) < NCPU
  <2>1. Cardinality(Queued) # NCPU
    BY <1>1, <1>3, <1>5
  <2> QED BY <2>1, <1>1, <1>3, <1>4, SpinlockAssumption
<1> QED BY <1>3, <1>4, <1>5

LEMMA InitInv == Init => IInv
<1> SUFFICES ASSUME Init PROVE IInv
  OBVIOUS
<1>1. Queued = {}
  BY DEF Init, Queued, Waiting, Owns
<1>2. TypeOK
  BY SpinlockAssumption DEF Init, TypeOK, PCs, CPUs, NoCPU
<1>3. TicketInv
  <2>1. Dist(tail, head) = 0
    BY DEF Init, Dist
  <2>2. \A c \in CPUs : ~Owns(c)
    BY DEF Init, Owns
  <2> QED BY <1>1, <2>1, <2>2, FS_EmptySet DEF TicketInv
<1>4. RecursionInv
  BY SpinlockAssumption DEF Init, RecursionInv, RecursionOwner, CPUs, NoCPU
<1>5. BarrierInv
  BY DEF Init, BarrierInv
<1> QED BY <1>2, <1>3, <1>4, <1>5 DEF IInv

(***************************************************************************)
(* What the invariant says of a CPU that owns the lock: it is the only     *)
(* one, and nobody else is in a recursive critical section.                *)
(***************************************************************************)
LEMMA OwnerAlone == IInv => MutualExclusion
BY DEF IInv, TypeOK, TicketInv, Queued, MutualExclusion

LEMMA NotRecursing ==
  ASSUME IInv, NEW c \in CPUs, Owns(c), depth[c] = 0
  PROVE  (\A b \in CPUs : depth[b] = 0) /\ recurse_cnt = 0
<1>1. ASSUME NEW b \in CPUs, depth[b] # 0 PROVE FALSE
  <2>1. depth[b] > 0
    BY <1>1 DEF IInv, TypeOK
  <2>2. Owns(b)
    BY <2>1 DEF IInv, RecursionInv, RecursionOwner, Owns
  <2> QED BY <1>1, <2>2, OwnerAlone DEF MutualExclusion
<1> QED BY <1>1 DEF IInv, RecursionInv

LEMMA TypeStep == IInv /\ [Next]_vars => TypeOK'
<1> SUFFICES ASSUME IInv, TypeOK, RecursionInv, [Next]_vars PROVE TypeOK'
  BY DEF IInv
<1> USE SpinlockAssumption
<1>1. \A t \in 0..(Tickets - 1) : Inc(t) \in 0..(Tickets - 1)
  BY DEF Inc
<1>2. CASE UNCHANGED vars
  BY <1>2 DEF vars, TypeOK
<1>3. ASSUME NEW c \in CPUs, nrspin_lock(c) \/ rspin_lock(c) PROVE TypeOK'
  BY <1>1, <1>3 DEF nrspin_lock, rspin_lock, TakeTicket, Goto, TypeOK, PCs
<1>4. ASSUME NEW c \in CPUs, SpinEnd(c) PROVE TypeOK'
  BY <1>4 DEF SpinEnd, lockvars, Goto, TypeOK, PCs
<1>5. ASSUME NEW c \in CPUs, SetRecurseCpu(c) PROVE TypeOK'
  <2>1. depth[c] = 0
    BY <1>5 DEF SetRecurseCpu, RecursionInv, RecursionOwner, TypeOK
  <2>2. recurse_cnt = 0
    BY <2>1, <1>5, NotRecursing DEF SetRecurseCpu, Owns
  <2> QED BY <2>1, <2>2, <1>5 DEF SetRecurseCpu, Goto, TypeOK, PCs
<1>6. ASSUME NEW c \in CPUs, Renter(c) PROVE TypeOK'
  BY <1>6 DEF Renter, Goto, TypeOK, PCs, RecursionInv, RecursionOwner
<1>7. ASSUME NEW c \in CPUs, nrspin_trylock(c) \/ rspin_trylock(c) PROVE TypeOK'
  BY <1>7 DEF nrspin_trylock, rspin_trylock, Observe, lockvars, Goto, TypeOK, PCs
<1>8. ASSUME NEW c \in CPUs, TryCmpxchg(c) PROVE TypeOK'
  BY <1>1, <1>8 DEF TryCmpxchg, Goto, TypeOK, PCs
<1>9. ASSUME NEW c \in CPUs, nrspin_unlock(c) \/ rspin_release(c) PROVE TypeOK'
  BY <1>1, <1>9 DEF nrspin_unlock, rspin_release, spin_unlock_common, Goto, TypeOK, PCs
<1>10. ASSUME NEW c \in CPUs, rspin_unlock(c) PROVE TypeOK'
  BY <1>10 DEF rspin_unlock, Goto, TypeOK, PCs, RecursionInv, RecursionOwner
<1>11. ASSUME NEW c \in CPUs, BarrierBegin(c) \/ BarrierEnd(c) PROVE TypeOK'
  BY <1>11 DEF BarrierBegin, BarrierEnd, lockvars, Goto, TypeOK, PCs
<1> QED
  BY <1>2, <1>3, <1>4, <1>5, <1>6, <1>7, <1>8, <1>9, <1>10, <1>11
  DEF Next, Progress, Unlock, Use

LEMMA RecursionStep == IInv /\ [Next]_vars => RecursionInv'
<1> SUFFICES ASSUME IInv, TypeOK, RecursionInv, [Next]_vars PROVE RecursionInv'
  BY DEF IInv
<1> USE SpinlockAssumption DEF RecursionInv, RecursionOwner
<1>1. CASE UNCHANGED vars
  BY <1>1 DEF vars
<1>2. ASSUME NEW c \in CPUs, nrspin_lock(c) \/ rspin_lock(c) PROVE RecursionInv'
  BY <1>2 DEF nrspin_lock, rspin_lock, TakeTicket, Goto, TypeOK
<1>3. ASSUME NEW c \in CPUs, SpinEnd(c) PROVE RecursionInv'
  BY <1>3 DEF SpinEnd, lockvars, Goto, TypeOK
<1>4. ASSUME NEW c \in CPUs, SetRecurseCpu(c) PROVE RecursionInv'
  <2>1. depth[c] = 0
    BY <1>4 DEF SetRecurseCpu, TypeOK
  <2>2. (\A b \in CPUs : depth[b] = 0) /\ recurse_cnt = 0
    BY <2>1, <1>4, NotRecursing DEF SetRecurseCpu, Owns
  <2> QED BY <2>2, <1>4 DEF SetRecurseCpu, Goto, TypeOK
<1>5. ASSUME NEW c \in CPUs, Renter(c) PROVE RecursionInv'
  BY <1>5 DEF Renter, Goto, TypeOK
<1>6. ASSUME NEW c \in CPUs, nrspin_trylock(c) \/ rspin_trylock(c) PROVE RecursionInv'
  BY <1>6 DEF nrspin_trylock, rspin_trylock, Observe, lockvars, Goto, TypeOK
<1>7. ASSUME NEW c \in CPUs, TryCmpxchg(c) PROVE RecursionInv'
  BY <1>7 DEF TryCmpxchg, Goto, TypeOK
<1>8. ASSUME NEW c \in CPUs, nrspin_unlock(c) \/ rspin_release(c) PROVE RecursionInv'
  BY <1>8 DEF nrspin_unlock, rspin_release, spin_unlock_common, Goto, TypeOK
<1>9. ASSUME NEW c \in CPUs, rspin_unlock(c) PROVE RecursionInv'
  <2>1. recurse_cpu = c /\ recurse_cnt = depth[c] /\ depth[c] \in Nat \ {0}
    BY <1>9 DEF rspin_unlock, TypeOK
  <2>2. \A b \in CPUs : b # c => depth[b] = 0
    BY <2>1 DEF TypeOK
  <2>3. NoCPU \notin CPUs
    BY DEF CPUs, NoCPU
  <2>4. depth' = [depth EXCEPT ![c] = depth[c] - 1] /\ recurse_cnt' = depth[c] - 1
    BY <2>1, <1>9 DEF rspin_unlock
  <2>5. CASE recurse_cnt = 1
    <3>1. \A b \in CPUs : depth'[b] = 0
      BY <2>1, <2>2, <2>4, <2>5 DEF TypeOK
    <3>2. recurse_cpu' = NoCPU /\ pc' = [pc EXCEPT ![c] = "rel"]
      BY <2>5, <1>9 DEF rspin_unlock, Goto
    <3> QED BY <3>1, <3>2, <2>2, <2>3, <2>4, <2>1, <2>5 DEF TypeOK
  <2>6. CASE recurse_cnt # 1
    <3>1. UNCHANGED << recurse_cpu, pc >>
      BY <2>6, <1>9 DEF rspin_unlock
    <3>2. depth'[c] = recurse_cnt' /\ depth'[c] > 0
      BY <2>1, <2>4, <2>6 DEF TypeOK
    <3> QED BY <3>1, <3>2, <2>1, <2>2, <2>4 DEF TypeOK
  <2> QED BY <2>5, <2>6
<1>10. ASSUME NEW c \in CPUs, BarrierBegin(c) \/ BarrierEnd(c) PROVE RecursionInv'
  BY <1>10 DEF BarrierBegin, BarrierEnd, lockvars, Goto, TypeOK
<1> QED
  BY <1>1, <1>2, <1>3, <1>4, <1>5, <1>6, <1>7, <1>8, <1>9, <1>10
  DEF Next, Progress, Unlock, Use

LEMMA BarrierStep == IInv /\ [Next]_vars => BarrierInv'
<1> SUFFICES ASSUME IInv, TypeOK, BarrierInv, MutualExclusion, [Next]_vars
             PROVE  BarrierInv'
  BY OwnerAlone DEF IInv
<1> USE DEF BarrierInv, TypeOK, Goto, Owns
<1>1. CASE UNCHANGED vars
  BY <1>1 DEF vars
<1>2. ASSUME NEW c \in CPUs, nrspin_lock(c) \/ rspin_lock(c) PROVE BarrierInv'
  BY <1>2 DEF nrspin_lock, rspin_lock, TakeTicket
<1>3. ASSUME NEW c \in CPUs, SpinEnd(c) PROVE BarrierInv'
  BY <1>3 DEF SpinEnd, lockvars
<1>4. ASSUME NEW c \in CPUs, SetRecurseCpu(c) PROVE BarrierInv'
  BY <1>4 DEF SetRecurseCpu
<1>5. ASSUME NEW c \in CPUs, Renter(c) PROVE BarrierInv'
  BY <1>5 DEF Renter
<1>6. ASSUME NEW c \in CPUs, nrspin_trylock(c) \/ rspin_trylock(c) PROVE BarrierInv'
  BY <1>6 DEF nrspin_trylock, rspin_trylock, Observe, lockvars
<1>7. ASSUME NEW c \in CPUs, TryCmpxchg(c) PROVE BarrierInv'
  BY <1>7 DEF TryCmpxchg
<1>8. ASSUME NEW c \in CPUs, nrspin_unlock(c) \/ rspin_release(c) PROVE BarrierInv'
  <2>1. \A b \in CPUs : owed[b] \subseteq {c}
    BY <1>8 DEF nrspin_unlock, rspin_release, MutualExclusion
  <2>2. \A b \in CPUs : owed'[b] = {}
    BY <2>1, <1>8 DEF nrspin_unlock, rspin_release, spin_unlock_common
  <2> QED BY <2>2
<1>9. ASSUME NEW c \in CPUs, rspin_unlock(c) PROVE BarrierInv'
  BY <1>9 DEF rspin_unlock
<1>10. ASSUME NEW c \in CPUs, BarrierBegin(c) PROVE BarrierInv'
  BY <1>10 DEF BarrierBegin, lockvars
<1>11. ASSUME NEW c \in CPUs, BarrierEnd(c) PROVE BarrierInv'
  <2>1. owed[c] = {}
    BY <1>11 DEF BarrierEnd
  <2> QED BY <2>1, <1>11 DEF BarrierEnd, lockvars
<1> QED
  BY <1>1, <1>2, <1>3, <1>4, <1>5, <1>6, <1>7, <1>8, <1>9, <1>10, <1>11
  DEF Next, Progress, Unlock, Use

(***************************************************************************)
(* A CPU joins the queue, leaves it, or stays where it is.                 *)
(***************************************************************************)
LEMMA Joins ==
  ASSUME IInv, NEW c \in CPUs, c \notin Queued,
         tail' = Inc(tail), head' = head,
         ticket' = [ticket EXCEPT ![c] = tail],
         Queued' = Queued \cup {c},
         \A b \in CPUs : Owns(b)' => ticket'[b] = head
  PROVE  TicketInv'
<1> USE SpinlockAssumption
<1>1. Dist(tail, head) + 1 < Tickets
  BY QueuedFinite, DistInc DEF IInv, TypeOK, TicketInv
<1>2. Dist(tail', head') = Dist(tail, head) + 1 /\ Dist(tail, head) \in Nat
  BY <1>1, DistInc DEF IInv, TypeOK
<1>3. Cardinality(Queued') = Dist(tail', head')
  <2>1. Cardinality(Queued \cup {c}) = Cardinality(Queued) + 1
    BY QueuedFinite, FS_AddElement
  <2> QED BY <2>1, <1>2 DEF IInv, TicketInv
<1>4. ASSUME NEW b \in Queued
      PROVE  /\ b \in CPUs /\ ticket'[b] = ticket[b] /\ ticket[b] # tail
             /\ Dist(ticket[b], head) < Dist(tail, head)
             /\ Dist(ticket[b], head) \in 0..(Tickets - 1)
  <2>1. b \in CPUs /\ b # c /\ Dist(ticket[b], head) < Dist(tail, head)
    BY DEF IInv, TicketInv, Queued
  <2>2. ticket'[b] = ticket[b] /\ ticket[b] \in 0..(Tickets - 1)
    BY <2>1 DEF IInv, TypeOK
  <2>3. Dist(ticket[b], head) \in 0..(Tickets - 1)
    BY <2>2, DistInc DEF IInv, TypeOK
  <2>4. ticket[b] # tail
    BY <2>1, <2>3, <1>2
  <2> QED BY <2>1, <2>2, <2>3, <2>4
<1>5. ticket'[c] = tail
  BY DEF IInv, TypeOK
<1>6. \A b \in Queued' : Dist(ticket'[b], head') < Dist(tail', head')
  <2>1. \A b \in Queued : Dist(ticket'[b], head') < Dist(tail, head) + 1
    BY <1>2, <1>4
  <2> QED BY <2>1, <1>2, <1>5
<1>7. \A a, b \in Queued' : ticket'[a] = ticket'[b] => a = b
  BY <1>4, <1>5 DEF IInv, TicketInv
<1> QED BY <1>3, <1>6, <1>7 DEF TicketInv

LEMMA Leaves ==
  ASSUME IInv, NEW c \in CPUs, Owns(c),
         head' = Inc(head), UNCHANGED << tail, ticket >>,
         Queued' = Queued \ {c}, \A b \in CPUs : Owns(b)' => Owns(b) /\ b # c
  PROVE  TicketInv'
<1> USE SpinlockAssumption
<1>1. c \in Queued /\ ticket[c] = head
  BY DEF IInv, TicketInv, Queued
<1>2. Dist(tail, head) > 0 /\ tail # head
  BY <1>1, DistInc DEF IInv, TypeOK, TicketInv
<1>3. Dist(tail', head') = Dist(tail, head) - 1 /\ Dist(tail, head) \in Nat
  BY <1>2, DistInc DEF IInv, TypeOK
<1>4. Cardinality(Queued') = Dist(tail', head')
  <2>1. Cardinality(Queued \ {c}) = Cardinality(Queued) - 1
    BY <1>1, QueuedFinite, FS_RemoveElement
  <2> QED BY <2>1, <1>3 DEF IInv, TicketInv
<1>5. ASSUME NEW b \in Queued'
      PROVE  Dist(ticket'[b], head') < Dist(tail', head')
  <2>1. b \in Queued /\ b \in CPUs /\ ticket[b] # head
    BY <1>1 DEF IInv, TicketInv, Queued
  <2>2. ticket[b] \in 0..(Tickets - 1) /\ head \in 0..(Tickets - 1)
    BY <2>1 DEF IInv, TypeOK
  <2>3. Dist(ticket[b], Inc(head)) = Dist(ticket[b], head) - 1
        /\ Dist(ticket[b], head) \in 0..(Tickets - 1)
    BY ONLY <2>1, <2>2, DistInc
  <2>4. Dist(ticket[b], head) < Dist(tail, head)
    BY <2>1 DEF IInv, TicketInv
  <2> QED BY <2>3, <2>4, <1>3
<1>6. \A a, b \in Queued' : ticket'[a] = ticket'[b] => a = b
  BY DEF IInv, TicketInv
<1>7. \A b \in CPUs : ~Owns(b)'
  BY OwnerAlone DEF MutualExclusion
<1> QED BY <1>4, <1>5, <1>6, <1>7 DEF TicketInv

LEMMA Stays ==
  ASSUME IInv, UNCHANGED << head, tail >>, Queued' = Queued,
         \A b \in Queued : ticket'[b] = ticket[b],
         \A b \in CPUs : Owns(b)' => ticket'[b] = head
  PROVE  TicketInv'
BY DEF IInv, TicketInv, Queued

LEMMA TicketStep == IInv /\ [Next]_vars => TicketInv'
<1> SUFFICES ASSUME IInv, TypeOK, TicketInv, [Next]_vars PROVE TicketInv'
  BY DEF IInv
<1> USE SpinlockAssumption DEF TypeOK, Goto, Waiting, Owns
<1>0. \A b \in CPUs : Owns(b) => ticket[b] = head
  BY DEF TicketInv
<1>1. CASE UNCHANGED vars
  BY <1>1, <1>0, Stays DEF vars, Queued
<1>2. ASSUME NEW c \in CPUs, nrspin_lock(c) \/ rspin_lock(c) PROVE TicketInv'
  <2>1. c \notin Queued /\ Queued' = Queued \cup {c}
    BY <1>2 DEF nrspin_lock, rspin_lock, TakeTicket, Queued
  <2>2. \A b \in CPUs : Owns(b)' => ticket'[b] = head
    BY <1>0, <1>2 DEF nrspin_lock, rspin_lock, TakeTicket
  <2> QED BY <1>2, <2>1, <2>2, Joins DEF nrspin_lock, rspin_lock, TakeTicket
<1>3. ASSUME NEW c \in CPUs, SpinEnd(c) PROVE TicketInv'
  <2>1. Queued' = Queued
    BY <1>3 DEF SpinEnd, Queued
  <2> QED BY <1>0, <1>3, <2>1, Stays DEF SpinEnd, lockvars
<1>4. ASSUME NEW c \in CPUs, SetRecurseCpu(c) PROVE TicketInv'
  <2>1. Queued' = Queued
    BY <1>4 DEF SetRecurseCpu, Queued
  <2> QED BY <1>0, <1>4, <2>1, Stays DEF SetRecurseCpu
<1>5. ASSUME NEW c \in CPUs, Renter(c) PROVE TicketInv'
  <2>1. pc[c] = "rheld"
    BY <1>5 DEF Renter, IInv, RecursionInv, RecursionOwner
  <2>2. Queued' = Queued
    BY <1>5, <2>1 DEF Renter, Queued
  <2> QED BY <1>0, <1>5, <2>1, <2>2, Stays DEF Renter
<1>6. ASSUME NEW c \in CPUs, nrspin_trylock(c) \/ rspin_trylock(c) PROVE TicketInv'
  <2>1. Queued' = Queued /\ c \notin Queued
    BY <1>6 DEF nrspin_trylock, rspin_trylock, Observe, Queued
  <2>2. \A b \in Queued : ticket'[b] = ticket[b]
    BY <1>6, <2>1 DEF nrspin_trylock, rspin_trylock, Observe, Queued
  <2>3. \A b \in CPUs : Owns(b)' => ticket'[b] = head
    BY <1>0, <1>6 DEF nrspin_trylock, rspin_trylock, Observe
  <2> QED BY <1>6, <2>1, <2>2, <2>3, Stays
          DEF nrspin_trylock, rspin_trylock, Observe, lockvars
<1>7. ASSUME NEW c \in CPUs, TryCmpxchg(c) PROVE TicketInv'
  <2>1. CASE head = ticket[c] /\ tail = ticket[c]
    <3>1. c \notin Queued /\ Queued' = Queued \cup {c}
      BY <1>7, <2>1 DEF TryCmpxchg, Queued
    <3>2. ticket' = [ticket EXCEPT ![c] = tail]
      BY <1>7, <2>1 DEF TryCmpxchg
    <3>3. \A b \in CPUs : Owns(b)' => ticket'[b] = head
      BY <1>0, <1>7, <2>1 DEF TryCmpxchg
    <3> QED BY <1>7, <2>1, <3>1, <3>2, <3>3, Joins DEF TryCmpxchg
  <2>2. CASE ~(head = ticket[c] /\ tail = ticket[c])
    <3>1. Queued' = Queued
      BY <1>7, <2>2 DEF TryCmpxchg, Queued
    <3>2. \A b \in CPUs : Owns(b)' => ticket'[b] = head
      BY <1>0, <1>7, <2>2 DEF TryCmpxchg
    <3> QED BY <1>7, <2>2, <3>1, <3>2, Stays DEF TryCmpxchg
  <2> QED BY <2>1, <2>2
<1>8. ASSUME NEW c \in CPUs, nrspin_unlock(c) \/ rspin_release(c) PROVE TicketInv'
  <2>1. Owns(c)
    BY <1>8 DEF nrspin_unlock, rspin_release
  <2>2. Queued' = Queued \ {c} /\ \A b \in CPUs : Owns(b)' => Owns(b) /\ b # c
    BY <1>8 DEF nrspin_unlock, rspin_release, spin_unlock_common, Queued
  <2> QED BY <1>8, <2>1, <2>2, Leaves
          DEF nrspin_unlock, rspin_release, spin_unlock_common
<1>9. ASSUME NEW c \in CPUs, rspin_unlock(c) PROVE TicketInv'
  <2>1. Queued' = Queued
    BY <1>9 DEF rspin_unlock, Queued
  <2>2. \A b \in CPUs : Owns(b)' => Owns(b)
    BY <1>9 DEF rspin_unlock
  <2> QED BY <1>0, <1>9, <2>1, <2>2, Stays DEF rspin_unlock
<1>10. ASSUME NEW c \in CPUs, BarrierBegin(c) PROVE TicketInv'
  <2>1. Queued' = Queued /\ c \notin Queued
    BY <1>10 DEF BarrierBegin, Queued
  <2>2. \A b \in Queued : ticket'[b] = ticket[b]
    BY <1>10, <2>1 DEF BarrierBegin, Queued
  <2>3. \A b \in CPUs : Owns(b)' => ticket'[b] = head
    BY <1>0, <1>10 DEF BarrierBegin
  <2> QED BY <1>10, <2>1, <2>2, <2>3, Stays DEF BarrierBegin, lockvars
<1>11. ASSUME NEW c \in CPUs, BarrierEnd(c) PROVE TicketInv'
  <2>1. Queued' = Queued
    BY <1>11 DEF BarrierEnd, Queued
  <2>2. \A b \in CPUs : Owns(b)' => ticket'[b] = head
    BY <1>0, <1>11 DEF BarrierEnd
  <2> QED BY <1>11, <2>1, <2>2, Stays DEF BarrierEnd, lockvars
<1> QED
  BY <1>1, <1>2, <1>3, <1>4, <1>5, <1>6, <1>7, <1>8, <1>9, <1>10, <1>11
  DEF Next, Progress, Unlock, Use

-----------------------------------------------------------------------------
(***************************************************************************)
(* The inductive invariant holds in every behaviour of spinlock.c.         *)
(***************************************************************************)
THEOREM Invariance == Spec => []IInv
<1>1. IInv /\ [Next]_vars => IInv'
  BY TypeStep, TicketStep, RecursionStep, BarrierStep DEF IInv
<1> QED BY InitInv, <1>1, PTL DEF Spec

(***************************************************************************)
(* The variables of the lock stay in their types; in particular head and   *)
(* tail stay within 16 bits and recurse_cnt within SPINLOCK_MAX_RECURSE.   *)
(***************************************************************************)
THEOREM TypeCorrect == Spec => []TypeOK
<1>1. IInv => TypeOK
  BY DEF IInv
<1> QED BY Invariance, <1>1, PTL

(***************************************************************************)
(* Mutual exclusion of all the ways to take a spinlock or an rspinlock.    *)
(***************************************************************************)
THEOREM Exclusion == Spec => []MutualExclusion
BY Invariance, OwnerAlone, PTL

(***************************************************************************)
(* recurse_cpu and recurse_cnt are exact, so the unlocked test with which  *)
(* rspin_lock() recognises its own CPU is sound.                           *)
(***************************************************************************)
THEOREM RecursionSound == Spec => []RecursionOwner
<1>1. IInv => RecursionOwner
  BY DEF IInv, RecursionInv
<1> QED BY Invariance, <1>1, PTL

(***************************************************************************)
(* spin_barrier() outlasts the critical section it found in progress.      *)
(***************************************************************************)
THEOREM BarrierSound == Spec => BarrierWaits
<1>1. IInv /\ [Next]_vars
      => [\A c \in CPUs : pc[c] = "barrier" /\ pc'[c] # "barrier" => owed[c] = {}]_vars
  <2> SUFFICES ASSUME IInv, Next, NEW c \in CPUs,
                      pc[c] = "barrier", pc'[c] # "barrier"
               PROVE  owed[c] = {}
    OBVIOUS
  <2>1. BarrierEnd(c)
    BY DEF Next, Progress, Unlock, Use, nrspin_lock, rspin_lock, TakeTicket,
           SpinEnd, SetRecurseCpu, Renter, nrspin_trylock, rspin_trylock,
           Observe, TryCmpxchg, nrspin_unlock, rspin_unlock, rspin_release,
           spin_unlock_common, BarrierBegin, BarrierEnd, Goto, IInv, TypeOK
  <2> QED BY <2>1 DEF BarrierEnd, IInv, BarrierInv
<1> QED BY Invariance, <1>1, PTL DEF Spec, BarrierWaits

=============================================================================
