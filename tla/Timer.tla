------------------------------- MODULE Timer -------------------------------
(***************************************************************************)
(* Timers (common/timer.c): per-CPU queues under per-CPU locks, the        *)
(* softirq handler that runs expired timers with its lock dropped, timers  *)
(* that are set, stopped, killed and moved to other CPUs meanwhile, and    *)
(* CPUs that go away.                                                      *)
(*                                                                         *)
(* Callers are threads: hypervisor code on any CPU, timer functions        *)
(* included.  A step is a lock-free read or a section under a lock.        *)
(***************************************************************************)
EXTENDS Integers, Sequences, FiniteSets, SequencesExt

CONSTANTS
  NCpus,      \* CPUs are numbered, and locks are taken in that order
  Timers, Threads,
  Growth,     \* how a heap grows: by 16 in the code
  MaxLimit,   \* the largest heap limit its metadata can hold
  Slop,       \* timer_slop
  Workloads,  \* who does what, see Init
  Nothing

CPUs == 0 .. NCpus - 1

ASSUME TimerAssumption ==
  /\ NCpus \in Nat \ {0} /\ Growth \in Nat \ {0, 1} /\ MaxLimit \in Nat /\ Slop \in Nat
  /\ Nothing \notin CPUs \cup Timers \cup Threads
  /\ \A x \in Workloads : x.cpus \subseteq CPUs /\ x.timers \subseteq Timers /\ x.threads \subseteq Threads

VARIABLES
  w,        \* the workload, never changed
  q,        \* tm: struct timer; ts: struct timers; raise: where TIMER_SOFTIRQ is pending
  lock,     \* per CPU, who holds ts->lock across steps
  running,  \* per CPU, ts->running
  phase,    \* per CPU, where timer_softirq_action() is, and its local now
  hw,       \* per CPU, the deadline the timer hardware is programmed for, or 0
  now,
  op,       \* per thread, the call it makes
  online, plug,  \* cpu_online_map, and what the hotplug operation does next
  left,     \* how many calls and hotplug operations are still to come
  dead      \* history: the timers whose kill_timer() has returned

vars == <<w, q, lock, running, phase, hw, now, op, online, plug, left, dead>>

Idle == [at |-> "idle", now |-> 0]
NoOp == [kind |-> "none", t |-> Nothing, arg |-> 0, cpu |-> 0, at |-> "idle"]

\* Every timer has been given to init_timer(); each CPU has the empty dummy heap,
\* or CPU 0 has timers set in w.heap and the softirq raised for them.
Init ==
  /\ w \in Workloads
  /\ q = [tm |-> [t \in w.timers |->
                    IF t \in ToSet(w.heap)
                      THEN [cpu |-> 0, status |-> "in_heap", expires |-> w.expires[t]]
                      ELSE [cpu |-> 0, status |-> "inactive", expires |-> 0]],
          ts |-> [c \in CPUs |->
                    [heap |-> IF c = 0 THEN w.heap ELSE <<>>,
                     limit |-> IF c = 0 /\ w.heap # <<>> THEN MaxLimit ELSE 0,
                     list |-> <<>>,
                     inactive |-> IF c = 0 THEN w.timers \ ToSet(w.heap) ELSE {}]],
          raise |-> IF w.heap = <<>> THEN {} ELSE {0}]
  /\ lock = [c \in CPUs |-> Nothing]
  /\ running = [c \in CPUs |-> Nothing]
  /\ phase = [c \in CPUs |-> Idle]
  /\ hw = [c \in CPUs |-> 0]
  /\ now = 0
  /\ op = [p \in w.threads |-> NoOp]
  /\ online = w.cpus
  /\ plug = "idle"
  /\ left = [calls |-> w.calls, plugs |-> w.plugs]
  /\ dead = {}
-----------------------------------------------------------------------------
(***************************************************************************)
(* The heap, a sequence of timers; a timer's heap_offset is its index.     *)
(***************************************************************************)
\* The places from top down to bottom, one the parent of the next.
OnPath(i, top, bottom) == i >= top /\ \E k \in 0 .. bottom : bottom \div 2^k = i

up_heap(h, ex, pos) ==
  LET t == h[pos]
      end[i \in 1 .. pos] ==
        IF i > 1 /\ ex[t] < ex[h[i \div 2]] THEN end[i \div 2] ELSE i
  IN  [i \in DOMAIN h |-> IF i = end[pos] THEN t
                          ELSE IF OnPath(i, end[pos], pos) THEN h[i \div 2] ELSE h[i]]

down_heap(h, ex, pos) ==
  LET t == h[pos]
      nxt(i) == IF 2*i + 1 <= Len(h) /\ ex[h[2*i + 1]] < ex[h[2*i]] THEN 2*i + 1 ELSE 2*i
      end[i \in DOMAIN h] ==
        IF 2*i <= Len(h) /\ ex[h[nxt(i)]] <= ex[t] THEN end[nxt(i)] ELSE i
  IN  [i \in DOMAIN h |-> IF i = end[pos] THEN t
                          ELSE IF OnPath(i, pos, end[pos]) THEN h[nxt(i)] ELSE h[i]]

RemoveAndSink(h, ex, t) ==
  LET pos == SelectInSeq(h, LAMBDA x : x = t)
      rest == Front([h EXCEPT ![pos] = h[Len(h)]])
  IN  IF pos = Len(h) THEN rest ELSE down_heap(rest, ex, pos)

remove_from_heap(h, ex, t) ==
  LET pos == SelectInSeq(h, LAMBDA x : x = t)
      rest == Front([h EXCEPT ![pos] = h[Len(h)]])
  IN  IF pos = Len(h) THEN rest
      ELSE IF pos > 1 /\ ex[rest[pos]] < ex[rest[pos \div 2]] THEN up_heap(rest, ex, pos)
      ELSE down_heap(rest, ex, pos)

add_to_heap(h, ex, t) == up_heap(Append(h, t), ex, Len(h) + 1)

add_to_list(l, ex, t) ==
  LET later == SelectInSeq(l, LAMBDA x : ex[x] > ex[t])
  IN  IF later = 0 THEN Append(l, t) ELSE InsertAt(l, later, t)
-----------------------------------------------------------------------------
(***************************************************************************)
(* Entries.  s is the value of q before the operation.                     *)
(***************************************************************************)
Expires(s) == [t \in DOMAIN s.tm |-> s.tm[t].expires]
Active(s, t) == s.tm[t].status \in {"in_heap", "in_list"}

\* What add_entry() and remove_entry() return: t is the top of the heap or the
\* head of the list.
First(s, t) ==
  LET ts == s.ts[s.tm[t].cpu]
  IN  IF s.tm[t].status = "in_heap" THEN ts.heap[1] = t ELSE ts.list[1] = t

Raise(s, c, if) == IF if THEN [s EXCEPT !.raise = @ \cup {c}] ELSE s

remove_entry(s, t) ==
  LET c == s.tm[t].cpu IN
  [s EXCEPT !.ts[c].heap = IF s.tm[t].status = "in_heap" THEN remove_from_heap(@, Expires(s), t) ELSE @,
            !.ts[c].list = IF s.tm[t].status = "in_list" THEN Remove(@, t) ELSE @,
            !.tm[t].status = "invalid"]

add_entry(s, t) ==
  LET c == s.tm[t].cpu
      room == Len(s.ts[c].heap) < s.ts[c].limit
  IN  [s EXCEPT !.ts[c].heap = IF room THEN add_to_heap(@, Expires(s), t) ELSE @,
                !.ts[c].list = IF room THEN @ ELSE add_to_list(@, Expires(s), t),
                !.tm[t].status = IF room THEN "in_heap" ELSE "in_list"]

ActivateNoticeHeap(s, t) ==
  LET c == s.tm[t].cpu
      a == add_entry([s EXCEPT !.ts[c].inactive = @ \ {t}], t)
  IN  Raise(a, c, a.tm[t].status = "in_heap" /\ First(a, t))

activate_timer(s, t) ==
  LET c == s.tm[t].cpu
      a == add_entry([s EXCEPT !.ts[c].inactive = @ \ {t}], t)
  IN  Raise(a, c, First(a, t))

Deactivated(s, t) ==
  LET c == s.tm[t].cpu IN
  [s EXCEPT !.tm[t].status = "inactive", !.ts[c].inactive = @ \cup {t}]

deactivate_timer(s, t) ==
  Deactivated(Raise(remove_entry(s, t), s.tm[t].cpu, First(s, t)), t)

Stopped(s, t) == IF Active(s, t) THEN deactivate_timer(s, t) ELSE s
-----------------------------------------------------------------------------
(***************************************************************************)
(* Calls.  The CPU of the timer is read without a lock, then checked again *)
(* under that CPU's lock.                                                  *)
(***************************************************************************)
Killed == NCpus

\* The calls the workload makes; migrate_timer() gets a CPU that is online.
Calls ==
  [kind : w.kinds \cap {"stop", "kill"}, t : w.timers, arg : {0}]
    \cup [kind : w.kinds \cap {"set"}, t : w.timers, arg : w.times]
    \cup [kind : w.kinds \cap {"migrate"}, t : w.timers, arg : online]

\* The first, or another, turn of the loop in timer_lock_unsafe() or migrate_timer().
ReadCpu(call) ==
  LET c == q.tm[call.t].cpu IN
  IF c = Killed \/ (call.kind = "migrate" /\ c = call.arg)
    THEN NoOp
    ELSE [kind |-> call.kind, t |-> call.t, arg |-> call.arg, cpu |-> c, at |-> "lock"]

Begin(p) ==
  /\ op[p] = NoOp /\ left.calls > 0
  /\ \E call \in Calls : op' = [op EXCEPT ![p] = ReadCpu(call)]
  /\ op' # op
  /\ left' = [left EXCEPT !.calls = @ - 1]
  /\ UNCHANGED <<w, q, lock, running, phase, hw, now, online, plug, dead>>

\* A lock was taken but the timer has moved on: start over.
Moved(p) == q.tm[op[p].t].cpu # op[p].cpu
Retry(p) == op' = [op EXCEPT ![p] = ReadCpu(op[p])] /\ UNCHANGED <<q, dead>>

Return(p) == op' = [op EXCEPT ![p] = NoOp]

set_timer(p) ==
  LET o == op[p]  s == Stopped(q, o.t) IN
  /\ q' = activate_timer([s EXCEPT !.tm[o.t].expires = o.arg], o.t)
  /\ Return(p)

stop_timer(p) == q' = Stopped(q, op[p].t) /\ Return(p)

\* The timer is off every queue; then its function has to end, on each CPU in turn.
kill_timer(p) ==
  LET t == op[p].t  s == Stopped(q, t) IN
  /\ q' = [s EXCEPT !.tm[t].cpu = Killed, !.tm[t].status = "killed",
                    !.ts[op[p].cpu].inactive = @ \ {t}]
  /\ op' = [op EXCEPT ![p].at = "wait", ![p].arg = 0]

Locked(p) ==
  LET o == op[p] IN
  /\ o.at = "lock" /\ o.kind # "migrate" /\ lock[o.cpu] = Nothing
  /\ IF Moved(p) THEN Retry(p)
     ELSE /\ \/ o.kind = "set" /\ set_timer(p)
             \/ o.kind = "stop" /\ stop_timer(p)
             \/ o.kind = "kill" /\ kill_timer(p)
          /\ UNCHANGED dead
  /\ UNCHANGED <<w, lock, running, phase, hw, now, online, plug, left>>

KillWaitOneCpu(p) ==
  LET o == op[p] IN
  /\ o.at = "wait" /\ running[o.cpu] # o.t
  /\ Return(p)
  /\ dead' = dead \cup {o.t}
  /\ UNCHANGED <<w, q, lock, running, phase, hw, now, online, plug, left>>

KillWait(p) ==
  LET o == op[p] IN
  /\ o.at = "wait"
  /\ o.arg \in online => running[o.arg] # o.t
  /\ IF o.arg + 1 < NCpus
       THEN op' = [op EXCEPT ![p].arg = @ + 1] /\ UNCHANGED dead
       ELSE Return(p) /\ dead' = dead \cup {o.t}
  /\ UNCHANGED <<w, q, lock, running, phase, hw, now, online, plug, left>>

LockOldFirst(old, new) == old

\* Two CPUs' locks are taken in the order of the CPUs' numbers.
LockFirst(old, new) == IF old < new THEN old ELSE new
LockSecond(old, new) == IF LockFirst(old, new) = old THEN new ELSE old

MigrateLock(p) ==
  LET o == op[p]  first == LockFirst(o.cpu, o.arg) IN
  /\ o.at = "lock" /\ o.kind = "migrate" /\ lock[first] = Nothing
  /\ lock' = [lock EXCEPT ![first] = p]
  /\ op' = [op EXCEPT ![p].at = "lock2"]
  /\ UNCHANGED <<w, q, running, phase, hw, now, online, plug, left, dead>>

\* deactivate_timer() raises the softirq on the old CPU, activate_timer() on the new.
migrate_timer(p) ==
  LET o == op[p]
      s == Stopped(q, o.t)
      m == [s EXCEPT !.ts[o.cpu].inactive = @ \ {o.t}, !.tm[o.t].cpu = o.arg,
                     !.ts[o.arg].inactive = @ \cup {o.t}]
  IN  /\ o.at = "lock2" /\ lock[LockSecond(o.cpu, o.arg)] = Nothing
      /\ lock' = [lock EXCEPT ![LockFirst(o.cpu, o.arg)] = Nothing]
      /\ IF Moved(p) THEN Retry(p)
         ELSE /\ q' = IF Active(q, o.t) THEN activate_timer(m, o.t) ELSE m
              /\ Return(p) /\ UNCHANGED dead
      /\ UNCHANGED <<w, running, phase, hw, now, online, plug, left>>

\* Never concurrent with another operation on the timer, as its header demands.
init_timer(t, c) ==
  /\ "init" \in w.kinds /\ t \in dead /\ c \in online /\ lock[c] = Nothing
  /\ \A p \in w.threads : op[p].t # t
  /\ q' = [q EXCEPT !.tm[t] = [cpu |-> c, status |-> "inactive", expires |-> 0],
                    !.ts[c].inactive = @ \cup {t}]
  /\ dead' = dead \ {t}
  /\ UNCHANGED <<w, lock, running, phase, hw, now, op, online, plug, left>>
-----------------------------------------------------------------------------
(***************************************************************************)
(* timer_softirq_action() on CPU c.                                        *)
(***************************************************************************)
\* The softirq bit is cleared; a heap that overflowed grows, if memory allows.
SoftirqBegin(c) ==
  LET bigger == (q.ts[c].limit + 1) * Growth - 1
      grown == [q EXCEPT !.ts[c].limit = bigger]
  IN  /\ c \in online \cap q.raise /\ phase[c] = Idle /\ lock[c] = Nothing
      /\ \E s \in {q} \cup (IF q.ts[c].list # <<>> /\ bigger <= MaxLimit THEN {grown} ELSE {}) :
           q' = [s EXCEPT !.raise = @ \ {c}]
      /\ phase' = [phase EXCEPT ![c] = [at |-> "heap", now |-> now]]
      /\ UNCHANGED <<w, lock, running, hw, now, op, online, plug, left, dead>>

HeapReady(c) ==
  /\ phase[c].at = "heap" /\ q.ts[c].heap # <<>>
  /\ q.tm[q.ts[c].heap[1]].expires < phase[c].now
ListReady(c) ==
  /\ q.ts[c].list # <<>> /\ q.tm[q.ts[c].list[1]].expires < phase[c].now

\* execute_timer(): the function runs until the handler takes its lock again.
ExecuteHeap(c) ==
  /\ phase[c] # Idle /\ lock[c] = Nothing /\ HeapReady(c)
  /\ LET t == q.ts[c].heap[1] IN
     /\ q' = Deactivated(remove_entry(q, t), t)
     /\ running' = [running EXCEPT ![c] = t]
  /\ UNCHANGED <<w, lock, phase, hw, now, op, online, plug, left, dead>>

ExecuteList(c) ==
  /\ phase[c] # Idle /\ lock[c] = Nothing /\ ~HeapReady(c) /\ ListReady(c)
  /\ LET t == q.ts[c].list[1] IN
     /\ q' = Deactivated(remove_entry(q, t), t)
     /\ running' = [running EXCEPT ![c] = t]
  /\ phase' = [phase EXCEPT ![c].at = "list"]
  /\ UNCHANGED <<w, lock, hw, now, op, online, plug, left, dead>>

\* The list is put into the heap as far as it fits.
Refill(s, c) ==
  FoldLeft(add_entry, [s EXCEPT !.ts[c].list = <<>>], s.ts[c].list)

Latest(a, b) == IF a < b THEN b ELSE a

EarliestOf(ts, ex) ==
  LET tops == {ex[ts.heap[i]] : i \in DOMAIN ts.heap \cap {1}}
                \cup {ex[ts.list[i]] : i \in DOMAIN ts.list \cap {1}}
  IN  IF tops = {} THEN Nothing ELSE CHOOSE x \in tops : \A y \in tops : x <= y

\* Nothing more is ready: program the hardware, or if that fails try again.
SoftirqEnd(c) ==
  LET s == Refill(q, c)
      first == EarliestOf(s.ts[c], Expires(s))
      deadline == IF first = Nothing THEN 0 ELSE Latest(first, now + Slop)
  IN  /\ phase[c] # Idle /\ lock[c] = Nothing /\ ~HeapReady(c) /\ ~ListReady(c)
      /\ \E programmed \in BOOLEAN :
           /\ deadline = 0 => programmed
           /\ hw' = [hw EXCEPT ![c] = IF programmed THEN deadline ELSE 0]
           /\ q' = Raise(s, c, ~programmed)
      /\ running' = [running EXCEPT ![c] = Nothing]
      /\ phase' = [phase EXCEPT ![c] = Idle]
      /\ UNCHANGED <<w, lock, now, op, online, plug, left, dead>>

\* The timer hardware.
TimerInterrupt(c) ==
  /\ c \in online /\ hw[c] # 0 /\ hw[c] <= now
  /\ hw' = [hw EXCEPT ![c] = 0]
  /\ q' = Raise(q, c, TRUE)
  /\ UNCHANGED <<w, lock, running, phase, now, op, online, plug, left, dead>>

Tick ==
  /\ now < w.end
  /\ now' = now + 1
  /\ UNCHANGED <<w, q, lock, running, phase, hw, op, online, plug, left, dead>>
-----------------------------------------------------------------------------
(***************************************************************************)
(* CPU hotplug: the last CPU goes away and comes back.                     *)
(***************************************************************************)
Target == NCpus - 1

\* stop_machine_run(): nobody is in the middle of a call or of the handler.
CpuDown ==
  /\ plug = "idle" /\ left.plugs > 0 /\ Target \in online
  /\ \A p \in w.threads : op[p] = NoOp
  /\ \A c \in CPUs : phase[c] = Idle
  /\ online' = online \ {Target}
  /\ plug' = "dead"
  /\ left' = [left EXCEPT !.plugs = @ - 1]
  /\ UNCHANGED <<w, q, lock, running, phase, hw, now, op, dead>>

\* migrate_timers_from_cpu(), to any CPU online, with both locks in order.
DeadLock(c) ==
  /\ plug = "dead" /\ c \in online /\ lock[LockFirst(Target, c)] = Nothing
  /\ lock' = [lock EXCEPT ![LockFirst(Target, c)] = Target]
  /\ plug' = "dead2"
  /\ UNCHANGED <<w, q, running, phase, hw, now, op, online, left, dead>>

\* An active timer leaves, from the top of the heap or the head of the list.
MoveOne(s, c) ==
  LET ts == s.ts[Target]
      t == IF ts.heap # <<>> THEN ts.heap[1] ELSE ts.list[1]
      a == add_entry([remove_entry(s, t) EXCEPT !.tm[t].cpu = c], t)
  IN  Raise(a, c, First(a, t))

\* All of them leave, then the inactive ones; free_percpu_timers() drops the heap.
migrate_timers_from_cpu(c) ==
  LET old == q.ts[Target]
      active == old.heap \o old.list
      s == FoldLeft(LAMBDA x, t : MoveOne(x, c), q, active)
  IN  /\ plug = "dead2" /\ c \in online
      /\ lock[LockFirst(Target, c)] = Target /\ lock[LockSecond(Target, c)] = Nothing
      /\ lock' = [lock EXCEPT ![LockFirst(Target, c)] = Nothing]
      /\ q' = [s EXCEPT !.tm = [t \in w.timers |->
                                  IF t \in old.inactive THEN [s.tm[t] EXCEPT !.cpu = c] ELSE s.tm[t]],
                        !.ts[c].inactive = @ \cup old.inactive,
                        !.ts[Target].inactive = {},
                        !.ts[Target].limit = 0]
      /\ plug' = "off"
      /\ UNCHANGED <<w, running, phase, hw, now, op, online, left, dead>>

CpuUp ==
  /\ plug = "off"
  /\ online' = online \cup {Target}
  /\ hw' = [hw EXCEPT ![Target] = 0]
  /\ plug' = "idle"
  /\ UNCHANGED <<w, q, lock, running, phase, now, op, left, dead>>
-----------------------------------------------------------------------------
Next ==
  \/ \E p \in w.threads :
       Begin(p) \/ Locked(p) \/ KillWait(p) \/ MigrateLock(p) \/ migrate_timer(p)
  \/ \E t \in w.timers, c \in CPUs : init_timer(t, c)
  \/ \E c \in CPUs :
       \/ SoftirqBegin(c) \/ ExecuteHeap(c) \/ ExecuteList(c) \/ SoftirqEnd(c)
       \/ TimerInterrupt(c) \/ DeadLock(c) \/ migrate_timers_from_cpu(c)
  \/ Tick \/ CpuDown \/ CpuUp

Spec == Init /\ [][Next]_vars
-----------------------------------------------------------------------------
Queued(c) == ToSet(q.ts[c].heap) \cup ToSet(q.ts[c].list)

\* Where a timer is according to its status is where it is, on the CPU it names and
\* nowhere else, across lost races of set_timer(), migrate_timer() and CPU_DEAD; the
\* heap has its order and the list is sorted.
QueuesSound ==
  /\ \A t \in w.timers, c \in CPUs :
       LET here == q.tm[t].cpu = c  ts == q.ts[c] IN
       /\ t \in ToSet(ts.heap) <=> here /\ q.tm[t].status = "in_heap"
       /\ t \in ToSet(ts.list) <=> here /\ q.tm[t].status = "in_list"
       /\ t \in ts.inactive <=> here /\ q.tm[t].status = "inactive"
  /\ \A c \in CPUs :
       LET ts == q.ts[c]  ex == Expires(q) IN
       /\ Len(ts.heap) = Cardinality(ToSet(ts.heap)) /\ Len(ts.heap) <= ts.limit
       /\ \A i \in 2 .. Len(ts.heap) : ex[ts.heap[i \div 2]] <= ex[ts.heap[i]]
       /\ \A i, j \in DOMAIN ts.list : i < j => ts.list[i] # ts.list[j] /\ ex[ts.list[i]] <= ex[ts.list[j]]

\* No timer is forgotten: on a CPU that is online, not in the handler and without a
\* pending TIMER_SOFTIRQ, the hardware is programmed for the earliest timer, or for
\* timer_slop from the time it was programmed.
DeadlineCovers ==
  \A c \in online :
    phase[c] = Idle /\ c \notin q.raise =>
      \A t \in Queued(c) :
        hw[c] # 0 /\ hw[c] <= Latest(q.tm[t].expires, now + Slop)

\* migrate_timer() and migrate_timers_from_cpu() hold one lock while they wait for
\* another: they never wait for each other, or for themselves.
Wants(p) ==
  IF p = Target THEN IF plug = "dead2" THEN {LockSecond(Target, c) : c \in online} ELSE {}
  ELSE IF op[p].at = "lock2" THEN {LockSecond(op[p].cpu, op[p].arg)} ELSE {}
NoLockCycle ==
  \A a, b \in w.threads \cup {Target} :
    ~ \E x \in Wants(a), y \in Wants(b) : lock[x] = b /\ lock[y] = a

\* Once the kill_timer() that kills a timer returns, its function is not running on
\* any CPU, wherever it migrated while it ran, and the timer is on no queue.
KilledNotRunning ==
  \A t \in dead : \A c \in CPUs : running[c] # t /\ t \notin Queued(c)
=============================================================================
