-------------------------------- MODULE Rcu --------------------------------
(***************************************************************************)
(* Read-copy update (common/rcupdate.c) with what drives it: the softirq   *)
(* loop (common/softirq.c), the idle loop and CPU hotplug (common/cpu.c).  *)
(*                                                                         *)
(* Each CPU has a thread of control, base[c], and on top of it the RCU     *)
(* softirq handler at pc[c].  A step is one access to state other CPUs     *)
(* read without rcp->lock; work on the CPU's own lists rides along.        *)
(***************************************************************************)
EXTENDS Integers, Sequences, FiniteSets, SequencesExt

CONSTANTS
  CPUs,
  Callbacks,   \* the rcu_heads passed to call_rcu(), each once
  NoCPU,
  BLimit, QHiMark, QLowMark, RsInterval,  \* blimit, qhimark, qlowmark, rsinterval
  Workloads    \* who does what: see Init

ASSUME RcuAssumption ==
  /\ NoCPU \notin CPUs
  /\ CPUs \cap Callbacks = {}
  /\ BLimit \in Nat \ {0} /\ {QHiMark, QLowMark, RsInterval} \subseteq Nat

VARIABLES
  w,              \* the workload, never changed
  rcp,            \* rcu_ctrlblk, without its lock
  lock,           \* the holder of rcu_ctrlblk.lock
  rdp,            \* per CPU, rcu_data
  softirq,        \* the CPUs on which RCU_SOFTIRQ is pending
  online,         \* cpu_online_map
  maps,           \* cpu_add_remove_lock: its readers and whether it is write-locked
  cpu_count, pending_count,
  base, pc, ret,  \* control; ret is where rcu_start_batch() returns to
  section,        \* per CPU, the kind of read-side section it is in
  left,           \* the calls of rcu_barrier(), cpu_up() and cpu_down() still to come
  called, invoked, awaits,  \* history: as in RcuSpec
  before          \* history: callbacks outstanding when rcu_barrier() was called

ctl == <<base, pc, ret>>
hist == <<called, invoked, awaits, before>>
barrier == <<cpu_count, pending_count>>
vars == <<w, rcp, lock, rdp, softirq, online, maps, barrier, ctl, section, left, hist>>

Data(completed) ==
  [quiescbatch |-> completed, qs_pending |-> FALSE, batch |-> 0,
   nxt |-> <<>>, cur |-> <<>>, done |-> <<>>, unlimited |-> FALSE, last_rs_qlen |-> 0,
   idle_timer_active |-> FALSE, process_callbacks |-> FALSE, barrier_active |-> FALSE]

Init ==
  /\ w \in Workloads
  /\ rcp = [cur |-> 0, completed |-> 0, next_pending |-> FALSE, cpumask |-> {}, idle |-> {}]
  /\ lock = NoCPU
  /\ rdp = [c \in CPUs |-> Data(0)]
  /\ softirq = {}
  /\ online = w.cpus
  /\ maps = [readers |-> {}, writer |-> FALSE]
  /\ cpu_count = 0 /\ pending_count = 0
  /\ base = [c \in CPUs |-> IF c \in w.cpus THEN "run" ELSE "off"]
  /\ pc = [c \in CPUs |-> "out"]
  /\ ret = [c \in CPUs |-> "out"]
  /\ section = [c \in CPUs |-> "none"]
  /\ left = [barriers |-> w.barriers, plugs |-> w.plugs]
  /\ called = {} /\ invoked = {}
  /\ awaits = [h \in Callbacks |-> {}]
  /\ before = [c \in CPUs |-> {}]

Executes(c) == base[c] \notin {"halt", "off"}
Outstanding == called \ invoked
Qlen(r) == Len(r.nxt) + Len(r.cur) + Len(r.done)
-----------------------------------------------------------------------------
(***************************************************************************)
(* Readers and call_rcu().  An interrupt may do either at any point of the *)
(* softirq handler, which then stays where it is until the section ends.   *)
(***************************************************************************)
rcu_read_lock(c) ==
  /\ Executes(c) /\ c \in w.readers /\ section[c] = "none"
  /\ section' = [section EXCEPT ![c] = IF c \in rcp.idle THEN "idle" ELSE "busy"]
  /\ UNCHANGED <<w, rcp, lock, rdp, softirq, online, maps, barrier, ctl, left, hist>>

rcu_read_unlock(c) ==
  /\ section[c] # "none"
  /\ section' = [section EXCEPT ![c] = "none"]
  /\ awaits' = [h \in Callbacks |-> awaits[h] \ {c}]
  /\ UNCHANGED <<w, rcp, lock, rdp, softirq, online, maps, barrier, ctl, left, called, invoked, before>>

\* call_rcu() on CPU c, with force_quiescent_state() when the queue is long;
\* the update is applied to r, the CPU's rcu_data.
Queue(c, h, r) ==
  LET q == [r EXCEPT !.nxt = Append(@, h)]
      many == Qlen(q) > QHiMark
      resched == many /\ Qlen(q) - q.last_rs_qlen > RsInterval
  IN  /\ rdp' = [rdp EXCEPT ![c] =
                   [q EXCEPT !.unlimited = @ \/ many,
                             !.last_rs_qlen = IF resched THEN Qlen(q) ELSE @]]
      /\ softirq' = softirq \cup (IF many THEN {c} ELSE {})
                            \cup (IF resched THEN rcp.cpumask \ {c} ELSE {})

call_rcu(c, h) ==
  /\ Executes(c) /\ c \in w.callers /\ h \in w.callbacks \ called
  /\ Queue(c, h, rdp[c])
  /\ called' = called \cup {h}
  /\ awaits' = [awaits EXCEPT ![h] = {d \in CPUs : section[d] # "none"}]
  /\ UNCHANGED <<w, rcp, lock, online, maps, barrier, ctl, section, left, invoked, before>>
-----------------------------------------------------------------------------
(***************************************************************************)
(* The softirq handler, rcu_process_callbacks().                           *)
(***************************************************************************)
rcu_pending(c) ==
  LET r == rdp[c] IN
  \/ r.cur # <<>> /\ rcp.completed >= r.batch
  \/ r.cur = <<>> /\ r.nxt # <<>>
  \/ r.done # <<>>
  \/ r.quiescbatch # rcp.cur \/ r.qs_pending

NeedsCpuOwnLists(c) == rdp[c].cur # <<>> /\ ~rdp[c].idle_timer_active

rcu_needs_cpu(c) ==
  \/ rdp[c].cur # <<>> /\ ~rdp[c].idle_timer_active
  \/ rcu_pending(c)

At(c, s) == pc[c] = s /\ section[c] = "none"
Goto(c, s) == pc' = [pc EXCEPT ![c] = s] /\ UNCHANGED <<base, ret>>

\* One round of __do_softirq().  It is not entered within a read-side section.
\* The loops of rcu_barrier() and of rcu_barrier_action() call it too, the
\* latter from within the handler.
do_softirq(c) ==
  /\ base[c] \in {"run", "idle", "enter", "wait"}
  /\ At(c, "out") \/ At(c, "action")
  /\ rcu_pending(c) \/ c \in softirq
  /\ softirq' = softirq \ {c}
  /\ rdp' = [rdp EXCEPT ![c].process_callbacks = FALSE]
  /\ Goto(c, IF rcu_pending(c) \/ rdp[c].process_callbacks THEN "complete" ELSE "barrier")
  /\ UNCHANGED <<w, rcp, lock, online, maps, barrier, section, left, hist>>

\* The callbacks whose grace period is over move from curlist to donelist.
Complete(c) ==
  /\ At(c, "complete")
  /\ rdp' = IF rcp.completed >= rdp[c].batch
              THEN [rdp EXCEPT ![c].done = @ \o rdp[c].cur, ![c].cur = <<>>]
              ELSE rdp
  /\ Goto(c, "adopt")
  /\ UNCHANGED <<w, rcp, lock, softirq, online, maps, barrier, section, left, hist>>

AdoptThisBatch(c) ==
  /\ At(c, "adopt")
  /\ LET new == rdp[c].nxt # <<>> /\ rdp[c].cur = <<>> IN
     /\ rdp' = IF new
                 THEN [rdp EXCEPT ![c].cur = rdp[c].nxt, ![c].nxt = <<>>, ![c].batch = rcp.cur]
                 ELSE rdp
     /\ Goto(c, IF new THEN "next" ELSE "quiesce")
  /\ UNCHANGED <<w, rcp, lock, softirq, online, maps, barrier, section, left, hist>>

\* The new callbacks become the current batch, to wait for the next grace period.
Adopt(c) ==
  /\ At(c, "adopt")
  /\ LET new == rdp[c].nxt # <<>> /\ rdp[c].cur = <<>> IN
     /\ rdp' = IF new
                 THEN [rdp EXCEPT ![c].cur = rdp[c].nxt, ![c].nxt = <<>>, ![c].batch = rcp.cur + 1]
                 ELSE rdp
     /\ Goto(c, IF new THEN "next" ELSE "quiesce")
  /\ UNCHANGED <<w, rcp, lock, softirq, online, maps, barrier, section, left, hist>>

\* Unlocked look at next_pending.
LookNext(c) ==
  /\ At(c, "next")
  /\ Goto(c, IF rcp.next_pending THEN "quiesce" ELSE "register")
  /\ UNCHANGED <<w, rcp, lock, rdp, softirq, online, maps, barrier, section, left, hist>>

Register(c) ==
  /\ At(c, "register") /\ lock = NoCPU
  /\ lock' = c
  /\ rcp' = [rcp EXCEPT !.next_pending = TRUE]
  /\ pc' = [pc EXCEPT ![c] = "start"]
  /\ ret' = [ret EXCEPT ![c] = "quiesce"]
  /\ UNCHANGED <<w, rdp, softirq, online, maps, barrier, base, section, left, hist>>

\* rcu_start_batch(), under rcp->lock, in its three stores.
StartBatch(c) ==
  /\ At(c, "start")
  /\ LET start == rcp.next_pending /\ rcp.completed = rcp.cur IN
     /\ rcp' = IF start THEN [rcp EXCEPT !.next_pending = FALSE] ELSE rcp
     /\ lock' = IF start THEN c ELSE NoCPU
     /\ Goto(c, IF start THEN "incr" ELSE ret[c])
  /\ UNCHANGED <<w, rdp, softirq, online, maps, barrier, section, left, hist>>

StartIncr(c) ==
  /\ At(c, "incr")
  /\ rcp' = [rcp EXCEPT !.cur = @ + 1]
  /\ Goto(c, "mask")
  /\ UNCHANGED <<w, lock, rdp, softirq, online, maps, barrier, section, left, hist>>

StartMask(c) ==
  /\ At(c, "mask")
  /\ rcp' = [rcp EXCEPT !.cpumask = online \ rcp.idle]
  /\ lock' = NoCPU
  /\ Goto(c, ret[c])
  /\ UNCHANGED <<w, rdp, softirq, online, maps, barrier, section, left, hist>>

\* cpu_quiet() for CPU d, run by c, with rcp->lock taken and, unless the batch
\* completed, released.
cpu_quiet(c, d, next) ==
  LET mask == rcp.cpumask \ {d} IN
  /\ rcp' = [rcp EXCEPT !.cpumask = mask,
                        !.completed = IF mask = {} THEN rcp.cur ELSE @]
  /\ lock' = IF mask = {} THEN c ELSE NoCPU
  /\ pc' = [pc EXCEPT ![c] = IF mask = {} THEN "start" ELSE next]
  /\ ret' = [ret EXCEPT ![c] = next]

CheckNoticesOnly(c) ==
  /\ At(c, "quiesce")
  /\ rdp' = [rdp EXCEPT ![c].quiescbatch = rcp.cur]
  /\ Goto(c, IF rdp[c].qs_pending THEN "quiet" ELSE "invoke")
  /\ UNCHANGED <<w, rcp, lock, softirq, online, maps, barrier, section, left, hist>>

\* rcu_check_quiescent_state(): a new grace period is only noticed; a quiescent
\* state is reported the next time.
CheckQuiescent(c) ==
  /\ At(c, "quiesce")
  /\ LET new == rdp[c].quiescbatch # rcp.cur IN
     /\ rdp' = [rdp EXCEPT ![c].quiescbatch = rcp.cur, ![c].qs_pending = new]
     /\ Goto(c, IF ~new /\ rdp[c].qs_pending THEN "quiet" ELSE "invoke")
  /\ UNCHANGED <<w, rcp, lock, softirq, online, maps, barrier, section, left, hist>>

ReportQuiescent(c) ==
  /\ At(c, "quiet") /\ lock = NoCPU
  /\ IF rdp[c].quiescbatch = rcp.cur
       THEN cpu_quiet(c, c, "invoke") /\ UNCHANGED base
       ELSE Goto(c, "invoke") /\ UNCHANGED <<rcp, lock>>
  /\ UNCHANGED <<w, rdp, softirq, online, maps, barrier, section, left, hist>>

\* rcu_do_batch().  The head that rcu_barrier_action() queues on a CPU is named
\* by the CPU; rcu_barrier_callback() counts it.
rcu_do_batch(c) ==
  /\ At(c, "invoke")
  /\ LET r == rdp[c]
         n == IF r.unlimited \/ Len(r.done) < BLimit THEN Len(r.done) ELSE BLimit
         run == ToSet(SubSeq(r.done, 1, n))
         rest == [r EXCEPT !.done = SubSeq(@, n + 1, Len(@))]
     IN  /\ invoked' = invoked \cup (run \cap Callbacks)
         /\ cpu_count' = cpu_count - Cardinality(run \cap CPUs)
         /\ rdp' = [rdp EXCEPT ![c] =
                      [rest EXCEPT !.unlimited = @ /\ Qlen(rest) > QLowMark,
                                   !.process_callbacks = rest.done # <<>>]]
         /\ softirq' = IF rest.done # <<>> THEN softirq \cup {c} ELSE softirq
  /\ Goto(c, "barrier")
  /\ UNCHANGED <<w, rcp, lock, online, maps, pending_count, section, left, called, awaits, before>>
-----------------------------------------------------------------------------
(***************************************************************************)
(* rcu_barrier().                                                          *)
(***************************************************************************)
\* The end of rcu_process_callbacks(): rcu_barrier_action() queues its head.
\* A handler called from within the action returns to it.
JoinBarrier(c) ==
  /\ At(c, "barrier")
  /\ IF cpu_count # 0 /\ ~rdp[c].barrier_active
       THEN /\ Queue(c, c, [rdp[c] EXCEPT !.barrier_active = TRUE])
            /\ Goto(c, "action")
       ELSE /\ Goto(c, IF rdp[c].barrier_active THEN "action" ELSE "out")
            /\ UNCHANGED <<rdp, softirq>>
  /\ UNCHANGED <<w, rcp, lock, online, maps, barrier, section, left, hist>>

LeaveBarrier(c) ==
  /\ At(c, "action") /\ cpu_count = 0
  /\ pending_count' = pending_count - 1
  /\ rdp' = [rdp EXCEPT ![c].barrier_active = FALSE]
  /\ Goto(c, "out")
  /\ UNCHANGED <<w, rcp, lock, softirq, online, maps, cpu_count, section, left, hist>>

\* A CPU enters rcu_barrier(), for itself or first thing in cpu_hotplug_begin().
EnterBarrier(c) ==
  /\ base[c] = "run" /\ At(c, "out")
  /\ base' = [base EXCEPT ![c] = "enter"]
  /\ before' = [before EXCEPT ![c] = Outstanding]
  /\ UNCHANGED <<pc, w, rcp, lock, rdp, softirq, online, maps, barrier, section, called, invoked, awaits>>

rcu_barrier(c) ==
  /\ c \in left.barriers
  /\ EnterBarrier(c)
  /\ left' = [left EXCEPT !.barriers = @ \ {c}]
  /\ ret' = [ret EXCEPT ![c] = "out"]

\* pending_count claimed with the CPU maps held; a failed attempt leaves no trace.
BarrierClaim(c) ==
  /\ base[c] = "enter" /\ At(c, "out")
  /\ pending_count = 0 /\ ~maps.writer
  /\ pending_count' = Cardinality(online) + 1
  /\ maps' = [maps EXCEPT !.readers = @ \cup {c}]
  /\ base' = [base EXCEPT ![c] = "count"]
  /\ UNCHANGED <<w, rcp, lock, rdp, softirq, online, cpu_count, pc, ret, section, left, hist>>

BarrierCount(c) ==
  /\ base[c] = "count"
  /\ cpu_count' = pending_count - 1
  /\ base' = [base EXCEPT ![c] = "raise"]
  /\ UNCHANGED <<w, rcp, lock, rdp, softirq, online, maps, pending_count, pc, ret, section, left, hist>>

BarrierRaise(c) ==
  /\ base[c] = "raise"
  /\ softirq' = softirq \cup online
  /\ base' = [base EXCEPT ![c] = "wait"]
  /\ UNCHANGED <<w, rcp, lock, rdp, online, maps, barrier, pc, ret, section, left, hist>>

BarrierReturn(c) ==
  /\ base[c] = "wait" /\ At(c, "out") /\ pending_count = 1
  /\ pending_count' = 0
  /\ maps' = [maps EXCEPT !.readers = @ \ {c}]
  /\ base' = [base EXCEPT ![c] = IF c = w.plugger THEN "begin" ELSE "run"]
  /\ UNCHANGED <<w, rcp, lock, rdp, softirq, online, cpu_count, pc, ret, section, left, hist>>
-----------------------------------------------------------------------------
(***************************************************************************)
(* The idle loop.                                                          *)
(***************************************************************************)
rcu_idle_enter(c) ==
  /\ base[c] = "run" /\ At(c, "out") /\ c \in w.idlers /\ c \notin softirq
  /\ rcp' = [rcp EXCEPT !.idle = @ \cup {c}]
  /\ rdp' = [rdp EXCEPT ![c].idle_timer_active = rdp[c].cur # <<>>]
  /\ base' = [base EXCEPT ![c] = "idle"]
  /\ UNCHANGED <<w, lock, softirq, online, maps, barrier, pc, ret, section, left, hist>>

cpu_is_haltable(c) == ~rcu_needs_cpu(c) /\ c \notin softirq

Halt(c) ==
  /\ base[c] = "idle" /\ At(c, "out") /\ cpu_is_haltable(c)
  /\ base' = [base EXCEPT ![c] = "halt"]
  /\ UNCHANGED <<w, rcp, lock, rdp, softirq, online, maps, barrier, pc, ret, section, left, hist>>

\* Any interrupt ends the halt; a CPU that is not haltable does not halt.
rcu_idle_exit(c) ==
  /\ base[c] = "halt" \/ (base[c] = "idle" /\ At(c, "out") /\ ~cpu_is_haltable(c))
  /\ rcp' = [rcp EXCEPT !.idle = @ \ {c}]
  /\ rdp' = [rdp EXCEPT ![c].idle_timer_active = FALSE]
  /\ base' = [base EXCEPT ![c] = "run"]
  /\ UNCHANGED <<w, lock, softirq, online, maps, barrier, pc, ret, section, left, hist>>
-----------------------------------------------------------------------------
(***************************************************************************)
(* CPU hotplug: w.plugger takes w.target off- and online.                  *)
(***************************************************************************)
cpu_hotplug_begin(c) ==
  /\ c = w.plugger /\ left.plugs > 0
  /\ EnterBarrier(c)
  /\ left' = [left EXCEPT !.plugs = @ - 1]
  /\ UNCHANGED ret

WriteLockMaps(c) ==
  /\ base[c] = "begin" /\ maps.readers = {}
  /\ maps' = [maps EXCEPT !.writer = TRUE]
  /\ base' = [base EXCEPT ![c] = IF w.target \in online THEN "down" ELSE "prepare"]
  /\ UNCHANGED <<w, rcp, lock, rdp, softirq, online, barrier, pc, ret, section, left, hist>>

\* stop_machine_run(take_cpu_down): every other CPU is in the stop_machine
\* tasklet, which the idle vCPU runs outside any section and any softirq.
TakeCpuDown(c) ==
  /\ base[c] = "down" /\ section[c] = "none"
  /\ \A d \in online \ {c} : base[d] = "run" /\ At(d, "out")
  /\ online' = online \ {w.target}
  /\ base' = [base EXCEPT ![c] = "dead", ![w.target] = "off"]
  /\ UNCHANGED <<w, rcp, lock, rdp, softirq, maps, barrier, pc, ret, section, left, hist>>

\* rcu_offline_cpu(), by the CPU_DEAD notifier: a grace period that waits for
\* the dead CPU is told.
OfflineQuiet(c) ==
  /\ base[c] = "dead" /\ At(c, "out") /\ lock = NoCPU
  /\ IF rcp.cur # rcp.completed
       THEN cpu_quiet(c, w.target, "move") /\ UNCHANGED base
       ELSE Goto(c, "move") /\ UNCHANGED <<rcp, lock>>
  /\ UNCHANGED <<w, rdp, softirq, online, maps, barrier, section, left, hist>>

OfflineMoveNew(c) ==
  /\ At(c, "move")
  /\ rdp' = [rdp EXCEPT ![c].nxt = @ \o rdp[w.target].nxt]
  /\ maps' = [maps EXCEPT !.writer = FALSE]
  /\ base' = [base EXCEPT ![c] = "run"]
  /\ pc' = [pc EXCEPT ![c] = "out"]
  /\ UNCHANGED <<w, rcp, lock, softirq, online, barrier, ret, section, left, hist>>

\* Its callbacks wait for another grace period on this CPU; cpu_hotplug_done().
OfflineMove(c) ==
  /\ At(c, "move")
  /\ LET r == rdp[w.target] IN
     rdp' = [rdp EXCEPT ![c].nxt = @ \o r.done \o r.cur \o r.nxt]
  /\ maps' = [maps EXCEPT !.writer = FALSE]
  /\ base' = [base EXCEPT ![c] = "run"]
  /\ pc' = [pc EXCEPT ![c] = "out"]
  /\ UNCHANGED <<w, rcp, lock, softirq, online, barrier, ret, section, left, hist>>

\* rcu_init_percpu_data(), by the CPU_UP_PREPARE notifier.
UpPrepare(c) ==
  /\ base[c] = "prepare" /\ section[c] = "none"
  /\ rdp' = [rdp EXCEPT ![w.target] = Data(rcp.completed)]
  /\ base' = [base EXCEPT ![c] = "up"]
  /\ UNCHANGED <<w, rcp, lock, softirq, online, maps, barrier, pc, ret, section, left, hist>>

CpuUp(c) ==
  /\ base[c] = "up" /\ section[c] = "none"
  /\ online' = online \cup {w.target}
  /\ maps' = [maps EXCEPT !.writer = FALSE]
  /\ base' = [base EXCEPT ![c] = "run", ![w.target] = "run"]
  /\ UNCHANGED <<w, rcp, lock, rdp, softirq, barrier, pc, ret, section, left, hist>>
-----------------------------------------------------------------------------
Handler(c) ==
  \/ Complete(c) \/ Adopt(c) \/ LookNext(c) \/ Register(c)
  \/ StartBatch(c) \/ StartIncr(c) \/ StartMask(c)
  \/ CheckQuiescent(c) \/ ReportQuiescent(c) \/ rcu_do_batch(c)
  \/ JoinBarrier(c) \/ LeaveBarrier(c)

Barrier(c) == BarrierClaim(c) \/ BarrierCount(c) \/ BarrierRaise(c) \/ BarrierReturn(c)

Hotplug(c) ==
  WriteLockMaps(c) \/ TakeCpuDown(c) \/ OfflineQuiet(c) \/ OfflineMove(c) \/ UpPrepare(c) \/ CpuUp(c)

Next == \E c \in CPUs :
  \/ rcu_read_lock(c) \/ rcu_read_unlock(c)
  \/ \E h \in Callbacks : call_rcu(c, h)
  \/ do_softirq(c) \/ Handler(c)
  \/ rcu_barrier(c) \/ Barrier(c)
  \/ rcu_idle_enter(c) \/ Halt(c) \/ rcu_idle_exit(c)
  \/ cpu_hotplug_begin(c) \/ Hotplug(c)

Spec == Init /\ [][Next]_vars

\* An interrupt is certain to come to a halted CPU when a softirq was raised on
\* it or its idle timer is armed.
Woken(c) ==
  /\ base[c] = "idle" \/ c \in softirq \/ rdp[c].idle_timer_active
  /\ rcu_idle_exit(c)

Progress(c) == do_softirq(c) \/ Handler(c) \/ Barrier(c) \/ Hotplug(c)

\* Read-side sections end, an interrupted handler resumes, and every CPU that
\* executes comes back to its softirq loop, however often it reads in between.
FairSpec ==
  /\ Spec
  /\ \A c \in CPUs :
       /\ WF_vars(rcu_read_unlock(c))
       /\ WF_vars(Woken(c))
       /\ SF_vars(Progress(c))
-----------------------------------------------------------------------------
\* The sections of RcuSpec are those that begin while the CPU is not marked idle.
Abstract == INSTANCE RcuSpec WITH
  reading <- {c \in CPUs : section[c] = "busy"},
  awaits <- [h \in Callbacks |-> {c \in awaits[h] : section[c] = "busy"}]

\* Grace periods (rcu_start_batch(), cpu_quiet(), __rcu_process_callbacks()): RCU
\* with batches that are numbered outside the lock, CPUs that idle and CPUs that go
\* away implements RcuSpec: no callback runs before the sections it has to wait for
\* have ended.
ImplementsRcu == Abstract!Spec

\* A grace period can end: each CPU that rcp->cpumask waits for is going to call
\* cpu_quiet(), because it has not noticed the batch yet, or has and reports at the
\* next softirq.  It is not halted, and a CPU that went offline is reported dead.
AwaitedWillReport ==
  \A c \in rcp.cpumask :
    IF c \in online
      THEN /\ base[c] # "halt"
           /\ rdp[c].quiescbatch # rcp.cur \/ rdp[c].qs_pending \/ pc[c] = "quiet"
      ELSE base[w.plugger] = "dead" /\ pc[w.plugger] = "out"

\* rcu_barrier() returns only when every callback that was queued anywhere before it
\* was called has run, those moved off a dead CPU included.
BarrierFlushes ==
  [][\A c \in CPUs : BarrierReturn(c) => before[c] \subseteq invoked]_vars

\* rcu_barrier() on one CPU and cpu_hotplug_begin() on another: the caller spins for
\* the CPU maps in the context stop_machine_run() waits for, or has them while the
\* plugger spins in write_lock() and handles no softirq.
BarrierMeetsHotplug ==
  \E c \in CPUs \ {w.plugger}, p \in CPUs \cap {w.plugger} :
    \/ base[c] = "enter" /\ maps.writer
    \/ c \in maps.readers /\ base[p] = "begin"

\* Nothing is forgotten (rcu_pending(), rcu_needs_cpu(), the idle timer, CPU_DEAD):
\* once no more calls come, every callback has run, every rcu_barrier() and every
\* hotplug operation has returned, and no grace period is left running, except
\* where those two wait for each other.
EverythingEnds ==
  <>[](\/ /\ Outstanding = {}
          /\ \A c \in CPUs : base[c] \in {"run", "idle", "halt", "off"}
          /\ rcp.cur = rcp.completed
       \/ BarrierMeetsHotplug)
=============================================================================
