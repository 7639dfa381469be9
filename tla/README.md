# Xen in TLA+: locks, RCU, timers, event channels and grant tables

Specifications of the parts of the Xen hypervisor where processors meet: the
locks everything else is built on, RCU and timers, the event channels through which
guests, and Xen itself, notify each other and wait, and the grant tables through
which guests share memory. The modules are translated from the C code. TLC checks
them on small instances, and TLAPS proves the ticket lock for every number of CPUs.
`PROJECT.json` maps every definition to the lines it models and lists the runs, the
mutants, the hazards and the theorems.

## The system and its parts

Xen is a hypervisor that runs on every CPU of the machine at once. Hypercalls,
interrupts, timers and softirqs of different CPUs run concurrently; within a CPU
hypervisor code is not preempted. Its parts:

| part | code | here |
|---|---|---|
| ticket spinlocks, recursive locks, barriers | `xen/common/spinlock.c` | `Spinlock`, proofs in `SpinlockProofs` |
| queue read-write locks | `xen/common/rwlock.c`, `xen/include/xen/rwlock.h` | `Rwlock` |
| per-CPU read-write locks | the same files | `PercpuRwlock` |
| event channel ports: bind, connect, close, send, reset, destroy | `xen/common/event_channel.c` | `EvtchnPort` |
| FIFO event channels | `xen/common/event_fifo.c` | `EvtchnFifo` |
| two-level event channels | `xen/common/event_2l.c` | `EvtchnPoll` |
| blocking and polling vCPUs | `xen/common/sched/core.c` | `EvtchnPoll` |
| RCU | `xen/common/rcupdate.c` | `Rcu`, against `RcuSpec` |
| timers | `xen/common/timer.c` | `Timer` |
| grant tables | `xen/common/grant_table.c` | `GrantTable` |
| the guest's side of the ABIs | `xen/include/public/event_channel.h`, `grant_table.h` | external, in `EvtchnFifo`, `EvtchnPoll`, `GrantTable` |
| softirqs, the idle loop, CPU hotplug | `xen/common/softirq.c`, `cpu.c`, `xen/arch/arm/domain.c` | in `Rcu` and `Timer`, as far as these depend on them |
| tasklets, stop_machine, wait queues | `xen/common/*.c` | not modelled; `stop_machine_run()` is one step of hotplug |
| scheduler core (sleep, wake, migration, core scheduling) | `xen/common/sched/` | only blocking and waking (`EvtchnPoll`) |
| domain life cycle | `xen/common/domain.c` | only `is_dying` |
| ioreq servers, vm_event, Argo | `xen/common/` | not modelled |
| page allocator, memory hypercalls, p2m, page types | `xen/common/page_alloc.c`, `xen/arch/*/mm.c` | not modelled |
| xenstored, libxenvchan | `tools/` | not modelled |
| live patching, kexec, tracing, hypfs, XSM, drivers, decompressors, ELF, toolstack, architecture code | | not modelled: diagnostics, policy, parsing, device programming or I/O |

How they meet: the rwlock's slow path queues in a ticket lock; the per-CPU
rwlock embeds an rwlock; `event_lock` and the lock of each port are rwlocks, and
the queues of the FIFO ABI have spinlocks. A sender goes through `EvtchnPort`'s
`evtchn_send()` to the ABI's `set_pending` (`EvtchnFifo` or `EvtchnPoll`), and
from there to the wakeup of `EvtchnPoll`. The RCU softirq, the timer softirq and
hotplug run on the same softirq loop: RCU's idle timer is a timer, and a CPU that
dies leaves both its callbacks and its timers to another. Grant tables take a
per-CPU rwlock for each table and a spinlock for each entry and each free list.

Composition follows these seams. `Spinlock` is shown to implement `FifoLock`, and
`Rwlock` uses `FifoLock` as its queue. `Rwlock` is shown to implement `RwlockSpec`,
which is the embedded lock of `PercpuRwlock` and the assumption about locks in the
`Evtchn*` modules and in `GrantTable`. `Rcu` is shown to implement `RcuSpec`, which is
what its users rely on; `Rcu` itself composes `rcupdate.c` with the softirq loop, the
idle loop and hotplug. `EvtchnFifo` takes a poll as one step; `EvtchnPoll` has its steps.

## The modules

**`FifoLock`** is the abstract FIFO lock: a queue of CPUs, whose head holds the
lock; a try succeeds only when the queue is empty.

**`Spinlock`** has the lock word (`head`, `tail`), `recurse_cpu` and `recurse_cnt`,
and for each CPU where it is and its ticket. One step is one access to a shared
field. `TakeTicket` is the fetch-and-add and `SpinEnd` the last read of the spin
loop; `Observe`/`TryCmpxchg` are the two halves of the trylock; `BarrierBegin`/
`BarrierEnd` are `spin_barrier()`. Two ghosts: `depth` counts a CPU's recursive
acquisitions, `owed` the holders a barrier has seen. Integers wrap at `Tickets`.

**`RwlockSpec`** and **`Rwlock`**: the lock word `cnts` is a record of its three
fields, and every atomic access to it is a step, as in the slow paths of
`rwlock.c`. The callers' obligations are in the guards: no `read_lock()` by a CPU
that reads already (`check_lock()`), no write lock by a holder.

**`PercpuRwlock`** has store buffers, because the protocol is a store against a
load on either side: `smp_mb()` and atomic operations wait for the CPU's buffer.
Two locks share the CPUs' slots, as the per-CPU variable in the code may, so that
nesting takes the fallback. CPUs go offline and come back. `Reads` and `Writes` say
which CPU takes which lock how.

**`EvtchnFifo`** has the event words, the queues' tails and locks, the guest's
control block, and a guest that consumes events by the rules that the comment on
`evtchn_fifo_set_link()` states. One ghost: `order`, the ports on each queue in the
order they were linked. Each access of `set_pending` to shared state is a step. The
unmask hypercall is called on masked ports only: on another port it does what a send
does, if the port is pending, and else nothing. When the queues of a port change under a sender three times, the code reports
the event as lost and returns; so does the model, and no property speaks of that
event. `Init` chooses a workload: the pages and control blocks that exist at first,
and how often each operation may be called.

**`EvtchnPoll`** has the flags of a sleeping vCPU (`_VPF_blocked`, `poll_evtchn`,
`poll_mask`), the two-level bitmaps with one word, and the poll timer; each access is
a step, but for the three flags `do_poll()` rechecks, which wakers only clear, and for
a timer's start and end, each of which goes with the store before or after it. `X86`
is the set of values of `CONFIG_X86` to consider: `do_poll()` rechecks
its flags on other architectures only. The ABI is that of x86 PV guests. Of the
scheduler there is only whether the vCPU is on a run queue. The guest clears the
pending bits of unmasked ports in its handler, and of any port as one that polls does.

**`EvtchnPort`** has every port's `struct evtchn`, the counters, the VIRQ and PIRQ
maps, the handlers of global VIRQs with the references held for them, the doubly
linked list of a vCPU's PIRQ ports, `event_lock` of each domain,
and the read locks of ports and of `virq_lock`. A step goes from one acquisition
of a lock to the next. A port's write lock is taken, used and released in one
step that waits for its readers; no reader waits for a lock, so this hides no wait.
`use`, chosen in `Init` and never changed, is the workload: the threads, the kinds of
binding, `max_evtchn_port`, the vCPUs, `hardware_domain`, and which domains are
destroyed or reset. `set_global_virq_handler()` is one step: its callers hold
`domctl_lock`, as `domain_kill()` does, so nobody contends for
`global_virq_handlers_lock`, and it waits only for the old handler's `event_lock`.
Abstractions: any free port may be chosen
(a FIFO port still linked is busy, which the module does not track); a guest's clearing
of pending bits is left out, as it only removes what `PortsAccounted` says of free
ports; preemption of reset and destruction may come at any port; the security hooks
may refuse, and memory may run out with part of a port's buckets allocated; a Xen
consumer's callback is outside. The two unlocked reads of `has_active_evtchns()` are
two steps. The two decrements of `evtchn_free()` are one: the value in between could
only make the reset look at one more port.

**`RcuSpec`** is the promise of `call_rcu()`: a callback runs only after the read-side
sections that were in progress when it was queued have ended. **`Rcu`** has
`rcu_ctrlblk`, each CPU's `rcu_data` with its three lists, and the softirq handler in
steps: numbering the batch, looking at `next_pending`, starting a batch with the
increment of `cur` and the reading of the idle mask apart, noticing a new batch,
reporting, running at most `BLimit` callbacks. `base` is the thread of control under
the handler: the idle loop, `rcu_barrier()`, or the CPU that plugs. An interrupt may
read or call `call_rcu()` at any point. `cpu_down()` waits for every CPU to be where
tasklets run; the dead CPU's lists go to the CPU that handles `CPU_DEAD`. Memory is
sequentially consistent. `before` remembers what an `rcu_barrier()` has to wait for.

**`Timer`** has each CPU's heap, overflow list and list of inactive timers, the
timers' `cpu`, `status` and `expires`, and threads that call `set_timer()`,
`stop_timer()`, `kill_timer()`, `migrate_timer()`, `init_timer()`. The read of
`timer->cpu` and the section under the lock are different steps. The heap is a
sequence; `up_heap` and `down_heap` are defined by where the moved entry ends up on
its path. The handler runs a timer with the lock dropped, so that anything may happen
to the timer meanwhile; timer functions that set or move their own timer are threads.
Time is a counter up to a bound of the workload, and the hardware interrupts at some
point after the programmed deadline.

**`GrantTable`** has the table of one granting domain, versions 1 and 2, and the
maptrack entries and free lists of the mapping domains. A step is an access to the
entry shared with the guest, a section under a lock, or a lock-free access to a
maptrack entry. The guest writes its entries by the rules of
`public/grant_table.h`, and `granted` remembers what it has granted and not
successfully taken back. `map_grant_ref()` may fail at every point where the code can.
The steal of a handle looks at all victims in one step. Host mappings of a domain
without external paging go with its page tables, so that only domains with external
paging die here.

`MC*` modules give the constants their values for TLC. Operators marked *mutant*
are plausible bugs in the definition after them; for every property that passes,
`PROJECT.json` names a mutant under which TLC finds it violated.

## What the runs check

| run | bounds | shows |
|---|---|---|
| `spinlock` | 3 CPUs, 4 tickets, recursion 2 | exclusion, `recurse_cpu` is right for whoever reads it without the lock, barriers, FIFO order across the wrap (refinement of `FifoLock`), no starvation |
| `rwlock` | 3 CPUs, 2 read locks per CPU | exclusion, exact lock word, refinement of `RwlockSpec`, waiting writers and spinning readers get the lock |
| `percpu_rwlock` | 3 CPUs, 2 locks, one CPU goes offline | exclusion with store buffers and hotplug; the slot names the outermost lock; a writer's scan of the slots ends |
| `fifo_queues` | 2 senders, 2 ports, 2 vCPUs, 2 priorities, four workloads | queues keep their order, a port is linked once, nothing is lost, pollers are woken |
| `fifo_live` | 2 priorities, 3 sends, 1 change of priority | calls return, events are handled |
| `poll` | 2 contexts, 1 vCPU, 1 port, x86 | no vCPU sleeps through an event; a sleeper can be woken |
| `poll_live` | 1 context, 2 ports, both builds | events and timeouts wake |
| `port` | nine workloads: 2 domains, up to 3 ports and 3 threads | ends of channels agree, sends reach the peer, VIRQs and PIRQs their port, counts, maps and PIRQ lists are exact, a global VIRQ has a port only in the domain that handles it, locks are taken in order, a reset leaves only Xen's ports; deadlock is checked |
| `rcu` | eight workloads: up to 3 CPUs, 2 callbacks, 2 hotplug operations | refinement of `RcuSpec`; grace periods wait only for CPUs that will report; `rcu_barrier()` flushes; everything ends |
| `timer` | 2 CPUs, 2 threads, up to 3 timers; all heaps of 6 entries | queues and statuses agree and are ordered, no deadline is missed, a killed timer's handler is not running, no lock cycle |
| `grant` | nine workloads: 2 vCPUs, 2 references, 2 frames | only granted frames are pinned; pins, status flags, handles, page references and IOMMU entries are exact |

The workloads of `fifo_queues`: three sends, a mask and a change of priority; three
sends and a change of vCPU, to one whose control block is mapped late; two sends, a
mask and a poll while a page is added to the event array; two sends, a mask and a
clear. Those of `port`: interdomain channels of which one domain is destroyed, and the
same with ports of Xen; a global VIRQ that two domains handle in turn, one of which is
destroyed, with and without a hardware domain; VIRQs and IPIs on two ports, and on one with a third thread,
with the destruction of the domain; three PIRQs on three ports of two vCPUs, and two
ports with two threads; resets with ports of the guest or of Xen. Those of `rcu`: a
caller, a reader and an idler; two idlers; two callbacks, with a limit of one per
round; barriers on two CPUs; a barrier and an idler; hotplug with callbacks, with
readers, and with a barrier. Those of `timer`: two threads that set and move two
timers; a heap that grows and overflows into the list; one timer set, moved, killed and
initialised again by two threads; a CPU that dies and comes back; and every way a heap
of six can be ordered, followed by one change. Those of `grant` are listed in
`MCGrantTable`.

The bounds are chosen so that the cases at issue occur. Four tickets for
three CPUs wrap head and tail, and a third CPU is needed for a waiter, a holder and
an overtaker. Two locks are needed for the fallback of per-CPU rwlocks, and three CPUs
for a reader that waits in it while the writers of that lock take turns. Two senders and two ports make a queue whose
tail one sender links to while the guest consumes it and the other sender's port has
moved; a third send is needed for two senders that want two locks in opposite orders. In
`poll` a second context lets a timeout race a sender, and a single port listed twice
takes the path of several ports. Three PIRQ ports are a list with a middle. Two
domains are needed for the order of two locks, and the third thread in `port` is
the interrupt that arrives while one thread closes and another binds. In `rcu` the
marks `QHiMark` and `QLowMark` are small, so that two callbacks pass them, and CPUs idle
while a third starts a batch. A heap of six is the smallest with an entry whose removal
from the middle moves the last entry up. In `grant` two entries of a page are a handle
and its sentinel, a pin counter is at its limit at 2, and two attempts of the CMPXCHG
let the guest win both; references are numbers that are not handles, as an entry keeps
either in one field.

`Workloads` bounds the calls in `EvtchnFifo`, `Rcu`, `Timer` and `GrantTable`, `end` the
time in `Timer`, `MaxHold` and `MaxRecurse` the nesting, `NPorts` the ports; the other
modules do not bound the number of calls. The runs of `EvtchnFifo` with liveness, `Rcu`,
`Timer` and `GrantTable` say `CHECK_DEADLOCK FALSE`, because their workloads come to an
end; that calls return is `EventHandled` and `EverythingEnds`, and in `Timer`
`NoLockCycle`. All other runs check for deadlock.

Symmetry is over contexts, threads or timers, and only in runs without liveness.

### Where comments and code disagree

One run, `fifo_saved`, expects a violation: "Event array page may not exist yet, save
the pending state for when the page is added" (`event_fifo.c:177`). The page can be
added, and its saved events raised, between the sender's test and its store; the event
is then saved for a page that is there.

Others have no run of their own, or are exceptions in a property:

- "We block unmasking by the guest by marking the tail word as BUSY, therefore, the
  cmpxchg() may fail at most 4 times" (`event_fifo.c:124`). The unmask hypercall
  clears MASKED regardless of BUSY, so the attempts can be used up, and
  `evtchn_fifo_set_link()` then returns as if it had linked.
- "The CPU is becoming idle, so no more read side critical sections"
  (`rcupdate.c:695`). The idle loop handles softirqs after `rcu_idle_enter()`
  (`arch/arm/domain.c:42`), and interrupts come; sections of theirs begin while the CPU
  is marked idle, and a batch started then does not wait for them. `ImplementsRcu` is
  therefore about sections that begin while the CPU is not marked idle.
- `rcu_barrier()`: "it is enough to check for pending_count being not zero on entry and
  to call process_pending_softirqs() in a loop" (`rcupdate.c:163`). The loop also waits
  for the CPU maps. If `cpu_down()` has them, it waits in `stop_machine_run()` for the
  CPU on which the caller spins. And a CPU that spins in `write_lock()` for the maps
  (`cpu.c:64`) handles no softirqs, while a barrier whose caller has the maps waits for
  it. `BarrierMeetsHotplug` is the exception for both in `EverythingEnds`.
- `kill_timer()`: "When this function returns it is guaranteed that the timer callback
  handler is not running on any CPU" (`timer.h:94`). A second `kill_timer()` of the same
  timer returns at once while the first one still waits for the handler.
  `KilledNotRunning` is about the call that killed the timer.
- `has_active_evtchns()` (`event_channel.c:1266`): the order of the two reads allows for
  a port that Xen binds between them, but not for one of Xen's that is freed. The loop of
  the reset may then end early; the check under the lock notices, and the call is retried.
- `set_global_virq_handler()` (`event_channel.c:1044`) takes a reference to the domain it
  is given. When that is the hardware domain and the VIRQ has no other handler, nothing is
  set, and the reference is not given up. `HandlersExact` counts the references to the
  other domains.
- `domain_deinit_states()` (`domain.c:167`) undoes what a bind of VIRQ_DOM_EXC has set up,
  but `evtchn_bind_virq()` calls it whenever no port is found (`event_channel.c:526`),
  whatever the VIRQ. The domain states are not modelled.

## Fairness

- Locks: a CPU in the lock's own code goes on (weak fairness of `Progress`), and
  critical sections end, since they run with preemption disabled. The outermost
  unlock needs strong fairness, as the holder may nest in between. Store buffers
  drain. Who waits for the rwlock embedded in a per-CPU rwlock is served in turn, by
  its queue: strong fairness.
- `EvtchnFifo`: hypervisor code runs to its end. Taking a queue lock is strongly
  fair, which is `NoStarvation` of the ticket lock. The guest handles its upcalls.
- `EvtchnPoll`: hypervisor code runs to its end, and an expired timer finds a CPU
  whose softirqs run, sooner or later: strong fairness, because the model's contexts
  may be busy at any one time.
- `Rcu`: read-side sections end, an executing CPU comes back to its softirq loop, and a
  halted one wakes when a softirq was raised on it or its idle timer is armed. Strong
  fairness, as a CPU may read in between. Waiting for `rcp->lock` and for the CPU maps
  is included, by the fairness of the locks.
- `EvtchnPort`, `Timer` and `GrantTable` are checked for safety only. That no call waits
  for ever follows from the order of their locks (`LocksAscend`, `NoLockCycle`), the
  check for deadlock in `port`, and `NoStarvation` and `QueueHeadLocks` of the locks.

## What is proved

`SpinlockProofs`, for every number of CPUs `NCPU >= 1`, every number of tickets
above it (`NCPU < Tickets`: the code allows 2^12 CPUs and has 2^16 tickets), and every
recursion limit:

- `TypeCorrect`: `Spec => []TypeOK`;
- `Exclusion`: `Spec => []MutualExclusion`;
- `RecursionSound`: `Spec => []RecursionOwner`;
- `BarrierSound`: `Spec => BarrierWaits`, an action property.

All follow from one inductive invariant, `IInv`, which has four conjuncts.
`TypeOK`. `TicketInv`: queued CPUs (waiters and the owner) have different tickets,
all between `head` and `tail`; an owner's ticket is `head`; and there are exactly
as many queued CPUs as tickets between the two. Mutual exclusion is not inductive
without it: it is the count that rules out that `tail` comes round to `head` while
CPUs are queued, because fewer CPUs than tickets can be queued. `RecursionInv`
adds to `RecursionOwner` that a CPU in a recursive section has calls to undo, and
that `recurse_cnt` is 0 when nobody has. `BarrierInv` says that as long as a
barrier owes waiting to a CPU, that CPU still owns the lock and `head` has not
moved from the barrier's sample. The lemmas `DistInc` and `DistInjective` carry the
arithmetic modulo `Tickets`; `QueuedFinite` carries the counting.

The proof assumes `SpinlockAssumption`, sequential consistency, and that callers
keep to `MaxRecurse` (the `ASSERT()` of the code).

Only model-checked: the refinements, everything about the other modules, and all
liveness (TLAPS does not reason about fairness and ENABLED).

## What is not modelled

- Of the modelled parts: the switch of the ABI in `EVTCHNOP_init_control` and
  `evtchn_fifo_destroy()`; VIRQ_DOM_EXC's domain states, static ports, `evtchn_move_pirqs()`;
  transitive grants, the eight reserved entries that a version change preserves,
  `GNTTABOP_transfer`, cache flushes, growth of the grant table, iomem frames, page
  type counts, several granting domains and the death of one. `OnlyGranted` speaks of
  write access for version 1 only, where the header says how GTF_readonly may change.
- Memory ordering: only `PercpuRwlock` has store buffers. Elsewhere the barriers of the
  code are taken to give the order of the steps.
- Tasklets, `stop_machine_run()` itself, the scheduler's migration, ioreq servers,
  vm_event, Argo, xenstored's transactions, libxenvchan: concurrent code within TLC's
  reach that has no module yet.
- Scheduling policies are numeric heuristics. Page tables, emulation and drivers program
  hardware. Decompressors, ELF, device tree, command lines and the toolstack are
  sequential parsing and I/O. XSM is policy: its outcomes are nondeterministic.

## Plan

1. Proofs: `RwExclusion` and `LockWordExact` of `Rwlock`; `PercpuExclusion`;
   `PeersAgree` and `SendReachesPeer` of `EvtchnPort` from the ownership of `event_lock`
   at each step; the refinement of `FifoLock`; `NoLockCycle` and `KilledNotRunning` of
   `Timer`; `StatusMatchesPins` of `GrantTable`.
2. `Tasklet` and `StopMachine`; then the scheduler's wake, sleep and migration, using
   `EvtchnPoll`'s flags.
3. `Vchan`, `Ioreq`, `VmEvent`, the domain life cycle, xenstored's transactions.
