----------------------------- MODULE EvtchnPoll -----------------------------
(***************************************************************************)
(* Waiting for events: the two-level event channels of                     *)
(* xen/common/event_2l.c, evtchn_check_pollers() of event_channel.c, and   *)
(* vcpu_block(), do_poll(), poll_timer_fn(), vcpu_unblock() and            *)
(* vcpu_wake() of xen/common/sched/core.c, for one domain.                 *)
(*                                                                         *)
(* A vCPU that goes to sleep publishes that with several flags and then    *)
(* looks for events; a context that raises an event publishes the event    *)
(* and then looks at the flags.  No lock orders the two.  One step is one  *)
(* access to a shared flag.  Every plain store to poll_evtchn is followed  *)
(* by a bit operation, a full barrier on x86, before the next read.        *)
(***************************************************************************)
EXTENDS Integers, Sequences, Functions, FiniteSetsExt

CONSTANTS
  Contexts,   \* CPUs that run hypervisor code which raises events
  NVcpus,     \* vCPUs are 0..NVcpus - 1
  NPorts,     \* ports are 1..NPorts, all in one word of evtchn_pending
  Maskable,   \* ports that the guest masks
  Polls,      \* the arrays of ports that the guest polls, as sequences
  X86         \* values of CONFIG_X86: do_poll() omits a check if it is set

Vcpus == 0..(NVcpus - 1)
Ports == 1..NPorts

VARIABLES
  pending,      \* shared_info evtchn_pending, a set of ports
  masked,       \* shared_info evtchn_mask
  notify,       \* notify_vcpu_id of each port
  sel,          \* vcpu_info evtchn_pending_sel, one word: not empty
  upcall,       \* vcpu_info evtchn_upcall_pending
  upcallmask,   \* vcpu_info evtchn_upcall_mask
  blocked,      \* vCPUs with _VPF_blocked
  poll_evtchn,  \* v->poll_evtchn
  poll_mask,    \* d->poll_mask
  timer,        \* vCPUs with an active poll_timer
  asleep,       \* vCPUs that the scheduler has taken off the run queue
  vcpu,         \* what each vCPU is doing, and the ports it polls
  ctx           \* local variables of the calls in each context

vars == << pending, masked, notify, sel, upcall, upcallmask, blocked, poll_evtchn,
           poll_mask, timer, asleep, vcpu, ctx >>
shared == << pending, masked, notify, sel, upcall, upcallmask >>
flags == << blocked, poll_evtchn, poll_mask, timer, asleep >>

(***************************************************************************)
(* Steps of a context: evtchn_2l_set_pending() (mask, sel, upcall),        *)
(* evtchn_2l_unmask() (unmask, sel, upcall), evtchn_check_pollers() (find, *)
(* match, take, clear) and vcpu_unblock() (unblock, polled, zero, leave,   *)
(* reclear) with vcpu_wake() (wake).                                       *)
(* v is the vCPU to notify or to unblock, next the first vCPU the pollers  *)
(* loop has not seen; pollers says that the loop is still to come.         *)
(***************************************************************************)
Idle == [pc |-> "idle", port |-> 0, v |-> 0, next |-> 0, pollers |-> FALSE]

(***************************************************************************)
(* Steps of a vCPU: running its guest or handling events (collect, scan),  *)
(* do_poll() (flag, poll, bit, recheck, local, ports, port, out and its    *)
(* three stores), vcpu_block() (blocking), the scheduler (sched).          *)
(***************************************************************************)
Running == [pc |-> "run", ports |-> << >>, i |-> 1, timeout |-> FALSE]

Init ==
  /\ pending = {}
  /\ masked = {}
  /\ notify \in [Ports -> Vcpus]
  /\ sel = [v \in Vcpus |-> FALSE]
  /\ upcall = [v \in Vcpus |-> FALSE]
  /\ upcallmask = [v \in Vcpus |-> FALSE]
  /\ blocked = {}
  /\ poll_evtchn = [v \in Vcpus |-> 0]
  /\ poll_mask = {}
  /\ timer = {}
  /\ asleep = {}
  /\ vcpu = [v \in Vcpus |-> Running]
  /\ ctx = [c \in Contexts |-> Idle]

At(c, l) == ctx[c].pc = l
Goto(c, l) == ctx' = [ctx EXCEPT ![c].pc = l]

(***************************************************************************)
(* What follows the notification of a vCPU.                                *)
(***************************************************************************)
Continue(c) ==
  ctx' = [ctx EXCEPT ![c] = IF ctx[c].pollers
                              THEN [ctx[c] EXCEPT !.pc = "find", !.v = 0]
                              ELSE Idle]

-----------------------------------------------------------------------------
(***************************************************************************)
(* evtchn_2l_set_pending().  It returns at once if the port was pending.   *)
(***************************************************************************)
evtchn_2l_set_pending(c, p) ==
  /\ At(c, "idle")
  /\ pending' = pending \cup {p}
  /\ ctx' = IF p \in pending THEN ctx
            ELSE [ctx EXCEPT ![c] = [pc |-> "mask", port |-> p, v |-> notify[p],
                                     next |-> 0, pollers |-> TRUE]]
  /\ UNCHANGED << masked, notify, sel, upcall, upcallmask, flags, vcpu >>

MaskedSkipsPollers(c) ==                        \* mutant of TestMask
  /\ At(c, "mask")
  /\ IF ctx[c].port \in masked THEN ctx' = [ctx EXCEPT ![c] = Idle] ELSE Goto(c, "sel")
  /\ UNCHANGED << shared, flags, vcpu >>

TestMask(c) ==
  /\ At(c, "mask")
  /\ IF ctx[c].port \in masked THEN Continue(c) ELSE Goto(c, "sel")
  /\ UNCHANGED << shared, flags, vcpu >>

SetSel(c) ==
  /\ At(c, "sel")
  /\ sel' = [sel EXCEPT ![ctx[c].v] = TRUE]
  /\ IF sel[ctx[c].v] THEN Continue(c) ELSE Goto(c, "upcall")
  /\ UNCHANGED << pending, masked, notify, upcall, upcallmask, flags, vcpu >>

(***************************************************************************)
(* vcpu_mark_events_pending(), which kicks the vCPU with vcpu_unblock().   *)
(***************************************************************************)
vcpu_mark_events_pending(c) ==
  /\ At(c, "upcall")
  /\ upcall' = [upcall EXCEPT ![ctx[c].v] = TRUE]
  /\ IF upcall[ctx[c].v] THEN Continue(c) ELSE Goto(c, "unblock")
  /\ UNCHANGED << pending, masked, notify, sel, upcallmask, flags, vcpu >>

(***************************************************************************)
(* evtchn_2l_unmask().                                                     *)
(***************************************************************************)
evtchn_2l_unmask(c, p) ==
  /\ At(c, "idle") /\ p \in masked
  /\ masked' = masked \ {p}
  /\ ctx' = [ctx EXCEPT ![c] = [Idle EXCEPT !.pc = "unmask", !.port = p,
                                            !.v = notify[p]]]
  /\ UNCHANGED << pending, notify, sel, upcall, upcallmask, flags, vcpu >>

UnmaskPending(c) ==
  /\ At(c, "unmask")
  /\ IF ctx[c].port \in pending THEN Goto(c, "sel") ELSE Continue(c)
  /\ UNCHANGED << shared, flags, vcpu >>

(***************************************************************************)
(* evtchn_check_pollers(): the next bit of poll_mask, then whether that    *)
(* vCPU waits for the port, then take its bit.                             *)
(***************************************************************************)
FindPoller(c) ==
  /\ At(c, "find")
  /\ LET left == {v \in poll_mask : v >= ctx[c].next}
     IN ctx' = [ctx EXCEPT ![c] =
          IF left = {} THEN Idle
          ELSE [@ EXCEPT !.pc = "match",
                         !.v = Min(left)]]
  /\ UNCHANGED << shared, flags, vcpu >>

MatchPoller(c) ==
  /\ At(c, "match")
  /\ LET v == ctx[c].v
     IN IF poll_evtchn[v] <= 0 \/ poll_evtchn[v] = ctx[c].port
          THEN ctx' = [ctx EXCEPT ![c].pc = "take", ![c].next = v + 1]
          ELSE ctx' = [ctx EXCEPT ![c].pc = "find", ![c].next = v + 1, ![c].v = 0]
  /\ UNCHANGED << shared, flags, vcpu >>

TakePoller(c) ==
  /\ At(c, "take")
  /\ poll_mask' = poll_mask \ {ctx[c].v}
  /\ IF ctx[c].v \in poll_mask THEN Goto(c, "clear") ELSE Continue(c)
  /\ UNCHANGED << shared, blocked, poll_evtchn, timer, asleep, vcpu >>

ClearPoller(c) ==
  /\ At(c, "clear")
  /\ poll_evtchn' = [poll_evtchn EXCEPT ![ctx[c].v] = 0]
  /\ Goto(c, "unblock")
  /\ UNCHANGED << shared, blocked, poll_mask, timer, asleep, vcpu >>

(***************************************************************************)
(* vcpu_unblock().                                                         *)
(***************************************************************************)
UnblockTest(c) ==
  /\ At(c, "unblock")
  /\ blocked' = blocked \ {ctx[c].v}
  /\ IF ctx[c].v \in blocked THEN Goto(c, "polled") ELSE Continue(c)
  /\ UNCHANGED << shared, poll_evtchn, poll_mask, timer, asleep, vcpu >>

UnblockPoll(c) ==
  /\ At(c, "polled")
  /\ Goto(c, IF poll_evtchn[ctx[c].v] # 0 THEN "zero" ELSE "wake")
  /\ UNCHANGED << shared, flags, vcpu >>

UnblockZero(c) ==
  /\ At(c, "zero")
  /\ poll_evtchn' = [poll_evtchn EXCEPT ![ctx[c].v] = 0]
  /\ Goto(c, "leave")
  /\ UNCHANGED << shared, blocked, poll_mask, timer, asleep, vcpu >>

UnblockLeave(c) ==
  /\ At(c, "leave")
  /\ poll_mask' = poll_mask \ {ctx[c].v}
  /\ Goto(c, IF ctx[c].v \in poll_mask THEN "reclear" ELSE "wake")
  /\ UNCHANGED << shared, blocked, poll_evtchn, timer, asleep, vcpu >>

UnblockOnce(c) ==                               \* mutant of UnblockAgain
  /\ At(c, "reclear")
  /\ Goto(c, "wake")
  /\ UNCHANGED << shared, flags, vcpu >>

UnblockAgain(c) ==
  /\ At(c, "reclear")
  /\ blocked' = blocked \ {ctx[c].v}
  /\ Goto(c, "wake")
  /\ UNCHANGED << shared, poll_evtchn, poll_mask, timer, asleep, vcpu >>

(***************************************************************************)
(* vcpu_wake(): under the scheduler's lock, a runnable vCPU is queued.     *)
(***************************************************************************)
vcpu_wake(c) ==
  /\ At(c, "wake")
  /\ asleep' = IF ctx[c].v \in blocked THEN asleep ELSE asleep \ {ctx[c].v}
  /\ Continue(c)
  /\ UNCHANGED << shared, blocked, poll_evtchn, poll_mask, timer, vcpu >>

(***************************************************************************)
(* poll_timer_fn(), from the timer softirq of some CPU.                    *)
(***************************************************************************)
poll_timer_fn(c, v) ==
  /\ At(c, "idle") /\ v \in timer
  /\ timer' = timer \ {v}
  /\ poll_mask' = poll_mask \ {v}
  /\ ctx' = [ctx EXCEPT ![c] = IF v \in poll_mask
                                 THEN [Idle EXCEPT !.pc = "unblock", !.v = v]
                                 ELSE Idle]
  /\ UNCHANGED << shared, blocked, poll_evtchn, asleep, vcpu >>

-----------------------------------------------------------------------------
VAt(v, l) == vcpu[v].pc = l
VGoto(v, l) == vcpu' = [vcpu EXCEPT ![v].pc = l]

local_events_need_delivery(v) == upcall[v] /\ ~upcallmask[v]

(***************************************************************************)
(* do_poll() for an array of ports, with or without a timeout, called with *)
(* upcalls masked or not.  blocked, poll_evtchn and poll_mask are set one  *)
(* after the other.                                                        *)
(***************************************************************************)
do_poll(v, ports, timeout, m) ==
  /\ VAt(v, "run")
  /\ upcallmask' = [upcallmask EXCEPT ![v] = m]
  /\ vcpu' = [vcpu EXCEPT ![v] = [pc |-> "flag", ports |-> ports, i |-> 1,
                                  timeout |-> timeout]]
  /\ UNCHANGED << pending, masked, notify, sel, upcall, flags, ctx >>

PollFlag(v) ==
  /\ VAt(v, "flag")
  /\ blocked' = blocked \cup {v}
  /\ VGoto(v, "poll")
  /\ UNCHANGED << shared, poll_evtchn, poll_mask, timer, asleep, ctx >>

PollEvtchn(v) ==
  /\ VAt(v, "poll")
  /\ poll_evtchn' = [poll_evtchn EXCEPT ![v] = -1]
  /\ VGoto(v, "bit")
  /\ UNCHANGED << shared, blocked, poll_mask, timer, asleep, ctx >>

PollBit(v) ==
  /\ VAt(v, "bit")
  /\ poll_mask' = poll_mask \cup {v}
  /\ \E x86 \in X86 : VGoto(v, IF x86 THEN "local" ELSE "recheck")
  /\ UNCHANGED << shared, blocked, poll_evtchn, timer, asleep, ctx >>

(***************************************************************************)
(* Builds other than x86: has a waker been here already?  Wakers only      *)
(* clear the three flags, so reading them at once misses nothing.          *)
(***************************************************************************)
PollRecheck(v) ==
  /\ VAt(v, "recheck")
  /\ VGoto(v, IF poll_evtchn[v] = 0 \/ v \notin blocked \/ v \notin poll_mask
                THEN "out" ELSE "local")
  /\ UNCHANGED << shared, flags, ctx >>

PollLocal(v) ==
  /\ VAt(v, "local")
  /\ VGoto(v, IF local_events_need_delivery(v) THEN "out" ELSE "ports")
  /\ UNCHANGED << shared, flags, ctx >>

PollUnchecked(v) ==                             \* mutant of PollPorts
  /\ VAt(v, "ports")
  /\ VGoto(v, "port")
  /\ UNCHANGED << shared, flags, ctx >>

(***************************************************************************)
(* evtchn_port_poll() of one port after the other, the i-th here.          *)
(***************************************************************************)
PollPorts(v) ==
  /\ VAt(v, "ports")
  /\ CASE vcpu[v].i > Len(vcpu[v].ports) -> VGoto(v, "port")
       [] vcpu[v].i <= Len(vcpu[v].ports) ->
            IF vcpu[v].ports[vcpu[v].i] \in pending
              THEN VGoto(v, "out")
              ELSE vcpu' = [vcpu EXCEPT ![v].i = @ + 1]
  /\ UNCHANGED << shared, flags, ctx >>

PollSleep(v) ==
  /\ VAt(v, "port")
  /\ poll_evtchn' = [poll_evtchn EXCEPT ![v] =
                       IF Len(vcpu[v].ports) = 1 THEN vcpu[v].ports[1] ELSE @]
  /\ timer' = IF vcpu[v].timeout THEN timer \cup {v} ELSE timer
  /\ VGoto(v, "sched")
  /\ UNCHANGED << shared, blocked, poll_mask, asleep, ctx >>

PollOut(v) ==
  /\ VAt(v, "out")
  /\ poll_evtchn' = [poll_evtchn EXCEPT ![v] = 0]
  /\ VGoto(v, "outbit")
  /\ UNCHANGED << shared, blocked, poll_mask, timer, asleep, ctx >>

PollOutBit(v) ==
  /\ VAt(v, "outbit")
  /\ poll_mask' = poll_mask \ {v}
  /\ VGoto(v, "outflag")
  /\ UNCHANGED << shared, blocked, poll_evtchn, timer, asleep, ctx >>

PollOutFlag(v) ==
  /\ VAt(v, "outflag")
  /\ blocked' = blocked \ {v}
  /\ upcallmask' = [upcallmask EXCEPT ![v] = FALSE]
  /\ vcpu' = [vcpu EXCEPT ![v] = Running]
  /\ UNCHANGED << pending, masked, notify, sel, upcall, poll_evtchn, poll_mask,
                  timer, asleep, ctx >>

(***************************************************************************)
(* vcpu_block().                                                           *)
(***************************************************************************)
vcpu_block(v) ==
  /\ VAt(v, "run")
  /\ blocked' = blocked \cup {v}
  /\ VGoto(v, "blocking")
  /\ UNCHANGED << shared, poll_evtchn, poll_mask, timer, asleep, ctx >>

BlockCheck(v) ==
  /\ VAt(v, "blocking")
  /\ IF local_events_need_delivery(v)
       THEN blocked' = blocked \ {v} /\ VGoto(v, "run")
       ELSE UNCHANGED blocked /\ VGoto(v, "sched")
  /\ UNCHANGED << shared, poll_evtchn, poll_mask, timer, asleep, ctx >>

(***************************************************************************)
(* schedule(): a vCPU that is not runnable leaves the run queue, once, and *)
(* otherwise goes on, here or when it has been woken.                      *)
(***************************************************************************)
Deschedule(v) ==
  /\ VAt(v, "sched") /\ v \in blocked /\ v \notin asleep
  /\ asleep' = asleep \cup {v}
  /\ UNCHANGED << shared, blocked, poll_evtchn, poll_mask, timer, vcpu, ctx >>

Resume(v) ==
  /\ VAt(v, "sched") /\ v \notin blocked /\ v \notin asleep
  /\ upcallmask' = [upcallmask EXCEPT ![v] = FALSE]
  /\ vcpu' = [vcpu EXCEPT ![v] = Running]
  /\ UNCHANGED << pending, masked, notify, sel, upcall, flags, ctx >>

-----------------------------------------------------------------------------
(***************************************************************************)
(* The guest: its handler clears upcall, then the selector, then the       *)
(* pending bits of unmasked ports it finds.  It also masks ports.          *)
(***************************************************************************)
GuestUpcall(v) ==
  /\ VAt(v, "run") /\ upcall[v]
  /\ upcall' = [upcall EXCEPT ![v] = FALSE]
  /\ VGoto(v, "collect")
  /\ UNCHANGED << pending, masked, notify, sel, upcallmask, flags, ctx >>

GuestCollect(v) ==
  /\ VAt(v, "collect")
  /\ sel' = [sel EXCEPT ![v] = FALSE]
  /\ VGoto(v, "scan")
  /\ UNCHANGED << pending, masked, notify, upcall, upcallmask, flags, ctx >>

GuestScan(v) ==
  /\ VAt(v, "scan")
  /\ IF pending \subseteq masked
       THEN VGoto(v, "run") /\ UNCHANGED pending
       ELSE /\ \E p \in pending \ masked : pending' = pending \ {p}
            /\ UNCHANGED vcpu
  /\ UNCHANGED << masked, notify, sel, upcall, upcallmask, flags, ctx >>

(***************************************************************************)
(* The user of a polled port clears its pending bit when it runs again.    *)
(***************************************************************************)
GuestClear(v, p) ==
  /\ VAt(v, "run") /\ p \in pending
  /\ pending' = pending \ {p}
  /\ UNCHANGED << masked, notify, sel, upcall, upcallmask, flags, vcpu, ctx >>

GuestMask(v, p) ==
  /\ VAt(v, "run") /\ p \in Maskable \ masked
  /\ masked' = masked \cup {p}
  /\ UNCHANGED << pending, notify, sel, upcall, upcallmask, flags, vcpu, ctx >>

-----------------------------------------------------------------------------
ContextStep(c) ==
  \/ TestMask(c) \/ SetSel(c) \/ vcpu_mark_events_pending(c)
  \/ UnmaskPending(c) \/ FindPoller(c) \/ MatchPoller(c) \/ TakePoller(c)
  \/ ClearPoller(c) \/ UnblockTest(c) \/ UnblockPoll(c) \/ UnblockZero(c)
  \/ UnblockLeave(c) \/ UnblockAgain(c) \/ vcpu_wake(c)

Call(c) ==
  \/ \E p \in Ports : evtchn_2l_set_pending(c, p) \/ evtchn_2l_unmask(c, p)

VcpuStep(v) ==
  \/ PollFlag(v) \/ PollEvtchn(v) \/ PollBit(v) \/ PollRecheck(v) \/ PollLocal(v)
  \/ PollPorts(v) \/ PollSleep(v) \/ PollOut(v) \/ PollOutBit(v) \/ PollOutFlag(v)
  \/ BlockCheck(v) \/ Deschedule(v) \/ Resume(v)

Guest(v) ==
  \/ GuestUpcall(v) \/ GuestCollect(v) \/ GuestScan(v) \/ vcpu_block(v)
  \/ \E p \in Ports : GuestClear(v, p) \/ GuestMask(v, p)
  \/ \E ports \in Polls, t, m \in BOOLEAN : do_poll(v, ports, t, m)

Timer == \E c \in Contexts, v \in Vcpus : poll_timer_fn(c, v)

Next ==
  \/ \E c \in Contexts : ContextStep(c) \/ Call(c)
  \/ \E v \in Vcpus : VcpuStep(v) \/ Guest(v)
  \/ Timer

(***************************************************************************)
(* Hypervisor code runs to its end, a vCPU in the hypervisor too, and an   *)
(* expired timer finds a CPU to run it.                                    *)
(***************************************************************************)
Fairness ==
  /\ \A c \in Contexts : WF_vars(ContextStep(c))
  /\ \A v \in Vcpus : WF_vars(VcpuStep(v))
  /\ SF_vars(Timer)

Spec == Init /\ [][Next]_vars

FairSpec == Spec /\ Fairness

-----------------------------------------------------------------------------
Quiescent == \A c \in Contexts : At(c, "idle")

Polled(v) == Range(vcpu[v].ports)

(***************************************************************************)
(* A vCPU does not sleep through an event: when no call is under way,      *)
(* none that sleeps has a pending upcall it would take, and none that      *)
(* polls has a polled port pending.                                        *)
(***************************************************************************)
NoMissedEvent ==
  Quiescent =>
    \A v \in asleep : /\ ~local_events_need_delivery(v)
                      /\ Polled(v) \cap pending = {}

(***************************************************************************)
(* A sleeper can be woken: it is still marked blocked (whoever clears the  *)
(* flag also calls vcpu_wake()), and when it polls it is in poll_mask with *)
(* a poll_evtchn that matches every port it polls.                         *)
(***************************************************************************)
SleeperWakeable ==
  Quiescent =>
    \A v \in asleep :
      /\ v \in blocked
      /\ vcpu[v].ports # << >> =>
           /\ v \in poll_mask
           /\ poll_evtchn[v] <= 0 \/ Polled(v) = {poll_evtchn[v]}

(***************************************************************************)
(* Sleeps end: an event that is delivered to a sleeping vCPU or polled by  *)
(* it wakes it, and SCHEDOP_poll with a timeout ends even if no event      *)
(* comes.                                                                  *)
(***************************************************************************)
SleepEnds ==
  \A v \in Vcpus :
    /\ v \in asleep /\ (local_events_need_delivery(v) \/ Polled(v) \cap pending # {})
         ~> v \notin asleep
    /\ v \in asleep /\ vcpu[v].timeout ~> v \notin asleep
=============================================================================
