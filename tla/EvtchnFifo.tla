----------------------------- MODULE EvtchnFifo -----------------------------
(***************************************************************************)
(* FIFO event channels: xen/common/event_fifo.c, for one domain.           *)
(*                                                                         *)
(* Every port has an event word, shared with the guest.  An event that is  *)
(* raised on an unmasked port is linked at the tail of a queue, one queue  *)
(* per vCPU and priority; the guest takes ports off at the head.  Only the *)
(* hypervisor knows the tail and only the guest knows the head, except     *)
(* that the hypervisor writes it when the queue was empty.                 *)
(*                                                                         *)
(* Contexts are the CPUs that run hypervisor code: evtchn_send() and its   *)
(* like, which call set_pending without the target port's lock, and the    *)
(* guest's unmask hypercall.  A step of a context is one access to shared  *)
(* state; accesses to private state and lock releases ride along.          *)
(*                                                                         *)
(* The guest's half is not part of the hypervisor.  It follows the rules   *)
(* that the comment on evtchn_fifo_set_link() states.                      *)
(***************************************************************************)
EXTENDS Naturals, FiniteSets, Sequences

CONSTANTS
  Contexts,     \* CPUs that run hypervisor code for this domain
  NPorts,       \* ports are 1..NPorts
  NVcpus,       \* vCPUs are 0..NVcpus - 1
  NPrios,       \* priorities are 0..NPrios - 1, the last is the default
  WordsPerPage, \* EVTCHN_FIFO_EVENT_WORDS_PER_PAGE
  Workloads     \* how the domain may start, and what is done to it: the pages
                \* of the event array and the control blocks that exist from
                \* the start, and how often each operation is called

Ports == 1..NPorts
Vcpus == 0..(NVcpus - 1)
Prios == 0..(NPrios - 1)
Queues == Vcpus \X Prios
NoLock == "unlocked"

(***************************************************************************)
(* The calls that are bounded: raise an event, clear one, mask a port by   *)
(* the guest, give a port another priority or vCPU, poll a port.           *)
(***************************************************************************)
Ops == {"send", "clear", "mask", "prio", "vcpu", "poll"}

VARIABLES
  word,     \* event words
  evtchn,   \* struct evtchn: priority, notify_vcpu_id, fifo_lastq, pending
  num_evtchns, \* ports below this one have an event word
  blocks,   \* vCPUs whose control block is mapped
  tail,     \* tail of each queue
  qlock,    \* the context that holds each queue's lock
  head,     \* control_block->head
  ready,    \* control_block->ready of each vCPU
  upcall,   \* evtchn_upcall_pending of each vCPU
  ctx,      \* local variables of evtchn_fifo_set_pending() in each context
  guest,    \* each vCPU's event handler
  poll,     \* the port each poller waits for, 0 if it does not wait
  order,    \* ghost: the ports on each queue in the order they were linked
  ops       \* how often each kind of operation may still be called

vars == << word, evtchn, num_evtchns, blocks, tail, qlock, head, ready, upcall,
           ctx, guest, poll, order, ops >>
config == << num_evtchns, blocks, ops >>

-----------------------------------------------------------------------------
(***************************************************************************)
(* A context's step in evtchn_fifo_set_pending() and the functions it      *)
(* calls.                                                                  *)
(*   idle; word, save      look for the event word; save the event         *)
(*   lock1, lock2          lock the queues                                 *)
(*   tas, mask, link       set PENDING, test MASKED, set LINKED            *)
(*   read, cas             evtchn_fifo_set_link(): first attempt           *)
(*   busy, reread, retry, unbusy                   and with BUSY set       *)
(*   head                  write the head if the queue was empty, the tail *)
(*   ready, upcall, poll   tell the vCPU, wake pollers                     *)
(*   unmask                evtchn_fifo_unmask() is to test PENDING         *)
(*   reraise               add_page_to_event_array() goes through the ports*)
(***************************************************************************)
\* PENDING, MASKED, LINKED and BUSY bits and the LINK field.
NoWord == [P |-> FALSE, M |-> FALSE, L |-> FALSE, B |-> FALSE, link |-> 0]

Idle == [pc |-> "idle", port |-> 0, v |-> 0, q |-> <<0, 0>>, old |-> <<0, 0>>,
         try |-> 0, w |-> NoWord, linked |-> TRUE, check |-> FALSE,
         next |-> 0]

GuestIdle == [pc |-> "idle", ready |-> {}, head |-> [i \in Prios |-> 0],
              port |-> 0, prio |-> 0]

Init == \E w \in Workloads :
  /\ word = [p \in Ports |-> NoWord]
  /\ evtchn = [p \in Ports |-> [prio |-> NPrios - 1, vcpu |-> 0,
                                lastq |-> <<0, 0>>, pending |-> FALSE]]
  /\ num_evtchns = w.pages * WordsPerPage
  /\ blocks = w.blocks
  /\ tail = [q \in Queues |-> 0]
  /\ qlock = [q \in Queues |-> NoLock]
  /\ head = [q \in Queues |-> 0]
  /\ ready = [v \in Vcpus |-> {}]
  /\ upcall = [v \in Vcpus |-> FALSE]
  /\ ctx = [c \in Contexts |-> Idle]
  /\ guest = [v \in Vcpus |-> GuestIdle]
  /\ poll = [v \in Vcpus |-> 0]
  /\ order = [q \in Queues |-> << >>]
  /\ ops = w.ops

(***************************************************************************)
(* How a context leaves a step: with new locals, or done with the call.    *)
(***************************************************************************)
At(c, l) == ctx[c].pc = l

Goto(c, l) == ctx' = [ctx EXCEPT ![c].pc = l]

Return(c) ==
  ctx' = [ctx EXCEPT ![c] =
            [Idle EXCEPT !.next = ctx[c].next,
                         !.pc = IF ctx[c].next = 0 THEN "idle" ELSE "reraise"]]

Count(o) == ops[o] > 0 /\ ops' = [ops EXCEPT ![o] = @ - 1]

SetWord(p, w) == word' = [word EXCEPT ![p] = w]

(***************************************************************************)
(* evtchn_fifo_word_from_port() finds a word.                              *)
(***************************************************************************)
HasWord(p) == p < num_evtchns

-----------------------------------------------------------------------------
(***************************************************************************)
(* evtchn_fifo_set_pending(), on behalf of evtchn_send() and other senders *)
(* of events: they look up the vCPU to notify and call.                    *)
(***************************************************************************)
evtchn_port_set_pending(c, p) ==
  /\ At(c, "idle") /\ Count("send")
  /\ ctx' = [ctx EXCEPT ![c].pc = "word", ![c].port = p, ![c].v = evtchn[p].vcpu]
  /\ UNCHANGED << word, evtchn, num_evtchns, blocks, tail, qlock, head, ready,
                  upcall, guest, poll, order >>

NoEventWord(c) ==
  /\ At(c, "word") /\ ~HasWord(ctx[c].port)
  /\ Goto(c, "save")
  /\ UNCHANGED << word, evtchn, tail, qlock, head, ready, upcall, guest, poll,
                  order, config >>

SavePending(c) ==
  /\ At(c, "save")
  /\ evtchn' = [evtchn EXCEPT ![ctx[c].port].pending = TRUE]
  /\ Return(c)
  /\ UNCHANGED << word, num_evtchns, blocks, tail, qlock, head, ready, upcall,
                  guest, poll, order, ops >>

(***************************************************************************)
(* The queue the event is to go on, and the one it was last on.            *)
(***************************************************************************)
NewQueue(c) == << ctx[c].v, evtchn[ctx[c].port].prio >>
OldQueue(c) == evtchn[ctx[c].port].lastq

ChooseQueues(c) ==
  /\ At(c, "word") /\ HasWord(ctx[c].port)
  /\ ctx' = [ctx EXCEPT ![c].pc = "lock1", ![c].q = NewQueue(c),
                        ![c].old = OldQueue(c)]
  /\ UNCHANGED << word, evtchn, tail, qlock, head, ready, upcall, guest, poll,
                  order, config >>

(***************************************************************************)
(* Locks are taken in the order of the queues' addresses.                  *)
(***************************************************************************)
Before(q, r) == q[1] < r[1] \/ (q[1] = r[1] /\ q[2] < r[2])

NewThenOld(c) == << ctx[c].q, ctx[c].old >>       \* mutant of LockOrder

LockOrder(c) ==
  IF Before(ctx[c].q, ctx[c].old) THEN << ctx[c].q, ctx[c].old >>
                                  ELSE << ctx[c].old, ctx[c].q >>

Locked(c, q) == [qlock EXCEPT ![q] = c]

Unlocked(c) == [q \in Queues |-> IF qlock[q] = c THEN NoLock ELSE qlock[q]]

(***************************************************************************)
(* With the last lock taken, check that the queues are still the right     *)
(* ones.  The third failure loses the event.                               *)
(***************************************************************************)
Recheck(c, l) ==
  IF ctx[c].q = NewQueue(c) /\ ctx[c].old = OldQueue(c)
    THEN qlock' = l /\ ctx' = [ctx EXCEPT ![c].pc = "tas", ![c].try = 0]
    ELSE /\ qlock' = Unlocked(c)
         /\ IF ctx[c].try = 2
              THEN Return(c)
              ELSE ctx' = [ctx EXCEPT ![c].pc = "word", ![c].try = @ + 1,
                                        ![c].q = <<0, 0>>, ![c].old = <<0, 0>>]

LockFirst(c) ==
  /\ At(c, "lock1")
  /\ qlock[LockOrder(c)[1]] = NoLock
  /\ IF ctx[c].q = ctx[c].old
       THEN Recheck(c, Locked(c, LockOrder(c)[1]))
       ELSE qlock' = Locked(c, LockOrder(c)[1]) /\ Goto(c, "lock2")
  /\ UNCHANGED << word, evtchn, tail, head, ready, upcall, guest, poll, order,
                  config >>

LockSecond(c) ==
  /\ At(c, "lock2")
  /\ qlock[LockOrder(c)[2]] = NoLock
  /\ Recheck(c, Locked(c, LockOrder(c)[2]))
  /\ UNCHANGED << word, evtchn, tail, head, ready, upcall, guest, poll, order,
                  config >>

(***************************************************************************)
(* Nothing to link: unlock, and go on to the pollers.                      *)
(***************************************************************************)
NotLinked(c) ==
  /\ qlock' = Unlocked(c)
  /\ IF ctx[c].check THEN Goto(c, "poll") ELSE Return(c)

SetPENDING(c) ==
  /\ At(c, "tas")
  /\ IF ctx[c].v \notin blocks
       THEN NotLinked(c) /\ UNCHANGED word
       ELSE /\ SetWord(ctx[c].port, [word[ctx[c].port] EXCEPT !.P = TRUE])
            /\ ctx' = [ctx EXCEPT ![c].pc = "mask",
                                  ![c].check = ~word[ctx[c].port].P]
            /\ UNCHANGED qlock
  /\ UNCHANGED << evtchn, num_evtchns, blocks, tail, head, ready, upcall, guest,
                  poll, order, ops >>

TestMASKED(c) ==
  /\ At(c, "mask")
  /\ IF word[ctx[c].port].M
       THEN NotLinked(c)
       ELSE Goto(c, "link") /\ UNCHANGED qlock
  /\ UNCHANGED << word, evtchn, tail, head, ready, upcall, guest, poll, order,
                  config >>

(***************************************************************************)
(* Set LINKED.  The old queue's tail is invalidated if it is this port,    *)
(* and the old queue is let go.  An empty queue, one without tail, gets a  *)
(* new head; otherwise the tail is to be linked.                           *)
(***************************************************************************)
TailAfterLink(c) ==
  IF tail[ctx[c].old] = ctx[c].port THEN [tail EXCEPT ![ctx[c].old] = 0] ELSE tail

LinkedNotTested(c) ==                           \* mutant of SetLINKED
  /\ At(c, "link")
  /\ LET p == ctx[c].port
         q == ctx[c].q
     IN        /\ SetWord(p, [word[p] EXCEPT !.L = TRUE])
               /\ order' = [order EXCEPT ![q] = Append(@, p)]
               /\ tail' = TailAfterLink(c)
               /\ evtchn' = [evtchn EXCEPT ![p].lastq = q]
               /\ qlock' = [Unlocked(c) EXCEPT ![q] = c]
               /\ ctx' = [ctx EXCEPT ![c].old = q, ![c].linked = FALSE,
                                     ![c].pc = IF tail'[q] = 0 THEN "head"
                                                               ELSE "read"]
  /\ UNCHANGED << head, ready, upcall, guest, poll, config >>

SetLINKED(c) ==
  /\ At(c, "link")
  /\ LET p == ctx[c].port
         q == ctx[c].q
     IN IF word[p].L
          THEN NotLinked(c) /\ UNCHANGED << word, evtchn, tail, order >>
          ELSE /\ SetWord(p, [word[p] EXCEPT !.L = TRUE])
               /\ order' = [order EXCEPT ![q] = Append(@, p)]
               /\ tail' = TailAfterLink(c)
               /\ evtchn' = [evtchn EXCEPT ![p].lastq = q]
               /\ qlock' = [Unlocked(c) EXCEPT ![q] = c]
               /\ ctx' = [ctx EXCEPT ![c].old = q, ![c].linked = FALSE,
                                     ![c].pc = IF tail'[q] = 0 THEN "head"
                                                               ELSE "read"]
  /\ UNCHANGED << head, ready, upcall, guest, poll, config >>

-----------------------------------------------------------------------------
(***************************************************************************)
(* evtchn_fifo_set_link() on the word of the tail, with try_set_link().    *)
(* A tail that is not LINKED any more has been taken off by the guest: the *)
(* queue is empty.                                                         *)
(***************************************************************************)
TailPort(c) == tail[ctx[c].q]

ReadTail(c) ==
  /\ At(c, "read")
  /\ LET w == word[TailPort(c)]
     IN ctx' = [ctx EXCEPT ![c].w = IF w.L THEN w ELSE NoWord,
                           ![c].pc = IF w.L THEN "cas" ELSE "head"]
  /\ UNCHANGED << word, evtchn, tail, qlock, head, ready, upcall, guest, poll,
                  order, config >>

(***************************************************************************)
(* The cmpxchg() of try_set_link(), which clears BUSY as it links.         *)
(***************************************************************************)
Link(c) == SetWord(TailPort(c), [ctx[c].w EXCEPT !.B = FALSE, !.link = ctx[c].port])

Linked(c) == ctx' = [ctx EXCEPT ![c].pc = "head", ![c].linked = TRUE,
                                ![c].w = NoWord, ![c].try = 0]

LinkTail(c) ==
  /\ At(c, "cas")
  /\ IF word[TailPort(c)] = ctx[c].w
       THEN Link(c) /\ Linked(c)
       ELSE /\ ctx' = [ctx EXCEPT ![c].pc = "busy", ![c].w = NoWord]
            /\ UNCHANGED word
  /\ UNCHANGED << evtchn, tail, qlock, head, ready, upcall, guest, poll, order,
                  config >>

SetBUSY(c) ==
  /\ At(c, "busy")
  /\ SetWord(TailPort(c), [word[TailPort(c)] EXCEPT !.B = TRUE])
  /\ Goto(c, "reread")
  /\ UNCHANGED << evtchn, tail, qlock, head, ready, upcall, guest, poll, order,
                  config >>

RereadTail(c) ==
  /\ At(c, "reread")
  /\ ctx' = [ctx EXCEPT ![c].w = word[TailPort(c)], ![c].pc = "retry",
                        ![c].try = 0]
  /\ UNCHANGED << word, evtchn, tail, qlock, head, ready, upcall, guest, poll,
                  order, config >>

(***************************************************************************)
(* Up to four attempts, each with the value the last one found.  When they *)
(* are used up the function returns as if it had linked.                   *)
(***************************************************************************)
RelinkTail(c) ==
  /\ At(c, "retry")
  /\ CASE ~ctx[c].w.L -> Goto(c, "unbusy") /\ UNCHANGED word
       [] ctx[c].w.L /\ word[TailPort(c)] = ctx[c].w ->
            Link(c) /\ Linked(c)
       [] OTHER ->
            /\ ctx' = [ctx EXCEPT ![c].w = word[TailPort(c)],
                                  ![c].try = @ + 1,
                                  ![c].linked = ctx[c].try = 3,
                                  ![c].pc = IF ctx[c].try = 3 THEN "unbusy" ELSE @]
            /\ UNCHANGED word
  /\ UNCHANGED << evtchn, tail, qlock, head, ready, upcall, guest, poll, order,
                  config >>

ClearBUSY(c) ==
  /\ At(c, "unbusy")
  /\ SetWord(TailPort(c), [word[TailPort(c)] EXCEPT !.B = FALSE])
  /\ ctx' = [ctx EXCEPT ![c].pc = "head", ![c].w = NoWord, ![c].try = 0]
  /\ UNCHANGED << evtchn, tail, qlock, head, ready, upcall, guest, poll, order,
                  config >>

(***************************************************************************)
(* The end of evtchn_fifo_set_pending(): the new head, if the event was    *)
(* not linked to a tail, the new tail, and unlock; then tell the vCPU that *)
(* the queue is not empty any more, and wake the pollers of the port.      *)
(***************************************************************************)
WriteHead(c) ==
  /\ At(c, "head")
  /\ head' = IF ctx[c].linked THEN head ELSE [head EXCEPT ![ctx[c].q] = ctx[c].port]
  /\ tail' = [tail EXCEPT ![ctx[c].q] = ctx[c].port]
  /\ qlock' = Unlocked(c)
  /\ CASE ~ctx[c].linked -> Goto(c, "ready")
       [] ctx[c].linked /\ ctx[c].check -> Goto(c, "poll")
       [] OTHER -> Return(c)
  /\ UNCHANGED << word, evtchn, ready, upcall, guest, poll, order, config >>

SetReady(c) ==
  /\ At(c, "ready")
  /\ LET v == ctx[c].v
         i == ctx[c].q[2]
     IN /\ ready' = [ready EXCEPT ![v] = @ \cup {i}]
        /\ CASE i \notin ready[v] -> Goto(c, "upcall")
             [] i \in ready[v] /\ ctx[c].check -> Goto(c, "poll")
             [] OTHER -> Return(c)
  /\ UNCHANGED << word, evtchn, tail, qlock, head, upcall, guest, poll, order,
                  config >>

(***************************************************************************)
(* Kick the vCPU, out of SCHEDOP_poll too, if it was not told before.      *)
(***************************************************************************)
vcpu_mark_events_pending(c) ==
  /\ At(c, "upcall")
  /\ upcall' = [upcall EXCEPT ![ctx[c].v] = TRUE]
  /\ poll' = [poll EXCEPT ![ctx[c].v] = IF upcall[ctx[c].v] THEN @ ELSE 0]
  /\ IF ctx[c].check THEN Goto(c, "poll") ELSE Return(c)
  /\ UNCHANGED << word, evtchn, tail, qlock, head, ready, guest, order, config >>

evtchn_check_pollers(c) ==
  /\ At(c, "poll")
  /\ poll' = [v \in Vcpus |-> IF poll[v] = ctx[c].port THEN 0 ELSE poll[v]]
  /\ Return(c)
  /\ UNCHANGED << word, evtchn, tail, qlock, head, ready, upcall, guest, order,
                  config >>

-----------------------------------------------------------------------------
(***************************************************************************)
(* The other port operations.                                              *)
(***************************************************************************)
evtchn_fifo_clear_pending(p) ==
  /\ HasWord(p) /\ Count("clear")
  /\ SetWord(p, [word[p] EXCEPT !.P = FALSE])
  /\ UNCHANGED << evtchn, num_evtchns, blocks, tail, qlock, head, ready, upcall,
                  ctx, guest, poll, order >>

(***************************************************************************)
(* The unmask hypercall clears MASKED whether or not the word is BUSY, and *)
(* raises the event again if it is PENDING.  On a port that is not MASKED  *)
(* that is what evtchn_port_set_pending does.  "The guest must not unmask  *)
(* an event until the control block is initialized", as set_pending says.  *)
(***************************************************************************)
evtchn_fifo_unmask(c, p) ==
  /\ At(c, "idle") /\ HasWord(p)
  /\ word[p].M /\ evtchn[p].vcpu \in blocks
  /\ SetWord(p, [word[p] EXCEPT !.M = FALSE])
  /\ ctx' = [ctx EXCEPT ![c].pc = "unmask", ![c].port = p, ![c].v = evtchn[p].vcpu]
  /\ UNCHANGED << evtchn, tail, qlock, head, ready, upcall, guest, poll, order,
                  config >>

UnmaskOnly(c) ==                                \* mutant of UnmaskPending
  /\ At(c, "unmask")
  /\ Return(c)
  /\ UNCHANGED << word, evtchn, tail, qlock, head, ready, upcall, guest, poll,
                  order, config >>

UnmaskPending(c) ==
  /\ At(c, "unmask")
  /\ IF word[ctx[c].port].P THEN Goto(c, "word") ELSE Return(c)
  /\ UNCHANGED << word, evtchn, tail, qlock, head, ready, upcall, guest, poll,
                  order, config >>

Move(o, p, f) ==
  /\ Count(o)
  /\ evtchn' = [evtchn EXCEPT ![p] = f]
  /\ UNCHANGED << word, num_evtchns, blocks, tail, qlock, head, ready, upcall,
                  ctx, guest, poll, order >>

evtchn_fifo_set_priority(p, i) ==
  /\ i \in Prios
  /\ i # evtchn[p].prio
  /\ Move("prio", p, [evtchn[p] EXCEPT !.prio = i])

(***************************************************************************)
(* EVTCHNOP_bind_vcpu, whether or not the vCPU can take events yet.        *)
(***************************************************************************)
evtchn_bind_vcpu(p, v) ==
  /\ v # evtchn[p].vcpu
  /\ Move("vcpu", p, [evtchn[p] EXCEPT !.vcpu = v])

(***************************************************************************)
(* evtchn_fifo_init_control() for a further vCPU.                          *)
(***************************************************************************)
map_control_block(v) ==
  /\ v \notin blocks
  /\ blocks' = blocks \cup {v}
  /\ UNCHANGED << word, evtchn, num_evtchns, tail, qlock, head, ready, upcall,
                  ctx, guest, poll, order, ops >>

(***************************************************************************)
(* evtchn_fifo_expand_array(): under the domain's event_lock, which no     *)
(* sender takes, add a page of event words ...                             *)
(***************************************************************************)
add_page_to_event_array(c) ==
  /\ At(c, "idle")
  /\ num_evtchns <= NPorts
  /\ \A b \in Contexts : ctx[b].next = 0
  /\ num_evtchns' = num_evtchns + WordsPerPage
  /\ ctx' = [ctx EXCEPT ![c].pc = "reraise",
                        ![c].next = IF num_evtchns = 0 THEN 1 ELSE num_evtchns]
  /\ UNCHANGED << word, evtchn, blocks, tail, qlock, head, ready, upcall, guest,
                  poll, order, ops >>

(***************************************************************************)
(* ... and raise the events that were saved while it was missing.          *)
(***************************************************************************)
Reraise(c) ==
  /\ At(c, "reraise")
  /\ LET p == ctx[c].next
     IN IF ~HasWord(p) \/ p > NPorts
          THEN ctx' = [ctx EXCEPT ![c] = Idle]
          ELSE ctx' = [ctx EXCEPT ![c].next = p + 1,
                         ![c].port = IF evtchn[p].pending THEN p ELSE 0,
                         ![c].v = IF evtchn[p].pending THEN evtchn[p].vcpu ELSE 0,
                         ![c].pc = IF evtchn[p].pending THEN "word" ELSE "reraise"]
  /\ UNCHANGED << word, evtchn, tail, qlock, head, ready, upcall, guest, poll,
                  order, config >>

-----------------------------------------------------------------------------
(***************************************************************************)
(* The guest.  A vCPU's event handler clears upcall, collects the ready    *)
(* bits and takes one port after the other off the most urgent queue; the  *)
(* handler of a pending and unmasked event clears PENDING.                 *)
(***************************************************************************)
guestvars == << word, evtchn, tail, qlock, head, ctx, poll, config >>

GuestUpcall(v) ==
  /\ guest[v].pc = "idle" /\ upcall[v] /\ poll[v] = 0
  /\ upcall' = [upcall EXCEPT ![v] = FALSE]
  /\ guest' = [guest EXCEPT ![v].pc = "collect"]
  /\ UNCHANGED << guestvars, ready, order >>

GuestCollect(v) ==
  /\ guest[v].pc = "collect"
  /\ LET r == guest[v].ready \cup ready[v]
     IN guest' = [guest EXCEPT ![v].ready = r,
                               ![v].pc = IF r = {} THEN "idle" ELSE "pick"]
  /\ ready' = [ready EXCEPT ![v] = {}]
  /\ UNCHANGED << guestvars, upcall, order >>

GuestPick(v) ==
  /\ guest[v].pc = "pick"
  /\ LET i == CHOOSE i \in guest[v].ready : \A j \in guest[v].ready : i <= j
         h == guest[v].head[i]
     IN guest' = [guest EXCEPT ![v].pc = "consume", ![v].prio = i,
                               ![v].port = IF h = 0 THEN head[<<v, i>>] ELSE h]
  /\ UNCHANGED << guestvars, ready, upcall, order >>

(***************************************************************************)
(* Clear LINKED and LINK at once; the old LINK is the new head.            *)
(***************************************************************************)
GuestConsume(v) ==
  /\ guest[v].pc = "consume" /\ guest[v].port # 0
  /\ LET p == guest[v].port
         i == guest[v].prio
         h == word[p].link
     IN /\ SetWord(p, [word[p] EXCEPT !.L = FALSE, !.link = 0])
        /\ guest' = [guest EXCEPT ![v].pc = "handle", ![v].head[i] = h,
                                  ![v].ready = IF h = 0 THEN @ \ {i} ELSE @]
        /\ order' = [order EXCEPT ![<<v, i>>] = IF @ = << >> THEN @ ELSE Tail(@)]
  /\ UNCHANGED << evtchn, tail, qlock, head, ctx, poll, config, ready, upcall >>

GuestHandle(v) ==
  /\ guest[v].pc = "handle"
  /\ LET p == guest[v].port
     IN SetWord(p, [word[p] EXCEPT !.P = @ /\ word[p].M])
  /\ guest' = [guest EXCEPT ![v].pc = "collect", ![v].port = 0, ![v].prio = 0]
  /\ UNCHANGED << evtchn, tail, qlock, head, ctx, poll, config, ready, upcall,
                  order >>

(***************************************************************************)
(* The guest masks ports at will.  It unmasks one by itself only when the  *)
(* word is neither BUSY nor PENDING, and else with the hypercall.          *)
(***************************************************************************)
GuestMask(p) ==
  /\ ~word[p].M /\ Count("mask")
  /\ SetWord(p, [word[p] EXCEPT !.M = TRUE])
  /\ UNCHANGED << evtchn, num_evtchns, blocks, tail, qlock, head, ready, upcall,
                  ctx, guest, poll, order >>

GuestUnmask(p) ==
  /\ word[p].M /\ ~word[p].P /\ ~word[p].B /\ evtchn[p].vcpu \in blocks
  /\ SetWord(p, [word[p] EXCEPT !.M = FALSE])
  /\ UNCHANGED << evtchn, tail, qlock, head, ready, upcall, ctx, guest, poll,
                  order, config >>

(***************************************************************************)
(* SCHEDOP_poll on one port, at the level of detail that matters here:     *)
(* module EvtchnPoll has the steps of do_poll().                           *)
(***************************************************************************)
do_poll(v, p) ==
  /\ Count("poll") /\ poll[v] = 0 /\ guest[v].pc = "idle"
  /\ ~(HasWord(p) /\ word[p].P)
  /\ poll' = [poll EXCEPT ![v] = p]
  /\ UNCHANGED << word, evtchn, num_evtchns, blocks, tail, qlock, head, ready,
                  upcall, ctx, guest, order >>

poll_timer_fn(v) ==
  /\ poll[v] # 0
  /\ poll' = [poll EXCEPT ![v] = 0]
  /\ UNCHANGED << word, evtchn, tail, qlock, head, ready, upcall, ctx, guest,
                  order, config >>

-----------------------------------------------------------------------------
LockStep(c) == LockFirst(c) \/ LockSecond(c)

Step(c) ==
  \/ NoEventWord(c) \/ SavePending(c) \/ ChooseQueues(c) \/ SetPENDING(c)
  \/ TestMASKED(c) \/ SetLINKED(c) \/ ReadTail(c) \/ LinkTail(c) \/ SetBUSY(c)
  \/ RereadTail(c) \/ RelinkTail(c) \/ ClearBUSY(c) \/ WriteHead(c)
  \/ SetReady(c) \/ vcpu_mark_events_pending(c) \/ evtchn_check_pollers(c)
  \/ UnmaskPending(c) \/ Reraise(c)

Call(c) ==
  \/ \E p \in Ports : evtchn_port_set_pending(c, p) \/ evtchn_fifo_unmask(c, p)
  \/ add_page_to_event_array(c)

PortOp(p) ==
  \/ evtchn_fifo_clear_pending(p)
  \/ \E i \in 0..NPrios : evtchn_fifo_set_priority(p, i)
  \/ \E v \in Vcpus : evtchn_bind_vcpu(p, v)
  \/ GuestMask(p) \/ GuestUnmask(p)

Handler(v) ==
  \/ GuestUpcall(v) \/ GuestCollect(v) \/ GuestPick(v) \/ GuestConsume(v)
  \/ GuestHandle(v)

VcpuOp(v) ==
  map_control_block(v) \/ poll_timer_fn(v) \/ \E p \in Ports : do_poll(v, p)

(***************************************************************************)
(* The bounded operations are used up and nothing is left to do.           *)
(***************************************************************************)
Quiescent == \A c \in Contexts : At(c, "idle")

Rest ==
  /\ Quiescent /\ \A o \in Ops : ops[o] = 0
  /\ \A v \in Vcpus : guest[v].pc = "idle" /\ ~upcall[v]
  /\ UNCHANGED vars

Next ==
  \/ \E c \in Contexts : LockStep(c) \/ Step(c) \/ Call(c)
  \/ \E p \in Ports : PortOp(p)
  \/ \E v \in Vcpus : Handler(v) \/ VcpuOp(v)
  \/ Rest

(***************************************************************************)
(* Hypervisor code runs to its end, the ticket locks are free of           *)
(* starvation (NoStarvation of module Spinlock), and the guest handles its *)
(* upcalls.                                                                *)
(***************************************************************************)
Fairness ==
  /\ \A c \in Contexts : WF_vars(Step(c)) /\ SF_vars(LockStep(c))
  /\ \A v \in Vcpus : WF_vars(Handler(v))

Spec == Init /\ [][Next]_vars

FairSpec == Spec /\ Fairness

-----------------------------------------------------------------------------
(***************************************************************************)
(* The queues are sound.  A port is LINKED exactly while it is on a queue, *)
(* and then on one queue, once, whichever contexts raise it at the same    *)
(* time.  The guest meets the ports of a queue in the order in which the   *)
(* hypervisor linked them, and never a port that belongs to another queue  *)
(* or to none: no chain of LINK fields leads from one queue into another,  *)
(* although ports move between queues and a consumed port stays the tail.  *)
(***************************************************************************)
Places(p) == {x \in Queues \X (1..NPorts) : x[2] <= Len(order[x[1]])
                                            /\ order[x[1]][x[2]] = p}

QueuesInOrder ==
  /\ \A p \in Ports : Cardinality(Places(p)) = IF word[p].L THEN 1 ELSE 0
  /\ \A v \in Vcpus :
       guest[v].pc = "consume" =>
         LET q == order[<<v, guest[v].prio>>] IN q # << >> /\ Head(q) = guest[v].port

(***************************************************************************)
(* No event is forgotten: when no hypervisor code is running for the       *)
(* domain, a pending and unmasked port is on a queue or in the hands of a  *)
(* handler, the vCPU of a queue that is not empty has the ready bit or is  *)
(* working on the queue, it has an upcall for its ready bits unless its    *)
(* handler is running, and no vCPU sleeps in SCHEDOP_poll on a port that   *)
(* has become pending (the wakeup comes last).                             *)
(***************************************************************************)
InHand(p) == \E v \in Vcpus : guest[v].pc = "handle" /\ guest[v].port = p

NoLostEvent ==
  Quiescent =>
    /\ \A p \in Ports :
         HasWord(p) /\ word[p].P /\ ~word[p].M => word[p].L \/ InHand(p)
    /\ \A q \in Queues : order[q] # << >> => q[2] \in ready[q[1]] \cup guest[q[1]].ready
    /\ \A v \in Vcpus : ready[v] # {} => upcall[v] \/ guest[v].pc # "idle"
    /\ \A v \in Vcpus : poll[v] # 0 /\ HasWord(poll[v]) => ~word[poll[v]].P

(***************************************************************************)
(* Events get through: two queue locks are taken in address order and the  *)
(* retries are bounded, so every call of evtchn_fifo_set_pending()         *)
(* returns; and an event that is pending and unmasked is handled, unless   *)
(* it is masked or cleared first.                                          *)
(***************************************************************************)
EventHandled ==
  /\ \A c \in Contexts : ~At(c, "idle") ~> At(c, "idle")
  /\ \A p \in Ports : HasWord(p) /\ word[p].P /\ ~word[p].M ~> ~word[p].P \/ word[p].M

(***************************************************************************)
(* "Event array page may not exist yet, save the pending state for when    *)
(* the page is added": an event is saved only while its page is missing,   *)
(* or before add_page_to_event_array() looks at its port.  It does not     *)
(* hold: the test for the word and the save are two steps.                 *)
(***************************************************************************)
SavedForThePage ==
  [][\A p \in Ports :
       ~evtchn[p].pending /\ evtchn'[p].pending =>
         ~HasWord(p) \/ \E c \in Contexts : ctx[c].next \in 1..p]_vars
=============================================================================
