----------------------------- MODULE EvtchnPort -----------------------------
(***************************************************************************)
(* The life of event channel ports: xen/common/event_channel.c.            *)
(*                                                                         *)
(* A domain's ports change state under its event_lock and, for the moment  *)
(* of the change, the port's own write lock; connecting or closing an      *)
(* interdomain channel needs the locks of both domains.  Senders take no   *)
(* event_lock: they hold the read lock of their own port, or a vCPU's      *)
(* virq_lock, while they raise an event on another port.                   *)
(*                                                                         *)
(* Threads are CPUs in hypervisor code.  A step goes from one acquisition  *)
(* of a lock to the next.  A write lock of a port is taken, used and       *)
(* released in one step, which waits for the port's readers: nobody who    *)
(* reads a port waits for a lock, so no wait is hidden by this.            *)
(***************************************************************************)
EXTENDS Naturals, FiniteSets

CONSTANTS
  Threads,
  NDomains,    \* domains are 1..NDomains, in the order of their addresses
  NPorts,      \* no domain has more; port 0 is reserved
  PerBucket,   \* EVTCHNS_PER_BUCKET
  NVcpus,      \* vCPUs of each domain are 0..NVcpus - 1
  VcpuVirqs,   \* VIRQs of type VIRQ_VCPU
  DomainVirqs, \* VIRQs of type VIRQ_DOMAIN
  GlobalVirqs, \* VIRQs of type VIRQ_GLOBAL
  MaxRefs,     \* no domain is referenced more often by global_virq_handlers
  Pirqs,
  Workloads    \* what the domains do, see Workload

ASSUME WholeBuckets == PerBucket \in 1..(NPorts + 1) /\ (NPorts + 1) % PerBucket = 0

Domains == 1..NDomains
Ports == 1..NPorts
Vcpus == 0..(NVcpus - 1)
Virqs == VcpuVirqs \cup DomainVirqs \cup GlobalVirqs
Chans == Domains \X Ports
None == "none"

(***************************************************************************)
(* A workload: the threads at work, the kinds of binding that are used     *)
(* (without unbound ports there is nothing to connect to), the domains'    *)
(* limit on ports and their vCPUs, the domains that may be destroyed and   *)
(* those whose event channels may be reset, and hardware_domain, if any.   *)
(***************************************************************************)
Kinds == {"unbound", "xen", "virq", "global", "ipi", "pirq"}

Workload == [threads : SUBSET Threads, kinds : SUBSET Kinds,
             max_evtchn_port : [Domains -> 0..NPorts],
             vcpus : SUBSET Vcpus, mortal : SUBSET Domains, resettable : SUBSET Domains,
             hwdom : {0} \cup Domains]

ASSUME WorkloadsAssumption == Workloads \subseteq Workload

VARIABLES
  chn,       \* struct evtchn of each port
  pend,      \* ports with their pending bit set
  valid,     \* d->valid_evtchns: the ports below it have a struct evtchn
  active,    \* d->active_evtchns
  xenact,    \* d->xen_evtchns
  dying,     \* domains with is_dying set
  gone,      \* domains evtchn_destroy() is done with
  next,      \* d->next_evtchn
  fifo,      \* domains that use the FIFO ABI
  virqmap,   \* v->virq_to_evtchn
  handler,   \* global_virq_handlers, 0 for NULL
  refs,      \* references to each domain held for global_virq_handlers
  pirqport,  \* pirq->evtchn
  head,      \* v->pirq_evtchn_head
  link,      \* u.pirq.prev_port and next_port of each port
  elock,     \* which thread holds each domain's event_lock for writing
  reading,   \* threads that hold the read lock of each port
  vreading,  \* threads that hold each vCPU's virq_lock for reading
  th,        \* local variables of each thread
  use        \* the workload, which does not change

vars == << chn, pend, valid, active, xenact, dying, gone, next, fifo, virqmap, handler, refs,
           pirqport, head, link, elock, reading, vreading, th >>
counts == << valid, active, xenact >>
life == << dying, gone, next, fifo >>
global == << handler, refs >>
irqs == << virqmap, global, pirqport, head, link >>
readlocks == << reading, vreading >>

(***************************************************************************)
(* state is ECS_*; dom and port are u.interdomain, or u.unbound's domain;  *)
(* irq is u.virq or u.pirq.irq; xen is consumer_is_xen().                  *)
(***************************************************************************)
States == {"free", "unbound", "interdomain", "virq", "ipi", "pirq"}

Free == [state |-> "free", vcpu |-> 0, xen |-> FALSE, dom |-> 0, port |-> 0, irq |-> 0]

(***************************************************************************)
(* A thread's call is about port p of domain d.  e is the other domain and *)
(* q the other port, or the VIRQ or PIRQ, or xen_evtchns as read by        *)
(* has_active_evtchns(); v is a vCPU; guest is evtchn_close()'s argument.  *)
(* A close made by evtchn_destroy() or evtchn_reset() has the caller in    *)
(* by, and so have these once they have closed a port.                     *)
(***************************************************************************)
Idle == [pc |-> "idle", kind |-> None, d |-> 0, p |-> 0, e |-> 0, q |-> 0, v |-> 0,
         guest |-> FALSE, by |-> None]

PCs == {"idle", "get", "bind", "virqmap", "second", "inter", "getlocal", "connect", "close", "closevirq",
        "closelock", "relock", "peer", "freeing", "send", "global", "virq", "pirq", "destroy", "reset",
        "look", "switch"}

Init ==
  /\ use \in Workloads
  /\ chn = [x \in Chans |-> Free]
  /\ pend = {}
  /\ valid = [d \in Domains |-> PerBucket]
  /\ active = [d \in Domains |-> 0]
  /\ xenact = [d \in Domains |-> 0]
  /\ dying = {}
  /\ gone = {}
  /\ next = [d \in Domains |-> 0]
  /\ fifo = use.resettable
  /\ virqmap = [x \in Domains \X Vcpus \X Virqs |-> 0]
  /\ handler = [q \in GlobalVirqs |-> 0]
  /\ refs = [d \in Domains |-> 0]
  /\ pirqport = [x \in Domains \X Pirqs |-> 0]
  /\ head = [x \in Domains \X Vcpus |-> 0]
  /\ link = [x \in Chans |-> [prev |-> 0, next |-> 0]]
  /\ elock = [d \in Domains |-> None]
  /\ reading = [x \in Chans |-> {}]
  /\ vreading = [x \in Domains \X Vcpus |-> {}]
  /\ th = [t \in Threads |-> Idle]

At(t, l) == th[t].pc = l
Goto(t, l) == th' = [th EXCEPT ![t].pc = l]
This(t) == << th[t].d, th[t].p >>
Other(t) == << th[t].e, th[t].q >>

Lock(t, d) == elock[d] = None /\ elock' = [elock EXCEPT ![d] = t]
Unlocked(t) == [d \in Domains |-> IF elock[d] = t THEN None ELSE elock[d]]

(***************************************************************************)
(* The end of a call: all locks are given up, and a close made by          *)
(* evtchn_destroy() or evtchn_reset() returns to their loops.              *)
(***************************************************************************)
Return(t) ==
  th' = [th EXCEPT ![t] = IF th[t].by = None THEN Idle
                          ELSE [Idle EXCEPT !.pc = th[t].by, !.by = th[t].by,
                                            !.d = th[t].d, !.p = th[t].p]]

Done(t) == elock' = Unlocked(t) /\ Return(t)

-----------------------------------------------------------------------------
(***************************************************************************)
(* evtchn_allocate_port(): a free port is taken, with all the buckets up   *)
(* to it.  A FIFO port still LINKED is busy and passed over by             *)
(* get_free_port(), so any free port may be the one.                       *)
(***************************************************************************)
evtchn_allocate_port(d, p) ==
  /\ chn[<<d, p>>].state = "free" /\ p <= use.max_evtchn_port[d]
  /\ active' = [active EXCEPT ![d] = @ + 1]
  /\ valid' = [valid EXCEPT ![d] = IF p < @ THEN @ ELSE (p \div PerBucket + 1) * PerBucket]

(***************************************************************************)
(* It fails when every port is in use or LINKED, and when it cannot        *)
(* allocate one of the buckets; those it has added stay.                   *)
(***************************************************************************)
NoPort(d) ==
  \/ /\ \A p \in 1..use.max_evtchn_port[d] :
          chn[<<d, p>>].state # "free" \/ (d \in fifo /\ p < valid[d])
     /\ valid' = valid
  \/ \E b \in valid[d]..use.max_evtchn_port[d] :
       b % PerBucket = 0 /\ valid' = [valid EXCEPT ![d] = b]

(***************************************************************************)
(* evtchn_alloc_unbound(), alloc_unbound_xen_event_channel(),              *)
(* evtchn_bind_virq(), evtchn_bind_ipi() and evtchn_bind_pirq(): take the  *)
(* event_lock and check; get_free_port() looks at is_dying first.          *)
(***************************************************************************)
get_global_virq_handler(q) == IF handler[q] # 0 THEN handler[q] ELSE use.hwdom

MayBind(k, d, v, q) ==
  CASE k \in {"unbound", "xen"} -> q \in Domains /\ v = 0
    [] k = "virq" -> /\ q \in VcpuVirqs \cup DomainVirqs /\ (q \in DomainVirqs => v = 0)
                     /\ virqmap[<<d, v, q>>] = 0
    [] k = "global" -> /\ q \in GlobalVirqs /\ v = 0
                       /\ get_global_virq_handler(q) = d
                       /\ virqmap[<<d, v, q>>] = 0
    [] k = "ipi" -> q = 0
    [] k = "pirq" -> q \in Pirqs /\ v = 0 /\ pirqport[<<d, q>>] = 0

Bind(t, k, d, v, q) ==
  /\ At(t, "idle") /\ MayBind(k, d, v, q)
  /\ Lock(t, d)
  /\ d \notin dying
  /\ th' = [th EXCEPT ![t] = [Idle EXCEPT !.pc = "get", !.kind = k, !.d = d,
                                          !.v = v, !.q = q]]
  /\ UNCHANGED << chn, pend, counts, life, irqs, readlocks >>

(***************************************************************************)
(* The port.  pirq->evtchn is set at once: the interrupt may fire from     *)
(* here on.                                                                *)
(***************************************************************************)
BindGetPort(t, p) ==
  /\ At(t, "get")
  /\ evtchn_allocate_port(th[t].d, p)
  /\ pirqport' = IF th[t].kind = "pirq" THEN [pirqport EXCEPT ![<<th[t].d, th[t].q>>] = p]
                                        ELSE pirqport
  /\ th' = [th EXCEPT ![t].pc = "bind", ![t].p = p]
  /\ UNCHANGED << chn, pend, xenact, life, virqmap, global, head, link, elock, readlocks >>

BindNoPort(t) ==
  /\ At(t, "get") /\ NoPort(th[t].d)
  /\ Done(t)
  /\ UNCHANGED << chn, pend, active, xenact, life, irqs, readlocks >>

(***************************************************************************)
(* The security module refused, pirq_guest_bind() failed, or the remote    *)
(* port is not one to connect to: check_free_port() gives the port back.   *)
(***************************************************************************)
check_free_port(t) ==
  /\ \/ At(t, "bind") /\ th[t].kind \in {"unbound", "xen", "pirq"}
     \/ At(t, "connect")
  /\ active' = [active EXCEPT ![th[t].d] = @ - 1]
  /\ pirqport' = IF th[t].kind = "pirq"
                   THEN [pirqport EXCEPT ![<<th[t].d, th[t].q>>] = 0] ELSE pirqport
  /\ Done(t)
  /\ UNCHANGED << chn, pend, valid, xenact, life, virqmap, global, head, link, readlocks >>

(***************************************************************************)
(* link_pirq_port() and unlink_pirq_port(): the PIRQ ports bound to a vCPU *)
(* are a doubly linked list.  l and h are the links and the heads.         *)
(***************************************************************************)
link_pirq_port(l, h, d, p, v) ==
  << [x \in Chans |-> CASE x = <<d, p>> -> [prev |-> 0, next |-> h[<<d, v>>]]
                        [] x # <<d, p>> /\ x = <<d, h[<<d, v>>]>> -> [l[x] EXCEPT !.prev = p]
                        [] OTHER -> l[x]],
     [h EXCEPT ![<<d, v>>] = p] >>

\* Mutant: the head of the list is not moved on.
UnlinkKeepsHead(l, h, d, p, v) ==
  LET at == l[<<d, p>>]
  IN << [x \in Chans |-> CASE x = <<d, at.prev>> -> [l[x] EXCEPT !.next = at.next]
                           [] x = <<d, at.next>> -> [l[x] EXCEPT !.prev = at.prev]
                           [] OTHER -> l[x]], h >>

unlink_pirq_port(l, h, d, p, v) ==
  LET at == l[<<d, p>>]
  IN << [x \in Chans |-> CASE x = <<d, at.prev>> -> [l[x] EXCEPT !.next = at.next]
                           [] x = <<d, at.next>> -> [l[x] EXCEPT !.prev = at.prev]
                           [] OTHER -> l[x]],
        IF at.prev = 0 THEN [h EXCEPT ![<<d, v>>] = at.next] ELSE h >>

(***************************************************************************)
(* The port's new state, under its write lock.  A VIRQ is entered in       *)
(* virq_to_evtchn only after that.                                         *)
(***************************************************************************)
Bound(t) ==
  CASE th[t].kind \in {"unbound", "xen"} ->
         [Free EXCEPT !.state = "unbound", !.dom = th[t].q, !.vcpu = th[t].v,
                      !.xen = th[t].kind = "xen"]
    [] OTHER -> [Free EXCEPT !.state = IF th[t].kind = "global" THEN "virq" ELSE th[t].kind,
                             !.irq = th[t].q, !.vcpu = th[t].v]

BindPort(t) ==
  /\ At(t, "bind") /\ reading[This(t)] = {}
  /\ chn' = [chn EXCEPT ![This(t)] = Bound(t)]
  /\ xenact' = IF th[t].kind = "xen" THEN [xenact EXCEPT ![th[t].d] = @ + 1] ELSE xenact
  /\ LET l == IF th[t].kind = "pirq"
                THEN link_pirq_port(link, head, th[t].d, th[t].p, 0) ELSE << link, head >>
     IN link' = l[1] /\ head' = l[2]
  /\ IF th[t].kind \in {"virq", "global"} THEN Goto(t, "virqmap") /\ UNCHANGED elock ELSE Done(t)
  /\ UNCHANGED << pend, valid, active, life, virqmap, global, pirqport, readlocks >>

BindVirqMap(t) ==
  /\ At(t, "virqmap")
  /\ virqmap' = [virqmap EXCEPT ![<<th[t].d, th[t].v, th[t].q>>] = th[t].p]
  /\ Done(t)
  /\ UNCHANGED << chn, pend, counts, life, global, pirqport, head, link, readlocks >>

-----------------------------------------------------------------------------
(***************************************************************************)
(* evtchn_bind_interdomain(): the locks of both domains, the one with the  *)
(* smaller address first; then a port, and the check of the remote one.    *)
(***************************************************************************)
First(d, e) == IF d < e THEN d ELSE e
Second(d, e) == IF d < e THEN e ELSE d

evtchn_bind_interdomain(t, ld, rd, rport) ==
  /\ At(t, "idle")
  /\ Lock(t, First(ld, rd))
  /\ th' = [th EXCEPT ![t] = [Idle EXCEPT !.pc = IF ld = rd THEN "inter" ELSE "second",
                                          !.d = ld, !.e = rd, !.q = rport]]
  /\ UNCHANGED << chn, pend, counts, life, irqs, readlocks >>

LockSecond(t) ==
  /\ At(t, "second")
  /\ Lock(t, Second(th[t].d, th[t].e))
  /\ Goto(t, "inter")
  /\ UNCHANGED << chn, pend, counts, life, irqs, readlocks >>

(***************************************************************************)
(* get_free_port() for the local domain: is_dying, then the port.          *)
(***************************************************************************)
LocalAlive(t) ==
  /\ At(t, "inter") /\ th[t].d \notin dying
  /\ Goto(t, "getlocal")
  /\ UNCHANGED << chn, pend, counts, life, irqs, elock, readlocks >>

GetLocalPort(t, p) ==
  /\ At(t, "getlocal")
  /\ evtchn_allocate_port(th[t].d, p)
  /\ th' = [th EXCEPT ![t].pc = "connect", ![t].p = p]
  /\ UNCHANGED << chn, pend, xenact, life, irqs, elock, readlocks >>

NotConnected(t) ==
  /\ \/ At(t, "inter") /\ th[t].d \in dying /\ valid' = valid
     \/ At(t, "getlocal") /\ NoPort(th[t].d)
  /\ Done(t)
  /\ UNCHANGED << chn, pend, active, xenact, life, irqs, readlocks >>

(***************************************************************************)
(* evtchn_port_set_pending() with evtchn_usable().                         *)
(***************************************************************************)
evtchn_usable(c) == c.state # "free" /\ ~c.xen

(***************************************************************************)
(* The remote port must be waiting for this domain.  Both ports change     *)
(* state under both write locks, and an event is raised on the local one,  *)
(* for those lost while the remote one was unbound.                        *)
(***************************************************************************)
Acceptable(r, ld) == chn[r].state = "unbound" /\ chn[r].dom = ld

Connect(t) ==
  LET l == This(t)
      r == Other(t)
  IN /\ At(t, "connect") /\ Acceptable(r, l[1])
     /\ reading[l] = {} /\ reading[r] = {}
     /\ chn' = [chn EXCEPT ![l].state = "interdomain", ![l].dom = r[1], ![l].port = r[2],
                           ![r].state = "interdomain", ![r].dom = l[1], ![r].port = l[2]]
     /\ pend' = pend \cup {l}
     /\ Done(t)
     /\ UNCHANGED << counts, life, irqs, readlocks >>

-----------------------------------------------------------------------------
(***************************************************************************)
(* evtchn_close().  A guest may try any port.  Xen closes a port it has    *)
(* attached to once, free_xen_event_channel(), when it is done with it.    *)
(***************************************************************************)
Closing(d, p, guest) ==
  [Idle EXCEPT !.pc = "close", !.d = d, !.p = p, !.guest = guest]

InClose(t) == th[t].pc \in {"close", "closevirq", "closelock", "relock", "peer", "freeing"}

XenCloses(d, p) ==
  /\ chn[<<d, p>>].xen
  /\ \A t \in Threads : InClose(t) /\ This(t) = <<d, p>> => th[t].guest \/ th[t].by # None

evtchn_close(t, d, p, guest) ==
  /\ At(t, "idle")
  /\ guest \/ XenCloses(d, p)
  /\ th' = [th EXCEPT ![t] = Closing(d, p, guest)]
  /\ UNCHANGED << chn, pend, counts, life, irqs, elock, readlocks >>

\* Mutant: the other domain is not compared on the second look.
RefusedNoRecheck(t) ==
  LET c == chn[This(t)]
  IN (c.xen /\ th[t].guest) \/ c.state = "free"

(***************************************************************************)
(* With the event_lock of d: nothing to close; the PIRQ is unbound at      *)
(* once; or the other domain is found out.  On the way through again, with *)
(* the other domain locked, the port may have been closed and re-bound.    *)
(***************************************************************************)
Refused(t) ==
  LET c == chn[This(t)]
  IN \/ c.xen /\ th[t].guest
     \/ c.state = "free"
     \/ c.state = "interdomain" /\ th[t].e \notin {0, c.dom}

CloseRefused(t) ==
  /\ At(t, "close")
  /\ Refused(t)
  /\ elock[th[t].d] = None
  /\ Done(t)
  /\ UNCHANGED << chn, pend, counts, life, irqs, readlocks >>

CloseLocal(t) ==
  LET c == chn[This(t)]
      d == th[t].d
  IN /\ At(t, "close") /\ ~Refused(t) /\ c.state # "interdomain"
     /\ Lock(t, d)
     /\ Goto(t, IF c.state = "virq" THEN "closevirq" ELSE "freeing")
     /\ IF c.state = "pirq"
          THEN LET l == unlink_pirq_port(link, head, d, th[t].p, c.vcpu)
               IN /\ link' = l[1] /\ head' = l[2]
                  /\ pirqport' = [pirqport EXCEPT ![<<d, c.irq>>] = 0]
          ELSE UNCHANGED << link, head, pirqport >>
     /\ UNCHANGED << chn, pend, counts, life, virqmap, global, readlocks >>

\* Mutant: the other lock is taken on top of this one, whatever their order.
ClosePeerUnordered(t) ==
  /\ At(t, "close") /\ ~Refused(t) /\ chn[This(t)].state = "interdomain"
  /\ Lock(t, th[t].d)
  /\ th' = [th EXCEPT ![t].e = chn[This(t)].dom,
                      ![t].pc = IF th[t].d = chn[This(t)].dom THEN "peer" ELSE "closelock"]
  /\ UNCHANGED << chn, pend, counts, life, irqs, readlocks >>

ClosePeer(t) ==
  LET c == chn[This(t)]
      d == th[t].d
  IN /\ At(t, "close") /\ ~Refused(t) /\ c.state = "interdomain"
     /\ elock[d] = None
     /\ th' = [th EXCEPT ![t].e = IF @ = 0 THEN c.dom ELSE @,
                         ![t].pc = CASE th[t].e # 0 \/ d = c.dom -> "peer"
                                     [] th[t].e = 0 /\ d < c.dom -> "closelock"
                                     [] th[t].e = 0 /\ d > c.dom -> "relock"]
     /\ elock' = IF th[t].e = 0 /\ d > c.dom THEN elock ELSE [elock EXCEPT ![d] = t]
     /\ UNCHANGED << chn, pend, counts, life, irqs, readlocks >>

CloseLock(t) ==
  /\ \/ At(t, "closelock") /\ Goto(t, "peer")
     \/ At(t, "relock") /\ Goto(t, "close")
  /\ Lock(t, th[t].e)
  /\ UNCHANGED << chn, pend, counts, life, irqs, readlocks >>

\* Mutant: virq_lock is not taken.
CloseVirqUnlocked(t) ==
  LET c == chn[This(t)]
      v == IF c.irq \in VcpuVirqs THEN c.vcpu ELSE 0
  IN /\ At(t, "closevirq")
     /\ virqmap' = [virqmap EXCEPT ![<<th[t].d, v, c.irq>>] = 0]
     /\ Goto(t, "freeing")
     /\ UNCHANGED << chn, pend, counts, life, global, pirqport, head, link, elock, readlocks >>

CloseVirq(t) ==
  LET c == chn[This(t)]
      v == << th[t].d, IF c.irq \in VcpuVirqs THEN c.vcpu ELSE 0 >>
  IN /\ At(t, "closevirq") /\ vreading[v] = {}
     /\ virqmap' = [virqmap EXCEPT ![<<v[1], v[2], c.irq>>] = 0]
     /\ Goto(t, "freeing")
     /\ UNCHANGED << chn, pend, counts, life, global, pirqport, head, link, elock, readlocks >>

(***************************************************************************)
(* evtchn_free(): the pending bit of a guest's port is cleared, the counts *)
(* go down, and the port is free.                                          *)
(***************************************************************************)
evtchn_free(t, x, others) ==
  /\ pend' = pend \ {x}
  /\ chn' = [others EXCEPT ![x] = Free]
  /\ active' = [active EXCEPT ![x[1]] = @ - 1]
  /\ xenact' = IF chn[x].xen THEN [xenact EXCEPT ![x[1]] = @ - 1] ELSE xenact
  /\ Done(t)
  /\ UNCHANGED << valid, life, irqs, readlocks >>

CloseFree(t) ==
  /\ At(t, "freeing") /\ reading[This(t)] = {}
  /\ evtchn_free(t, This(t), chn)

\* Mutant: the other end is changed without its write lock.
PeerNotLocked(t) ==
  LET x == This(t)
  IN /\ At(t, "peer") /\ reading[x] = {}
     /\ evtchn_free(t, x, [chn EXCEPT ![<<th[t].e, chn[x].port>>].state = "unbound",
                                      ![<<th[t].e, chn[x].port>>].dom = th[t].d,
                                      ![<<th[t].e, chn[x].port>>].port = 0])

(***************************************************************************)
(* The other end of an interdomain channel becomes unbound again, waiting  *)
(* for this domain.                                                        *)
(***************************************************************************)
ClosePeerFree(t) ==
  LET x == This(t)
      r == << th[t].e, chn[x].port >>
  IN /\ At(t, "peer") /\ reading[x] = {} /\ reading[r] = {}
     /\ evtchn_free(t, x, [chn EXCEPT ![r].state = "unbound", ![r].dom = th[t].d,
                                      ![r].port = 0])

(***************************************************************************)
(* evtchn_bind_vcpu(), all of it under the event_lock alone.               *)
(***************************************************************************)
evtchn_bind_vcpu(d, p, v) ==
  LET x == << d, p >>
      c == chn[x]
  IN /\ elock[d] = None /\ ~c.xen
     /\ \/ c.state \in {"unbound", "interdomain", "pirq"}
        \/ c.state = "virq" /\ c.irq \notin VcpuVirqs
     /\ c.vcpu # v
     /\ chn' = [chn EXCEPT ![x].vcpu = v]
     /\ LET u == unlink_pirq_port(link, head, d, p, c.vcpu)
            l == link_pirq_port(u[1], u[2], d, p, v)
        IN IF c.state = "pirq" THEN link' = l[1] /\ head' = l[2]
                               ELSE UNCHANGED << link, head >>
     /\ UNCHANGED << pend, counts, life, virqmap, global, pirqport, elock, readlocks, th >>

-----------------------------------------------------------------------------
(***************************************************************************)
(* evtchn_send() and notify_via_xen_event_channel(): under the read lock   *)
(* of the sender's port only, the port to raise is looked up, and raised   *)
(* in a second step.  A Xen consumer is called back and no bit is set.     *)
(***************************************************************************)
Sending(t, l, r) ==
  /\ th' = [th EXCEPT ![t] = [Idle EXCEPT !.pc = "send", !.d = l[1], !.p = l[2],
                                          !.e = r[1], !.q = r[2]]]
  /\ reading' = [reading EXCEPT ![l] = @ \cup {t}]

evtchn_send(t, l) ==
  LET c == chn[l]
  IN /\ At(t, "idle") /\ ~c.xen
     /\ \/ c.state = "ipi" /\ Sending(t, l, l)
        \/ /\ c.state = "interdomain" /\ ~chn[<<c.dom, c.port>>].xen
           /\ Sending(t, l, << c.dom, c.port >>)
     /\ UNCHANGED << chn, pend, counts, life, irqs, elock, vreading >>

notify_via_xen_event_channel(t, l) ==
  LET c == chn[l]
  IN /\ At(t, "idle") /\ c.xen /\ c.state = "interdomain"
     /\ Sending(t, l, << c.dom, c.port >>)
     /\ UNCHANGED << chn, pend, counts, life, irqs, elock, vreading >>

evtchn_port_set_pending(x) == pend' = IF evtchn_usable(chn[x]) THEN pend \cup {x} ELSE pend

SetPending(t) ==
  /\ At(t, "send")
  /\ evtchn_port_set_pending(Other(t))
  /\ reading' = [reading EXCEPT ![This(t)] = @ \ {t}]
  /\ th' = [th EXCEPT ![t] = Idle]
  /\ UNCHANGED << chn, counts, life, irqs, elock, vreading >>

(***************************************************************************)
(* send_guest_vcpu_virq() and send_guest_domain_virq(): the vCPU's         *)
(* virq_lock is held from reading virq_to_evtchn to raising the event.     *)
(* send_global_virq() looks up the handling domain, without a lock, first. *)
(***************************************************************************)
send_global_virq(t, q) ==
  /\ At(t, "idle") /\ get_global_virq_handler(q) # 0
  /\ th' = [th EXCEPT ![t] = [Idle EXCEPT !.pc = "global", !.q = q,
                                          !.d = get_global_virq_handler(q)]]
  /\ UNCHANGED << chn, pend, counts, life, irqs, elock, readlocks >>

NoGlobalPort(t) ==
  /\ At(t, "global") /\ virqmap[<<th[t].d, 0, th[t].q>>] = 0
  /\ th' = [th EXCEPT ![t] = Idle]
  /\ UNCHANGED << chn, pend, counts, life, irqs, elock, readlocks >>

send_guest_virq(t, d, v, q) ==
  LET p == virqmap[<<d, v, q>>]
  IN /\ IF q \in GlobalVirqs THEN At(t, "global") /\ th[t].d = d /\ th[t].q = q
                             ELSE At(t, "idle")
     /\ p # 0
     /\ th' = [th EXCEPT ![t] = [Idle EXCEPT !.pc = "virq", !.d = d, !.p = p, !.v = v,
                                             !.q = q]]
     /\ vreading' = [vreading EXCEPT ![<<d, v>>] = @ \cup {t}]
     /\ UNCHANGED << chn, pend, counts, life, irqs, elock, reading >>

(***************************************************************************)
(* evtchn_read_trylock() fails while the port is about to be written: the  *)
(* event is dropped.                                                       *)
(***************************************************************************)
Writing(x) ==
  \E t \in Threads : \/ th[t].pc \in {"bind", "freeing"} /\ This(t) = x
                     \/ /\ At(t, "connect") /\ Acceptable(Other(t), th[t].d)
                        /\ x \in {This(t), Other(t)}
                     \/ At(t, "peer") /\ x \in {This(t), <<th[t].e, chn[This(t)].port>>}

TrySetPending(x) ==
  \/ evtchn_port_set_pending(x)
  \/ Writing(x) /\ UNCHANGED pend

RaiseVirq(t) ==
  /\ At(t, "virq")
  /\ TrySetPending(This(t))
  /\ vreading' = [vreading EXCEPT ![<<th[t].d, th[t].v>>] = @ \ {t}]
  /\ th' = [th EXCEPT ![t] = Idle]
  /\ UNCHANGED << chn, counts, life, irqs, elock, reading >>

(***************************************************************************)
(* send_guest_pirq(): no lock is held from reading pirq->evtchn to the     *)
(* port's read lock.                                                       *)
(***************************************************************************)
send_guest_pirq(t, d, q) ==
  LET p == pirqport[<<d, q>>]
  IN /\ At(t, "idle") /\ p # 0
     /\ th' = [th EXCEPT ![t] = [Idle EXCEPT !.pc = "pirq", !.d = d, !.p = p, !.q = q]]
     /\ UNCHANGED << chn, pend, counts, life, irqs, elock, readlocks >>

RaisePirq(t) ==
  /\ At(t, "pirq")
  /\ TrySetPending(This(t))
  /\ th' = [th EXCEPT ![t] = Idle]
  /\ UNCHANGED << chn, counts, life, irqs, elock, readlocks >>

-----------------------------------------------------------------------------
(***************************************************************************)
(* domain_kill() marks the domain, without any lock of this file, before   *)
(* it calls evtchn_destroy().  That waits for the holder of the event_lock *)
(* and closes every valid port, from the last; preempted, it lowers        *)
(* valid_evtchns and is called again.                                      *)
(***************************************************************************)
Kill(d) ==
  /\ d \in use.mortal \ dying
  /\ dying' = dying \cup {d}
  /\ UNCHANGED << chn, pend, counts, gone, next, fifo, irqs, elock, readlocks, th >>

Destroying(d) ==
  \E t \in Threads : th[t].d = d /\ (At(t, "destroy") \/ th[t].by = "destroy")

\* Mutant: nobody is waited for.
NoBarrier(t, d) ==
  /\ At(t, "idle") /\ d \in dying \ gone /\ ~Destroying(d)
  /\ th' = [th EXCEPT ![t] = [Idle EXCEPT !.pc = "destroy", !.d = d, !.p = valid[d]]]
  /\ UNCHANGED << chn, pend, counts, life, irqs, elock, readlocks >>

evtchn_destroy(t, d) ==
  /\ At(t, "idle") /\ d \in dying \ gone /\ ~Destroying(d)
  /\ elock[d] = None
  /\ th' = [th EXCEPT ![t] = [Idle EXCEPT !.pc = "destroy", !.d = d, !.p = valid[d]]]
  /\ UNCHANGED << chn, pend, counts, life, irqs, elock, readlocks >>

DestroyLoop(t) ==
  /\ At(t, "destroy") /\ th[t].p > 1
  /\ th' = [th EXCEPT ![t] = [Closing(th[t].d, th[t].p - 1, FALSE) EXCEPT !.by = "destroy"]]
  /\ UNCHANGED << chn, pend, counts, life, irqs, elock, readlocks >>

DestroyPreempted(t) ==
  /\ At(t, "destroy") /\ th[t].by = "destroy"
  /\ valid' = [valid EXCEPT ![th[t].d] = th[t].p]
  /\ th' = [th EXCEPT ![t] = Idle]
  /\ UNCHANGED << chn, pend, active, xenact, life, irqs, elock, readlocks >>

clear_global_virq_handlers(d) ==
  LET qs == {q \in GlobalVirqs : handler[q] = d}
  IN /\ handler' = [q \in GlobalVirqs |-> IF q \in qs THEN 0 ELSE handler[q]]
     /\ refs' = [refs EXCEPT ![d] = @ - Cardinality(qs)]

DestroyEnd(t) ==
  /\ At(t, "destroy") /\ th[t].p = 1
  /\ clear_global_virq_handlers(th[t].d)
  /\ gone' = gone \cup {th[t].d}
  /\ th' = [th EXCEPT ![t] = Idle]
  /\ UNCHANGED << chn, pend, counts, dying, next, fifo, virqmap, pirqport, head, link,
                  elock, readlocks >>

\* Mutant: the ports of the domain that has handled the VIRQ do not matter.
SetHandlerAnyway(d, q) ==
  /\ handler[q] # d /\ d \notin dying /\ refs[d] < MaxRefs
  /\ ~\E e \in Domains : Destroying(e)
  /\ handler' = [handler EXCEPT ![q] = d]
  /\ refs' = [e \in Domains |-> CASE e = d -> refs[e] + 1
                                  [] e # d /\ e = handler[q] -> refs[e] - 1
                                  [] OTHER -> refs[e]]
  /\ UNCHANGED << chn, pend, counts, life, virqmap, pirqport, head, link, elock,
                  readlocks, th >>

(***************************************************************************)
(* set_global_virq_handler(), with domctl_lock held as in domain_kill().   *)
(* With the event_lock of the domain that handles the VIRQ, which must     *)
(* have no port for it.  A reference to the new handler is taken and the   *)
(* one to the old given up; when hardware_domain, the handler for want of  *)
(* another, is made the handler, nothing is set and the reference stays.   *)
(***************************************************************************)
set_global_virq_handler(d, q) ==
  LET hdl == get_global_virq_handler(q)
  IN /\ handler[q] # d /\ d \notin dying /\ refs[d] < MaxRefs
     /\ ~\E e \in Domains : Destroying(e)
     /\ hdl \notin {0, d} => elock[hdl] = None /\ virqmap[<<hdl, 0, q>>] = 0
     /\ handler' = IF hdl = d THEN handler ELSE [handler EXCEPT ![q] = d]
     /\ refs' = [e \in Domains |-> CASE e = d -> refs[e] + 1
                                     [] e # d /\ e = handler[q] -> refs[e] - 1
                                     [] OTHER -> refs[e]]
     /\ UNCHANGED << chn, pend, counts, life, virqmap, pirqport, head, link, elock,
                     readlocks, th >>

(***************************************************************************)
(* evtchn_reset(): one reset at a time, continued where it was preempted;  *)
(* the guest's ports are closed from the first while there are any.  The   *)
(* ABI goes back to 2-level if none is left at the end.                    *)
(***************************************************************************)
evtchn_reset(t, d, resuming) ==
  /\ At(t, "idle") /\ d \in use.resettable \ gone
  /\ resuming <=> next[d] # 0
  /\ elock[d] = None
  /\ LET i == IF resuming THEN next[d] ELSE 1
     IN /\ next' = [next EXCEPT ![d] = i]
        /\ th' = [th EXCEPT ![t] = [Idle EXCEPT !.pc = "reset", !.d = d, !.p = i - 1]]
  /\ UNCHANGED << chn, pend, counts, dying, gone, fifo, irqs, elock, readlocks >>

\* has_active_evtchns() reads xen_evtchns, then active_evtchns, without a lock.
has_active_evtchns(t) ==
  /\ At(t, "reset") /\ th[t].p + 1 < valid[th[t].d]
  /\ th' = [th EXCEPT ![t].pc = "look", ![t].q = xenact[th[t].d]]
  /\ UNCHANGED << chn, pend, counts, life, irqs, elock, readlocks >>

ResetLoop(t) ==
  LET i == th[t].p + 1
  IN /\ \/ At(t, "look")
        \/ At(t, "reset") /\ i >= valid[th[t].d]
     /\ th' = [th EXCEPT ![t] = IF At(t, "look") /\ active[th[t].d] > th[t].q
                                  THEN [Closing(th[t].d, i, TRUE) EXCEPT !.by = "reset"]
                                  ELSE [Idle EXCEPT !.pc = "switch", !.d = th[t].d]]
     /\ UNCHANGED << chn, pend, counts, life, irqs, elock, readlocks >>

ResetPreempted(t) ==
  /\ At(t, "reset") /\ th[t].by = "reset"
  /\ elock[th[t].d] = None
  /\ next' = [next EXCEPT ![th[t].d] = th[t].p]
  /\ th' = [th EXCEPT ![t] = Idle]
  /\ UNCHANGED << chn, pend, counts, dying, gone, fifo, irqs, elock, readlocks >>

\* Mutant: the end of the loop is taken to mean that no port is left.
ResetTrustsLoop(t) ==
  LET d == th[t].d
  IN /\ At(t, "switch") /\ elock[d] = None
     /\ next' = [next EXCEPT ![d] = 0]
     /\ fifo' = fifo \ {d}
     /\ th' = [th EXCEPT ![t] = Idle]
     /\ UNCHANGED << chn, pend, counts, dying, gone, irqs, elock, readlocks >>

ResetEnd(t) ==
  LET d == th[t].d
  IN /\ At(t, "switch") /\ elock[d] = None
     /\ next' = [next EXCEPT ![d] = 0]
     /\ fifo' = IF active[d] > xenact[d] THEN fifo ELSE fifo \ {d}
     /\ th' = [th EXCEPT ![t] = Idle]
     /\ UNCHANGED << chn, pend, counts, dying, gone, irqs, elock, readlocks >>

-----------------------------------------------------------------------------
\* The domains that take part, and the ports they may have.
Taking == {d \in Domains : use.max_evtchn_port[d] > 0}
InUse == {x \in Chans : x[2] <= use.max_evtchn_port[x[1]]}

BindStep(t) ==
  \/ \E k \in use.kinds, d \in Taking, v \in use.vcpus, q \in {0} \cup Taking \cup Virqs \cup Pirqs :
       Bind(t, k, d, v, q)
  \/ \E p \in Ports : BindGetPort(t, p)
  \/ BindNoPort(t)
  \/ check_free_port(t)
  \/ BindPort(t)
  \/ BindVirqMap(t)
  \/ \E ld \in Taking, r \in InUse : /\ use.kinds \cap {"unbound", "xen"} # {}
                                     /\ evtchn_bind_interdomain(t, ld, r[1], r[2])
  \/ LockSecond(t)
  \/ LocalAlive(t)
  \/ \E p \in Ports : GetLocalPort(t, p)
  \/ NotConnected(t)
  \/ Connect(t)

CloseStep(t) ==
  \/ CloseRefused(t)
  \/ CloseLocal(t)
  \/ ClosePeer(t)
  \/ CloseLock(t)
  \/ CloseVirq(t)
  \/ CloseFree(t)
  \/ ClosePeerFree(t)

SendStep(t) ==
  \/ \E l \in InUse : evtchn_send(t, l) \/ notify_via_xen_event_channel(t, l)
  \/ SetPending(t)
  \/ \E q \in GlobalVirqs : "global" \in use.kinds /\ send_global_virq(t, q)
  \/ NoGlobalPort(t)
  \/ \E x \in Taking \X Vcpus \X Virqs : send_guest_virq(t, x[1], x[2], x[3])
  \/ RaiseVirq(t)
  \/ \E x \in Taking \X Pirqs : send_guest_pirq(t, x[1], x[2])
  \/ RaisePirq(t)

EndStep(t) ==
  \/ \E d \in Taking : evtchn_destroy(t, d)
  \/ DestroyLoop(t)
  \/ DestroyPreempted(t)
  \/ DestroyEnd(t)
  \/ \E d \in Taking, resuming \in BOOLEAN : evtchn_reset(t, d, resuming)
  \/ has_active_evtchns(t)
  \/ ResetLoop(t)
  \/ ResetPreempted(t)
  \/ ResetEnd(t)

Next ==
  /\ \/ \E t \in use.threads :
          \/ BindStep(t)
          \/ \E x \in InUse, guest \in BOOLEAN : evtchn_close(t, x[1], x[2], guest)
          \/ CloseStep(t)
          \/ SendStep(t)
          \/ EndStep(t)
     \/ \E x \in InUse, v \in use.vcpus : evtchn_bind_vcpu(x[1], x[2], v)
     \/ \E d \in Taking : Kill(d)
     \/ \E d \in Taking, q \in GlobalVirqs :
          "global" \in use.kinds /\ set_global_virq_handler(d, q)
  /\ UNCHANGED use

Spec == Init /\ [][Next]_<<vars, use>>

-----------------------------------------------------------------------------
TypeOK ==
  /\ chn \in [Chans -> [state : States, vcpu : Vcpus, xen : BOOLEAN,
                        dom : {0} \cup Domains, port : {0} \cup Ports,
                        irq : {0} \cup Virqs \cup Pirqs]]
  /\ pend \subseteq Chans
  /\ valid \in [Domains -> 1..(NPorts + 1)]
  /\ active \in [Domains -> 0..NPorts] /\ xenact \in [Domains -> 0..NPorts]
  /\ dying \subseteq use.mortal /\ gone \subseteq dying /\ fifo \subseteq use.resettable
  /\ next \in [Domains -> 0..NPorts]
  /\ virqmap \in [Domains \X Vcpus \X Virqs -> {0} \cup Ports]
  /\ handler \in [GlobalVirqs -> {0} \cup Domains]
  /\ refs \in [Domains -> 0..MaxRefs]
  /\ pirqport \in [Domains \X Pirqs -> {0} \cup Ports]
  /\ head \in [Domains \X Vcpus -> {0} \cup Ports]
  /\ link \in [Chans -> [prev : {0} \cup Ports, next : {0} \cup Ports]]
  /\ elock \in [Domains -> {None} \cup Threads]
  /\ reading \in [Chans -> SUBSET Threads]
  /\ vreading \in [Domains \X Vcpus -> SUBSET Threads]
  /\ th \in [Threads -> [pc : PCs, kind : {None} \cup Kinds, d : {0} \cup Domains,
                         p : 0..(NPorts + 1), e : {0} \cup Domains,
                         q : {0} \cup Ports \cup Domains \cup Virqs \cup Pirqs,
                         v : Vcpus, guest : BOOLEAN, by : {None, "destroy", "reset"}]]

(***************************************************************************)
(* The two ends of an interdomain channel always name each other: whatever *)
(* ports are closed and re-bound while evtchn_close() has given up one     *)
(* domain's lock to take both in order, its BUG_ON()s on the other end     *)
(* hold when it gets there.                                                *)
(***************************************************************************)
PeersMatch(x) ==
  LET r == << chn[x].dom, chn[x].port >>
  IN r \in Chans /\ chn[r].state = "interdomain" /\ << chn[r].dom, chn[r].port >> = x

PeersAgree ==
  /\ \A x \in Chans : chn[x].state = "interdomain" => PeersMatch(x)
  /\ \A t \in Threads : At(t, "peer") => /\ chn[This(t)].state = "interdomain"
                                         /\ chn[This(t)].dom = th[t].e

(***************************************************************************)
(* Binds and closes between the same domains do not wait for each other:   *)
(* a thread that waits for an event_lock holds none but that of a domain   *)
(* with a smaller address, also after evtchn_close() has dropped its lock, *)
(* taken the other domain's and come back.                                 *)
(***************************************************************************)
WaitsFor(t) ==
  CASE At(t, "second") -> Second(th[t].d, th[t].e)
    [] th[t].pc \in {"closelock", "relock"} -> th[t].e
    [] th[t].pc = "close" -> th[t].d
    [] OTHER -> 0

LocksAscend ==
  \A t \in Threads, d \in Domains : elock[d] = t /\ WaitsFor(t) # 0 => d < WaitsFor(t)

(***************************************************************************)
(* A sender that found the port to raise still has the right one when it   *)
(* raises the event, though it locks neither that port nor its domain: the *)
(* other end of its channel, or the IPI port itself.                       *)
(***************************************************************************)
SendReachesPeer ==
  \A t \in Threads :
    At(t, "send") => \/ /\ chn[This(t)].state = "interdomain"
                        /\ Other(t) = << chn[This(t)].dom, chn[This(t)].port >>
                        /\ chn[Other(t)].state = "interdomain"
                     \/ chn[This(t)].state = "ipi" /\ Other(t) = This(t)

(***************************************************************************)
(* A VIRQ in flight hits a port bound to that VIRQ, and is not dropped by  *)
(* evtchn_read_trylock(): nobody writes the port while virq_lock is held   *)
(* and virq_to_evtchn names it.                                            *)
(***************************************************************************)
VirqReachesPort ==
  \A t \in Threads :
    At(t, "virq") => /\ chn[This(t)].state = "virq" /\ chn[This(t)].irq = th[t].q
                     /\ ~Writing(This(t))

(***************************************************************************)
(* A free port is never pending: evtchn_free() clears the bit and no late  *)
(* sender sets it again, so a new binding starts without an old event.     *)
(***************************************************************************)
FreeNotPending == \A x \in pend : chn[x].state # "free"

(***************************************************************************)
(* active_evtchns and xen_evtchns count the ports in use and those Xen     *)
(* attached to, a port that is being bound included, and no other port has *)
(* an event pending.  When evtchn_destroy() is done no port is in use, its *)
(* ASSERT(), nor ever again, whatever binding was under way when the       *)
(* domain began to die and was still adding buckets; and no other domain   *)
(* is connected to it.                                                     *)
(***************************************************************************)
Used(d) == {p \in Ports : chn[<<d, p>>].state # "free"}
        \cup {th[t].p : t \in {u \in Threads : th[u].pc \in {"bind", "connect"} /\ th[u].d = d}}

PortsAccounted ==
  /\ FreeNotPending
  /\ \A d \in Domains :
       /\ active[d] = Cardinality(Used(d))
       /\ xenact[d] = Cardinality({p \in Ports : chn[<<d, p>>].xen})
  /\ \A d \in gone :
       /\ active[d] = 0
       /\ \A x \in Chans : /\ x[1] = d => chn[x].state = "free"
                           /\ ~(chn[x].state = "interdomain" /\ chn[x].dom = d)

(***************************************************************************)
(* virq_to_evtchn and pirq->evtchn name exactly the ports bound to the     *)
(* interrupt, but for a bind or a close that holds the event_lock (the     *)
(* ASSERT() in evtchn_close()); and no interrupt has two ports.            *)
(***************************************************************************)
IrqVcpu(c) == IF c.irq \in VcpuVirqs THEN c.vcpu ELSE 0

BusyWith(x) == \E t \in Threads : th[t].pc \in {"bind", "virqmap", "freeing"} /\ This(t) = x

MapsExact ==
  \A x \in Chans :
    LET c == chn[x]
    IN /\ c.state = "virq" /\ ~BusyWith(x) => virqmap[<<x[1], IrqVcpu(c), c.irq>>] = x[2]
       /\ c.state = "pirq" /\ ~BusyWith(x) => pirqport[<<x[1], c.irq>>] = x[2]
       /\ \A v \in Vcpus, q \in Virqs :
            virqmap[<<x[1], v, q>>] = x[2] =>
              c.state = "virq" /\ c.irq = q /\ IrqVcpu(c) = v
       /\ \A q \in Pirqs :
            pirqport[<<x[1], q>>] = x[2] =>
              (c.state = "pirq" /\ c.irq = q) \/ (c.state = "free" /\ BusyWith(x))

(***************************************************************************)
(* From pirq_evtchn_head, next_port visits exactly the PIRQ ports whose    *)
(* events go to that vCPU, as evtchn_move_pirqs() expects; prev_port is    *)
(* the way back.  A port taken off the list to be freed is not on it.      *)
(***************************************************************************)
OnList(d, v) ==
  {p \in Ports : /\ chn[<<d, p>>].state = "pirq" /\ chn[<<d, p>>].vcpu = v
                 /\ ~\E t \in Threads : At(t, "freeing") /\ This(t) = <<d, p>>}

Walk(d, v) ==
  LET w[n \in 0..NPorts] ==
        IF n = 0 THEN head[<<d, v>>]
        ELSE IF w[n - 1] = 0 THEN 0 ELSE link[<<d, w[n - 1]>>].next
  IN w

ListsExact ==
  \A d \in Domains, v \in Vcpus :
    LET w == Walk(d, v)
    IN /\ w[NPorts] = 0
       /\ {w[n] : n \in 0..NPorts} \ {0} = OnList(d, v)
       /\ \A n \in 0..NPorts : w[n] # 0 =>
            link[<<d, w[n]>>].prev = IF n = 0 THEN 0 ELSE w[n - 1]

(***************************************************************************)
(* A global VIRQ has ports in one domain at most, the one that handles it, *)
(* though binding looks at global_virq_handlers without its lock: a new    *)
(* handler is set only while nobody can bind in the old one.  A domain is  *)
(* referenced as often as it is a handler, but for hardware_domain, and a  *)
(* destroyed one handles nothing: clear_global_virq_handlers() comes after *)
(* every way to make it a handler.                                         *)
(***************************************************************************)
Bindings(q) ==
  {x \in Chans : chn[x].state = "virq" /\ chn[x].irq = q}
    \cup {This(t) : t \in {u \in Threads : /\ th[u].pc \in {"bind", "virqmap"}
                                          /\ th[u].kind = "global" /\ th[u].q = q}}

HandlersExact ==
  /\ \A q \in GlobalVirqs, x \in Chans :
       x \in Bindings(q) => get_global_virq_handler(q) = x[1] /\ Bindings(q) = {x}
  /\ \A d \in Domains \ {use.hwdom} :
       /\ refs[d] = Cardinality({q \in GlobalVirqs : handler[q] = d})
       /\ d \in gone => refs[d] = 0

(***************************************************************************)
(* The types, and what finds the port of an interrupt and the PIRQ ports   *)
(* of a vCPU, stay exact through binds that fail, closes, moves and        *)
(* resets.                                                                 *)
(***************************************************************************)
IrqMapsExact == TypeOK /\ MapsExact /\ ListsExact

(***************************************************************************)
(* evtchn_reset() switches the ABI only when the guest has no port left:   *)
(* what remains belongs to Xen.  Its loop may end early, when a port of    *)
(* Xen is closed between the two reads of has_active_evtchns().            *)
(***************************************************************************)
ResetClears ==
  [][\A d \in fifo \ fifo' : \A p \in Ports : chn[<<d, p>>].state # "free" => chn[<<d, p>>].xen]_vars
=============================================================================
