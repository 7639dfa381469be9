---------------------------- MODULE GrantTable ----------------------------
(***************************************************************************)
(* Grant tables (common/grant_table.c): one domain grants access to its    *)
(* frames; vCPUs of other domains map and unmap the grants and copy        *)
(* through them, while the granting guest, which shares the entries with   *)
(* Xen, grants and revokes them.                                           *)
(*                                                                         *)
(* A step is one access to a shared entry, one section under a lock, or a  *)
(* lock-free read or write of a maptrack entry.  Handles count from 1.     *)
(* They and references are numbers, because a maptrack entry keeps its     *)
(* reference or the handle of the next free entry in the same field.       *)
(***************************************************************************)
EXTENDS Integers, Sequences, FiniteSets, FiniteSetsExt

CONSTANTS
  Vcpus, Domains,  \* the mapping domains and their vCPUs
  Refs, Frames,    \* references are numbers
  Half,            \* the first pin count whose top bit is set: 128 in the code
  Tries,           \* how often _set_status_v1() tries its CMPXCHG: 5 in the code
  Workloads,       \* who does what, see Init
  Nothing

MAPTRACK_TAIL == 0  \* neither a handle nor a reference
Modes == {"host", "dev"}
Kinds == Modes \X BOOLEAN  \* the counters of act->pin: <<m, TRUE>> counts read-only uses

ASSUME GrantAssumption ==
  /\ Refs \subseteq Nat \ {MAPTRACK_TAIL}
  /\ Half \in Nat \ {0} /\ Tries \in Nat \ {0}
  /\ Nothing \notin Vcpus \cup Domains \cup Frames
  /\ \A x \in Workloads : x.perPage \in Nat \ {0, 1} /\ x.maxFrames \in Nat

VARIABLES
  w,        \* the workload, never changed
  version,  \* gt_version
  shared,   \* per reference, what the guest writes: type, domid, GTF_readonly, frame
  status,   \* per reference, what Xen writes: GTF_reading and GTF_writing.  In
            \* version 1 these are bits of the word the guest writes
  active,   \* per reference, struct active_grant_entry; lock says who holds it
  mt,       \* per domain, its maptrack entries, as many as maptrack_limit
  list,     \* per vCPU, maptrack_head and maptrack_tail
  refs,     \* per frame, the page references taken for grants
  iommu,    \* per domain and frame, its maptrack_tree node and the IOMMU's entry
  op,       \* per vCPU, the call it makes
  dying,    \* the domains being destroyed, and how far gnttab_release_mappings() is
  granted,  \* history: the grants their guest has not taken back
  left      \* how many calls and guest operations are still to come

vars == <<w, version, shared, status, active, mt, list, refs, iommu, op, dying, granted, left>>
xenVars == <<active, mt, list, refs, iommu, op, dying>>
guestVars == <<w, version, shared, granted, dying>>

Invalid == [type |-> "invalid", domid |-> Nothing, readonly |-> FALSE, frame |-> Nothing]
NoPin == [k \in Kinds |-> 0]
NoCall == [kind |-> "none", ref |-> MAPTRACK_TAIL, flags |-> {}, handle |-> MAPTRACK_TAIL]
Idle == [at |-> "idle", call |-> NoCall, h |-> MAPTRACK_TAIL, seen |-> Invalid, tries |-> 0,
         frame |-> Nothing, pg |-> FALSE, done |-> {}]

Init ==
  /\ w \in Workloads
  /\ version = w.version
  /\ shared = w.granted
  /\ granted = w.granted
  /\ status = [r \in Refs |-> {}]
  /\ active = [r \in Refs |-> [pin |-> NoPin, domid |-> Nothing, frame |-> Nothing,
                               sub_page |-> FALSE, lock |-> Nothing]]
  /\ mt = [d \in Domains |-> <<>>]
  /\ list = [v \in Vcpus |-> [head |-> MAPTRACK_TAIL, tail |-> MAPTRACK_TAIL]]
  /\ refs = [f \in Frames |-> 0]
  /\ iommu = [d \in Domains |-> [f \in Frames |-> [rd |-> 0, wr |-> 0, perm |-> "none", lost |-> 0]]]
  /\ op = [v \in DOMAIN w.calls |-> Idle]
  /\ dying = [d \in Domains |-> -1]
  /\ left = [calls |-> w.left, guest |-> w.guest]

PerPage == w.perPage      \* MAPTRACK_PER_PAGE
MaxFrames == w.maxFrames  \* max_maptrack_frames
-----------------------------------------------------------------------------
(***************************************************************************)
(* Maptrack entries and their free lists.                                  *)
(***************************************************************************)
Dom(v) == w.domain[v]
Goto(v, at) == op' = [op EXCEPT ![v].at = at]

AvailableLast(u) == list[u].head

\* What _get_maptrack_handle() returns for u's list, MAPTRACK_TAIL standing for
\* INVALID_MAPTRACK_HANDLE: the head, unless it is the last entry.
Available(u) ==
  LET head == list[u].head
  IN  IF head = MAPTRACK_TAIL \/ mt[Dom(u)][head].ref = MAPTRACK_TAIL THEN MAPTRACK_TAIL ELSE head

_get_maptrack_handle(u) == list' = [list EXCEPT ![u].head = mt[Dom(u)][@].ref]

\* map_grant_ref() up to the vCPU's own list.  A domain with external paging
\* makes no device mappings.
MapBegin(v, c) ==
  /\ op[v].at = "idle" /\ c \in w.calls[v] /\ c.kind = "map"
  /\ left.calls[v] > 0 /\ dying[Dom(v)] = -1
  /\ ~ (w.external /\ "dev" \in c.flags)
  /\ left' = [left EXCEPT !.calls[v] = @ - 1]
  /\ IF Available(v) # MAPTRACK_TAIL
       THEN /\ _get_maptrack_handle(v)
            /\ op' = [op EXCEPT ![v] = [Idle EXCEPT !.at = "lock", !.call = c, !.h = Available(v)]]
       ELSE /\ op' = [op EXCEPT ![v] = [Idle EXCEPT !.at = "grow", !.call = c]]
            /\ UNCHANGED list
  /\ UNCHANGED <<guestVars, status, active, mt, refs, iommu>>

\* get_maptrack_handle() under maptrack_lock: a new page, unless there are
\* max_maptrack_frames or no memory is left.
Grow(v) ==
  LET d == Dom(v)
      n == Len(mt[d])
  IN  /\ op[v].at = "grow"
      /\ \/ /\ n < MaxFrames * PerPage
            /\ mt' = [mt EXCEPT ![d] =
                        @ \o [i \in 1 .. PerPage |-> [ref |-> n + i + 1, flags |-> {}, vcpu |-> v]]]
            /\ list' = [list EXCEPT ![v].tail = IF @ = MAPTRACK_TAIL THEN n + PerPage ELSE @]
            /\ op' = [op EXCEPT ![v].at = "link", ![v].h = n + 1]
         \/ /\ Goto(v, IF list[v].tail = MAPTRACK_TAIL THEN "sentinel" ELSE "steal")
            /\ UNCHANGED <<mt, list>>
      /\ UNCHANGED <<guestVars, status, active, refs, iommu, left>>

\* The rest of the new page goes to the head of the free list.
GrowLink(v) ==
  LET h == op[v].h
  IN  /\ op[v].at = "link"
      /\ mt' = [mt EXCEPT ![Dom(v)][h + PerPage - 1].ref = list[v].head]
      /\ list' = [list EXCEPT ![v].head = h + 1]
      /\ Goto(v, "lock")
      /\ UNCHANGED <<guestVars, status, active, refs, iommu, left>>

\* steal_maptrack_handle(): the vCPUs are tried one after the other, from a random
\* one on.  When none has an entry to spare the call ends.
steal_maptrack_handle(v, at, next) ==
  LET d == Dom(v)
      victims == {u \in Vcpus : Dom(u) = d}
  IN  /\ op[v].at = at
      /\ \/ \E u \in victims :
              /\ Available(u) # MAPTRACK_TAIL
              /\ _get_maptrack_handle(u)
              /\ mt' = [mt EXCEPT ![d][Available(u)].vcpu = v]
              /\ op' = [op EXCEPT ![v].at = next, ![v].h = Available(u)]
         \/ /\ \A u \in victims : Available(u) = MAPTRACK_TAIL
            /\ op' = [op EXCEPT ![v] = Idle]
            /\ UNCHANGED <<mt, list>>
      /\ UNCHANGED <<guestVars, status, active, refs, iommu, left>>

\* An extra entry for a vCPU whose list was never initialised.
KeepSentinel(v) ==
  LET h == op[v].h
  IN  /\ op[v].at = "keep"
      /\ mt' = [mt EXCEPT ![Dom(v)][h].ref = MAPTRACK_TAIL]
      /\ list' = [list EXCEPT ![v].tail = h, ![v].head = IF @ = MAPTRACK_TAIL THEN h ELSE @]
      /\ op' = [op EXCEPT ![v].at = "steal", ![v].h = MAPTRACK_TAIL]
      /\ UNCHANGED <<guestVars, status, active, refs, iommu, left>>

\* put_maptrack_handle(), before and under the freelist lock of the entry's vCPU.
PutTail(v) ==
  /\ op[v].at = "put"
  /\ mt' = [mt EXCEPT ![Dom(v)][op[v].h].ref = MAPTRACK_TAIL]
  /\ Goto(v, "putlink")
  /\ UNCHANGED <<guestVars, status, active, list, refs, iommu, left>>

PutLink(v) ==
  LET h == op[v].h
      u == mt[Dom(v)][h].vcpu
  IN  /\ op[v].at = "putlink"
      /\ list' = [list EXCEPT ![u].tail = h]
      /\ mt' = [mt EXCEPT ![Dom(v)][list[u].tail].ref = h]
      /\ op' = [op EXCEPT ![v] = IF @.call.kind = "map" THEN Idle
                                 ELSE [@ EXCEPT !.at = IF w.external THEN "complete" ELSE "iommu",
                                                !.h = MAPTRACK_TAIL]]
      /\ UNCHANGED <<guestVars, status, active, refs, iommu, left>>
-----------------------------------------------------------------------------
(***************************************************************************)
(* Pins and status flags.                                                  *)
(***************************************************************************)
Readonly(c) == "readonly" \in c.flags
\* pin_incr
Incr(flags) == {<<m, "readonly" \in flags>> : m \in flags \cap Modes}

Pinned(pin) == \E k \in Kinds : pin[k] > 0
WritePinned(pin) == \E m \in Modes : pin[<<m, FALSE>>] > 0
Plus(pin, ks) == [k \in Kinds |-> IF k \in ks THEN pin[k] + 1 ELSE pin[k]]
Minus(pin, ks) == [k \in Kinds |-> IF k \in ks THEN pin[k] - 1 ELSE pin[k]]

ReduceIgnoresWriters(st, pin, readonly) ==
  st \ ((IF Pinned(pin) THEN {} ELSE {"reading"}) \cup (IF readonly THEN {} ELSE {"writing"}))

reduce_status_for_pin(st, pin, readonly) ==
  st \ ((IF Pinned(pin) THEN {} ELSE {"reading"})
        \cup (IF readonly \/ WritePinned(pin) THEN {} ELSE {"writing"}))

\* Pins dropped under the active entry's lock, which is taken and released.
Unpin(r, ks, readonly) ==
  LET pin == Minus(active[r].pin, ks)
  IN  /\ active[r].lock = Nothing
      /\ active' = [active EXCEPT ![r].pin = pin]
      /\ status' = [status EXCEPT ![r] = reduce_status_for_pin(@, pin, readonly)]

\* What the call may use: mappings cover whole pages only.
Permits(c, v, s) ==
  /\ s.type \in (IF c.kind = "map" THEN {"permit"} ELSE {"permit", "sub_page"})
  /\ s.domid = Dom(v)

\* A mapping that is refused gives its handle back.
Refuse(v) ==
  op' = [op EXCEPT ![v] = IF @.call.kind = "map"
                            THEN [@ EXCEPT !.at = "put", !.seen = Invalid, !.tries = 0] ELSE Idle]

ReleaseAndRefuse(v, r) == Refuse(v) /\ active' = [active EXCEPT ![r].lock = Nothing]

CopyBegin(v, c) ==
  /\ op[v].at = "idle" /\ c \in w.calls[v] /\ c.kind = "copy"
  /\ left.calls[v] > 0 /\ dying[Dom(v)] = -1
  /\ left' = [left EXCEPT !.calls[v] = @ - 1]
  /\ op' = [op EXCEPT ![v] = [Idle EXCEPT !.at = "lock", !.call = c]]
  /\ UNCHANGED <<guestVars, status, active, mt, list, refs, iommu>>

\* map_grant_ref() and acquire_grant_for_copy(), from the active entry's lock to the
\* first look at the shared entry, if its status has to change.
Acquire(v) ==
  LET c == op[v].call
      r == c.ref
      a == active[r]
      busy == /\ Pinned(a.pin)
              /\ \/ a.domid # Dom(v)
                 \/ \E k \in Incr(c.flags) : a.pin[k] >= Half
                 \/ c.kind = "map" /\ a.sub_page
  IN  /\ op[v].at = "lock"
      /\ \/ r \notin Refs /\ Refuse(v) /\ UNCHANGED active
         \/ r \in Refs /\ a.lock = Nothing /\ busy /\ Refuse(v) /\ UNCHANGED active
         \/ /\ r \in Refs /\ a.lock = Nothing /\ ~ busy
            /\ active' = [active EXCEPT ![r].lock = v]
            /\ IF ~ Pinned(a.pin) \/ (~ Readonly(c) /\ ~ WritePinned(a.pin))
                 THEN op' = [op EXCEPT ![v].at = IF version = 1 THEN "cmpxchg" ELSE "set",
                                       ![v].seen = [shared[r] EXCEPT !.frame = status[r]]]
                 ELSE Goto(v, "pin")
      /\ UNCHANGED <<guestVars, status, mt, list, refs, iommu, left>>

\* _set_status_v1(): one turn of its loop.  The word compared holds the guest's
\* flags, the domid and Xen's two bits, not the frame.
_set_status_v1(v) ==
  LET c == op[v].call
      r == c.ref
      seen == op[v].seen
      word == [shared[r] EXCEPT !.frame = status[r]]
      bad == \/ ~ Pinned(active[r].pin) /\ ~ Permits(c, v, seen)
             \/ ~ Readonly(c) /\ seen.readonly
  IN  /\ op[v].at = "cmpxchg"
      /\ \/ /\ bad
            /\ ReleaseAndRefuse(v, r)
            /\ UNCHANGED status
         \/ /\ ~ bad /\ word = seen
            /\ status' = [status EXCEPT ![r] = @ \cup (IF Readonly(c) THEN {"reading"}
                                                       ELSE {"reading", "writing"})]
            /\ Goto(v, "pin")
            /\ UNCHANGED active
         \/ /\ ~ bad /\ word # seen
            /\ IF op[v].tries = Tries - 1
                 THEN ReleaseAndRefuse(v, r)
                 ELSE /\ op' = [op EXCEPT ![v].seen = word, ![v].tries = @ + 1]
                      /\ UNCHANGED active
            /\ UNCHANGED status
      /\ UNCHANGED <<guestVars, mt, list, refs, iommu, left>>

\* _set_status_v2(): the status is set first, then the entry is looked at again.
SetStatusV2(v) ==
  LET c == op[v].call
      r == c.ref
      bad == \/ ~ Pinned(active[r].pin) /\ ~ Permits(c, v, op[v].seen)
             \/ ~ Readonly(c) /\ op[v].seen.readonly
  IN  /\ op[v].at = "set"
      /\ IF bad
           THEN ReleaseAndRefuse(v, r) /\ UNCHANGED status
           ELSE /\ status' = [status EXCEPT ![r] = @ \cup (IF Readonly(c) THEN {"reading"}
                                                           ELSE {"reading", "writing"})]
                /\ Goto(v, "recheck")
                /\ UNCHANGED active
      /\ UNCHANGED <<guestVars, mt, list, refs, iommu, left>>

RecheckSkipped(v) ==
  /\ op[v].at = "recheck" /\ Goto(v, "pin")
  /\ UNCHANGED <<guestVars, status, active, mt, list, refs, iommu, left>>

RecheckV2(v) ==
  LET c == op[v].call
      r == c.ref
      pinned == Pinned(active[r].pin)
      bad == \/ ~ pinned /\ ~ Permits(c, v, shared[r])
             \/ ~ Readonly(c) /\ shared[r].readonly
  IN  /\ op[v].at = "recheck"
      /\ IF bad
           THEN /\ status' = [status EXCEPT ![r] = IF pinned THEN @ \ {"writing"} ELSE {}]
                /\ ReleaseAndRefuse(v, r)
           ELSE Goto(v, "pin") /\ UNCHANGED <<status, active>>
      /\ UNCHANGED <<guestVars, mt, list, refs, iommu, left>>

\* map_grant_ref() from the frame to the lock's release.  get_paged_frame(), called
\* for an entry not pinned yet, takes a page reference, or fails.
MapPin(v) ==
  LET c == op[v].call
      r == c.ref
      a == active[r]
      f == IF Pinned(a.pin) THEN a.frame ELSE shared[r].frame
  IN  /\ op[v].at = "pin" /\ c.kind = "map"
      /\ \/ /\ active' = [active EXCEPT ![r].pin = Plus(@, Incr(c.flags)), ![r].lock = Nothing,
                                        ![r].domid = Dom(v), ![r].frame = f,
                                        ![r].sub_page = Pinned(a.pin) /\ @]
            /\ refs' = [refs EXCEPT ![f] = IF Pinned(a.pin) THEN @ ELSE @ + 1]
            /\ op' = [op EXCEPT ![v].at = "host", ![v].frame = f, ![v].seen = Invalid, ![v].tries = 0,
                                ![v].pg = ~ Pinned(a.pin)]
            /\ UNCHANGED status
         \/ /\ ~ Pinned(a.pin)
            /\ status' = [status EXCEPT ![r] = reduce_status_for_pin(@, a.pin, Readonly(c))]
            /\ ReleaseAndRefuse(v, r)
            /\ UNCHANGED refs
      /\ UNCHANGED <<guestVars, mt, list, iommu, left>>

\* acquire_grant_for_copy() from the frame on.  It takes a page reference each time;
\* for an entry already pinned that fails if the owner is dying.
CopyPin(v) ==
  LET c == op[v].call
      r == c.ref
      a == active[r]
      f == IF Pinned(a.pin) THEN a.frame ELSE shared[r].frame
  IN  /\ op[v].at = "pin" /\ c.kind = "copy"
      /\ \/ /\ active' = [active EXCEPT ![r].pin = Plus(@, Incr(c.flags)), ![r].lock = Nothing,
                                        ![r].domid = Dom(v), ![r].frame = f,
                                        ![r].sub_page = IF Pinned(a.pin) THEN @
                                                        ELSE version = 2 /\ shared[r].type = "sub_page"]
            /\ refs' = [refs EXCEPT ![f] = @ + 1]
            /\ op' = [op EXCEPT ![v].at = "copy", ![v].frame = f, ![v].seen = Invalid, ![v].tries = 0]
            /\ UNCHANGED status
         \/ /\ status' = [status EXCEPT ![r] = reduce_status_for_pin(@, a.pin, Readonly(c))]
            /\ ReleaseAndRefuse(v, r)
            /\ UNCHANGED refs
      /\ UNCHANGED <<guestVars, mt, list, iommu, left>>

\* gnttab_copy_release_buf(), after the copy.
release_grant_for_copy(v) ==
  LET c == op[v].call
  IN  /\ op[v].at = "copy"
      /\ Unpin(c.ref, Incr(c.flags), Readonly(c))
      /\ refs' = [refs EXCEPT ![op[v].frame] = @ - 1]
      /\ op' = [op EXCEPT ![v] = Idle]
      /\ UNCHANGED <<guestVars, mt, list, iommu, left>>
-----------------------------------------------------------------------------
(***************************************************************************)
(* The rest of map_grant_ref(), without locks of the granter.              *)
(***************************************************************************)
\* Page references, one for each of the host and the device mapping, and the host
\* mapping.  What fails gives all references back.
HostMap(v) ==
  LET f == op[v].frame
      have == IF op[v].pg THEN 1 ELSE 0
  IN  /\ op[v].at = "host"
      /\ \/ /\ refs' = [refs EXCEPT ![f] = @ - have + Cardinality(op[v].call.flags \cap Modes)]
            /\ op' = [op EXCEPT ![v].at = IF w.external THEN "ref" ELSE "tree", ![v].pg = FALSE]
         \/ /\ refs' = [refs EXCEPT ![f] = @ - have]
            /\ op' = [op EXCEPT ![v].at = "undo", ![v].pg = FALSE]
      /\ UNCHANGED <<guestVars, status, active, mt, list, iommu, left>>

MapKindIgnoresReaders(node, readonly) == IF readonly THEN "r" ELSE "rw"

\* The IOMMU entry a new mapping needs, if it needs one.
MapKind(node, readonly) ==
  IF ~ readonly /\ node.wr = 0 THEN "rw"
  ELSE IF readonly /\ node.rd = 0 /\ node.wr = 0 THEN "r" ELSE "none"

\* The count of mappings in maptrack_tree, under the write lock of the mapper's
\* table.  Inserting a node and changing the IOMMU may fail.
IommuMap(v) ==
  LET d == Dom(v)
      f == op[v].frame
      ro == Readonly(op[v].call)
      kind == MapKind(iommu[d][f], ro)
  IN  /\ op[v].at = "tree"
      /\ \/ /\ iommu' = [iommu EXCEPT ![d][f] =
                           [@ EXCEPT !.rd = IF ro THEN @ + 1 ELSE @, !.wr = IF ro THEN @ ELSE @ + 1,
                                     !.perm = IF kind = "none" THEN @ ELSE kind]]
            /\ Goto(v, "ref")
            /\ UNCHANGED refs
         \/ /\ kind # "none"
            /\ refs' = [refs EXCEPT ![f] = @ - Cardinality(op[v].call.flags \cap Modes)]
            /\ Goto(v, "undo")
            /\ UNCHANGED iommu
      /\ UNCHANGED <<guestVars, status, active, mt, list, left>>

\* The entry is filled in without a lock, its flags last.
Publish(v) ==
  LET c == op[v].call
  IN  /\ \/ /\ op[v].at = "ref"
            /\ mt' = [mt EXCEPT ![Dom(v)][op[v].h].ref = c.ref]
            /\ Goto(v, "flags")
         \/ /\ op[v].at = "flags"
            /\ mt' = [mt EXCEPT ![Dom(v)][op[v].h].flags = c.flags]
            /\ op' = [op EXCEPT ![v] = Idle]
      /\ UNCHANGED <<guestVars, status, active, list, refs, iommu, left>>

\* undo_out
MapUndo(v) ==
  LET c == op[v].call
  IN  /\ op[v].at = "undo"
      /\ Unpin(c.ref, Incr(c.flags), Readonly(c))
      /\ Goto(v, "put")
      /\ UNCHANGED <<guestVars, mt, list, refs, iommu, left>>
-----------------------------------------------------------------------------
(***************************************************************************)
(* unmap_common() and unmap_common_complete().                             *)
(***************************************************************************)
\* The first look at the entry, without a lock.
UnmapBegin(v, c) ==
  /\ op[v].at = "idle" /\ c \in w.calls[v] /\ c.kind = "unmap"
  /\ left.calls[v] > 0 /\ dying[Dom(v)] = -1
  /\ left' = [left EXCEPT !.calls[v] = @ - 1]
  /\ c.handle <= Len(mt[Dom(v)]) /\ mt[Dom(v)][c.handle].flags # {}
  /\ op' = [op EXCEPT ![v] = [Idle EXCEPT !.at = "read", !.call = c]]
  /\ UNCHANGED <<guestVars, status, active, mt, list, refs, iommu>>

\* The reference is read with the granter's table locked: it need not be one.
UnmapRead(v) ==
  LET ref == mt[Dom(v)][op[v].call.handle].ref
  IN  /\ op[v].at = "read"
      /\ op' = [op EXCEPT ![v] = IF ref \in Refs THEN [@ EXCEPT !.at = "act", !.call.ref = ref]
                                 ELSE Idle]
      /\ UNCHANGED <<guestVars, status, active, mt, list, refs, iommu, left>>

\* The flags are read again with the active entry locked.
UnmapLock(v) ==
  LET c == op[v].call
  IN  /\ op[v].at = "act" /\ active[c.ref].lock = Nothing
      /\ active' = [active EXCEPT ![c.ref].lock = v]
      /\ op' = [op EXCEPT ![v].at = "clear", ![v].done = mt[Dom(v)][c.handle].flags]
      /\ UNCHANGED <<guestVars, status, mt, list, refs, iommu, left>>


\* Whether this is still the mapping looked at.
StillMapped(v) ==
  op[v].done # {} /\ mt[Dom(v)][op[v].call.handle].ref = op[v].call.ref

\* The mappings the call names go.  replace_grant_host_mapping() and the check of the
\* bus address may fail.
UnmapClear(v) ==
  LET c == op[v].call
      d == Dom(v)
      flags == op[v].done
      done == flags \cap c.flags
      rest == mt[d][c.handle].flags \ done
  IN  /\ op[v].at = "clear"
      /\ active' = [active EXCEPT ![c.ref].lock = Nothing]
      /\ \/ /\ StillMapped(v) /\ done # {}
            /\ mt' = [mt EXCEPT ![d][c.handle].flags = IF rest \cap Modes = {} THEN {} ELSE rest]
            /\ op' = [op EXCEPT ![v].at = IF rest \cap Modes = {} THEN "put" ELSE "complete",
                                ![v].h = IF rest \cap Modes = {} THEN c.handle ELSE MAPTRACK_TAIL,
                                ![v].frame = active[c.ref].frame,
                                ![v].done = done \cup (flags \cap {"readonly"})]
         \/ op' = [op EXCEPT ![v] = Idle] /\ UNCHANGED mt
      /\ UNCHANGED <<guestVars, status, list, refs, iommu, left>>

\* Once the handle is back, maptrack_tree counts one mapping less, unless the IOMMU
\* fails to follow.
IommuUnmap(v) ==
  LET d == Dom(v)
      f == op[v].frame
      ro == "readonly" \in op[v].done
      node == [iommu[d][f] EXCEPT !.rd = IF ro THEN @ - 1 ELSE @, !.wr = IF ro THEN @ ELSE @ - 1]
      change == node.rd + node.wr = 0 \/ (~ ro /\ node.wr = 0)
  IN  /\ op[v].at = "iommu"
      /\ \/ iommu' = [iommu EXCEPT ![d][f] =
                        [node EXCEPT !.perm = IF ~ change THEN @
                                              ELSE IF node.rd = 0 THEN "none" ELSE "r"]]
         \/ change /\ iommu' = [iommu EXCEPT ![d][f].lost = @ + 1]
      /\ Goto(v, "complete")
      /\ UNCHANGED <<guestVars, status, active, mt, list, refs, left>>

CompletePutsOnce(v) ==
  LET ks == Incr(op[v].done)
  IN  /\ op[v].at = "complete"
      /\ Unpin(op[v].call.ref, ks, "readonly" \in op[v].done)
      /\ refs' = [refs EXCEPT ![op[v].frame] = @ - 1]
      /\ op' = [op EXCEPT ![v] = Idle]
      /\ UNCHANGED <<guestVars, mt, list, iommu, left>>

unmap_common_complete(v) ==
  LET ks == Incr(op[v].done)
  IN  /\ op[v].at = "complete"
      /\ Unpin(op[v].call.ref, ks, "readonly" \in op[v].done)
      /\ refs' = [refs EXCEPT ![op[v].frame] = @ - Cardinality(ks)]
      /\ op' = [op EXCEPT ![v] = Idle]
      /\ UNCHANGED <<guestVars, mt, list, iommu, left>>
-----------------------------------------------------------------------------
(***************************************************************************)
(* gnttab_release_mappings(), once the domain's vCPUs no longer run.       *)
(***************************************************************************)
\* dying[d] is the handle last dealt with.  Host mappings of a domain without
\* external paging go with its page tables, which are not modelled.
DomainDies(d) ==
  /\ w.dies /\ w.external /\ dying[d] = -1
  /\ \A v \in DOMAIN op : Dom(v) = d => op[v].at = "idle"
  /\ dying' = [dying EXCEPT ![d] = Len(mt[d]) + 1]
  /\ UNCHANGED <<w, version, shared, granted, status, active, mt, list, refs, iommu, op, left>>

gnttab_release_mappings(d) ==
  LET h == dying[d] - 1
      m == mt[d][h]
      ks == Incr(m.flags)
  IN  /\ dying[d] > 1
      /\ dying' = [dying EXCEPT ![d] = h]
      /\ IF m.flags \cap Modes = {}
           THEN UNCHANGED <<active, status, refs, mt>>
           ELSE /\ Unpin(m.ref, ks, "readonly" \in m.flags)
                /\ refs' = [refs EXCEPT ![active[m.ref].frame] = @ - Cardinality(ks)]
                /\ mt' = [mt EXCEPT ![d][h].flags = {}]
      /\ UNCHANGED <<w, version, shared, granted, list, iommu, op, left>>
-----------------------------------------------------------------------------
(***************************************************************************)
(* The granting guest.  It changes its entries as public/grant_table.h     *)
(* asks it to.                                                             *)
(***************************************************************************)
Guest(r, e) ==
  /\ left.guest > 0
  /\ left' = [left EXCEPT !.guest = @ - 1]
  /\ shared' = [shared EXCEPT ![r] = e]

\* The domid and the frame are written before the flags.
GuestGrant(r) ==
  /\ shared[r].type = "invalid" /\ granted[r] = Invalid
  /\ \E e \in w.grants : Guest(r, e) /\ granted' = [granted EXCEPT ![r] = e]
  /\ UNCHANGED <<xenVars, w, version, status>>

\* Version 1: the entry is unused when the CMPXCHG takes effect.
GuestRevokeV1(r) ==
  /\ version = 1 /\ shared[r].type # "invalid" /\ status[r] = {}
  /\ Guest(r, Invalid)
  /\ granted' = [granted EXCEPT ![r] = Invalid]
  /\ UNCHANGED <<xenVars, w, version, status>>

\* Version 2: the flags are cleared first, then the status is looked at until the
\* entry is unused.
GuestClearV2(r) ==
  /\ version = 2 /\ shared[r].type # "invalid"
  /\ Guest(r, [shared[r] EXCEPT !.type = "invalid", !.readonly = FALSE])
  /\ UNCHANGED <<xenVars, w, version, status, granted>>

GuestRevokedV2(r) ==
  /\ version = 2 /\ shared[r].type = "invalid" /\ granted[r] # Invalid
  /\ status[r] = {}
  /\ granted' = [granted EXCEPT ![r] = Invalid]
  /\ UNCHANGED <<xenVars, w, version, shared, status, left>>

\* GTF_readonly is set by a CMPXCHG that checks !GTF_writing, and cleared by an
\* atomic bit operation.
GuestReadonlyV1(r) ==
  /\ version = 1 /\ shared[r].type # "invalid"
  /\ shared[r].readonly \/ "writing" \notin status[r]
  /\ Guest(r, [shared[r] EXCEPT !.readonly = ~ @])
  /\ granted' = [granted EXCEPT ![r].readonly = ~ @]
  /\ UNCHANGED <<xenVars, w, version, status>>

\* grant_write_lock(): nobody is between grant_read_lock() and grant_read_unlock().
WriteLocked ==
  \A v \in DOMAIN op : op[v].at \notin {"act", "clear", "cmpxchg", "set", "recheck", "pin"}

\* Entries beyond the reserved ones: in use, they refuse the change; otherwise they
\* are cleared.
gnttab_set_version ==
  /\ w.hypercalls /\ left.guest > 0 /\ WriteLocked
  /\ \A r \in Refs : ~ Pinned(active[r].pin)
  /\ version' = 3 - version
  /\ shared' = [r \in Refs |-> Invalid]
  /\ granted' = [r \in Refs |-> Invalid]
  /\ status' = [r \in Refs |-> {}]
  /\ left' = [left EXCEPT !.guest = @ - 1]
  /\ UNCHANGED <<xenVars, w>>

swap_grant_ref(a, b) ==
  LET swap(f) == [f EXCEPT ![a] = f[b], ![b] = f[a]]
  IN  /\ w.hypercalls /\ left.guest > 0 /\ WriteLocked
      /\ a # b /\ ~ Pinned(active[a].pin) /\ ~ Pinned(active[b].pin)
      /\ shared' = swap(shared) /\ status' = swap(status) /\ granted' = swap(granted)
      /\ left' = [left EXCEPT !.guest = @ - 1]
      /\ UNCHANGED <<xenVars, w, version>>
-----------------------------------------------------------------------------
VcpuStep(v) ==
  \/ \E c \in w.calls[v] : MapBegin(v, c) \/ CopyBegin(v, c) \/ UnmapBegin(v, c)
  \/ Grow(v) \/ GrowLink(v) \/ KeepSentinel(v) \/ PutTail(v) \/ PutLink(v)
  \/ steal_maptrack_handle(v, "sentinel", "keep") \/ steal_maptrack_handle(v, "steal", "lock")
  \/ Acquire(v) \/ _set_status_v1(v) \/ SetStatusV2(v) \/ RecheckV2(v)
  \/ MapPin(v) \/ CopyPin(v) \/ release_grant_for_copy(v)
  \/ HostMap(v) \/ IommuMap(v) \/ Publish(v) \/ MapUndo(v)
  \/ UnmapRead(v) \/ UnmapLock(v) \/ UnmapClear(v) \/ IommuUnmap(v) \/ unmap_common_complete(v)

GuestStep ==
  \/ \E r \in Refs : \/ GuestGrant(r) \/ GuestRevokeV1(r) \/ GuestReadonlyV1(r)
                     \/ GuestClearV2(r) \/ GuestRevokedV2(r)
  \/ gnttab_set_version
  \/ \E a, b \in Refs : swap_grant_ref(a, b)

Next ==
  \/ \E v \in DOMAIN op : VcpuStep(v)
  \/ \E d \in Domains : DomainDies(d) \/ gnttab_release_mappings(d)
  \/ GuestStep

Spec == Init /\ [][Next]_vars
-----------------------------------------------------------------------------
\* What Xen has pinned its guest has granted and not taken back: the frame, the
\* domain and, in version 1, write access.  A revocation that succeeds (a CMPXCHG
\* in version 1, cleared flags and then a clear status in version 2) leaves no
\* mapping and no copy behind, whichever of map_grant_ref(), _set_status_v1(),
\* _set_status_v2() and acquire_grant_for_copy() it races with.
OnlyGranted ==
  \A r \in Refs : Pinned(active[r].pin) =>
    /\ granted[r].type # "invalid"
    /\ granted[r].domid = active[r].domid /\ granted[r].frame = active[r].frame
    /\ version = 1 /\ WritePinned(active[r].pin) => ~ granted[r].readonly

\* The mappings that are in place, as their maptrack entries say.
Mapped(d) == {h \in DOMAIN mt[d] : mt[d][h].flags # {}}
Holding(v, r) ==
  IF op[v].call.ref # r THEN {}
  ELSE IF op[v].at \in {"copy", "host", "tree", "ref", "flags", "undo"} THEN Incr(op[v].call.flags)
  ELSE IF op[v].at \in {"put", "putlink", "iommu", "complete"} THEN Incr(op[v].done)
  ELSE {}


\* While nobody holds the entry's lock, GTF_reading and GTF_writing say what act->pin
\* says: the guest is never told that an entry in use is free, nor left with an
\* entry it cannot revoke because a call that failed did not undo its mark.
StatusMatchesPins ==
  \A r \in Refs : active[r].lock = Nothing =>
    status[r] = (IF Pinned(active[r].pin) THEN {"reading"} ELSE {})
                \cup (IF WritePinned(active[r].pin) THEN {"writing"} ELSE {})

\* The entries of u's free list, from its head on.
FreeList(u) ==
  LET m == mt[Dom(u)]
      reach[n \in 0 .. Len(m)] ==
        IF n = 0 THEN {list[u].head} \ {MAPTRACK_TAIL}
        ELSE reach[n - 1] \cup ({m[h].ref : h \in reach[n - 1]} \ {MAPTRACK_TAIL})
  IN  reach[Len(m)]

\* Every maptrack entry is in one place: in the free list of one vCPU, in a mapping,
\* or with the vCPU that takes it or gives it back.  An entry goes to the list of the
\* vCPU that owns it, and that list has an end to add it to, although entries are
\* stolen, and freed on other vCPUs than they were taken on.
HandlesSound ==
  \A d \in Domains :
    LET mine == {v \in DOMAIN op : Dom(v) = d}
        held(v) == IF op[v].at = "link" THEN op[v].h .. op[v].h + PerPage - 1
                   ELSE {op[v].h} \ {MAPTRACK_TAIL}
        places == {FreeList(v) : v \in mine} \cup {held(v) : v \in mine} \cup {Mapped(d)}
    IN  dying[d] = -1 =>
          /\ UNION places = DOMAIN mt[d]
          /\ Len(mt[d]) = Cardinality(Mapped(d)) + MapThenSumSet(
                            LAMBDA v : Cardinality(FreeList(v)) + Cardinality(held(v)), mine)
          /\ \A v \in mine : list[v].head # MAPTRACK_TAIL =>
               /\ list[v].tail \in FreeList(v)
               /\ mt[d][list[v].tail].ref = MAPTRACK_TAIL \/ \E u \in mine : op[u].at = "putlink"
          /\ \A h \in Mapped(d) \cup UNION {held(v) : v \in mine} :
               list[mt[d][h].vcpu].tail # MAPTRACK_TAIL \/ \E u \in mine : op[u].at = "keep" /\ op[u].h = h

\* A frame has a page reference for each host and each device mapping of it, and one
\* for each copy: it is not freed while a mapping is left, and is not kept once the
\* last one is gone.
PagesCounted ==
  \A f \in Frames :
    refs[f] =
      MapThenSumSet(LAMBDA d :
        MapThenSumSet(LAMBDA h : IF active[mt[d][h].ref].frame = f
                                   THEN Cardinality(mt[d][h].flags \cap Modes) ELSE 0,
                      Mapped(d)), Domains)
      + MapThenSumSet(LAMBDA v :
          IF op[v].frame # f THEN 0
          ELSE IF op[v].at = "copy" \/ (op[v].at = "host" /\ op[v].pg) THEN 1
          ELSE IF op[v].at \in {"tree", "ref", "flags"} THEN Cardinality(op[v].call.flags \cap Modes)
          ELSE Cardinality(op[v].done \cap Modes),
        DOMAIN op)

\* The IOMMU lets a domain's devices reach the frames that domain has mapped, for
\* writing if one of the mappings is writable, and maptrack_tree counts the
\* mappings, whether or not a change of the IOMMU failed on the way.
IommuFollows ==
  \A d \in Domains, f \in Frames :
    LET node == iommu[d][f]
        maps(ro) ==
          Cardinality({h \in Mapped(d) : /\ active[mt[d][h].ref].frame = f
                                         /\ ("readonly" \in mt[d][h].flags) = ro})
          + Cardinality({v \in DOMAIN op : /\ Dom(v) = d /\ op[v].frame = f
                            /\ \/ op[v].at \in {"ref", "flags"} /\ Readonly(op[v].call) = ro
                               \/ /\ op[v].call.kind = "unmap" /\ op[v].at \in {"put", "putlink", "iommu"}
                                  /\ ("readonly" \in op[v].done) = ro})
    IN  ~ w.external =>
          /\ node.rd >= maps(TRUE) /\ node.wr >= maps(FALSE)
          /\ node.rd + node.wr = maps(TRUE) + maps(FALSE) + node.lost
          /\ node.perm = IF node.wr > 0 THEN "rw" ELSE IF node.rd > 0 THEN "r" ELSE "none"
=============================================================================
