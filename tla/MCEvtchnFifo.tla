---------------------------- MODULE MCEvtchnFifo ----------------------------
(***************************************************************************)
(* Instances of module EvtchnFifo for TLC.  Contexts are interchangeable.  *)
(* All words exist with two pages, only that of port 1 with one.           *)
(***************************************************************************)
EXTENDS EvtchnFifo, TLC

CONSTANTS c1, c2

TwoContexts == {c1, c2}
Symmetry == Permutations(TwoContexts)

Workload(npages, vcpus, some) ==
  [pages |-> npages, blocks |-> vcpus,
   ops |-> [o \in Ops |-> IF o \in DOMAIN some THEN some[o] ELSE 0]]

Priorities == Workload(2, Vcpus, [send |-> 3, mask |-> 1, prio |-> 1])
LateBlock == Workload(2, {0}, [send |-> 3, vcpu |-> 1])
Array == Workload(1, Vcpus, [send |-> 2, mask |-> 1, poll |-> 1])
Clear == Workload(2, Vcpus, [send |-> 2, mask |-> 1, clear |-> 1])
Several == {Priorities, LateBlock, Array, Clear}

TwoSends == {Workload(1, Vcpus, [send |-> 2])}
Live == {Workload(2, Vcpus, [send |-> 3, prio |-> 1])}
=============================================================================
