---------------------------- MODULE MCEvtchnPort ----------------------------
(***************************************************************************)
(* An instance of EvtchnPort.  Threads t1 and t2 are interchangeable;      *)
(* domains and ports are not, as locks are taken in order and loops run    *)
(* over ports.                                                             *)
(***************************************************************************)
EXTENDS EvtchnPort, TLC

CONSTANTS t1, t2, t3

ThreeThreads == {t1, t2, t3}
Symmetry == Permutations({t1, t2})

Idlers == [threads |-> {t1, t2}, kinds |-> {}, max_evtchn_port |-> <<1, 1>>,
           vcpus |-> Vcpus, mortal |-> {}, resettable |-> {}, hwdom |-> 1]

(***************************************************************************)
(* Interdomain channels, one of whose domains is destroyed; that one may   *)
(* also have a channel to itself.  And channels to ports of Xen.           *)
(***************************************************************************)
Interdomain ==
  {[Idlers EXCEPT !.kinds = {"unbound"}, !.mortal = {2}, !.vcpus = {0}, !.max_evtchn_port = <<1, 2>>],
   [Idlers EXCEPT !.kinds = {"unbound", "xen"}, !.mortal = {2}, !.vcpus = {0}]}

(***************************************************************************)
(* A global VIRQ, with and without a hardware_domain; the handler may be   *)
(* destroyed.                                                              *)
(***************************************************************************)
Global ==
  {[Idlers EXCEPT !.kinds = {"global"}, !.mortal = {2}],
   [Idlers EXCEPT !.kinds = {"global"}, !.mortal = {2}, !.vcpus = {0}, !.hwdom = 0]}

(***************************************************************************)
(* One domain: VIRQs and IPIs until it is destroyed, with a second port or *)
(* a third thread, for the interrupts; PIRQs, whose ports are on lists of  *)
(* the vCPUs, with a third port or a second thread; and resets, with ports *)
(* of the guest and of Xen.                                                *)
(***************************************************************************)
OneDomain ==
  {[Idlers EXCEPT !.kinds = {"virq", "ipi"}, !.max_evtchn_port = <<2, 0>>, !.mortal = {1}],
   [Idlers EXCEPT !.kinds = {"virq", "ipi"}, !.max_evtchn_port = <<1, 0>>, !.mortal = {1},
                  !.threads = ThreeThreads],
   [Idlers EXCEPT !.kinds = {"pirq"}, !.max_evtchn_port = <<3, 0>>, !.threads = {t3}],
   [Idlers EXCEPT !.kinds = {"pirq"}, !.max_evtchn_port = <<2, 0>>],
   [Idlers EXCEPT !.kinds = {"ipi", "xen"}, !.max_evtchn_port = <<2, 0>>, !.vcpus = {0},
                  !.resettable = {1}]}

Several == Interdomain \cup Global \cup OneDomain
=============================================================================
