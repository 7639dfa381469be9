-------------------------- MODULE MCPercpuRwlock ---------------------------
(***************************************************************************)
(* Two locks that share the slots of three CPUs: the fallback path needs   *)
(* two locks, and a reader that is diverted while another one holds on     *)
(* needs three CPUs.                                                       *)
(***************************************************************************)
EXTENDS PercpuRwlock

CONSTANTS c1, c2, c3

ThreeCPUs == {c1, c2, c3}
MCReads == {<<c1, 1>>, <<c2, 1>>, <<c3, 1>>, <<c3, 2>>}
MCWrites == {<<c1, 1>>, <<c2, 1>>, <<c2, 2>>}
=============================================================================
