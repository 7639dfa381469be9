----------------------------- MODULE MCSpinlock -----------------------------
(***************************************************************************)
(* Three CPUs and four tickets: a full queue is one short of wrapping onto *)
(* itself, and head and tail wrap many times in a run.                     *)
(***************************************************************************)
EXTENDS Spinlock

=============================================================================
