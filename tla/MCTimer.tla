------------------------------ MODULE MCTimer ------------------------------
(***************************************************************************)
(* Instances of Timer for TLC.                                             *)
(***************************************************************************)
EXTENDS Timer, TLC

CONSTANTS t1, t2, t3, t4, t5, t6, t7, p1, p2

SevenTimers == {t1, t2, t3, t4, t5, t6, t7}
TwoThreads == {p1, p2}
Symmetry == Permutations({t1, t2}) \cup Permutations(TwoThreads)

Two ==
  [cpus |-> CPUs, timers |-> {t1, t2}, threads |-> TwoThreads, kinds |-> {"set", "migrate"},
   times |-> {0, 1}, end |-> 2, calls |-> 3, plugs |-> 0, heap |-> <<>>, expires |-> <<>>]

\* All ways a heap of six can be ordered, with expiry times from 1 to 3; then one is
\* set anew or stopped, or a seventh is set.
Six == <<t1, t2, t3, t4, t5, t6>>
Expiries == {e \in [1 .. 6 -> 1 .. 3] : \A i \in 2 .. 6 : e[i \div 2] <= e[i]}
Heaps ==
  { [Two EXCEPT !.cpus = {0}, !.timers = SevenTimers, !.threads = {p1}, !.kinds = {"set", "stop"},
                !.times = 1 .. 3, !.end = 0, !.calls = 1, !.heap = Six,
                !.expires = [t \in ToSet(Six) |-> e[SelectInSeq(Six, LAMBDA x : x = t)]]]
    : e \in Expiries }

Several ==
  { Two,
    \* a heap that grows and overflows
    [Two EXCEPT !.cpus = {0}, !.timers = {t1, t2, t3}, !.threads = {p1}, !.kinds = {"set", "stop"},
                !.calls = 5, !.end = 1],
    \* a timer killed while it runs and moves, and used again
    [Two EXCEPT !.timers = {t1}, !.kinds = {"set", "migrate", "kill", "init"},
                !.times = {0}, !.end = 1, !.calls = 5],
    \* a CPU goes away and comes back
    [Two EXCEPT !.threads = {p1}, !.end = 1, !.plugs = 1] }
  \cup Heaps
=============================================================================
