------------------------------- MODULE MCRcu -------------------------------
(***************************************************************************)
(* Instances of Rcu for TLC.  c1 is the CPU that plugs, c2 the one that    *)
(* comes and goes.                                                         *)
(***************************************************************************)
EXTENDS Rcu

CONSTANTS c1, c2, c3, h1, h2

ThreeCPUs == {c1, c2, c3}
TwoCPUs == {c1, c2}
TwoCallbacks == {h1, h2}

Nobody ==
  [cpus |-> TwoCPUs, callbacks |-> {h1}, callers |-> ThreeCPUs, readers |-> {},
   idlers |-> {}, barriers |-> {}, plugger |-> NoCPU, target |-> c2, plugs |-> 0]

Several ==
  { [Nobody EXCEPT !.cpus = ThreeCPUs, !.callers = {c1}, !.readers = {c2}, !.idlers = {c3}],
    [Nobody EXCEPT !.readers = {c2}, !.idlers = TwoCPUs],
    [Nobody EXCEPT !.readers = {c2}, !.callbacks = TwoCallbacks],
    [Nobody EXCEPT !.barriers = TwoCPUs, !.callbacks = {}],
    [Nobody EXCEPT !.barriers = {c1}, !.idlers = {c2}, !.callbacks = {}],
    [Nobody EXCEPT !.plugger = c1, !.plugs = 2, !.callers = {c2}],
    [Nobody EXCEPT !.plugger = c1, !.plugs = 2, !.readers = {c2}, !.callbacks = {}],
    [Nobody EXCEPT !.plugger = c1, !.plugs = 1, !.barriers = {c2}, !.callbacks = {}] }
=============================================================================
