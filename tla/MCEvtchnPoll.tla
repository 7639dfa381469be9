---------------------------- MODULE MCEvtchnPoll ----------------------------
(***************************************************************************)
(* Instances of EvtchnPoll for TLC.  Contexts are interchangeable.  The    *)
(* guest polls nothing, a port, or an array of two.                        *)
(***************************************************************************)
EXTENDS EvtchnPoll, TLC

CONSTANTS c1, c2

TwoContexts == {c1, c2}
OneContext == {c1}
Symmetry == Permutations(TwoContexts)
OnePort == {<<1>>}
TwoPorts == {<< >>, <<1>>, <<1, 2>>}
=============================================================================
