------------------------------ MODULE RcuSpec ------------------------------
(***************************************************************************)
(* What RCU promises its users: a callback runs only after every read-side *)
(* critical section that was in progress when it was queued has ended.     *)
(* Sections that begin later are not waited for.                           *)
(***************************************************************************)
CONSTANTS CPUs, Callbacks

VARIABLES
  reading,  \* the CPUs in a read-side critical section
  called,   \* the callbacks queued so far
  invoked,  \* the callbacks that have run
  awaits    \* the sections, by CPU, that a queued callback has to wait for

vars == <<reading, called, invoked, awaits>>

Init ==
  /\ reading = {}
  /\ called = {}
  /\ invoked = {}
  /\ awaits = [h \in Callbacks |-> {}]

ReadLock(c) ==
  /\ c \notin reading
  /\ reading' = reading \cup {c}
  /\ UNCHANGED <<called, invoked, awaits>>

ReadUnlock(c) ==
  /\ c \in reading
  /\ reading' = reading \ {c}
  /\ awaits' = [h \in Callbacks |-> awaits[h] \ {c}]
  /\ UNCHANGED <<called, invoked>>

Call(h) ==
  /\ h \notin called
  /\ called' = called \cup {h}
  /\ awaits' = [awaits EXCEPT ![h] = reading]
  /\ UNCHANGED <<reading, invoked>>

\* The callbacks at the head of a CPU's list run one after another.
Invoke(H) ==
  /\ H \subseteq called \ invoked
  /\ \A h \in H : awaits[h] = {}
  /\ invoked' = invoked \cup H
  /\ UNCHANGED <<reading, called, awaits>>

Next ==
  \/ \E c \in CPUs : ReadLock(c) \/ ReadUnlock(c)
  \/ \E h \in Callbacks : Call(h)
  \/ \E H \in SUBSET Callbacks : Invoke(H)

Spec == Init /\ [][Next]_vars
=============================================================================
