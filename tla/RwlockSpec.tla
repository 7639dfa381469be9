----------------------------- MODULE RwlockSpec -----------------------------
(***************************************************************************)
(* What the read-write lock of xen/include/xen/rwlock.h promises: one      *)
(* writer, or any number of readers.  The writer may also take and drop    *)
(* read locks, and may give up the write lock while it keeps them.         *)
(***************************************************************************)
EXTENDS Naturals

CONSTANT CPUs

VARIABLES
  writers,   \* the CPUs that hold the lock for writing
  readers    \* readers[c]: how many times CPU c holds it for reading

Init == writers = {} /\ readers = [c \in CPUs |-> 0]

ReadAcquire(c) ==
  /\ writers \subseteq {c}
  /\ readers' = [readers EXCEPT ![c] = @ + 1]
  /\ UNCHANGED writers

ReadRelease(c) ==
  /\ readers[c] > 0
  /\ readers' = [readers EXCEPT ![c] = @ - 1]
  /\ UNCHANGED writers

WriteAcquire(c) ==
  /\ writers = {}
  /\ \A b \in CPUs : readers[b] = 0
  /\ writers' = {c}
  /\ UNCHANGED readers

WriteRelease(c) ==
  /\ writers = {c}
  /\ writers' = {}
  /\ UNCHANGED readers

Next == \E c \in CPUs : \/ ReadAcquire(c) \/ ReadRelease(c)
                        \/ WriteAcquire(c) \/ WriteRelease(c)

Spec == Init /\ [][Next]_<<writers, readers>>

=============================================================================
