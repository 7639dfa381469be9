------------------------------ MODULE MCRwlock ------------------------------
(***************************************************************************)
(* Three CPUs: a writer, a CPU queued behind it and one that arrives by    *)
(* the fast path.  Each CPU may nest two read locks.                       *)
(***************************************************************************)
EXTENDS Rwlock

=============================================================================
