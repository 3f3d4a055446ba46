--------------------------------- MODULE MCSeq ---------------------------------
(* Seq for TLC: two seqs, so that one thread's latch serves two registrations, *)
(* and two threads.  MaxNext = 3 gives out two values: two seqs that exist at   *)
(* once, a seq that changes, or one that is destroyed and created again.        *)
EXTENDS Seq, TLC
================================================================================
