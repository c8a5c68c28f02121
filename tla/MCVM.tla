-------------------------------- MODULE MCVM --------------------------------
(* VM for TLC: two threads, which are alike. *)
EXTENDS VM, TLC

CONSTANTS t1, t2, m1

ThreadsAlike == Permutations(Thread)
=============================================================================
