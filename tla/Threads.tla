------------------------------ MODULE Threads ------------------------------
(* The native threads, which the parts of the glue that know threads share. *)

CONSTANT Thread
=============================================================================
