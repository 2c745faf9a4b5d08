------------------------------- MODULE MCProb5 -------------------------------
(* One byte of disk, read one byte at a time, and two signals in all, of any  *)
(* kind, besides main's own: enough for a count and a print to be under way,  *)
(* and for a signal to be merged with another, to interrupt a thread or to be *)
(* left over, when SIGINT arrives.                                            *)
EXTENDS Prob5
=============================================================================
