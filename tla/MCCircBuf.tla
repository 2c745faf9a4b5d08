------------------------------ MODULE MCCircBuf ------------------------------
(* Small rings for TLC: lengths up to MaxLength, two distinct payloads.  Four *)
(* cells of two bytes make memset clear half of the buffer, so that zeroed    *)
(* and unwritten cells both exist.                                            *)
EXTENDS CircBuf
=============================================================================
