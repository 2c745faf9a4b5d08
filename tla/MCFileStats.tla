----------------------------- MODULE MCFileStats -----------------------------
(* Files of up to 3 bytes read 2 at a time: the bytes of a file fit in one    *)
(* read, or are split by the buffer, or arrive between two reads.             *)
EXTENDS FileStats
=============================================================================
