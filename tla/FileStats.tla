------------------------------ MODULE FileStats ------------------------------
(***************************************************************************)
(* The statistics of ex3prob5: main appends what it reads from stdin to a   *)
(* file, child 1 counts the file (get_file_info in child1.c), child 2 prints *)
(* the counts (print_file_stats), and a mutex guards file_stats_info.       *)
(*                                                                         *)
(* What wakes the children is left open here: a child may leave sem_wait at *)
(* any time.  Prob5 says when, and implements this module.                  *)
(***************************************************************************)
EXTENDS Integers, Sequences, FiniteSets

CONSTANTS
  Capacity,  \* bytes the file system has room for: a write beyond fails
  Chunk,     \* READ_BUF_SIZE, the most bytes one read() returns
  Letter, Space, Newline,
  EofByte    \* the byte main writes when getchar() returned EOF; a user may
             \* type it too, so it may be Letter

ASSUME FileStatsAssumption ==
  /\ Capacity \in Nat /\ Chunk \in Nat \ {0}
  /\ Space # Newline /\ Letter \notin {Space, Newline}
  /\ EofByte \notin {Space, Newline}

VARIABLES
  file,     \* the bytes of the file
  fdOk,     \* whether child 1's open() succeeds: its result is not checked
  offset,   \* of child 1's descriptor
  stats,    \* file_stats_info
  owner,    \* the child that holds file_stats_mutex, or "none"
  pc1, pc2, \* where child 1 and child 2 are
  printed,  \* the last counts child 2 printed
  last      \* history: the counts of the last get_file_info that ended

statsVars == <<file, fdOk, offset, stats, owner, pc1, pc2, printed, last>>

Bytes == {Letter, Space, Newline, EofByte}
Fields == {"chars", "words", "lines"}
Zero == [f \in Fields |-> 0]
----------------------------------------------------------------------------
(* Counting one buffer, as get_info does.                                  *)

Separators(s) == {i \in 1 .. Len(s) : s[i] \in {Space, Newline}}

(* prev_char starts as '\0' in every call, and a newline does not hide the  *)
(* separator that follows it.                                               *)
WordEnds(s) == {i \in Separators(s) : i = 1 \/ s[i - 1] # Space}
LineEnds(s) == {i \in 1 .. Len(s) : s[i] = Newline}

(* A mutant: the lines of a buffer are assigned, not added. *)
GetInfoForgets(info, buf, bytes) ==
  [chars |-> info.chars + bytes,
   words |-> info.words + Cardinality(WordEnds(buf)),
   lines |-> Cardinality(LineEnds(buf))]

get_info(info, buf, bytes) ==
  [chars |-> info.chars + bytes,
   words |-> info.words + Cardinality(WordEnds(buf)),
   lines |-> info.lines + Cardinality(LineEnds(buf))]
----------------------------------------------------------------------------
(* Main.                                                                   *)

(* write() of one byte; a failed one is only logged. *)
Write(c) ==
  /\ file' = IF Len(file) < Capacity THEN Append(file, c) ELSE file
  /\ UNCHANGED <<fdOk, offset, stats, owner, pc1, pc2, printed, last>>
----------------------------------------------------------------------------
(* Child 1.                                                                *)

At1(from, to) == pc1 = from /\ pc1' = to
At2(from, to) == pc2 = from /\ pc2' = to

(* sem_wait returns. *)
Wake1 ==
  /\ At1("wait", "check")
  /\ UNCHANGED <<file, fdOk, offset, stats, owner, pc2, printed, last>>

(* abort_signal is 0: get_file_info is called. *)
Begin1 ==
  /\ At1("check", "zero")
  /\ UNCHANGED <<file, fdOk, offset, stats, owner, pc2, printed, last>>

(* The memset of file_stats_info is made outside the mutex, in stores of    *)
(* its own: another thread may see some fields cleared and not others.      *)
ZeroSome ==
  /\ At1("zero", "zeroRest")
  /\ \E cleared \in SUBSET Fields :
       stats' = [f \in Fields |-> IF f \in cleared THEN 0 ELSE stats[f]]
  /\ UNCHANGED <<file, fdOk, offset, owner, pc2, printed, last>>

ZeroRest ==
  /\ At1("zeroRest", "lock")
  /\ stats' = Zero
  /\ offset' = 0
  /\ UNCHANGED <<file, fdOk, owner, pc2, printed, last>>

(* A mutant: child 1 counts without waiting for the mutex. *)
Lock1Unchecked ==
  /\ At1("lock", "read")
  /\ owner' = "child1"
  /\ UNCHANGED <<file, fdOk, offset, stats, pc2, printed, last>>

Lock1 ==
  /\ At1("lock", "read")
  /\ owner = "none" /\ owner' = "child1"
  /\ UNCHANGED <<file, fdOk, offset, stats, pc2, printed, last>>

(* What read() returns, -1 without a descriptor, and the bytes it brings. *)
ReadResult ==
  IF ~fdOk THEN -1
  ELSE IF Len(file) - offset < Chunk THEN Len(file) - offset ELSE Chunk

ReadBytes ==
  IF ReadResult > 0 THEN SubSeq(file, offset + 1, offset + ReadResult) ELSE <<>>

(* One read() and the get_info of what it brought, error and end included. *)
Read ==
  /\ pc1 = "read"
  /\ pc1' = IF ReadResult > 0 THEN "read" ELSE "adjust"
  /\ stats' = get_info(stats, ReadBytes, ReadResult)
  /\ offset' = IF ReadResult > 0 THEN offset + ReadResult ELSE offset
  /\ UNCHANGED <<file, fdOk, owner, pc2, printed, last>>

Adjust ==
  /\ At1("adjust", "unlock1")
  /\ stats' = [stats EXCEPT !["chars"] = @ - 1]
  /\ last' = stats'
  /\ UNCHANGED <<file, fdOk, offset, owner, pc2, printed>>

(* A mutant: child 1 returns with the mutex. *)
Unlock1Forgets ==
  /\ At1("unlock1", "wait")
  /\ UNCHANGED <<file, fdOk, offset, stats, owner, pc2, printed, last>>

Unlock1 ==
  /\ At1("unlock1", "wait")
  /\ owner' = "none"
  /\ UNCHANGED <<file, fdOk, offset, stats, pc2, printed, last>>
----------------------------------------------------------------------------
(* Child 2.                                                                *)

Wake2 ==
  /\ At2("wait", "check")
  /\ UNCHANGED <<file, fdOk, offset, stats, owner, pc1, printed, last>>

Begin2 ==
  /\ At2("check", "lock")
  /\ UNCHANGED <<file, fdOk, offset, stats, owner, pc1, printed, last>>

Lock2 ==
  /\ At2("lock", "print")
  /\ owner = "none" /\ owner' = "child2"
  /\ UNCHANGED <<file, fdOk, offset, stats, pc1, printed, last>>

LogStats ==
  /\ At2("print", "unlock2")
  /\ printed' = stats
  /\ UNCHANGED <<file, fdOk, offset, stats, owner, pc1, last>>

Unlock2 ==
  /\ At2("unlock2", "wait")
  /\ owner' = "none"
  /\ UNCHANGED <<file, fdOk, offset, stats, pc1, printed, last>>
----------------------------------------------------------------------------
Init ==
  /\ file = <<>> /\ fdOk \in BOOLEAN /\ offset = 0
  /\ stats = Zero /\ owner = "none"
  /\ pc1 = "wait" /\ pc2 = "wait"
  /\ printed = Zero /\ last = Zero

get_file_info ==
  Begin1 \/ ZeroSome \/ ZeroRest \/ Lock1 \/ Read \/ Adjust \/ Unlock1
print_file_stats == Begin2 \/ Lock2 \/ LogStats \/ Unlock2

Next ==
  \/ \E c \in Bytes : Write(c)
  \/ Wake1 \/ get_file_info
  \/ Wake2 \/ print_file_stats

Spec == Init /\ [][Next]_statsVars
----------------------------------------------------------------------------
(* Properties.                                                             *)

(* Child 1 between pthread_mutex_lock and pthread_mutex_unlock. *)
Counting == pc1 \in {"read", "adjust", "unlock1"}
Printing == pc2 \in {"print", "unlock2"}

Counts == [Fields -> Int]

(* Types, and the mutex held by the child inside its critical section. *)
TypeOK ==
  /\ file \in Seq(Bytes) /\ Len(file) <= Capacity
  /\ fdOk \in BOOLEAN /\ offset \in 0 .. Len(file)
  /\ stats \in Counts /\ printed \in Counts /\ last \in Counts
  /\ pc1 \in {"wait", "check", "zero", "zeroRest", "lock", "read", "adjust",
              "unlock1"}
  /\ pc2 \in {"wait", "check", "lock", "print", "unlock2"}
  /\ owner \in {"none", "child1", "child2"}
  /\ Counting <=> owner = "child1"
  /\ Printing <=> owner = "child2"

(* While child 1 counts, whatever main appends meanwhile and however the    *)
(* bytes are split into reads, the counts are those of the bytes read so    *)
(* far.  Only words may be counted twice, when a space ends one buffer and  *)
(* a separator starts the next: prev_char does not outlive get_info.  Once  *)
(* adjusted, chars is one less.  Without a file nothing is counted, and     *)
(* nothing adds up from one request to the next: the failed read() takes    *)
(* one off chars, as the adjustment does.                                   *)
Consumed == SubSeq(file, 1, offset)

CountsThePrefix ==
  /\ Counting /\ fdOk =>
       /\ stats["chars"] = IF pc1 = "unlock1" THEN offset - 1 ELSE offset
       /\ stats["lines"] = Cardinality(LineEnds(Consumed))
       /\ stats["words"] >= Cardinality(WordEnds(Consumed))
       /\ stats["words"] <= Cardinality(Separators(Consumed))
  /\ Counting /\ ~fdOk =>
       /\ stats["chars"] = IF pc1 = "read" THEN 0 ELSE IF pc1 = "adjust" THEN -1 ELSE -2
       /\ stats["lines"] = 0 /\ stats["words"] = 0

(* child1.c:110 and :51 take the mutex: what child 2 prints is never the    *)
(* counts of half a file.  Each field it prints is the one the last         *)
(* complete count left, or 0 where the memset of the next one has been.     *)
PrintsNoPartialCount ==
  [][pc2 = "print" /\ pc2' = "unlock2" =>
       \A f \in Fields : printed'[f] \in {0, last[f]}]_statsVars
=============================================================================
