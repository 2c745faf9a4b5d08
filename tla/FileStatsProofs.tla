--------------------------- MODULE FileStatsProofs ---------------------------
(***************************************************************************)
(* Proofs about the statistics of ex3prob5, for every file, every size of   *)
(* the read buffer and any number of requests.                              *)
(***************************************************************************)
EXTENDS FileStats, FiniteSetTheorems, FunctionTheorems, SequenceTheorems,
        TLAPS

USE FileStatsAssumption
----------------------------------------------------------------------------
(* Counting a buffer.                                                      *)

(* The counts of a buffer are natural numbers. *)
LEMMA CountsAreNat ==
  ASSUME NEW s \in Seq(Bytes)
  PROVE  /\ IsFiniteSet(Separators(s)) /\ Cardinality(Separators(s)) \in Nat
         /\ IsFiniteSet(WordEnds(s)) /\ Cardinality(WordEnds(s)) \in Nat
         /\ IsFiniteSet(LineEnds(s)) /\ Cardinality(LineEnds(s)) \in Nat
  <1>1. Len(s) \in Nat
    OBVIOUS
  <1>2. IsFiniteSet(1 .. Len(s))
    BY <1>1, FS_Interval
  <1>3. /\ Separators(s) \subseteq 1 .. Len(s)
        /\ WordEnds(s) \subseteq 1 .. Len(s)
        /\ LineEnds(s) \subseteq 1 .. Len(s)
    BY DEF Separators, WordEnds, LineEnds
  <1> QED
    BY <1>2, <1>3, FS_Subset, FS_CardinalityType

(* What read() returns, and the bytes it brings. *)
LEMMA ReadType ==
  ASSUME TypeOK
  PROVE  /\ ReadResult \in Int /\ ReadBytes \in Seq(Bytes)
         /\ ReadResult > 0 =>
              /\ ReadBytes = SubSeq(file, offset + 1, offset + ReadResult)
              /\ Len(ReadBytes) = ReadResult
              /\ offset + ReadResult \in 0 .. Len(file)
         /\ ReadResult <= 0 => ReadBytes = <<>>
  <1>1. file \in Seq(Bytes) /\ Len(file) \in Nat /\ offset \in 0 .. Len(file)
    BY DEF TypeOK
  <1>2. /\ ReadResult \in Int
        /\ ReadResult > 0 => offset + ReadResult \in 0 .. Len(file)
    BY <1>1 DEF ReadResult
  <1>3. CASE ReadResult > 0
    <2>1. /\ offset + 1 \in 1 .. Len(file) + 1
          /\ offset + ReadResult \in (offset + 1) - 1 .. Len(file)
      BY <1>1, <1>2, <1>3
    <2>2. /\ SubSeq(file, offset + 1, offset + ReadResult) \in Seq(Bytes)
          /\ Len(SubSeq(file, offset + 1, offset + ReadResult))
               = (offset + ReadResult) - (offset + 1) + 1
      BY <1>1, <2>1, SubSeqProperties
    <2> QED
      BY <1>1, <1>2, <1>3, <2>2 DEF ReadBytes
  <1>4. CASE ~(ReadResult > 0)
    BY <1>2, <1>4 DEF ReadBytes
  <1> QED
    BY <1>2, <1>3, <1>4

LEMMA GetInfoType ==
  ASSUME NEW info \in Counts, NEW buf \in Seq(Bytes), NEW bytes \in Int
  PROVE  get_info(info, buf, bytes) \in Counts
  <1>1. /\ info["chars"] \in Int /\ info["words"] \in Int /\ info["lines"] \in Int
    BY DEF Counts, Fields
  <1>2. Cardinality(WordEnds(buf)) \in Nat /\ Cardinality(LineEnds(buf)) \in Nat
    BY CountsAreNat
  <1> QED
    BY <1>1, <1>2 DEF get_info, Counts, Fields
----------------------------------------------------------------------------
(* The mutex, and what file_stats_info holds at each step of child 1.       *)

Settled ==
  /\ pc1 \in {"wait", "check", "zero", "unlock1"} => stats = last
  /\ pc1 = "zeroRest" => \A f \in Fields : stats[f] \in {0, last[f]}
  /\ pc1 = "lock" => stats = Zero

Inv == TypeOK /\ Settled

LEMMA InvInit == Init => Inv
  BY DEF Init, Inv, TypeOK, Settled, Zero, Counts, Counting, Printing

(* Steps that leave the counts alone. *)
LEMMA QuietKeepsInv ==
  ASSUME Inv,
         \/ \E c \in Bytes : Write(c)
         \/ Wake1 \/ Begin1 \/ Lock1 \/ Unlock1
         \/ Wake2 \/ print_file_stats
         \/ UNCHANGED statsVars
  PROVE  Inv'
  <1> USE DEF Inv
  <1>1. CASE \E c \in Bytes : Write(c)
    <2>1. PICK c \in Bytes : Write(c)
      BY <1>1
    <2>2. /\ file' \in Seq(Bytes) /\ Len(file') \in Nat
          /\ Len(file) <= Len(file') /\ Len(file') <= Capacity
      BY <2>1 DEF Write, TypeOK
    <2>3. offset' \in 0 .. Len(file')
      BY <2>1, <2>2 DEF Write, TypeOK
    <2> QED
      BY <2>1, <2>2, <2>3 DEF Write, TypeOK, Settled, Counting, Printing
  <1>2. CASE Wake1 \/ Begin1
    BY <1>2 DEF Wake1, Begin1, At1, TypeOK, Settled, Counting, Printing
  <1>3. CASE Lock1
    BY <1>3 DEF Lock1, At1, TypeOK, Settled, Counting, Printing
  <1>4. CASE Unlock1
    BY <1>4 DEF Unlock1, At1, TypeOK, Settled, Counting, Printing
  <1>5. CASE Wake2 \/ Begin2
    BY <1>5 DEF Wake2, Begin2, At2, TypeOK, Settled, Counting, Printing
  <1>6. CASE Lock2
    BY <1>6 DEF Lock2, At2, TypeOK, Settled, Counting, Printing
  <1>7. CASE LogStats \/ Unlock2
    BY <1>7 DEF LogStats, Unlock2, At2, TypeOK, Settled, Counting, Printing
  <1>8. CASE UNCHANGED statsVars
    BY <1>8 DEF statsVars, TypeOK, Settled, Counting, Printing
  <1> QED
    BY <1>1, <1>2, <1>3, <1>4, <1>5, <1>6, <1>7, <1>8 DEF print_file_stats

LEMMA CountKeepsInv ==
  ASSUME Inv, ZeroSome \/ ZeroRest \/ Read \/ Adjust
  PROVE  Inv'
  <1> USE DEF Inv
  <1>1. CASE ZeroSome
    <2>1. PICK cleared \in SUBSET Fields :
            stats' = [f \in Fields |-> IF f \in cleared THEN 0 ELSE stats[f]]
      BY <1>1 DEF ZeroSome
    <2>2. stats' \in Counts
      BY <2>1 DEF TypeOK, Counts
    <2>3. \A f \in Fields : stats'[f] \in {0, last[f]}
      BY <1>1, <2>1 DEF ZeroSome, At1, Settled
    <2> QED
      BY <1>1, <2>2, <2>3 DEF ZeroSome, At1, TypeOK, Settled, Counting, Printing
  <1>2. CASE ZeroRest
    <2>1. Zero \in Counts
      BY DEF Zero, Counts
    <2> QED
      BY <1>2, <2>1 DEF ZeroRest, At1, TypeOK, Settled, Counting, Printing
  <1>3. CASE Read
    <2>1. /\ ReadResult \in Int /\ ReadBytes \in Seq(Bytes)
          /\ ReadResult > 0 => offset + ReadResult \in 0 .. Len(file)
      BY ReadType
    <2>2. stats' \in Counts
      BY <1>3, <2>1, GetInfoType DEF Read, TypeOK
    <2>3. offset' \in 0 .. Len(file) /\ pc1' \in {"read", "adjust"}
      BY <1>3, <2>1 DEF Read, TypeOK
    <2> QED
      BY <1>3, <2>2, <2>3 DEF Read, TypeOK, Settled, Counting, Printing
  <1>4. CASE Adjust
    <2>1. stats' \in Counts
      BY <1>4 DEF Adjust, TypeOK, Counts, Fields
    <2> QED
      BY <1>4, <2>1 DEF Adjust, At1, TypeOK, Settled, Counting, Printing
  <1> QED
    BY <1>1, <1>2, <1>3, <1>4

LEMMA InvNext ==
  ASSUME Inv, [Next]_statsVars
  PROVE  Inv'
  BY QuietKeepsInv, CountKeepsInv DEF Next, get_file_info

THEOREM Invariance == Spec => []Inv
  <1>1. Inv /\ [Next]_statsVars => Inv'
    BY InvNext
  <1> QED
    BY <1>1, InvInit, PTL DEF Spec

(* The mutex is held by exactly the child that is inside its critical       *)
(* section, and no count reads past the end of the file.                    *)
THEOREM TypeCorrect == Spec => []TypeOK
  <1>1. Inv => TypeOK
    BY DEF Inv
  <1> QED
    BY <1>1, Invariance, PTL

(* What child 2 prints never is the counts of half a file, for any number   *)
(* of requests of either kind.                                              *)
THEOREM NoPartialPrint == Spec => PrintsNoPartialCount
  <1> DEFINE Whole == pc2 = "print" /\ pc2' = "unlock2" =>
                        \A f \in Fields : printed'[f] \in {0, last[f]}
  <1>1. Inv /\ [Next]_statsVars => [Whole]_statsVars
    <2> SUFFICES ASSUME Inv, Next, pc2 = "print", pc2' = "unlock2"
                 PROVE  \A f \in Fields : printed'[f] \in {0, last[f]}
      OBVIOUS
    <2>1. printed' = stats
      BY DEF Next, get_file_info, print_file_stats, Write, Wake1, Begin1,
             ZeroSome, ZeroRest, Lock1, Read, Adjust, Unlock1, Wake2, Begin2,
             Lock2, LogStats, Unlock2, At1, At2
    <2>2. pc1 \in {"wait", "check", "zero", "zeroRest", "lock"}
      BY DEF Inv, TypeOK, Counting, Printing
    <2>3. \A f \in Fields : stats[f] \in {0, last[f]}
      BY <2>2 DEF Inv, Settled, Zero
    <2> QED
      BY <2>1, <2>3
  <1> QED
    BY <1>1, Invariance, PTL DEF Spec, PrintsNoPartialCount
----------------------------------------------------------------------------
(* Counting buffer after buffer.                                           *)

Shift(A, k) == {i + k : i \in A}

LEMMA ShiftCardinality ==
  ASSUME NEW A \in SUBSET Nat, IsFiniteSet(A), NEW k \in Nat
  PROVE  IsFiniteSet(Shift(A, k)) /\ Cardinality(Shift(A, k)) = Cardinality(A)
  <1> DEFINE f == [i \in A |-> i + k]
  <1>1. f \in [A -> Shift(A, k)]
    BY DEF Shift
  <1>2. \A a, b \in A : f[a] = f[b] => a = b
    OBVIOUS
  <1>3. \A t \in Shift(A, k) : \E a \in A : f[a] = t
    BY DEF Shift
  <1>4. f \in Bijection(A, Shift(A, k))
    BY <1>1, <1>2, <1>3, Fun_IsBij
  <1>5. ExistsBijection(A, Shift(A, k))
    BY <1>4 DEF ExistsBijection
  <1> QED
    BY <1>5, FS_Bijection

(* The cardinality of two sets of positions, one shifted past the other. *)
LEMMA ApartCardinality ==
  ASSUME NEW n \in Nat, NEW A \in SUBSET (1 .. n),
         NEW B \in SUBSET (Nat \ {0}), IsFiniteSet(B)
  PROVE  /\ IsFiniteSet(A \cup Shift(B, n))
         /\ Cardinality(A \cup Shift(B, n)) = Cardinality(A) + Cardinality(B)
  <1>1. IsFiniteSet(A)
    <2>1. IsFiniteSet(1 .. n)
      BY FS_Interval
    <2> QED
      BY <2>1, FS_Subset
  <1>2. IsFiniteSet(Shift(B, n)) /\ Cardinality(Shift(B, n)) = Cardinality(B)
    BY ShiftCardinality
  <1>3. A \cap Shift(B, n) = {}
    BY DEF Shift
  <1>4. Cardinality({}) = 0
    BY FS_EmptySet
  <1>5. /\ IsFiniteSet(A \cup Shift(B, n))
        /\ Cardinality(A \cup Shift(B, n)) = Cardinality(A)
             + Cardinality(Shift(B, n)) - Cardinality(A \cap Shift(B, n))
    BY <1>1, <1>2, FS_Union
  <1>6. Cardinality(A) \in Nat /\ Cardinality(B) \in Nat
    BY <1>1, FS_CardinalityType
  <1> QED
    BY <1>2, <1>3, <1>4, <1>5, <1>6

(* Where the bytes of V are in a buffer. *)
Positions(s, V) == {i \in 1 .. Len(s) : s[i] \in V}

LEMMA EndsArePositions ==
  ASSUME NEW s
  PROVE  /\ LineEnds(s) = Positions(s, {Newline})
         /\ Separators(s) = Positions(s, {Space, Newline})
  BY DEF LineEnds, Separators, Positions

(* Where the bytes of one buffer are after another. *)
LEMMA ConcatPositions ==
  ASSUME NEW s \in Seq(Bytes), NEW t \in Seq(Bytes)
  PROVE  /\ \A i \in 1 .. Len(s) : i \in 1 .. Len(s \o t) /\ (s \o t)[i] = s[i]
         /\ \A i \in 1 .. Len(t) : /\ i + Len(s) \in 1 .. Len(s \o t)
                                   /\ (s \o t)[i + Len(s)] = t[i]
         /\ \A i \in 1 .. Len(s \o t) :
              i \in 1 .. Len(s) \/ \E j \in 1 .. Len(t) : i = j + Len(s)
  <1> DEFINE n == Len(s)
             m == Len(t)
             st == s \o t
  <1>1. n \in Nat /\ m \in Nat
    OBVIOUS
  <1>2. /\ Len(st) = n + m
        /\ \A i \in 1 .. n + m : st[i] = IF i <= n THEN s[i] ELSE t[i - n]
    BY ConcatProperties
  <1> HIDE DEF st, n, m
  <1>3. ASSUME NEW i \in 1 .. n
        PROVE  i \in 1 .. n + m /\ st[i] = s[i]
    BY <1>1, <1>2
  <1>4. ASSUME NEW i \in 1 .. m
        PROVE  i + n \in 1 .. n + m /\ st[i + n] = t[i]
    <2>1. i + n \in 1 .. n + m /\ ~(i + n <= n) /\ (i + n) - n = i
      BY <1>1
    <2> QED
      BY <1>2, <2>1
  <1>5. ASSUME NEW i \in 1 .. n + m
        PROVE  i \in 1 .. n \/ \E j \in 1 .. m : i = j + n
    <2>1. i \in 1 .. n \/ (i - n \in 1 .. m /\ i = (i - n) + n)
      BY <1>1
    <2> QED
      BY <2>1
  <1> QED
    BY <1>2, <1>3, <1>4, <1>5 DEF st, n, m

LEMMA PositionsAdd ==
  ASSUME NEW s \in Seq(Bytes), NEW t \in Seq(Bytes), NEW V
  PROVE  /\ Positions(s \o t, V)
              = Positions(s, V) \cup Shift(Positions(t, V), Len(s))
         /\ Cardinality(Positions(s \o t, V))
              = Cardinality(Positions(s, V)) + Cardinality(Positions(t, V))
  <1> DEFINE both == Positions(s, V) \cup Shift(Positions(t, V), Len(s))
  <1>1. Positions(s \o t, V) \subseteq both
    <2> SUFFICES ASSUME NEW i \in Positions(s \o t, V)
                 PROVE  i \in both
      OBVIOUS
    <2>1. i \in 1 .. Len(s \o t) /\ (s \o t)[i] \in V
      BY DEF Positions
    <2>2. CASE i \in 1 .. Len(s)
      BY <2>1, <2>2, ConcatPositions DEF Positions
    <2>3. CASE \E j \in 1 .. Len(t) : i = j + Len(s)
      <3>1. PICK j \in 1 .. Len(t) : i = j + Len(s)
        BY <2>3
      <3>2. j \in Positions(t, V)
        BY <2>1, <3>1, ConcatPositions DEF Positions
      <3> QED
        BY <3>1, <3>2 DEF Shift
    <2> QED
      BY <2>1, <2>2, <2>3, ConcatPositions
  <1>2. Positions(s, V) \subseteq Positions(s \o t, V)
    BY ConcatPositions DEF Positions
  <1>3. Shift(Positions(t, V), Len(s)) \subseteq Positions(s \o t, V)
    <2> SUFFICES ASSUME NEW j \in Positions(t, V)
                 PROVE  j + Len(s) \in Positions(s \o t, V)
      BY DEF Shift
    <2> QED
      BY ConcatPositions DEF Positions
  <1>4. Positions(s \o t, V) = both
    BY <1>1, <1>2, <1>3
  <1>5. /\ Len(s) \in Nat
        /\ Positions(s, V) \in SUBSET (1 .. Len(s))
        /\ Positions(t, V) \in SUBSET (Nat \ {0})
        /\ Positions(t, V) \in SUBSET (1 .. Len(t))
    BY DEF Positions
  <1>6. IsFiniteSet(Positions(t, V))
    <2>1. IsFiniteSet(1 .. Len(t))
      BY FS_Interval
    <2> QED
      BY <1>5, <2>1, FS_Subset
  <1>7. Cardinality(both)
          = Cardinality(Positions(s, V)) + Cardinality(Positions(t, V))
    BY <1>5, <1>6, ApartCardinality
  <1> QED
    BY <1>4, <1>7

(* The lines and the separators of two buffers add up; of the words, none   *)
(* is missed.                                                               *)
LEMMA CountsAdd ==
  ASSUME NEW s \in Seq(Bytes), NEW t \in Seq(Bytes)
  PROVE  /\ Cardinality(LineEnds(s \o t))
              = Cardinality(LineEnds(s)) + Cardinality(LineEnds(t))
         /\ Cardinality(Separators(s \o t))
              = Cardinality(Separators(s)) + Cardinality(Separators(t))
         /\ Cardinality(WordEnds(s \o t))
              <= Cardinality(WordEnds(s)) + Cardinality(WordEnds(t))
  <1> DEFINE n == Len(s)
             m == Len(t)
             st == s \o t
  <1>1. n \in Nat /\ m \in Nat
    OBVIOUS
  <1>2. /\ Cardinality(LineEnds(st))
             = Cardinality(LineEnds(s)) + Cardinality(LineEnds(t))
        /\ Cardinality(Separators(st))
             = Cardinality(Separators(s)) + Cardinality(Separators(t))
    BY PositionsAdd, EndsArePositions
  <1>3. /\ \A i \in 1 .. n : st[i] = s[i]
        /\ \A i \in 1 .. m : st[i + n] = t[i]
    BY ConcatPositions
  <1>4. Separators(st) = Separators(s) \cup Shift(Separators(t), n)
    BY PositionsAdd, EndsArePositions
  <1> HIDE DEF st, n, m
  <1>5. WordEnds(st) \subseteq WordEnds(s) \cup Shift(WordEnds(t), n)
    <2> SUFFICES ASSUME NEW i \in WordEnds(st)
                 PROVE  i \in WordEnds(s) \cup Shift(WordEnds(t), n)
      OBVIOUS
    <2>1. i \in Separators(s) \cup Shift(Separators(t), n)
      BY <1>4 DEF WordEnds
    <2>2. CASE i \in Separators(s)
      <3>1. i \in 1 .. n /\ (i # 1 => st[i - 1] # Space)
        BY <2>2 DEF WordEnds, Separators, n
      <3>2. i # 1 => i - 1 \in 1 .. n
        BY <1>1, <3>1
      <3>3. i = 1 \/ s[i - 1] # Space
        BY <1>3, <3>1, <3>2
      <3> QED
        BY <2>2, <3>3 DEF WordEnds
    <2>3. CASE i \in Shift(Separators(t), n)
      <3>1. PICK j \in Separators(t) : i = j + n
        BY <2>3 DEF Shift
      <3>2. j \in 1 .. m /\ (i # 1 => st[i - 1] # Space)
        BY <3>1 DEF WordEnds, Separators, m
      <3>3. j # 1 => j - 1 \in 1 .. m /\ i - 1 = (j - 1) + n /\ i # 1
        BY <1>1, <3>1, <3>2
      <3>4. j = 1 \/ t[j - 1] # Space
        BY <1>3, <3>2, <3>3
      <3>5. j \in WordEnds(t)
        BY <3>1, <3>4 DEF WordEnds
      <3> QED
        BY <3>1, <3>5 DEF Shift
    <2> QED
      BY <2>1, <2>2, <2>3
  <1>6. /\ WordEnds(s) \in SUBSET (1 .. n)
        /\ WordEnds(t) \in SUBSET (Nat \ {0})
        /\ IsFiniteSet(WordEnds(t))
    <2>1. \A i \in WordEnds(s) : i \in 1 .. n
      BY DEF Separators, WordEnds, n
    <2>2. \A i \in WordEnds(t) : i \in Nat \ {0}
      BY DEF Separators, WordEnds
    <2> QED
      BY <2>1, <2>2, CountsAreNat
  <1>7. Cardinality(WordEnds(st))
          <= Cardinality(WordEnds(s)) + Cardinality(WordEnds(t))
    <2> DEFINE both == WordEnds(s) \cup Shift(WordEnds(t), n)
    <2>1. /\ IsFiniteSet(both)
          /\ Cardinality(both)
               = Cardinality(WordEnds(s)) + Cardinality(WordEnds(t))
      BY <1>1, <1>6, ApartCardinality
    <2>2. Cardinality(WordEnds(st)) <= Cardinality(both)
      BY <2>1, <1>5, FS_Subset
    <2> QED
      BY <2>1, <2>2
  <1> QED
    BY <1>2, <1>7 DEF st

(* The words of a buffer end at separators of it. *)
LEMMA WordsAreSeparated ==
  ASSUME NEW s \in Seq(Bytes)
  PROVE  Cardinality(WordEnds(s)) <= Cardinality(Separators(s))
  <1>1. WordEnds(s) \subseteq Separators(s)
    BY DEF WordEnds
  <1> QED
    BY <1>1, CountsAreNat, FS_Subset

LEMMA NothingCounts ==
  /\ Cardinality(LineEnds(<<>>)) = 0
  /\ Cardinality(WordEnds(<<>>)) = 0
  /\ Cardinality(Separators(<<>>)) = 0
  <1>1. /\ LineEnds(<<>>) = {} /\ WordEnds(<<>>) = {} /\ Separators(<<>>) = {}
    BY DEF LineEnds, WordEnds, Separators
  <1> QED
    BY <1>1, FS_EmptySet
----------------------------------------------------------------------------
(* The counts are those of the bytes read.                                 *)

CountsInv ==
  /\ Inv
  /\ pc1 = "lock" => offset = 0
  /\ CountsThePrefix

LEMMA CountsInvInit == Init => CountsInv
  BY InvInit DEF Init, CountsInv, CountsThePrefix, Counting

(* Main only appends: the bytes read stay as they were. *)
LEMMA WriteKeepsPrefix ==
  ASSUME Inv, NEW c \in Bytes, Write(c)
  PROVE  Consumed' = Consumed
  <1>1. file \in Seq(Bytes) /\ offset \in 0 .. Len(file) /\ offset' = offset
    BY DEF Inv, TypeOK, Write
  <1>2. CASE file' = file
    BY <1>1, <1>2 DEF Consumed
  <1>3. CASE file' = Append(file, c)
    <2>1. /\ file' \in Seq(Bytes) /\ Len(file') = Len(file) + 1
          /\ \A i \in 1 .. Len(file) : file'[i] = file[i]
      BY <1>1, <1>3, AppendProperties
    <2>2. /\ \A i \in 1 .. offset : file[i] \in Bytes
          /\ \A i \in 1 .. offset : file'[i] \in Bytes /\ file'[i] = file[i]
      BY <1>1, <2>1
    <2>3. offset \in Nat /\ (1 <= offset \/ offset = 0)
      BY <1>1
    <2>4. /\ SubSeq(file, 1, offset) \in Seq(Bytes)
          /\ Len(SubSeq(file, 1, offset)) = offset
          /\ \A i \in 1 .. offset : SubSeq(file, 1, offset)[i] = file[i]
      BY <2>2, <2>3, SubSeqProperties
    <2>5. /\ SubSeq(file', 1, offset) \in Seq(Bytes)
          /\ Len(SubSeq(file', 1, offset)) = offset
          /\ \A i \in 1 .. offset : SubSeq(file', 1, offset)[i] = file'[i]
      BY <2>2, <2>3, SubSeqProperties
    <2>6. \A i \in 1 .. offset :
            SubSeq(file', 1, offset)[i] = SubSeq(file, 1, offset)[i]
      BY <2>2, <2>4, <2>5
    <2>7. SubSeq(file', 1, offset) = SubSeq(file, 1, offset)
      BY <2>4, <2>5, <2>6, SeqEqual
    <2> QED
      BY <1>1, <2>7 DEF Consumed
  <1> QED
    BY <1>2, <1>3 DEF Write

(* The bytes of a read continue those read before. *)
LEMMA ReadExtendsPrefix ==
  ASSUME Inv, Read
  PROVE  /\ Consumed \in Seq(Bytes) /\ ReadBytes \in Seq(Bytes)
         /\ Consumed' = Consumed \o ReadBytes
  <1>1. file \in Seq(Bytes) /\ offset \in 0 .. Len(file) /\ file' = file
    BY DEF Inv, TypeOK, Read
  <1>2. \A i \in 1 .. offset : file[i] \in Bytes
    BY <1>1
  <1>3. Consumed \in Seq(Bytes)
    BY <1>1, <1>2, SubSeqProperties DEF Consumed
  <1>4. /\ ReadResult \in Int /\ ReadBytes \in Seq(Bytes)
        /\ ReadResult > 0 =>
             /\ ReadBytes = SubSeq(file, offset + 1, offset + ReadResult)
             /\ offset + ReadResult \in 0 .. Len(file)
        /\ ReadResult <= 0 => ReadBytes = <<>>
    BY ReadType DEF Inv
  <1>5. CASE ReadResult > 0
    <2>1. offset' = offset + ReadResult
      BY <1>5 DEF Read
    <2>2. /\ 1 \in 1 .. Len(file) + 1 /\ offset \in 1 - 1 .. Len(file)
          /\ offset + ReadResult \in offset .. Len(file)
      BY <1>1, <1>4, <1>5
    <2>3. SubSeq(file, 1, offset) \o SubSeq(file, offset + 1, offset + ReadResult)
            = SubSeq(file, 1, offset + ReadResult)
      BY <1>1, <2>2, ConcatAdjacentSubSeq
    <2> QED
      BY <1>1, <1>3, <1>4, <1>5, <2>1, <2>3 DEF Consumed
  <1>6. CASE ~(ReadResult > 0)
    <2>1. offset' = offset /\ ReadBytes = <<>>
      BY <1>4, <1>6 DEF Read
    <2> QED
      BY <1>1, <1>3, <1>4, <2>1 DEF Consumed
  <1> QED
    BY <1>5, <1>6

(* What CountsThePrefix says of the counts, offset and prefix given. *)
Accurate(info, taken, prefix) ==
  /\ info["chars"] = taken
  /\ info["lines"] = Cardinality(LineEnds(prefix))
  /\ info["words"] >= Cardinality(WordEnds(prefix))
  /\ info["words"] <= Cardinality(Separators(prefix))

LEMMA GetInfoAccurate ==
  ASSUME NEW info \in Counts, NEW taken \in Int, NEW more \in Int,
         NEW s \in Seq(Bytes), NEW t \in Seq(Bytes), Accurate(info, taken, s)
  PROVE  Accurate(get_info(info, t, more), taken + more, s \o t)
  <1> DEFINE new == get_info(info, t, more)
  <1>1. /\ info["chars"] \in Int /\ info["words"] \in Int /\ info["lines"] \in Int
    BY DEF Counts, Fields
  <1>2. /\ new["chars"] = info["chars"] + more
        /\ new["words"] = info["words"] + Cardinality(WordEnds(t))
        /\ new["lines"] = info["lines"] + Cardinality(LineEnds(t))
    BY DEF get_info
  <1>3. s \o t \in Seq(Bytes)
    BY ConcatProperties
  <1>4. /\ Cardinality(WordEnds(t)) \in Nat /\ Cardinality(Separators(t)) \in Nat
        /\ Cardinality(LineEnds(t)) \in Nat
        /\ Cardinality(WordEnds(s)) \in Nat /\ Cardinality(Separators(s)) \in Nat
        /\ Cardinality(LineEnds(s)) \in Nat
        /\ Cardinality(WordEnds(s \o t)) \in Nat
    BY <1>3, CountsAreNat
  <1>5. /\ Cardinality(LineEnds(s \o t))
             = Cardinality(LineEnds(s)) + Cardinality(LineEnds(t))
        /\ Cardinality(Separators(s \o t))
             = Cardinality(Separators(s)) + Cardinality(Separators(t))
        /\ Cardinality(WordEnds(s \o t))
             <= Cardinality(WordEnds(s)) + Cardinality(WordEnds(t))
    BY CountsAdd
  <1>6. Cardinality(WordEnds(t)) <= Cardinality(Separators(t))
    BY WordsAreSeparated
  <1> HIDE DEF new
  <1>7. Accurate(new, taken + more, s \o t)
    BY <1>1, <1>2, <1>4, <1>5, <1>6 DEF Accurate
  <1> QED
    BY <1>7 DEF new

LEMMA CountsInvNext ==
  ASSUME CountsInv, [Next]_statsVars
  PROVE  CountsInv'
  <1>1. Inv /\ Inv' /\ CountsThePrefix /\ (pc1 = "lock" => offset = 0)
    BY InvNext DEF CountsInv
  <1>2. ASSUME NEW c \in Bytes, Write(c) PROVE CountsInv'
    <2>1. Consumed' = Consumed
      BY <1>1, <1>2, WriteKeepsPrefix
    <2> QED
      BY <1>1, <1>2, <2>1 DEF Write, CountsInv, CountsThePrefix, Counting
  <1>3. CASE Wake1 \/ Begin1 \/ ZeroSome \/ ZeroRest \/ Unlock1
    <2>1. ~Counting' /\ (pc1' = "lock" => offset' = 0)
      BY <1>3 DEF Wake1, Begin1, ZeroSome, ZeroRest, Unlock1, At1, Counting
    <2> QED
      BY <1>1, <2>1 DEF CountsInv, CountsThePrefix
  <1>4. CASE Lock1
    <2>1. /\ stats' = Zero /\ offset' = 0 /\ pc1' = "read"
      BY <1>1, <1>4 DEF Lock1, At1, Inv, Settled
    <2>2. Consumed' = <<>>
      BY <2>1, SubSeqEmpty DEF Consumed
    <2> QED
      BY <1>1, <2>1, <2>2, NothingCounts DEF CountsInv, CountsThePrefix, Zero,
                                             Fields
  <1>5. CASE Read
    <2>1. CASE ~fdOk
      <3>1. /\ ReadResult = -1 /\ ReadBytes = <<>> /\ pc1 = "read" /\ pc1' = "adjust"
            /\ ~fdOk' /\ stats' = get_info(stats, <<>>, -1)
        BY <1>5, <2>1 DEF Read, ReadResult, ReadBytes
      <3>2. stats["chars"] = 0 /\ stats["lines"] = 0 /\ stats["words"] = 0
        BY <1>1, <2>1, <3>1 DEF CountsThePrefix, Counting
      <3>3. stats'["chars"] = -1 /\ stats'["lines"] = 0 /\ stats'["words"] = 0
        BY <3>1, <3>2, NothingCounts DEF get_info
      <3> QED
        BY <1>1, <3>1, <3>3 DEF CountsInv, CountsThePrefix, Counting
    <2>2. CASE fdOk
      <3>1. /\ Consumed \in Seq(Bytes) /\ ReadBytes \in Seq(Bytes)
            /\ Consumed' = Consumed \o ReadBytes
        BY <1>1, <1>5, ReadExtendsPrefix
      <3>2. /\ ReadResult \in Nat /\ offset \in Nat /\ stats \in Counts
            /\ offset' = offset + ReadResult
        BY <1>1, <1>5, <2>2 DEF Read, ReadResult, Inv, TypeOK
      <3>3. Accurate(stats, offset, Consumed)
        BY <1>1, <1>5, <2>2 DEF Read, Counting, CountsThePrefix, Accurate
      <3>4. Accurate(stats', offset', Consumed')
        <4>1. Accurate(get_info(stats, ReadBytes, ReadResult),
                       offset + ReadResult, Consumed \o ReadBytes)
          <5>1. offset \in Int /\ ReadResult \in Int
            BY <3>2
          <5> QED
            BY <5>1, <3>1, <3>2, <3>3, GetInfoAccurate
        <4>2. stats' = get_info(stats, ReadBytes, ReadResult)
          BY <1>5 DEF Read
        <4> QED
          BY <4>1, <4>2, <3>1, <3>2
      <3>5. pc1' \in {"read", "adjust"} /\ fdOk'
        BY <1>5, <2>2 DEF Read
      <3> QED
        BY <1>1, <3>4, <3>5 DEF CountsInv, CountsThePrefix, Accurate
    <2> QED
      BY <1>1, <2>1, <2>2 DEF Inv, TypeOK
  <1>6. CASE Adjust
    <2>1. /\ pc1 = "adjust" /\ pc1' = "unlock1" /\ Consumed' = Consumed
          /\ stats' = [stats EXCEPT !["chars"] = @ - 1]
          /\ fdOk' = fdOk /\ offset' = offset
      BY <1>6 DEF Adjust, At1, Consumed
    <2>2. /\ stats'["chars"] = stats["chars"] - 1
          /\ stats'["words"] = stats["words"] /\ stats'["lines"] = stats["lines"]
      BY <1>1, <2>1 DEF Inv, TypeOK, Counts, Fields
    <2> QED
      BY <1>1, <2>1, <2>2 DEF CountsInv, CountsThePrefix, Counting
  <1>7. CASE Wake2 \/ print_file_stats \/ UNCHANGED statsVars
    <2>1. UNCHANGED <<file, fdOk, offset, stats, pc1>>
      BY <1>7 DEF Wake2, print_file_stats, Begin2, Lock2, LogStats, Unlock2,
                  statsVars
    <2> QED
      BY <1>1, <2>1 DEF CountsInv, CountsThePrefix, Counting, Consumed
  <1> QED
    BY <1>2, <1>3, <1>4, <1>5, <1>6, <1>7 DEF Next, get_file_info

(* get_file_info counts the file however its bytes are split into buffers   *)
(* and however main appends meanwhile: chars and lines exactly, but for the *)
(* one it takes off, and words without missing one.                         *)
THEOREM CountsAreOfThePrefix == Spec => []CountsThePrefix
  <1>1. CountsInv /\ [Next]_statsVars => CountsInv'
    BY CountsInvNext
  <1>2. CountsInv => CountsThePrefix
    BY DEF CountsInv
  <1> QED
    BY <1>1, <1>2, CountsInvInit, PTL DEF Spec
=============================================================================
