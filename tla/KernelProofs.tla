---------------------------- MODULE KernelProofs ----------------------------
(***************************************************************************)
(* Proofs about the two kernel modules.  list_procs.c: on any tree of       *)
(* processes, and whatever tasks fork and exit under the walk, no task is   *)
(* listed twice, and every kernel thread that keeps its place is listed     *)
(* unless the walk loses its own.  timer.c: its safety properties, for      *)
(* every period.                                                            *)
(***************************************************************************)
EXTENDS ListProcs, Timer, FiniteSetTheorems, SequenceTheorems, WellFoundedInduction, TLAPS
----------------------------------------------------------------------------
(* list_procs.c.                                                           *)

(* Sequences without repetition: where an element is, and what is left when *)
(* it is taken out.                                                        *)
List(s, S) == s \in Seq(S) /\ IsInjective(s)

LEMMA SetOf ==
  ASSUME NEW S, NEW s \in Seq(S)
  PROVE  /\ ToSet(s) \subseteq S
         /\ \A e : e \in ToSet(s) <=> \E i \in 1 .. Len(s) : s[i] = e
  BY DEF ToSet

At(s, e) == SelectInSeq(s, LAMBDA v : v = e)

LEMMA AtIs ==
  ASSUME NEW S, NEW s, List(s, S), NEW e \in ToSet(s)
  PROVE  At(s, e) \in 1 .. Len(s) /\ s[At(s, e)] = e
  <1> DEFINE I == {i \in 1 .. Len(s) : s[i] = e}
  <1>1. PICK a \in 1 .. Len(s) : s[a] = e
    BY SetOf DEF List
  <1>2. I = {a}
    BY <1>1 DEF List, IsInjective
  <1>3. At(s, e) = IF I # {} THEN Min(I) ELSE 0
    BY DEF At, SelectInSeq
  <1>4. Min({a}) = a
    BY <1>1 DEF Min
  <1> QED
    BY <1>1, <1>2, <1>3, <1>4

LEMMA TailIs ==
  ASSUME NEW S, NEW s, List(s, S), NEW a \in 0 .. Len(s)
  PROVE  LET r == SubSeq(s, a + 1, Len(s))
         IN /\ r \in Seq(S) /\ Len(r) = Len(s) - a
            /\ \A i \in 1 .. Len(r) : r[i] = s[a + i]
            /\ \A e : e \in ToSet(r) <=> \E i \in a + 1 .. Len(s) : s[i] = e
  <1> DEFINE r == SubSeq(s, a + 1, Len(s))
  <1>1. /\ r \in Seq(S) /\ Len(r) = Len(s) - a /\ Len(r) \in Nat /\ Len(s) \in Nat
        /\ \A i \in 1 .. Len(r) : r[i] = s[a + i]
    BY DEF List
  <1> HIDE DEF r
  <1>2. ASSUME NEW e PROVE e \in ToSet(r) <=> \E i \in a + 1 .. Len(s) : s[i] = e
    <2>1. ASSUME NEW i \in 1 .. Len(r), r[i] = e PROVE \E j \in a + 1 .. Len(s) : s[j] = e
      <3>1. a + i \in a + 1 .. Len(s) /\ s[a + i] = e
        BY <1>1, <2>1
      <3> QED
        BY <3>1
    <2>2. ASSUME NEW j \in a + 1 .. Len(s), s[j] = e PROVE \E i \in 1 .. Len(r) : r[i] = e
      <3>1. j - a \in 1 .. Len(r) /\ a + (j - a) = j
        BY <1>1
      <3> QED
        BY <1>1, <2>2, <3>1
    <2> QED
      BY <1>1, <2>1, <2>2, SetOf
  <1> QED
    BY <1>1, <1>2 DEF r

(* What comes after f in s. *)
After(s, f) == {s[j] : j \in {k \in 1 .. Len(s) : \E i \in 1 .. k - 1 : s[i] = f}}

LEMMA AfterIs ==
  ASSUME NEW s, NEW f, NEW x
  PROVE  x \in After(s, f) <=>
           \E j \in 1 .. Len(s) : s[j] = x /\ \E i \in 1 .. j - 1 : s[i] = f
  BY DEF After

LEMMA RemoveAtIs ==
  ASSUME NEW S, NEW s \in Seq(S), NEW a \in 1 .. Len(s)
  PROVE  LET r == RemoveAt(s, a)
         IN /\ r \in Seq(S) /\ Len(r) = Len(s) - 1
            /\ \A i \in 1 .. Len(r) : r[i] = IF i < a THEN s[i] ELSE s[i + 1]
  <1> DEFINE u == SubSeq(s, 1, a - 1)
             v == SubSeq(s, a + 1, Len(s))
             r == u \o v
  <1>1. /\ u \in Seq(S) /\ Len(u) = a - 1 /\ \A i \in 1 .. a - 1 : u[i] = s[i]
        /\ Len(s) \in Nat /\ a \in Nat /\ a >= 1 /\ a <= Len(s)
    OBVIOUS
  <1>2. /\ v \in Seq(S) /\ Len(v) = Len(s) - a
        /\ \A i \in 1 .. Len(s) - a : v[i] = s[a + i]
    OBVIOUS
  <1> HIDE DEF u, v
  <1>3. /\ r \in Seq(S) /\ Len(r) = Len(u) + Len(v)
        /\ \A i \in 1 .. Len(r) : r[i] = IF i <= Len(u) THEN u[i] ELSE v[i - Len(u)]
    <2>1. u \in Seq(S) /\ v \in Seq(S)
      BY <1>1, <1>2
    <2> QED
      BY <2>1, ConcatProperties
  <1> HIDE DEF r
  <1>4. ASSUME NEW i \in 1 .. Len(r) PROVE r[i] = IF i < a THEN s[i] ELSE s[i + 1]
    <2>1. CASE i < a
      BY <1>1, <1>2, <1>3, <2>1
    <2>2. CASE ~(i < a)
      <3>1. i - (a - 1) \in 1 .. Len(s) - a /\ a + (i - (a - 1)) = i + 1
        BY <1>1, <1>2, <1>3, <2>2
      <3>2. r[i] = v[i - (a - 1)]
        BY <1>1, <1>3, <2>2
      <3> QED
        BY <1>2, <2>2, <3>1, <3>2
    <2> QED
      BY <2>1, <2>2
  <1>5. RemoveAt(s, a) = r
    BY DEF RemoveAt, r, u, v
  <1>6. Len(r) = Len(s) - 1
    BY <1>1, <1>2, <1>3
  <1> QED
    BY <1>3, <1>4, <1>5, <1>6

(* An element is taken out, and the others keep their order. *)
LEMMA RemoveFirstIs ==
  ASSUME NEW S, NEW s, List(s, S), NEW e
  PROVE  LET r == RemoveFirst(s, e)
         IN /\ List(r, S)
            /\ \A x : x \in ToSet(r) <=> x \in ToSet(s) /\ x # e
            /\ \A f, x : f # e => (x \in After(r, f) <=> x \in After(s, f) /\ x # e)
  <1> DEFINE r == RemoveFirst(s, e)
             a == At(s, e)
  <1>1. s \in Seq(S) /\ Len(s) \in Nat
    BY DEF List
  <1>2. CASE e \notin ToSet(s)
    <2>1. r = s
      BY <1>1, <1>2, SetOf DEF RemoveFirst
    <2>2. \A f, x : x \in After(s, f) => x # e
      BY <1>1, <1>2, AfterIs, SetOf
    <2> QED
      BY <1>2, <2>1, <2>2
  <1>3. CASE e \in ToSet(s)
    <2>1. a \in 1 .. Len(s) /\ s[a] = e
      BY <1>3, AtIs
    <2>2. r = RemoveAt(s, a)
      BY <2>1 DEF RemoveFirst, At
    <2> HIDE DEF a, r
    <2>3. /\ r \in Seq(S) /\ Len(r) = Len(s) - 1 /\ Len(r) \in Nat
          /\ \A i \in 1 .. Len(r) : r[i] = IF i < a THEN s[i] ELSE s[i + 1]
      BY <1>1, <2>1, <2>2, RemoveAtIs
    <2>4. \A i, j \in 1 .. Len(s) : s[i] = s[j] => i = j
      BY DEF List, IsInjective
    <2>5. \A i \in 1 .. Len(r) : r[i] # e
      BY <1>1, <2>1, <2>3, <2>4
    <2>6. ASSUME NEW i \in 1 .. Len(r), NEW j \in 1 .. Len(r), r[i] = r[j] PROVE i = j
      BY <1>1, <2>1, <2>3, <2>4, <2>6
    <2>7. \A j \in 1 .. Len(s) : j # a =>
            LET k == IF j < a THEN j ELSE j - 1
            IN k \in 1 .. Len(r) /\ r[k] = s[j]
      BY <1>1, <2>1, <2>3
    <2>8. ASSUME NEW x PROVE x \in ToSet(r) <=> x \in ToSet(s) /\ x # e
      <3>1. ASSUME NEW i \in 1 .. Len(r), r[i] = x
            PROVE  x # e /\ \E j \in 1 .. Len(s) : s[j] = x
        <4>1. i \in 1 .. Len(s) /\ i + 1 \in 1 .. Len(s)
          BY <1>1, <2>3
        <4> QED
          BY <2>3, <2>5, <3>1, <4>1
      <3>2. ASSUME NEW j \in 1 .. Len(s), s[j] = x, x # e
            PROVE  \E i \in 1 .. Len(r) : r[i] = x
        BY <2>1, <2>7, <3>2
      <3> QED
        BY <1>1, <2>3, <3>1, <3>2, SetOf
    <2>9. ASSUME NEW f, NEW x, f # e
          PROVE  x \in After(r, f) <=> x \in After(s, f) /\ x # e
      <3>1. ASSUME NEW j \in 1 .. Len(r), NEW i \in 1 .. j - 1, r[j] = x, r[i] = f
            PROVE  x \in After(s, f) /\ x # e
        <4>1. CASE j < a
          <5>1. j \in 1 .. Len(s) /\ s[j] = x /\ i \in 1 .. j - 1 /\ s[i] = f
            BY <2>1, <2>3, <3>1, <4>1
          <5> QED
            BY <2>5, <3>1, <5>1, AfterIs
        <4>2. CASE ~(j < a)
          <5>1. j + 1 \in 1 .. Len(s) /\ s[j + 1] = x
            BY <2>1, <2>3, <3>1, <4>2
          <5>2. \E k \in 1 .. (j + 1) - 1 : s[k] = f
            <6>1. CASE i < a
              BY <2>1, <2>3, <3>1, <6>1
            <6>2. CASE ~(i < a)
              <7>1. i + 1 \in 1 .. (j + 1) - 1 /\ s[i + 1] = f
                BY <2>1, <2>3, <3>1, <6>2
              <7> QED
                BY <7>1
            <6> QED
              BY <6>1, <6>2
          <5> QED
            BY <2>5, <3>1, <5>1, <5>2, AfterIs
        <4> QED
          BY <4>1, <4>2
      <3>2. ASSUME NEW j \in 1 .. Len(s), NEW i \in 1 .. j - 1, s[j] = x, s[i] = f, x # e
            PROVE  x \in After(r, f)
        <4> DEFINE m == IF j < a THEN j ELSE j - 1
                   k == IF i < a THEN i ELSE i - 1
        <4>1. j # a /\ i # a /\ i \in 1 .. Len(s)
          BY <1>1, <2>1, <2>9, <3>2
        <4>2. m \in 1 .. Len(r) /\ r[m] = x
          BY <2>7, <3>2, <4>1
        <4>3. k \in 1 .. Len(r) /\ r[k] = f
          BY <2>7, <3>2, <4>1
        <4>4. k \in 1 .. m - 1
          BY <2>1, <3>2, <4>1, <4>3
        <4> HIDE DEF m, k
        <4> QED
          BY <4>2, <4>3, <4>4, AfterIs
      <3> QED
        BY <3>1, <3>2, AfterIs
    <2>10. List(r, S)
      <3>1. DOMAIN r = 1 .. Len(r)
        BY <2>3
      <3> QED
        BY <2>3, <2>6, <3>1 DEF List, IsInjective
    <2> QED
      BY <2>8, <2>9, <2>10 DEF r
  <1> QED
    BY <1>2, <1>3

(* A set laid out as a sequence. *)
LEMMA SetToSeqIs ==
  ASSUME NEW S, IsFiniteSet(S)
  PROVE  List(SetToSeq(S), S) /\ ToSet(SetToSeq(S)) = S
  <1> DEFINE n == Cardinality(S)
             s == SetToSeq(S)
  <1>1. n \in Nat /\ IsFiniteSet(1 .. n) /\ Cardinality(1 .. n) = n
    BY FS_CardinalityType, FS_Interval
  <1>2. PICK f \in Bijection(1 .. n, S) : TRUE
    BY FS_CardinalityType DEF ExistsBijection
  <1>3. f \in [1 .. n -> S] /\ IsInjective(f)
    BY <1>2 DEF Bijection, Injection
  <1>4. s \in [1 .. n -> S] /\ IsInjective(s)
    BY <1>3 DEF SetToSeq
  <1>5. s \in Surjection(1 .. n, S)
    <2>1. s \in Injection(1 .. n, S)
      BY <1>4 DEF Injection
    <2> QED
      BY <1>1, <2>1, FS_Injection
  <1> HIDE DEF s
  <1>6. s \in Seq(S) /\ Len(s) = n
    BY <1>1, <1>4
  <1>7. \A e \in S : \E i \in 1 .. n : s[i] = e
    BY <1>5 DEF Surjection
  <1>8. List(s, S)
    BY <1>4, <1>6 DEF List
  <1>9. ToSet(s) \subseteq S /\ S \subseteq ToSet(s)
    BY <1>6, <1>7, SetOf
  <1> QED
    BY <1>8, <1>9 DEF s

(* An element that is put at the end. *)
LEMMA AppendIs ==
  ASSUME NEW S, NEW s, List(s, S), NEW n \in S, n \notin ToSet(s)
  PROVE  LET r == Append(s, n)
         IN /\ List(r, S)
            /\ \A x : x \in ToSet(r) <=> x \in ToSet(s) \/ x = n
            /\ \A f, x : x \in After(r, f) => x \in After(s, f) \/ x = n
            /\ \A f, x : x \in After(s, f) => x \in After(r, f)
            /\ \A f : f \in ToSet(s) => n \in After(r, f)
  <1> DEFINE r == Append(s, n)
  <1>1. s \in Seq(S) /\ Len(s) \in Nat /\ \A i \in 1 .. Len(s) : s[i] # n
    BY SetOf DEF List
  <1>2. /\ r \in Seq(S) /\ Len(r) = Len(s) + 1 /\ r[Len(s) + 1] = n
        /\ \A i \in 1 .. Len(s) : r[i] = s[i]
    BY <1>1, AppendProperties
  <1> HIDE DEF r
  <1>3. List(r, S)
    <2>1. \A i, j \in 1 .. Len(s) : s[i] = s[j] => i = j
      BY DEF List, IsInjective
    <2>2. ASSUME NEW i \in 1 .. Len(r), NEW j \in 1 .. Len(r), r[i] = r[j] PROVE i = j
      BY <1>1, <1>2, <2>1, <2>2
    <2>3. DOMAIN r = 1 .. Len(r)
      BY <1>2
    <2> QED
      BY <1>2, <2>2, <2>3 DEF List, IsInjective
  <1>4. ASSUME NEW x PROVE x \in ToSet(r) <=> x \in ToSet(s) \/ x = n
    BY <1>1, <1>2, SetOf
  <1>5. ASSUME NEW f, NEW x, x \in After(r, f) PROVE x \in After(s, f) \/ x = n
    <2>1. PICK j \in 1 .. Len(r) : r[j] = x /\ \E i \in 1 .. j - 1 : r[i] = f
      BY <1>5, AfterIs
    <2>2. PICK i \in 1 .. j - 1 : r[i] = f
      BY <2>1
    <2>3. CASE j = Len(s) + 1
      BY <1>2, <2>1, <2>3
    <2>4. CASE j # Len(s) + 1
      <3>1. j \in 1 .. Len(s) /\ s[j] = x /\ i \in 1 .. j - 1 /\ s[i] = f
        BY <1>1, <1>2, <2>1, <2>2, <2>4
      <3> QED
        BY <3>1, AfterIs
    <2> QED
      BY <2>3, <2>4
  <1>6. ASSUME NEW f, NEW x, x \in After(s, f) PROVE x \in After(r, f)
    <2>1. PICK j \in 1 .. Len(s) : s[j] = x /\ \E i \in 1 .. j - 1 : s[i] = f
      BY <1>6, AfterIs
    <2>2. PICK i \in 1 .. j - 1 : s[i] = f
      BY <2>1
    <2>3. j \in 1 .. Len(r) /\ r[j] = x /\ r[i] = f
      BY <1>1, <1>2, <2>1, <2>2
    <2> QED
      BY <2>3, AfterIs
  <1>7. ASSUME NEW f, f \in ToSet(s) PROVE n \in After(r, f)
    <2>1. PICK i \in 1 .. Len(s) : s[i] = f
      BY <1>1, <1>7, SetOf
    <2>2. Len(r) \in 1 .. Len(r) /\ r[Len(r)] = n /\ i \in 1 .. Len(r) - 1 /\ r[i] = f
      BY <1>1, <1>2, <2>1
    <2> QED
      BY <2>2, AfterIs
  <1> QED
    BY <1>3, <1>4, <1>5, <1>6, <1>7 DEF r

(* A list that is put after another with nothing in common. *)
Joined(s, t) == s \o t

LEMMA JoinedIs ==
  ASSUME NEW S, NEW s, NEW t, List(s, S), List(t, S), ToSet(s) \cap ToSet(t) = {}
  PROVE  List(Joined(s, t), S) /\ ToSet(Joined(s, t)) = ToSet(s) \cup ToSet(t)
  <1> DEFINE r == Joined(s, t)
  <1>1. s \in Seq(S) /\ t \in Seq(S) /\ Len(s) \in Nat /\ Len(t) \in Nat
    BY DEF List
  <1>2. /\ r \in Seq(S) /\ Len(r) = Len(s) + Len(t)
        /\ \A i \in 1 .. Len(r) : r[i] = IF i <= Len(s) THEN s[i] ELSE t[i - Len(s)]
    BY <1>1, ConcatProperties DEF Joined
  <1> HIDE DEF r
  <1>3. \A i \in 1 .. Len(s) : i \in 1 .. Len(r) /\ r[i] = s[i]
    BY <1>1, <1>2
  <1>4. ASSUME NEW i \in 1 .. Len(t)
        PROVE  i + Len(s) \in 1 .. Len(r) /\ r[i + Len(s)] = t[i]
    <2>1. i + Len(s) \in 1 .. Len(r) /\ ~(i + Len(s) <= Len(s)) /\ (i + Len(s)) - Len(s) = i
      BY <1>1, <1>2
    <2> QED
      BY <1>2, <2>1
  <1>5. \A i \in 1 .. Len(r) : i > Len(s) => i - Len(s) \in 1 .. Len(t)
    BY <1>1, <1>2
  <1>6. /\ \A i, j \in 1 .. Len(s) : s[i] = s[j] => i = j
        /\ \A i, j \in 1 .. Len(t) : t[i] = t[j] => i = j
        /\ \A i \in 1 .. Len(s) : \A j \in 1 .. Len(t) : s[i] # t[j]
    <2>1. \A i, j \in 1 .. Len(s) : s[i] = s[j] => i = j
      BY <1>1 DEF List, IsInjective
    <2>2. \A i, j \in 1 .. Len(t) : t[i] = t[j] => i = j
      BY <1>1 DEF List, IsInjective
    <2>3. ASSUME NEW i \in 1 .. Len(s), NEW j \in 1 .. Len(t) PROVE s[i] # t[j]
      <3>1. s[i] \in ToSet(s) /\ t[j] \in ToSet(t)
        BY <1>1, SetOf
      <3> QED
        BY <3>1
    <2> QED
      BY <2>1, <2>2, <2>3
  <1>7. ASSUME NEW i \in 1 .. Len(r), NEW j \in 1 .. Len(r), r[i] = r[j] PROVE i = j
    <2>0. /\ \A k \in 1 .. Len(r) : k > Len(s) =>
                k - Len(s) \in 1 .. Len(t) /\ r[k] = t[k - Len(s)]
          /\ \A k \in 1 .. Len(r) : ~(k > Len(s)) => k \in 1 .. Len(s) /\ r[k] = s[k]
      BY <1>1, <1>2, <1>5
    <2>1. i > Len(s) <=> j > Len(s)
      BY <1>6, <1>7, <2>0
    <2>2. CASE i > Len(s)
      <3>1. /\ i - Len(s) \in 1 .. Len(t) /\ j - Len(s) \in 1 .. Len(t)
            /\ t[i - Len(s)] = t[j - Len(s)]
        BY <1>7, <2>0, <2>1, <2>2
      <3>2. i - Len(s) = j - Len(s)
        BY <1>6, <3>1
      <3> QED
        BY <1>1, <3>2
    <2>3. CASE ~(i > Len(s))
      BY <1>1, <1>2, <1>6, <1>7, <2>1, <2>3
    <2> QED
      BY <2>2, <2>3
  <1>8. List(r, S)
    <2>1. DOMAIN r = 1 .. Len(r)
      BY <1>2
    <2> QED
      BY <1>2, <1>7, <2>1 DEF List, IsInjective
  <1>9. ASSUME NEW x PROVE x \in ToSet(r) <=> x \in ToSet(s) \/ x \in ToSet(t)
    <2>1. ASSUME NEW i \in 1 .. Len(r), r[i] = x PROVE x \in ToSet(s) \/ x \in ToSet(t)
      <3>1. CASE i > Len(s)
        <4>1. t[i - Len(s)] = x /\ i - Len(s) \in 1 .. Len(t)
          BY <1>1, <1>2, <1>5, <2>1, <3>1
        <4> QED
          BY <1>1, <4>1, SetOf
      <3>2. CASE ~(i > Len(s))
        <4>1. s[i] = x /\ i \in 1 .. Len(s)
          BY <1>1, <1>2, <2>1, <3>2
        <4> QED
          BY <1>1, <4>1, SetOf
      <3> QED
        BY <3>1, <3>2
    <2>2. ASSUME x \in ToSet(s) PROVE \E i \in 1 .. Len(r) : r[i] = x
      <3>1. PICK i \in 1 .. Len(s) : s[i] = x
        BY <1>1, <2>2, SetOf
      <3> QED
        BY <1>3, <3>1
    <2>3. ASSUME x \in ToSet(t) PROVE \E i \in 1 .. Len(r) : r[i] = x
      <3>1. PICK i \in 1 .. Len(t) : t[i] = x
        BY <1>1, <2>3, SetOf
      <3> QED
        BY <1>4, <3>1
    <2> QED
      BY <1>2, <2>1, <2>2, <2>3, SetOf
  <1> QED
    BY <1>8, <1>9 DEF r
----------------------------------------------------------------------------
(* The tree of tasks, at any time.                                         *)

Known == 0 .. Loaded + forks

(* Each list holds tasks once, no task is in two, a parent has the lower    *)
(* pid, and a task that is gone or was never there has no children.         *)
TreeOK ==
  /\ kids \in [Pids -> Seq(Pids)] /\ \A p \in Pids : List(kids[p], Pids)
  /\ \A p \in Pids : \A t \in Children(p) : p < t /\ t \in Known
  /\ \A p, q \in Pids : p # q => Children(p) \cap Children(q) = {}
  /\ \A p \in Pids : Children(p) # {} => p \in Live
  /\ 1 \in Live
KernelOK ==
  /\ kthreads \subseteq Known /\ 1 \notin kthreads
  /\ current \in Live \ ({0, 1} \cup kthreads)
  /\ forks \in 0 .. MaxForks /\ exits \in 0 .. MaxExits

LEMMA PidsAre ==
  /\ Pids \subseteq Nat /\ 0 \in Pids /\ 1 \in Pids
  /\ KernelOK => Known \subseteq Pids
  BY ListProcsAssumption DEF Pids, Known, KernelOK

LEMMA LiveIs ==
  ASSUME NEW t
  PROVE  t \in Live <=> t = 0 \/ \E p \in Pids : t \in Children(p)
  BY DEF Live

LEMMA ChildrenAre ==
  ASSUME TreeOK, KernelOK, NEW p \in Pids
  PROVE  /\ Children(p) \subseteq Pids /\ Children(p) \subseteq Live
         /\ \A t \in Children(p) : p < t /\ t \in Known
         /\ List(kids[p], Pids)
  <1>1. Children(p) \subseteq Live
    BY LiveIs
  <1> QED
    BY <1>1, PidsAre DEF TreeOK

LEMMA KidsAre ==
  ASSUME TreeOK, KernelOK, NEW p \in Pids
  PROVE  /\ List(kids[p], Pids) /\ kids[p] \in Seq(Pids) /\ Len(kids[p]) \in Nat
         /\ Children(p) = ToSet(kids[p]) /\ p \notin Children(p)
  <1>1. List(kids[p], Pids) /\ kids[p] \in Seq(Pids)
    BY ChildrenAre DEF List
  <1>2. Len(kids[p]) \in Nat
    BY <1>1
  <1>3. p \notin Children(p)
    BY ChildrenAre, PidsAre
  <1> QED
    BY <1>1, <1>2, <1>3 DEF Children

LEMMA ParentIs ==
  ASSUME TreeOK, KernelOK, NEW t \in Live \ {0}
  PROVE  /\ Parent(t) \in Pids /\ t \in Children(Parent(t))
         /\ Parent(t) < t /\ Parent(t) \in Live
  <1>1. \E p \in Pids : t \in Children(p)
    BY LiveIs
  <1>2. Parent(t) \in Pids /\ t \in Children(Parent(t))
    BY <1>1 DEF Parent
  <1> QED
    BY <1>2 DEF TreeOK

(* A task forks. *)
Forked(p, new) ==
  /\ p \in Live /\ p \in Pids /\ new \in Pids /\ new \notin Known
  /\ \A q \in Pids : \A x : x \in Children(q)' <=> x \in Children(q) \/ (q = p /\ x = new)
  /\ \A q \in Pids \ {p} : kids'[q] = kids[q]
  /\ kids'[p] = Append(kids[p], new)
  /\ Known' = Known \cup {new}
  /\ kthreads \subseteq kthreads' /\ kthreads' \subseteq kthreads \cup {new}

LEMMA ForkForks ==
  ASSUME TreeOK, KernelOK, NEW p \in Live, Fork(p)
  PROVE  Forked(p, Loaded + forks + 1) /\ TreeOK' /\ KernelOK'
  <1> DEFINE new == Loaded + forks + 1
  <1>1. p \in Pids
    BY LiveIs, ChildrenAre, PidsAre
  <1>2. /\ new \in Pids /\ new \notin Known /\ Known' = Known \cup {new}
        /\ forks' \in 0 .. MaxForks /\ new > 1 /\ \A t \in Known : t < new
    BY ListProcsAssumption DEF Fork, KernelOK, Known, Pids
  <1>3. /\ kids' = [kids EXCEPT ![p] = Append(@, new)]
        /\ kthreads \subseteq kthreads' /\ kthreads' \subseteq kthreads \cup {new}
        /\ current' = current /\ exits' = exits
    <2>1. new = Loaded + forks'
      BY ListProcsAssumption DEF Fork, KernelOK
    <2> HIDE DEF new
    <2>2. kids' = [kids EXCEPT ![p] = Append(@, new)] /\ current' = current /\ exits' = exits
      BY <2>1 DEF Fork
    <2>3. kthreads' = kthreads \/ kthreads' = kthreads \cup {new}
      BY <2>1 DEF Fork
    <2> QED
      BY <2>2, <2>3
  <1> HIDE DEF new
  <1>4. \A q \in Pids : new \notin Children(q)
    BY <1>2, ChildrenAre
  <1>5. /\ kids'[p] = Append(kids[p], new) /\ \A q \in Pids \ {p} : kids'[q] = kids[q]
        /\ DOMAIN kids' = Pids /\ kids' = [q \in Pids |-> kids'[q]]
    BY <1>1, <1>3 DEF TreeOK
  <1>6. /\ List(kids'[p], Pids)
        /\ \A x : x \in ToSet(kids'[p]) <=> x \in Children(p) \/ x = new
    <2>1. List(kids[p], Pids) /\ new \notin ToSet(kids[p])
      BY <1>1, <1>4, ChildrenAre DEF Children
    <2> QED
      BY <1>2, <1>5, <2>1, AppendIs DEF Children
  <1>7. \A q \in Pids : \A x : x \in Children(q)' <=> x \in Children(q) \/ (q = p /\ x = new)
    BY <1>5, <1>6 DEF Children
  <1>8. Forked(p, new)
    BY <1>1, <1>2, <1>3, <1>5, <1>7 DEF Forked
  <1>9. \A t : t \in Live' <=> t \in Live \/ t = new
    BY <1>1, <1>7 DEF Live
  <1>10. TreeOK'
    <2>1. \A q \in Pids : List(kids'[q], Pids)
      BY <1>5, <1>6, ChildrenAre
    <2>2. kids' \in [Pids -> Seq(Pids)]
      BY <1>5, <2>1 DEF List
    <2>3. \A q \in Pids : \A t \in Children(q)' : q < t /\ t \in Known'
      <3>1. p \in Known
        <4>1. 0 \in Known
          BY ListProcsAssumption DEF Known, KernelOK
        <4> QED
          BY <4>1, LiveIs, ChildrenAre
      <3> QED
        BY <1>2, <1>7, <3>1, ChildrenAre
    <2>4. \A q, r \in Pids : q # r => \A x : ~(x \in Children(q)' /\ x \in Children(r)')
      <3>1. ASSUME NEW q \in Pids, NEW r \in Pids, q # r, NEW x,
                   x \in Children(q)', x \in Children(r)'
            PROVE  FALSE
        <4>1. x \notin Children(q) \/ x \notin Children(r)
          BY <3>1 DEF TreeOK
        <4>2. x = new
          BY <1>7, <3>1, <4>1
        <4> QED
          BY <1>4, <1>7, <3>1, <4>2
      <3> QED
        BY <3>1
    <2>5. \A q \in Pids : \A x \in Children(q)' : q \in Live'
      BY <1>7, <1>9 DEF TreeOK
    <2>6. 1 \in Live'
      BY <1>9 DEF TreeOK
    <2> QED
      BY <2>1, <2>2, <2>3, <2>4, <2>5, <2>6 DEF TreeOK
  <1>11. KernelOK'
    <2>1. kthreads' \subseteq Known' /\ 1 \notin kthreads'
      BY <1>2, <1>3 DEF KernelOK
    <2>2. current' \in Live' \ ({0, 1} \cup kthreads')
      <3>1. current \in Live /\ current \notin {0, 1} /\ current \notin kthreads
        BY DEF KernelOK
      <3>2. current # new
        BY <1>4, <1>2, <3>1, LiveIs
      <3> QED
        BY <1>3, <1>9, <3>1, <3>2
    <2>3. exits' \in 0 .. MaxExits
      BY <1>3 DEF KernelOK
    <2> QED
      BY <1>2, <2>1, <2>2, <2>3 DEF KernelOK
  <1> QED
    BY <1>8, <1>10, <1>11 DEF new

(* A task exits. *)
Exited(t) ==
  /\ t \in Live \ {0, 1, current} /\ t \in Pids
  /\ \A x : x \notin Children(t)'
  /\ \A x : x \in Children(1)' <=> (x \in Children(1) /\ x # t) \/ x \in Children(t)
  /\ \A q \in Pids \ {1, t} : \A x : x \in Children(q)' <=> x \in Children(q) /\ x # t
  /\ \A q \in Pids \ {1, t} : kids'[q] = RemoveFirst(kids[q], t)
  /\ \A x : x \in Live' <=> x \in Live /\ x # t
  /\ Known' = Known /\ kthreads' = kthreads

LEMMA ExitExits ==
  ASSUME TreeOK, KernelOK, NEW t \in Live \ {0, 1, current}, Exit(t)
  PROVE  Exited(t) /\ TreeOK' /\ KernelOK'
  <1>1. t \in Pids /\ 1 \in Pids
    BY LiveIs, ChildrenAre, PidsAre
  <1>2. /\ kthreads' = kthreads /\ current' = current /\ forks' = forks
        /\ exits' \in 0 .. MaxExits /\ Known' = Known
    BY ListProcsAssumption DEF Exit, KernelOK, Known
  <1>3. /\ kids' = [p \in Pids |-> kids'[p]] /\ kids'[t] = <<>>
        /\ kids'[1] = Joined(RemoveFirst(kids[1], t), kids[t])
        /\ \A q \in Pids \ {1, t} : kids'[q] = RemoveFirst(kids[q], t)
    <2>1. kids' = [p \in Pids |-> CASE p = t -> <<>>
                                    [] p = 1 -> RemoveFirst(kids[1], t) \o kids[t]
                                    [] OTHER -> RemoveFirst(kids[p], t)]
      BY DEF Exit
    <2> QED
      BY <1>1, <2>1 DEF Joined
  <1>4. ASSUME NEW q \in Pids
        PROVE  /\ List(RemoveFirst(kids[q], t), Pids)
               /\ \A x : x \in ToSet(RemoveFirst(kids[q], t)) <=> x \in Children(q) /\ x # t
    <2>1. List(kids[q], Pids)
      BY ChildrenAre
    <2> QED
      BY <2>1, RemoveFirstIs DEF Children
  <1>5. ASSUME NEW q \in Pids \ {1, t}
        PROVE  /\ List(kids'[q], Pids)
               /\ \A x : x \in Children(q)' <=> x \in Children(q) /\ x # t
    BY <1>3, <1>4 DEF Children
  <1>6. List(kids'[t], Pids) /\ \A x : x \notin Children(t)'
    <2>1. <<>> \in Seq(Pids) /\ IsInjective(<<>>) /\ ToSet(<<>>) = {}
      BY DEF ToSet, IsInjective
    <2> QED
      BY <1>3, <2>1 DEF List, Children
  <1>7. /\ List(kids'[1], Pids)
        /\ \A x : x \in Children(1)' <=> (x \in Children(1) /\ x # t) \/ x \in Children(t)
    <2> DEFINE u == RemoveFirst(kids[1], t)
    <2>1. List(u, Pids) /\ \A x : x \in ToSet(u) <=> x \in Children(1) /\ x # t
      BY <1>1, <1>4
    <2>2. List(kids[t], Pids) /\ ToSet(kids[t]) = Children(t)
      BY <1>1, ChildrenAre DEF Children
    <2>3. ToSet(u) \cap ToSet(kids[t]) = {}
      BY <1>1, <2>1, <2>2 DEF TreeOK
    <2>4. kids'[1] = Joined(u, kids[t])
      BY <1>3
    <2> HIDE DEF u
    <2>5. List(Joined(u, kids[t]), Pids) /\ ToSet(Joined(u, kids[t])) = ToSet(u) \cup ToSet(kids[t])
      BY <2>1, <2>2, <2>3, JoinedIs
    <2>6. List(kids'[1], Pids) /\ Children(1)' = ToSet(u) \cup ToSet(kids[t])
      BY <2>4, <2>5 DEF Children
    <2> QED
      BY <2>1, <2>2, <2>6
  <1>8. \A q \in Pids : \A x \in Children(q)' :
          \/ x \in Children(q) /\ x # t /\ q # t
          \/ q = 1 /\ x \in Children(t)
    BY <1>5, <1>6, <1>7
  <1>9. ASSUME NEW x PROVE x \in Live' <=> x \in Live /\ x # t
    <2>1. x \in Live' <=> x = 0 \/ \E q \in Pids : x \in Children(q)'
      BY DEF Live
    <2>2. ASSUME NEW q \in Pids, x \in Children(q), x # t
          PROVE  \E r \in Pids : x \in Children(r)'
      <3>1. CASE q = t
        BY <1>1, <1>7, <2>2, <3>1
      <3>2. CASE q # t
        BY <1>5, <1>7, <2>2, <3>2
      <3> QED
        BY <3>1, <3>2
    <2>3. t \notin Children(t)
      BY <1>1, ChildrenAre, PidsAre
    <2> QED
      BY <1>1, <1>8, <2>1, <2>2, <2>3, LiveIs
  <1>10. Exited(t)
    BY <1>1, <1>2, <1>3, <1>5, <1>6, <1>7, <1>9 DEF Exited
  <1>11. TreeOK'
    <2>1. \A q \in Pids : List(kids'[q], Pids)
      BY <1>5, <1>6, <1>7
    <2>2. kids' \in [Pids -> Seq(Pids)]
      BY <1>3, <2>1 DEF List
    <2>3. ASSUME NEW q \in Pids, NEW x \in Children(q)' PROVE q < x /\ x \in Known'
      <3>1. CASE x \in Children(q)
        BY <1>2, <3>1, ChildrenAre
      <3>2. CASE q = 1 /\ x \in Children(t)
        <4>1. t < x /\ x \in Known /\ x \in Pids
          BY <1>1, <3>2, ChildrenAre
        <4>2. 1 < t
          BY <1>1, PidsAre
        <4> QED
          BY <1>1, <1>2, <3>2, <4>1, <4>2, PidsAre
      <3> QED
        BY <1>8, <3>1, <3>2
    <2>4. ASSUME NEW q \in Pids, NEW r \in Pids, q # r, NEW x,
                 x \in Children(q)', x \in Children(r)'
          PROVE  FALSE
      <3>1. \A a, b \in Pids : x \in Children(a) /\ x \in Children(b) => a = b
        BY DEF TreeOK
      <3> QED
        BY <1>1, <1>8, <2>4, <3>1
    <2>5. ASSUME NEW q \in Pids, NEW x \in Children(q)' PROVE q \in Live'
      BY <1>8, <1>9, <2>5 DEF TreeOK
    <2>6. 1 \in Live'
      BY <1>9 DEF TreeOK
    <2> QED
      BY <2>1, <2>2, <2>3, <2>4, <2>5, <2>6 DEF TreeOK
  <1>12. KernelOK'
    BY <1>2, <1>9 DEF KernelOK
  <1> QED
    BY <1>10, <1>11, <1>12

LEMMA LiveKnown == ASSUME TreeOK, KernelOK PROVE Live \subseteq Known
  <1>1. 0 \in Known
    BY ListProcsAssumption DEF Known, KernelOK
  <1> QED
    BY <1>1, LiveIs, ChildrenAre

(* Any tree of Init is such a tree. *)
LEMMA InitTree ==
  ASSUME Init
  PROVE  /\ TreeOK /\ KernelOK /\ task \in Live /\ task < current
         /\ current \in Children(task)
  <1>1. PICK p \in Trees :
          /\ kids = [t \in Pids |-> SetToSeq({i \in 1 .. Loaded : p[i] = t})]
          /\ kthreads \in {k \in SUBSET (0 .. Loaded) :
               0 \in k /\ 1 \notin k /\ \A t \in k \ {0} : p[t] \in k}
          /\ current \in (2 .. Loaded) \ kthreads
          /\ task = p[current]
    BY DEF Init
  <1>2. forks = 0 /\ exits = 0 /\ Known = 0 .. Loaded
    BY ListProcsAssumption DEF Init, Known
  <1>3. /\ p \in [1 .. Loaded -> 0 .. Loaded - 1] /\ \A t \in 1 .. Loaded : p[t] < t
        /\ 1 .. Loaded \subseteq Pids /\ 0 .. Loaded \subseteq Pids /\ Pids \subseteq Nat
    BY ListProcsAssumption DEF Trees, Pids
  <1>4. ASSUME NEW t \in Pids
        PROVE  /\ List(kids[t], Pids)
               /\ \A x : x \in Children(t) <=> x \in 1 .. Loaded /\ p[x] = t
    <2> DEFINE S == {i \in 1 .. Loaded : p[i] = t}
    <2>1. IsFiniteSet(1 .. Loaded) /\ S \in SUBSET (1 .. Loaded)
      BY FS_Interval, ListProcsAssumption
    <2>2. IsFiniteSet(S)
      BY <2>1, FS_Subset
    <2>3. kids[t] = SetToSeq(S)
      BY <1>1
    <2>4. \A x : x \in S <=> x \in 1 .. Loaded /\ p[x] = t
      OBVIOUS
    <2> HIDE DEF S
    <2>5. List(kids[t], S) /\ ToSet(kids[t]) = S
      BY <2>2, <2>3, SetToSeqIs
    <2>6. List(kids[t], Pids)
      <3>1. S \subseteq Pids
        BY <1>3, <2>1
      <3>2. kids[t] \in Seq(S) /\ IsInjective(kids[t])
        BY <2>5 DEF List
      <3>3. kids[t] \in Seq(Pids)
        BY <3>1, <3>2
      <3> QED
        BY <3>2, <3>3 DEF List
    <2> QED
      BY <2>4, <2>5, <2>6 DEF Children
  <1>5. \A x : x \in Live <=> x \in 0 .. Loaded
    <2>1. ASSUME NEW x \in 1 .. Loaded PROVE \E t \in Pids : x \in Children(t)
      BY <1>3, <1>4, ListProcsAssumption
    <2> QED
      BY <1>4, <2>1, LiveIs, ListProcsAssumption
  <1>6. TreeOK
    <2>1. kids \in [Pids -> Seq(Pids)] /\ \A t \in Pids : List(kids[t], Pids)
      <3>1. DOMAIN kids = Pids /\ kids = [t \in Pids |-> kids[t]]
        BY <1>1
      <3> QED
        BY <1>4, <3>1 DEF List
    <2>2. \A t \in Pids : \A x \in Children(t) : t < x /\ x \in Known
      BY <1>2, <1>3, <1>4, ListProcsAssumption
    <2>3. \A t, u \in Pids : t # u => Children(t) \cap Children(u) = {}
      BY <1>4
    <2>4. \A t \in Pids : Children(t) # {} => t \in Live
      BY <1>3, <1>4, <1>5, ListProcsAssumption
    <2> QED
      BY <1>5, <2>1, <2>2, <2>3, <2>4, ListProcsAssumption DEF TreeOK
  <1>7. KernelOK
    BY <1>1, <1>2, <1>5, ListProcsAssumption DEF KernelOK
  <1>8. current \in 1 .. Loaded /\ task \in 0 .. Loaded
    BY <1>1, <1>3, ListProcsAssumption
  <1> QED
    BY <1>1, <1>3, <1>4, <1>5, <1>6, <1>7, <1>8
----------------------------------------------------------------------------
(* What a call of print_children has before it.                            *)

Frames == [of : Pids, pos : Pids]
FrameOK(f) == f \in Frames /\ f.pos \in {f.of} \cup Children(f.of)
Ahead(f) == IF f.pos = f.of THEN Children(f.of) ELSE After(kids[f.of], f.pos)
StepsTo(f, child) == [of |-> f.of, pos |-> child]

LEMMA AheadIs ==
  ASSUME TreeOK, KernelOK, NEW f, FrameOK(f)
  PROVE  /\ Ahead(f) \subseteq Children(f.of) /\ f.pos \notin Ahead(f)
         /\ \A x : x \in ToSet(Rest(f)) <=> x \in Ahead(f)
         /\ Rest(f) \in Seq(Pids)
  <1> DEFINE s == kids[f.of]
  <1>1. /\ f.of \in Pids /\ List(s, Pids) /\ s \in Seq(Pids) /\ Len(s) \in Nat
        /\ Children(f.of) = ToSet(s) /\ f.of \notin Children(f.of)
    BY KidsAre DEF FrameOK, Frames
  <1>2. CASE f.pos = f.of
    BY <1>1, <1>2 DEF Rest, Ahead
  <1>3. CASE f.pos # f.of
    <2> DEFINE a == At(s, f.pos)
    <2>1. f.pos \in ToSet(s)
      BY <1>1, <1>3 DEF FrameOK
    <2>2. a \in 1 .. Len(s) /\ s[a] = f.pos /\ a \in 0 .. Len(s)
      BY <1>1, <2>1, AtIs
    <2>3. Rest(f) = SubSeq(s, a + 1, Len(s))
      BY <1>3 DEF Rest, At
    <2> HIDE DEF a, s
    <2>4. /\ Rest(f) \in Seq(Pids)
          /\ \A x : x \in ToSet(Rest(f)) <=> \E i \in a + 1 .. Len(s) : s[i] = x
      BY <1>1, <2>2, <2>3, TailIs
    <2>5. \A i, j \in 1 .. Len(s) : s[i] = s[j] => i = j
      BY <1>1 DEF List, IsInjective
    <2>6. ASSUME NEW x PROVE x \in After(s, f.pos) <=> \E i \in a + 1 .. Len(s) : s[i] = x
      <3>1. ASSUME NEW j \in 1 .. Len(s), s[j] = x, NEW i \in 1 .. j - 1, s[i] = f.pos
            PROVE  j \in a + 1 .. Len(s)
        BY <1>1, <2>2, <2>5, <3>1
      <3>2. ASSUME NEW j \in a + 1 .. Len(s), s[j] = x
            PROVE  j \in 1 .. Len(s) /\ a \in 1 .. j - 1
        BY <1>1, <2>2, <3>2
      <3> QED
        BY <2>2, <3>1, <3>2, AfterIs
    <2>7. \A x : x \in Ahead(f) <=> \E i \in a + 1 .. Len(s) : s[i] = x
      BY <1>3, <2>6 DEF Ahead, s
    <2>8. f.pos \notin Ahead(f)
      BY <1>1, <2>2, <2>5, <2>7
    <2>9. \A x \in Ahead(f) : x \in Children(f.of)
      BY <1>1, <2>2, <2>7, SetOf
    <2> QED
      BY <2>4, <2>7, <2>8, <2>9
  <1> QED
    BY <1>2, <1>3

(* The step to the next child. *)
LEMMA NextAhead ==
  ASSUME TreeOK, KernelOK, NEW f, FrameOK(f), Rest(f) # <<>>
  PROVE  LET child == Head(Rest(f))
         IN /\ child \in Ahead(f) /\ FrameOK(StepsTo(f, child))
            /\ \A x : x \in Ahead(StepsTo(f, child)) <=> x \in Ahead(f) /\ x # child
  <1> DEFINE s == kids[f.of]
             child == Head(Rest(f))
             g == StepsTo(f, child)
  <1>1. /\ f.of \in Pids /\ List(s, Pids) /\ s \in Seq(Pids) /\ Len(s) \in Nat
        /\ Children(f.of) = ToSet(s) /\ f.of \notin Children(f.of)
    BY KidsAre DEF FrameOK, Frames
  <1>2. PICK a \in 0 .. Len(s) :
          /\ Rest(f) = SubSeq(s, a + 1, Len(s))
          /\ \A x : x \in Ahead(f) <=> \E i \in a + 1 .. Len(s) : s[i] = x
    <2>1. CASE f.pos = f.of
      <3>1. Rest(f) = s /\ s = SubSeq(s, 0 + 1, Len(s))
        BY <1>1, <2>1 DEF Rest
      <3>2. \A x : x \in Ahead(f) <=> \E i \in 0 + 1 .. Len(s) : s[i] = x
        BY <1>1, <2>1, SetOf DEF Ahead
      <3> QED
        BY <1>1, <3>1, <3>2
    <2>2. CASE f.pos # f.of
      <3> DEFINE a == At(s, f.pos)
      <3>1. f.pos \in ToSet(s)
        BY <1>1, <2>2 DEF FrameOK
      <3>2. a \in 0 .. Len(s)
        BY <1>1, <3>1, AtIs
      <3>3. Rest(f) = SubSeq(s, a + 1, Len(s))
        BY <2>2 DEF Rest, At
      <3>4. \A x : x \in ToSet(Rest(f)) <=> \E i \in a + 1 .. Len(s) : s[i] = x
        <4> HIDE DEF a, s
        <4> QED
          BY <1>1, <3>2, <3>3, TailIs
      <3> HIDE DEF a
      <3> QED
        BY <3>2, <3>3, <3>4, AheadIs
    <2> QED
      BY <2>1, <2>2
  <1> HIDE DEF s
  <1>3. a + 1 \in 1 .. Len(s) /\ child = s[a + 1] /\ a \in Nat
    BY <1>1, <1>2
  <1> HIDE DEF child
  <1>4. child \in Ahead(f) /\ child \in Children(f.of)
    BY <1>1, <1>2, <1>3, AheadIs
  <1>5. FrameOK(g) /\ g.of = f.of /\ g.pos = child /\ child # f.of
    BY <1>1, <1>4, ChildrenAre DEF FrameOK, Frames, StepsTo
  <1>6. \A i, j \in 1 .. Len(s) : s[i] = s[j] => i = j
    BY <1>1 DEF List, IsInjective
  <1>7. ASSUME NEW x PROVE x \in After(s, child) <=> x \in Ahead(f) /\ x # child
    <2>1. ASSUME NEW j \in 1 .. Len(s), s[j] = x, NEW i \in 1 .. j - 1, s[i] = child
          PROVE  j \in a + 1 .. Len(s) /\ x # child
      <3>1. i = a + 1
        BY <1>1, <1>3, <1>6, <2>1
      <3> QED
        BY <1>1, <1>3, <1>6, <2>1, <3>1
    <2>2. ASSUME NEW j \in a + 1 .. Len(s), s[j] = x, x # child
          PROVE  j \in 1 .. Len(s) /\ a + 1 \in 1 .. j - 1
      BY <1>1, <1>3, <2>2
    <2> QED
      BY <1>2, <1>3, <2>1, <2>2, AfterIs
  <1>8. Ahead(g) = After(s, child)
    BY <1>5 DEF Ahead, s
  <1> QED
    BY <1>4, <1>5, <1>7, <1>8 DEF child

(* What a fork and an exit do to it. *)
LEMMA ForkAhead ==
  ASSUME TreeOK, KernelOK, NEW p, NEW new, Forked(p, new), NEW f, FrameOK(f)
  PROVE  /\ FrameOK(f)'
         /\ \A x : x \in Ahead(f)' <=> x \in Ahead(f) \/ (f.of = p /\ x = new)
  <1>1. /\ f \in Frames /\ f.of \in Pids /\ new \notin Children(f.of)
        /\ List(kids[f.of], Pids) /\ Children(f.of) = ToSet(kids[f.of])
    BY KidsAre, ChildrenAre DEF FrameOK, Frames, Forked
  <1>2. FrameOK(f)'
    BY <1>1 DEF FrameOK, Forked
  <1>3. ASSUME NEW x PROVE x \in Ahead(f)' <=> x \in Ahead(f) \/ (f.of = p /\ x = new)
    <2>1. CASE f.pos = f.of
      <3>1. x \in Children(f.of)' <=> x \in Children(f.of) \/ (f.of = p /\ x = new)
        BY <1>1 DEF Forked
      <3>2. Ahead(f)' = Children(f.of)' /\ Ahead(f) = Children(f.of)
        BY <2>1 DEF Ahead
      <3> QED
        BY <3>1, <3>2
    <2>2. CASE f.pos # f.of /\ f.of = p
      <3>1. f.pos \in ToSet(kids[p])
        BY <1>1, <2>2 DEF FrameOK
      <3>2. /\ List(kids[p], Pids) /\ new \in Pids /\ new \notin ToSet(kids[p])
            /\ kids'[p] = Append(kids[p], new)
        BY <1>1, <2>2 DEF Forked
      <3>3. x \in After(kids'[p], f.pos) <=> x \in After(kids[p], f.pos) \/ x = new
        BY <3>1, <3>2, AppendIs
      <3>4. Ahead(f)' = After(kids'[p], f.pos) /\ Ahead(f) = After(kids[p], f.pos)
        BY <2>2 DEF Ahead
      <3> QED
        BY <2>2, <3>3, <3>4
    <2>3. CASE f.pos # f.of /\ f.of # p
      <3>1. kids'[f.of] = kids[f.of]
        BY <1>1, <2>3 DEF Forked
      <3> QED
        BY <2>3, <3>1 DEF Ahead
    <2> QED
      BY <2>1, <2>2, <2>3
  <1> QED
    BY <1>2, <1>3

LEMMA ExitAhead ==
  ASSUME TreeOK, KernelOK, NEW t, Exited(t), NEW f, FrameOK(f),
         f.of # t, f.pos # t, f.pos \notin Children(t)
  PROVE  /\ FrameOK(f)'
         /\ f.of # 1 => \A x : x \in Ahead(f)' <=> x \in Ahead(f) /\ x # t
  <1>1. /\ f \in Frames /\ f.of \in Pids /\ List(kids[f.of], Pids)
    BY KidsAre DEF FrameOK, Frames
  <1>2. FrameOK(f)'
    BY <1>1 DEF FrameOK, Exited
  <1>3. ASSUME f.of # 1 PROVE \A x : x \in Ahead(f)' <=> x \in Ahead(f) /\ x # t
    <2>1. CASE f.pos = f.of
      BY <1>1, <1>3, <2>1 DEF Ahead, Exited
    <2>2. CASE f.pos # f.of
      <3>1. kids'[f.of] = RemoveFirst(kids[f.of], t)
        BY <1>1, <1>3 DEF Exited
      <3>2. \A x : x \in After(kids'[f.of], f.pos) <=> x \in After(kids[f.of], f.pos) /\ x # t
        BY <1>1, <3>1, RemoveFirstIs
      <3> QED
        BY <2>2, <3>2 DEF Ahead
    <2> QED
      BY <2>1, <2>2
  <1> QED
    BY <1>2, <1>3
----------------------------------------------------------------------------
(* The inductive invariant.  A task is listed when print_children is done   *)
(* with it, under the task the walk has climbed to; what is listed is       *)
(* behind the walk, for its parent is.                                      *)

(* The frames of the walk follow a branch of the tree. *)
BranchOK ==
  /\ stack \in Seq(Frames)
  /\ task \in Live /\ prev_task \in Known /\ task < prev_task
  /\ prev_task \in Children(task) \/ prev_task \notin Live
  /\ stack # <<>> => stack[1].of = task
  /\ \A i \in 1 .. Len(stack) : FrameOK(stack[i])
  /\ \A i \in 1 .. Len(stack) - 1 :
       /\ stack[i].pos = stack[i + 1].of /\ stack[i].pos \in Children(stack[i].of)
       /\ stack[i].of \in kthreads
  /\ \A i, j \in 1 .. Len(stack) : i < j => stack[i].of < stack[j].of

ListedOK ==
  /\ times \in [Pids -> 0 .. 1]
  /\ \A x \in Pids : times[x] = 1 => x \in Known

(* No child of q will be listed from now on. *)
Finished(q) ==
  \/ q = prev_task
  \/ q = task /\ stack = <<>>
  \/ times[q] = 1
  \/ q # task /\ \E r \in Pids \ kthreads : q \in Children(r)

(* The frame of q is past its child x. *)
Passed(q, x) == \E i \in 1 .. Len(stack) : stack[i].of = q /\ x \notin Ahead(stack[i])

Behind ==
  \A q \in kthreads : \A x \in Children(q) :
    times[x] = 1 => Passed(q, x) \/ Finished(q)

(* What is listed is below the task, and so is its parent, unless it is now *)
(* a child of process 1; what the walk is in the middle of is not listed.   *)
Below ==
  /\ \A x \in Pids : times[x] = 1 => task < x
  /\ \A q \in Pids : \A x \in Children(q) : times[x] = 1 => task <= q \/ q = 1
  /\ \A i \in 1 .. Len(stack) : times[stack[i].of] = 0

(* What the frame of the task is past is listed, and so is the branch the   *)
(* walk came up, once that frame is done.                                   *)
TaskListed ==
  /\ stack # <<>> /\ task \in kthreads =>
       \A x \in Children(task) :
         \/ x \in Ahead(stack[1]) \/ times[x] = 1
         \/ x = stack[1].pos /\ Len(stack) > 1
  /\ stack = <<>> /\ task \in kthreads /\ prev_task \in kthreads
       /\ prev_task \in Children(task) => times[prev_task] = 1

WalkOK == BranchOK /\ Below /\ Behind /\ TaskListed
TreeInv == TreeOK /\ KernelOK /\ ListedOK
IInv == TreeInv /\ lost \in BOOLEAN /\ (lost = FALSE => WalkOK)

LEMMA InitOK == Init => IInv
  <1> SUFFICES ASSUME Init PROVE IInv
    OBVIOUS
  <1>1. /\ TreeOK /\ KernelOK /\ task \in Live /\ task < current
        /\ current \in Children(task)
    BY InitTree
  <1>2. /\ prev_task = current /\ stack = <<>> /\ \A t \in Pids : times[t] = 0
        /\ times = [t \in Pids |-> 0]
    BY DEF Init
  <1>3. lost = FALSE
    BY DEF Init
  <1>4. ListedOK
    BY <1>2 DEF ListedOK
  <1>5. stack \in Seq(Frames) /\ Len(stack) = 0
    BY <1>2
  <1>6. BranchOK
    BY <1>1, <1>2, <1>5, LiveKnown DEF BranchOK, KernelOK
  <1>7. Below
    BY <1>1, <1>2, <1>5, ChildrenAre DEF Below
  <1>8. Behind
    BY <1>1, <1>2, ChildrenAre, PidsAre DEF Behind
  <1>9. TaskListed
    BY <1>1, <1>2 DEF TaskListed, KernelOK
  <1> QED
    BY <1>1, <1>3, <1>4, <1>6, <1>7, <1>8, <1>9 DEF IInv, TreeInv, WalkOK
----------------------------------------------------------------------------
(* The steps of the kernel.                                                *)

LEMMA FramesAre ==
  ASSUME BranchOK, NEW i \in 1 .. Len(stack)
  PROVE  /\ stack[i] \in Frames /\ FrameOK(stack[i]) /\ stack[i].of \in Pids
         /\ stack[i].pos \in {stack[i].of} \cup Children(stack[i].of)
  BY DEF BranchOK, FrameOK, Frames

LEMMA ForkOK ==
  ASSUME TreeInv, WalkOK, NEW p, NEW new, Forked(p, new), UNCHANGED walk
  PROVE  WalkOK'
  <1> USE DEF TreeInv, WalkOK
  <1>1. task' = task /\ prev_task' = prev_task /\ stack' = stack /\ times' = times
    BY DEF walk
  <1>2. /\ new \notin Known /\ Live \subseteq Known /\ Known' = Known \cup {new}
        /\ new \notin Live /\ Known \subseteq Pids
        /\ \A q \in Pids : \A x : x \in Children(q)' <=> x \in Children(q) \/ (q = p /\ x = new)
        /\ \A q \in Known : q \in kthreads' <=> q \in kthreads
    BY LiveKnown, PidsAre DEF Forked
  <1>3. \A x : x \in Live' <=> x \in Live \/ x = new
    BY <1>2 DEF Live, Forked
  <1>4. \A q \in Pids : \A x \in Children(q) : q \in Live /\ x \in Live /\ x \in Known
    BY ChildrenAre DEF TreeOK
  <1>5. \A i \in 1 .. Len(stack) :
          /\ FrameOK(stack[i])'
          /\ \A x : x \in Ahead(stack[i])' <=>
                      x \in Ahead(stack[i]) \/ (stack[i].of = p /\ x = new)
    <2> SUFFICES ASSUME NEW i \in 1 .. Len(stack)
                 PROVE  /\ FrameOK(stack[i])'
                        /\ \A x : x \in Ahead(stack[i])' <=>
                                    x \in Ahead(stack[i]) \/ (stack[i].of = p /\ x = new)
      OBVIOUS
    <2> DEFINE f == stack[i]
    <2>1. FrameOK(f) /\ f \in Frames /\ f' = f
      BY <1>1, FramesAre
    <2>2. \A g : FrameOK(g) => /\ FrameOK(g)'
                               /\ \A x : x \in Ahead(g)' <=> x \in Ahead(g) \/ (g.of = p /\ x = new)
      BY ForkAhead
    <2> QED
      BY <1>1, <2>1, <2>2 DEF FrameOK, Ahead
  <1>6. BranchOK'
    <2>1. /\ stack \in Seq(Frames) /\ task \in Live' /\ prev_task \in Known'
          /\ task < prev_task /\ (stack # <<>> => stack[1].of = task)
          /\ \A i, j \in 1 .. Len(stack) : i < j => stack[i].of < stack[j].of
      BY <1>2, <1>3 DEF BranchOK
    <2>2. prev_task \in Children(task)' \/ prev_task \notin Live'
      <3>1. task \in Pids /\ prev_task # new
        BY <1>2 DEF BranchOK
      <3> QED
        BY <1>1, <1>2, <1>3, <3>1 DEF BranchOK, Children
    <2>3. \A i \in 1 .. Len(stack) - 1 :
            /\ stack[i].pos = stack[i + 1].of /\ stack[i].pos \in Children(stack[i].of)'
            /\ stack[i].of \in kthreads'
      <3> SUFFICES ASSUME NEW i \in 1 .. Len(stack) - 1
                   PROVE  /\ stack[i].pos = stack[i + 1].of
                          /\ stack[i].pos \in Children(stack[i].of)'
                          /\ stack[i].of \in kthreads'
        OBVIOUS
      <3>1. /\ stack[i].pos = stack[i + 1].of /\ stack[i].pos \in Children(stack[i].of)
            /\ stack[i].of \in kthreads'
        BY <1>2 DEF BranchOK, Forked
      <3>2. Len(stack) \in Nat
        BY DEF BranchOK
      <3>3. stack[i].of \in Pids
        BY <3>2, FramesAre
      <3> QED
        BY <1>1, <1>2, <3>1, <3>3 DEF Children
    <2> QED
      BY <1>1, <1>5, <2>1, <2>2, <2>3 DEF BranchOK
  <1>7. Below'
    <2>1. \A x \in Pids : times[x] = 1 => task < x
      BY DEF Below
    <2>2. ASSUME NEW q \in Pids, NEW x, x \in Children(q)', times[x] = 1
          PROVE  task <= q \/ q = 1
      <3>1. x # new
        BY <1>2, <2>2 DEF ListedOK, Forked
      <3> QED
        BY <1>2, <2>2, <3>1 DEF Below
    <2>3. \A i \in 1 .. Len(stack) : times[stack[i].of] = 0
      BY DEF Below
    <2> QED
      BY <1>1, <2>1, <2>2, <2>3 DEF Below
  <1>8. Behind'
    <2> SUFFICES ASSUME NEW q \in kthreads', NEW x, x \in Children(q)', times[x] = 1
                 PROVE  Passed(q, x)' \/ Finished(q)'
      BY <1>1 DEF Behind
    <2>1. x # new /\ q \in Pids
      BY <1>2 DEF ListedOK, Forked, KernelOK
    <2>2. x \in Children(q) /\ q \in Known /\ q \in kthreads
      BY <1>2, <1>4, <2>1
    <2>3. CASE Passed(q, x)
      BY <1>1, <1>5, <2>1, <2>3 DEF Passed
    <2>4. CASE Finished(q)
      <3>1. CASE q # task /\ \E r \in Pids \ kthreads : q \in Children(r)
        <4>1. PICK r \in Pids \ kthreads : q \in Children(r)
          BY <3>1
        <4>2. r \in Known /\ r \notin kthreads' /\ q \in Children(r)'
          BY <1>2, <1>4, <4>1
        <4> QED
          BY <1>1, <3>1, <4>1, <4>2 DEF Finished
      <3> QED
        BY <1>1, <2>4, <3>1 DEF Finished
    <2> QED
      BY <2>2, <2>3, <2>4 DEF Behind
  <1>9. TaskListed'
    <2>1. ASSUME stack # <<>>, task \in kthreads', NEW x, x \in Children(task)'
          PROVE  \/ x \in Ahead(stack[1])' \/ times[x] = 1
                 \/ x = stack[1].pos /\ Len(stack) > 1
      <3>1. 1 \in 1 .. Len(stack) /\ stack[1].of = task
        BY <2>1 DEF BranchOK
      <3>2. task \in Pids /\ task \in kthreads
        BY <1>2, <2>1 DEF BranchOK
      <3> QED
        BY <1>1, <1>2, <1>5, <2>1, <3>1, <3>2 DEF TaskListed, Ahead, Children
    <2>2. ASSUME stack = <<>>, task \in kthreads', prev_task \in kthreads',
                 prev_task \in Children(task)'
          PROVE  times[prev_task] = 1
      <3>1. task \in Known /\ prev_task \in Known /\ task \in Pids
        BY <1>2 DEF BranchOK
      <3> QED
        BY <1>1, <1>2, <2>2, <3>1 DEF TaskListed, Children
    <2> QED
      BY <1>1, <2>1, <2>2 DEF TaskListed
  <1> QED
    BY <1>6, <1>7, <1>8, <1>9

(* What is out of the way of the walk may exit. *)
Spared(t) ==
  /\ task # t /\ (stack # <<>> => prev_task # t)
  /\ \A i \in 1 .. Len(stack) :
       stack[i].of # t /\ stack[i].pos # t /\ stack[i].pos \notin Children(t)

LEMMA ExitOK ==
  ASSUME TreeInv, WalkOK, NEW t, Exited(t), Spared(t), UNCHANGED walk
  PROVE  WalkOK'
  <1> USE DEF TreeInv, WalkOK
  <1>1. task' = task /\ prev_task' = prev_task /\ stack' = stack /\ times' = times
    BY DEF walk
  <1>2. /\ Known' = Known /\ kthreads' = kthreads /\ t \in Pids /\ t # 1 /\ t # 0
        /\ 1 \in Pids /\ 1 \notin kthreads /\ kthreads \subseteq Pids
        /\ \A x : x \in Live' <=> x \in Live /\ x # t
    BY PidsAre DEF Exited, KernelOK
  <1>3. /\ \A x : x \notin Children(t)'
        /\ \A q \in Pids \ {1, t} : \A x : x \in Children(q)' <=> x \in Children(q) /\ x # t
        /\ \A x : x \in Children(1)' <=> (x \in Children(1) /\ x # t) \/ x \in Children(t)
    BY DEF Exited
  <1>4. \A q \in Pids : \A x : x \in Children(q) /\ q # t /\ x # t => x \in Children(q)'
    BY <1>3
  <1>5. \A i \in 1 .. Len(stack) :
          /\ FrameOK(stack[i])'
          /\ stack[i].of # 1 =>
               \A x : x \in Ahead(stack[i])' <=> x \in Ahead(stack[i]) /\ x # t
    <2> SUFFICES ASSUME NEW i \in 1 .. Len(stack)
                 PROVE  /\ FrameOK(stack[i])'
                        /\ stack[i].of # 1 =>
                             \A x : x \in Ahead(stack[i])' <=> x \in Ahead(stack[i]) /\ x # t
      OBVIOUS
    <2>1. /\ FrameOK(stack[i]) /\ stack'[i] = stack[i]
          /\ stack[i].of # t /\ stack[i].pos # t /\ stack[i].pos \notin Children(t)
      BY <1>1, FramesAre DEF Spared
    <2>2. \A g : /\ FrameOK(g)
                 /\ g.of # t /\ g.pos # t /\ g.pos \notin Children(t)
                 => /\ FrameOK(g)'
                    /\ g.of # 1 => \A x : x \in Ahead(g)' <=> x \in Ahead(g) /\ x # t
      BY ExitAhead
    <2> QED
      BY <2>1, <2>2 DEF FrameOK, Ahead, Children
  <1>6. BranchOK'
    <2>1. /\ stack \in Seq(Frames) /\ task \in Live' /\ prev_task \in Known'
          /\ task < prev_task /\ (stack # <<>> => stack[1].of = task)
          /\ \A i, j \in 1 .. Len(stack) : i < j => stack[i].of < stack[j].of
      BY <1>2 DEF BranchOK, Spared
    <2>2. prev_task \in Children(task)' \/ prev_task \notin Live'
      <3>1. task \in Pids /\ task # t
        BY LiveKnown, PidsAre DEF BranchOK, Spared
      <3>2. CASE prev_task = t \/ prev_task \notin Live
        BY <1>2, <3>2
      <3>3. CASE prev_task # t /\ prev_task \in Children(task)
        BY <1>1, <1>4, <3>1, <3>3 DEF Children
      <3> QED
        BY <3>2, <3>3 DEF BranchOK
    <2>3. \A i \in 1 .. Len(stack) - 1 :
            /\ stack[i].pos = stack[i + 1].of /\ stack[i].pos \in Children(stack[i].of)'
            /\ stack[i].of \in kthreads'
      <3> SUFFICES ASSUME NEW i \in 1 .. Len(stack) - 1
                   PROVE  /\ stack[i].pos = stack[i + 1].of
                          /\ stack[i].pos \in Children(stack[i].of)'
                          /\ stack[i].of \in kthreads'
        OBVIOUS
      <3>1. /\ stack[i].pos = stack[i + 1].of /\ stack[i].pos \in Children(stack[i].of)
            /\ stack[i].of \in kthreads'
        BY <1>2 DEF BranchOK
      <3>2. Len(stack) \in Nat
        BY DEF BranchOK
      <3>3. stack[i].of \in Pids /\ stack[i].of # t /\ stack[i].pos # t
        BY <3>2, FramesAre DEF Spared
      <3> QED
        BY <1>1, <1>4, <3>1, <3>3 DEF Children
    <2> QED
      BY <1>1, <1>5, <2>1, <2>2, <2>3 DEF BranchOK
  <1>7. Below'
    <2>1. ASSUME NEW q \in Pids, NEW x, x \in Children(q)', times[x] = 1
          PROVE  task <= q \/ q = 1
      BY <1>3, <2>1 DEF Below
    <2> QED
      BY <1>1, <2>1 DEF Below
  <1>8. Behind'
    <2> SUFFICES ASSUME NEW q \in kthreads, NEW x, x \in Children(q)', times[x] = 1
                 PROVE  Passed(q, x)' \/ Finished(q)'
      BY <1>1, <1>2 DEF Behind
    <2>1. q # 1 /\ q # t /\ x \in Children(q) /\ x # t
      BY <1>2, <1>3
    <2>2. CASE Passed(q, x)
      <3>1. PICK i \in 1 .. Len(stack) : stack[i].of = q /\ x \notin Ahead(stack[i])
        BY <2>2 DEF Passed
      <3> QED
        BY <1>1, <1>5, <2>1, <3>1 DEF Passed, Ahead, Children
    <2>3. CASE Finished(q)
      <3>1. CASE q # task /\ \E r \in Pids \ kthreads : q \in Children(r)
        <4>1. PICK r \in Pids \ kthreads : q \in Children(r)
          BY <3>1
        <4>2. CASE r = t
          BY <1>1, <1>2, <1>3, <3>1, <4>1, <4>2 DEF Finished
        <4>3. CASE r # t
          BY <1>1, <1>2, <1>4, <2>1, <3>1, <4>1, <4>3 DEF Finished
        <4> QED
          BY <4>2, <4>3
      <3> QED
        BY <1>1, <2>3, <3>1 DEF Finished
    <2> QED
      BY <2>1, <2>2, <2>3 DEF Behind
  <1>9. TaskListed'
    <2>1. ASSUME task \in kthreads
          PROVE  task # 1 /\ task # t /\ task \in Pids
      BY <1>2, <2>1 DEF Spared
    <2>2. ASSUME stack # <<>>, task \in kthreads, NEW x, x \in Children(task)'
          PROVE  \/ x \in Ahead(stack[1])' \/ times[x] = 1
                 \/ x = stack[1].pos /\ Len(stack) > 1
      <3>1. 1 \in 1 .. Len(stack) /\ stack[1].of = task
        BY <2>2 DEF BranchOK
      <3>2. x \in Children(task) /\ x # t
        BY <1>1, <1>3, <2>1, <2>2 DEF Children
      <3>3. x \in Ahead(stack[1]) => x \in Ahead(stack[1])'
        BY <1>1, <1>5, <2>1, <2>2, <3>1, <3>2 DEF Ahead, Children
      <3> QED
        BY <2>2, <3>2, <3>3 DEF TaskListed
    <2>3. ASSUME stack = <<>>, task \in kthreads, prev_task \in kthreads,
                 prev_task \in Children(task)'
          PROVE  times[prev_task] = 1
      <3>1. prev_task \in Children(task)
        BY <1>1, <1>3, <2>1, <2>3 DEF Children
      <3> QED
        BY <2>3, <3>1 DEF TaskListed
    <2> QED
      BY <1>1, <1>2, <2>2, <2>3 DEF TaskListed
  <1> QED
    BY <1>6, <1>7, <1>8, <1>9
----------------------------------------------------------------------------
(* The steps of the walk.                                                  *)

LEMMA ClimbOK == ASSUME TreeInv, WalkOK, Climb PROVE WalkOK'
  <1> USE DEF TreeInv, WalkOK
  <1>0. PICK up : up = Parent(task)
    OBVIOUS
  <1>1. /\ stack = <<>> /\ task # 0 /\ prev_task' = task /\ task' = up
        /\ stack' = <<Frame(up)>> /\ times' = times
        /\ kids' = kids /\ kthreads' = kthreads /\ forks' = forks /\ Len(stack) = 0
    BY <1>0 DEF Climb, kernel
  <1>2. /\ up \in Pids /\ task \in Children(up) /\ up < task /\ up \in Live /\ task \in Live
        /\ up \in Nat /\ task \in Nat /\ task \in Known /\ prev_task \in Nat
        /\ task < prev_task /\ task \in Pids
    BY <1>0, <1>1, ParentIs, LiveKnown, PidsAre DEF BranchOK
  <1>3. /\ stack' \in Seq(Frames) /\ Len(stack') = 1 /\ stack' # <<>>
        /\ stack'[1] = [of |-> up, pos |-> up]
    BY <1>1, <1>2 DEF Frame, Frames
  <1>4. BranchOK'
    <2>1. FrameOK(stack[1])'
      BY <1>2, <1>3 DEF FrameOK, Frames
    <2>2. up \in Live' /\ task \in Known' /\ task \in Children(up)'
      <3>1. Live' = Live /\ Children(up)' = Children(up) /\ Known' = Known
        BY <1>1 DEF Live, Children, Known
      <3> QED
        BY <1>2, <3>1
    <2> QED
      <3>1. /\ \A i \in 1 .. Len(stack') : i = 1
            /\ \A i \in 1 .. Len(stack') - 1 : FALSE
        BY <1>3
      <3>2. \A i \in 1 .. Len(stack') : FrameOK(stack[i])'
        BY <2>1, <3>1 DEF FrameOK, Children
      <3> QED
        BY <1>1, <1>2, <1>3, <2>2, <3>1, <3>2 DEF BranchOK, Children
  <1>5. Below'
    <2>1. \A x \in Pids : times[x] = 1 => up < x
      <3>1. \A x \in Pids : times[x] = 1 => task < x
        BY DEF Below
      <3>2. up \in Nat /\ task \in Nat /\ up < task /\ \A x \in Pids : x \in Nat
        BY <1>2, PidsAre
      <3> QED
        BY <3>1, <3>2
    <2>2. \A q \in Pids : \A x \in Children(q)' : times[x] = 1 => up <= q \/ q = 1
      BY <1>1, <1>2, PidsAre DEF Below, Children
    <2>3. times[up] = 0
      BY <1>2, <2>1 DEF ListedOK
    <2> QED
      BY <1>1, <1>3, <2>1, <2>2, <2>3 DEF Below
  <1>6. Behind'
    <2> SUFFICES ASSUME NEW q \in kthreads, NEW x, x \in Children(q), times[x] = 1
                 PROVE  Finished(q)'
      BY <1>1 DEF Behind, Children
    <2>1. q \in Pids /\ q # 1 /\ q \in Nat
      BY PidsAre DEF KernelOK
    <2>2. Finished(q)
      BY <1>1 DEF Behind, Passed
    <2>3. q # up
      BY <1>2, <2>1 DEF Below
    <2>4. CASE q = prev_task
      <3>1. q \in Children(task)
        BY <2>1, <2>4 DEF BranchOK, TreeOK
      <3>2. CASE task \in kthreads
        BY <1>1, <2>4, <3>1, <3>2 DEF TaskListed, Finished
      <3>3. CASE task \notin kthreads
        BY <1>1, <1>2, <2>3, <3>1, <3>3 DEF Finished, Children
      <3> QED
        BY <3>2, <3>3
    <2>5. CASE q # prev_task
      BY <1>1, <2>2, <2>3, <2>5 DEF Finished, Children
    <2> QED
      BY <2>4, <2>5
  <1>7. TaskListed'
    <2>1. Ahead(stack[1])' = Children(up)'
      BY <1>1, <1>3 DEF Ahead
    <2> QED
      BY <1>1, <1>3, <2>1 DEF TaskListed, Ahead, Children
  <1> QED
    BY <1>4, <1>5, <1>6, <1>7

(* The innermost frame steps to its next child, and calls down to it or not. *)
Stepped(n, f, child) ==
  /\ stack' \in Seq(Frames) /\ Len(stack') \in {n, n + 1} /\ stack' # <<>>
  /\ \A i \in 1 .. n - 1 : stack'[i] = stack[i]
  /\ stack'[n] = StepsTo(f, child)
  /\ Len(stack') = n + 1 => stack'[n + 1] = Frame(child) /\ Descends(f.of)
  /\ Len(stack') = n => ~Descends(f.of)

LEMMA NextSteps ==
  ASSUME BranchOK, NEW f, NEW child \in Pids, stack # <<>>, f = Top, f \in Frames,
         StepTo(child, IF Descends(f.of) THEN <<Frame(child)>> ELSE <<>>)
  PROVE  Stepped(Len(stack), f, child)
  <1>0. PICK n : n = Len(stack)
    OBVIOUS
  <1> DEFINE g == StepsTo(f, child)
             s == [stack EXCEPT ![n] = g]
             calls == IF Descends(f.of) THEN <<Frame(child)>> ELSE <<>>
             r == s \o calls
  <1>1. stack \in Seq(Frames) /\ n \in Nat /\ n >= 1 /\ n \in 1 .. n /\ f = stack[n]
    BY <1>0 DEF BranchOK, Top, Last
  <1>2. g \in Frames /\ g = [f EXCEPT !.pos = child] /\ Frame(child) \in Frames
    BY DEF StepsTo, Frames, Frame
  <1>3. stack' = r
    BY <1>0, <1>1, <1>2 DEF StepTo
  <1> HIDE DEF g
  <1>4. /\ s \in Seq(Frames) /\ Len(s) = n /\ s[n] = g
        /\ \A i \in 1 .. n - 1 : s[i] = stack[i]
    BY <1>0, <1>1, <1>2
  <1> HIDE DEF s
  <1>5. CASE Descends(f.of)
    <2>1. r = Append(s, Frame(child))
      <3>1. r = s \o <<Frame(child)>>
        BY <1>5
      <3> QED
        BY <1>2, <1>4, <3>1
    <2>2. /\ r \in Seq(Frames) /\ Len(r) = n + 1 /\ r[n + 1] = Frame(child) /\ r # <<>>
          /\ \A i \in 1 .. n : r[i] = s[i]
      BY <1>2, <1>4, <2>1, AppendProperties
    <2> HIDE DEF r
    <2> QED
      BY <1>0, <1>1, <1>3, <1>4, <1>5, <2>2 DEF Stepped, g
  <1>6. CASE ~Descends(f.of)
    <2>1. r = s
      <3>1. r = s \o <<>>
        BY <1>6
      <3> QED
        BY <1>4, <3>1, ConcatEmptySeq
    <2> HIDE DEF r
    <2>2. s # <<>>
      BY <1>1, <1>4
    <2> QED
      BY <1>0, <1>1, <1>3, <1>4, <1>6, <2>1, <2>2 DEF Stepped, g
  <1> QED
    BY <1>5, <1>6

LEMMA NextChildOK == ASSUME TreeInv, WalkOK, NextChild PROVE WalkOK'
  <1> USE DEF TreeInv, WalkOK
  <1>0. PICK n, f, child : n = Len(stack) /\ f = Top /\ child = Head(Rest(Top))
    OBVIOUS
  <1>1. /\ stack # <<>> /\ Rest(f) # <<>> /\ UNCHANGED <<kernel, task, prev_task, times, lost>>
        /\ StepTo(child, IF Descends(f.of) THEN <<Frame(child)>> ELSE <<>>)
    BY <1>0 DEF NextChild
  <1>2. /\ task' = task /\ prev_task' = prev_task /\ times' = times
        /\ kids' = kids /\ kthreads' = kthreads /\ forks' = forks
    BY <1>1 DEF kernel
  <1>3. /\ n \in Nat /\ n >= 1 /\ n \in 1 .. n /\ f = stack[n] /\ FrameOK(f)
        /\ f \in Frames /\ f.of \in Pids
    <2>1. n \in Nat /\ n >= 1 /\ n \in 1 .. n
      BY <1>0, <1>1 DEF BranchOK
    <2>2. f = stack[n] /\ FrameOK(f)
      BY <1>0, <2>1 DEF BranchOK, Top, Last
    <2> QED
      BY <2>1, <2>2 DEF FrameOK, Frames
  <1>4. /\ child \in Ahead(f) /\ FrameOK(StepsTo(f, child))
        /\ \A x : x \in Ahead(StepsTo(f, child)) <=> x \in Ahead(f) /\ x # child
    BY <1>0, <1>1, <1>3, NextAhead
  <1>5. child \in Children(f.of) /\ child \in Pids /\ f.of < child /\ child \in Nat
    BY <1>3, <1>4, AheadIs, ChildrenAre, PidsAre
  <1>6. Stepped(n, f, child)
    BY <1>0, <1>1, <1>3, <1>5, NextSteps
  <1>7. /\ \A q \in Pids : Children(q)' = Children(q)
        /\ Live' = Live /\ Known' = Known
    BY <1>2 DEF Children, Live, Known
  <1>8. /\ \A i \in 1 .. n : stack[i].of \in Pids /\ stack[i].of \in Nat /\ FrameOK(stack[i])
        /\ \A i \in 1 .. n - 1 : stack[i].of < f.of
    <2>1. \A i \in 1 .. n : stack[i].of \in Pids /\ stack[i].of \in Nat /\ FrameOK(stack[i])
      BY <1>0, FramesAre, PidsAre
    <2>2. \A i \in 1 .. n - 1 : i \in 1 .. n /\ i < n
      BY <1>3
    <2> QED
      BY <1>0, <1>3, <2>1, <2>2 DEF BranchOK
  <1>9. BranchOK'
    <2>1. \A i \in 1 .. Len(stack') : FrameOK(stack[i])'
      <3> SUFFICES ASSUME NEW i \in 1 .. Len(stack') PROVE FrameOK(stack[i])'
        OBVIOUS
      <3>1. CASE i < n
        BY <1>2, <1>3, <1>6, <1>8, <3>1 DEF Stepped, FrameOK, Children
      <3>2. CASE i = n
        BY <1>2, <1>4, <1>6, <3>2 DEF Stepped, FrameOK, Children
      <3>3. CASE i = n + 1
        BY <1>3, <1>5, <1>6, <3>3 DEF Stepped, FrameOK, Frame, Frames
      <3> QED
        BY <1>3, <1>6, <3>1, <3>2, <3>3 DEF Stepped
    <2>2. ASSUME NEW i \in 1 .. Len(stack') - 1
          PROVE  /\ stack'[i].pos = stack'[i + 1].of
                 /\ stack'[i].pos \in Children(stack'[i].of)
                 /\ stack'[i].of \in kthreads
      <3>1. CASE i < n - 1
        <4>1. i \in 1 .. Len(stack) - 1 /\ i \in 1 .. n - 1 /\ i + 1 \in 1 .. n - 1
          BY <1>0, <1>3, <3>1
        <4> QED
          BY <1>6, <4>1 DEF Stepped, BranchOK
      <3>2. CASE i = n - 1
        <4>1. i \in 1 .. Len(stack) - 1 /\ i \in 1 .. n - 1 /\ i + 1 = n
          BY <1>0, <1>3, <3>2
        <4>2. /\ stack[i].pos = f.of /\ stack[i].pos \in Children(stack[i].of)
              /\ stack[i].of \in kthreads
          BY <1>3, <4>1 DEF BranchOK
        <4>3. stack'[i] = stack[i] /\ stack'[i + 1].of = f.of
          BY <1>6, <4>1 DEF Stepped, StepsTo
        <4> QED
          BY <4>2, <4>3
      <3>3. CASE i = n
        <4>1. Len(stack') = n + 1
          BY <1>3, <1>6, <3>3 DEF Stepped
        <4> QED
          BY <1>5, <1>6, <3>3, <4>1 DEF Stepped, StepsTo, Frame, Descends
      <3> QED
        BY <1>3, <1>6, <3>1, <3>2, <3>3 DEF Stepped
    <2>3. ASSUME NEW i \in 1 .. Len(stack'), NEW j \in 1 .. Len(stack'), i < j
          PROVE  stack'[i].of < stack'[j].of
      <3>1. CASE j < n
        <4>1. i \in 1 .. n - 1 /\ j \in 1 .. n - 1 /\ i \in 1 .. Len(stack) /\ j \in 1 .. Len(stack)
          BY <1>0, <1>3, <2>3, <3>1
        <4> QED
          BY <1>6, <2>3, <4>1 DEF Stepped, BranchOK
      <3>2. CASE j = n
        <4>1. i \in 1 .. n - 1
          BY <1>3, <2>3, <3>2
        <4>2. stack'[i] = stack[i] /\ stack'[j].of = f.of
          BY <1>6, <3>2, <4>1 DEF Stepped, StepsTo
        <4> QED
          BY <1>8, <4>1, <4>2
      <3>3. CASE j = n + 1
        <4>1. stack'[j].of = child
          BY <1>3, <1>6, <3>3 DEF Stepped, Frame
        <4>2. stack'[i].of <= f.of /\ stack'[i].of \in Nat
          BY <1>3, <1>6, <1>8, <2>3, <3>3 DEF Stepped, StepsTo
        <4> QED
          BY <1>5, <1>8, <1>3, <4>1, <4>2
      <3> QED
        BY <1>3, <1>6, <3>1, <3>2, <3>3 DEF Stepped
    <2>4. stack'[1].of = task
      BY <1>1, <1>3, <1>6 DEF Stepped, StepsTo, BranchOK
    <2>5. task \in Live' /\ prev_task \in Known' /\ task < prev_task
          /\ (prev_task \in Children(task) \/ prev_task \notin Live')
      BY <1>7 DEF BranchOK
    <2> QED
      BY <1>2, <1>6, <2>1, <2>2, <2>3, <2>4, <2>5 DEF BranchOK, Stepped, Children
  <1>10. Below'
    <2>1. ASSUME Descends(f.of) PROVE times[child] = 0
      <3>1. SUFFICES ASSUME times[child] = 1 PROVE FALSE
        BY <1>5 DEF ListedOK
      <3>2. f.of \in kthreads /\ f.of # prev_task
        BY <2>1 DEF Descends
      <3>3. ~Passed(f.of, child)
        <4>1. \A i \in 1 .. n : stack[i].of = f.of => i = n
          BY <1>3, <1>8
        <4> QED
          BY <1>0, <1>3, <1>4, <4>1 DEF Passed
      <3>4. Finished(f.of)
        BY <1>5, <3>1, <3>2, <3>3 DEF Behind
      <3>5. times[f.of] = 0
        BY <1>0, <1>3 DEF Below
      <3>6. PICK r \in Pids \ kthreads : f.of # task /\ f.of \in Children(r)
        BY <1>1, <3>2, <3>4, <3>5 DEF Finished
      <3>7. n - 1 \in 1 .. Len(stack) - 1 /\ (n - 1) + 1 = n /\ n - 1 \in 1 .. n
        <4>1. n # 1
          BY <1>1, <1>3, <3>6 DEF BranchOK
        <4> QED
          BY <1>0, <1>3, <4>1
      <3>8. f.of \in Children(stack[n - 1].of) /\ stack[n - 1].of \in kthreads
        BY <1>3, <3>7 DEF BranchOK
      <3>9. stack[n - 1].of = r
        BY <1>8, <3>6, <3>7, <3>8 DEF TreeOK
      <3> QED
        BY <3>6, <3>8, <3>9
    <2>2. ASSUME NEW i \in 1 .. Len(stack') PROVE times[stack'[i].of] = 0
      <3>1. CASE i < n
        BY <1>0, <1>3, <1>6, <3>1 DEF Stepped, Below
      <3>2. CASE i = n
        BY <1>0, <1>3, <1>6, <3>2 DEF Stepped, Below, StepsTo
      <3>3. CASE i = n + 1
        BY <1>3, <1>6, <2>1, <3>3 DEF Stepped, Frame
      <3> QED
        BY <1>3, <1>6, <3>1, <3>2, <3>3 DEF Stepped
    <2>3. \A q \in Pids : \A x \in Children(q)' : times[x] = 1 => task <= q \/ q = 1
      BY <1>7 DEF Below
    <2>4. \A x \in Pids : times[x] = 1 => task < x
      BY DEF Below
    <2> QED
      BY <1>2, <2>2, <2>3, <2>4 DEF Below
  <1>11. Behind'
    <2> SUFFICES ASSUME NEW q \in kthreads, NEW x, x \in Children(q), times[x] = 1
                 PROVE  Passed(q, x)' \/ Finished(q)'
      BY <1>2 DEF Behind, Children
    <2>1. CASE Passed(q, x)
      <3>1. PICK i \in 1 .. n : stack[i].of = q /\ x \notin Ahead(stack[i])
        BY <1>0, <2>1 DEF Passed
      <3>2. i \in 1 .. Len(stack')
        BY <1>3, <1>6, <3>1 DEF Stepped
      <3>3. stack'[i].of = q /\ x \notin Ahead(stack[i])'
        <4>1. CASE i < n
          <5>1. stack'[i] = stack[i]
            BY <1>3, <1>6, <3>1, <4>1 DEF Stepped
          <5> QED
            BY <1>2, <3>1, <5>1 DEF Ahead, Children
        <4>2. CASE i = n
          <5>1. stack'[i] = StepsTo(f, child) /\ x \notin Ahead(StepsTo(f, child))
            BY <1>3, <1>4, <1>6, <3>1, <4>2 DEF Stepped
          <5>2. stack'[i].of = q
            BY <1>3, <3>1, <4>2, <5>1 DEF StepsTo
          <5> QED
            BY <1>2, <5>1, <5>2 DEF Ahead, Children
        <4> QED
          BY <1>3, <3>1, <4>1, <4>2
      <3> QED
        BY <3>2, <3>3 DEF Passed
    <2>2. CASE Finished(q)
      BY <1>1, <1>2, <2>2 DEF Finished, Children
    <2> QED
      BY <2>1, <2>2 DEF Behind
  <1>12. TaskListed'
    <2>1. stack' # <<>>
      BY <1>6 DEF Stepped
    <2> SUFFICES ASSUME task \in kthreads, NEW x, x \in Children(task)
                 PROVE  \/ x \in Ahead(stack[1])' \/ times[x] = 1
                        \/ x = stack'[1].pos /\ Len(stack') > 1
      BY <1>2, <2>1 DEF TaskListed, Children, Ahead
    <2>2. \/ x \in Ahead(stack[1]) \/ times[x] = 1
          \/ x = stack[1].pos /\ Len(stack) > 1
      BY <1>1 DEF TaskListed
    <2>3. CASE n > 1
      <3>1. stack'[1] = stack[1] /\ Len(stack') > 1
        BY <1>3, <1>6, <2>3 DEF Stepped
      <3> QED
        BY <1>2, <2>2, <3>1 DEF Ahead, Children
    <2>4. CASE n = 1
      <3>1. f.of = task /\ task # prev_task
        BY <1>1, <1>3, <1>8, <2>4 DEF BranchOK
      <3>2. stack'[1] = StepsTo(f, child) /\ Len(stack') > 1 /\ stack'[1].pos = child
        BY <1>3, <1>6, <2>4, <3>1 DEF Stepped, StepsTo, Descends
      <3>3. CASE x = child
        BY <3>2, <3>3
      <3>4. CASE x \in Ahead(f) /\ x # child
        <4>1. x \in Ahead(StepsTo(f, child))
          BY <1>4, <3>4
        <4> QED
          BY <1>2, <3>2, <4>1 DEF Ahead, Children
      <3> QED
        BY <1>0, <1>3, <2>2, <2>4, <3>3, <3>4
    <2> QED
      BY <1>3, <2>3, <2>4
  <1> QED
    BY <1>9, <1>10, <1>11, <1>12

(* The innermost frame is done; the child its caller stands on is listed. *)
LEMMA ReturnCountOK == ASSUME TreeInv, WalkOK, ReturnCount PROVE WalkOK' /\ ListedOK'
  <1> USE DEF TreeInv, WalkOK
  <1>0. PICK n, f : n = Len(stack) /\ f = Top
    OBVIOUS
  <1>1. /\ stack # <<>> /\ Rest(f) = <<>> /\ stack' = Front(stack)
        /\ times' = IF n = 1 THEN times ELSE [times EXCEPT ![f.of] = @ + 1]
        /\ UNCHANGED <<kernel, task, prev_task, lost>>
    BY <1>0 DEF ReturnCount
  <1>2. /\ task' = task /\ prev_task' = prev_task
        /\ kids' = kids /\ kthreads' = kthreads /\ forks' = forks
    BY <1>1 DEF kernel
  <1>3. /\ n \in Nat /\ n >= 1 /\ n \in 1 .. n /\ f = stack[n] /\ FrameOK(f)
        /\ f \in Frames /\ f.of \in Pids
    BY <1>0, <1>1, FramesAre DEF BranchOK, Top, Last
  <1>4. /\ stack' \in Seq(Frames) /\ Len(stack') = n - 1
        /\ \A i \in 1 .. n - 1 : stack'[i] = stack[i] /\ i \in 1 .. n /\ i < n
        /\ n = 1 <=> stack' = <<>>
    <2> DEFINE k == n - 1
               s == SubSeq(stack, 1, k)
    <2>1. k \in Nat /\ k <= Len(stack) /\ stack' = s /\ stack \in Seq(Frames)
      BY <1>0, <1>1, <1>3 DEF Front, BranchOK
    <2> HIDE DEF k
    <2>2. s \in Seq(Frames) /\ Len(s) = k /\ \A i \in 1 .. k : s[i] = stack[i]
      BY <2>1
    <2>3. k = 0 <=> s = <<>>
      BY <2>1, <2>2
    <2> HIDE DEF s
    <2>4. n = 1 <=> k = 0
      BY <1>3 DEF k
    <2>5. \A i \in 1 .. n - 1 : i \in 1 .. n /\ i < n
      BY <1>3
    <2> QED
      BY <2>1, <2>2, <2>3, <2>4, <2>5 DEF k
  <1>5. /\ \A q \in Pids : Children(q)' = Children(q)
        /\ Live' = Live /\ Known' = Known
    BY <1>2 DEF Children, Live, Known
  <1>6. /\ \A i \in 1 .. n : stack[i].of \in Pids /\ stack[i].of \in Nat /\ FrameOK(stack[i])
        /\ \A i \in 1 .. n - 1 : stack[i].of < f.of
    <2>1. \A i \in 1 .. n : stack[i].of \in Pids /\ stack[i].of \in Nat /\ FrameOK(stack[i])
      BY <1>0, FramesAre, PidsAre
    <2> QED
      BY <1>0, <1>3, <1>4, <2>1 DEF BranchOK
  <1>7. times[f.of] = 0
    BY <1>0, <1>3 DEF Below
  <1>8. /\ n = 1 => times' = times
        /\ n # 1 => /\ \A x \in Pids : times'[x] = IF x = f.of THEN 1 ELSE times[x]
                    /\ times' \in [Pids -> 0 .. 1]
    BY <1>1, <1>3, <1>7 DEF ListedOK
  <1>9. n # 1 => /\ n - 1 \in 1 .. n - 1 /\ stack[n - 1].of \in kthreads
                 /\ f.of = stack[n - 1].pos /\ f.of \in Children(stack[n - 1].of)
                 /\ stack[n - 1].of \in Pids /\ task < f.of /\ task \in Nat
                 /\ task <= stack[n - 1].of
    <2> SUFFICES ASSUME n # 1
                 PROVE  /\ n - 1 \in 1 .. n - 1 /\ stack[n - 1].of \in kthreads
                        /\ f.of = stack[n - 1].pos /\ f.of \in Children(stack[n - 1].of)
                        /\ stack[n - 1].of \in Pids /\ task < f.of /\ task \in Nat
                        /\ task <= stack[n - 1].of
      OBVIOUS
    <2>1. n - 1 \in 1 .. n - 1 /\ n - 1 \in 1 .. Len(stack) - 1 /\ (n - 1) + 1 = n
          /\ 1 \in 1 .. n - 1 /\ n - 1 \in 1 .. n
      BY <1>0, <1>3
    <2>2. stack[1].of = task /\ task < f.of /\ task \in Nat
      BY <1>1, <1>6, <2>1 DEF BranchOK
    <2>3. task <= stack[n - 1].of
      <3>1. CASE n - 1 = 1
        BY <2>2, <3>1
      <3>2. CASE n - 1 # 1
        <4>1. 1 \in 1 .. Len(stack) /\ n - 1 \in 1 .. Len(stack) /\ 1 < n - 1
          BY <1>0, <1>3, <2>1, <3>2
        <4> QED
          BY <1>6, <2>1, <2>2, <4>1 DEF BranchOK
      <3> QED
        BY <3>1, <3>2
    <2> QED
      BY <1>3, <1>6, <2>1, <2>2, <2>3 DEF BranchOK
  <1>10. BranchOK'
    <2>1. \A i \in 1 .. Len(stack') : FrameOK(stack[i])'
      BY <1>2, <1>4, <1>6 DEF FrameOK, Children
    <2>2. ASSUME NEW i \in 1 .. Len(stack') - 1
          PROVE  /\ stack'[i].pos = stack'[i + 1].of
                 /\ stack'[i].pos \in Children(stack'[i].of)
                 /\ stack'[i].of \in kthreads
      <3>1. i \in 1 .. Len(stack) - 1 /\ i \in 1 .. n - 1 /\ i + 1 \in 1 .. n - 1
        BY <1>0, <1>3, <1>4
      <3> QED
        BY <1>4, <3>1 DEF BranchOK
    <2>3. ASSUME NEW i \in 1 .. Len(stack'), NEW j \in 1 .. Len(stack'), i < j
          PROVE  stack'[i].of < stack'[j].of
      <3>1. i \in 1 .. n - 1 /\ j \in 1 .. n - 1 /\ i \in 1 .. Len(stack) /\ j \in 1 .. Len(stack)
        BY <1>0, <1>4
      <3> QED
        BY <1>4, <2>3, <3>1 DEF BranchOK
    <2>4. stack' # <<>> => stack'[1].of = task
      <3>1. stack' # <<>> => 1 \in 1 .. n - 1
        BY <1>3, <1>4
      <3> QED
        BY <1>1, <1>4, <3>1 DEF BranchOK
    <2>5. task \in Live' /\ prev_task \in Known' /\ task < prev_task
          /\ (prev_task \in Children(task) \/ prev_task \notin Live')
      BY <1>5 DEF BranchOK
    <2> QED
      BY <1>2, <1>4, <2>1, <2>2, <2>3, <2>4, <2>5 DEF BranchOK, Children
  <1>11. ListedOK'
    <2>1. n # 1 => f.of \in Known
      BY <1>6, <1>9, ChildrenAre
    <2>2. times' \in [Pids -> 0 .. 1]
      BY <1>8 DEF ListedOK
    <2>3. \A x \in Pids : times'[x] = 1 => x \in Known
      BY <1>8, <2>1 DEF ListedOK
    <2> QED
      BY <1>5, <2>2, <2>3 DEF ListedOK
  <1>12. Below'
    <2>1. ASSUME NEW x \in Pids, times'[x] = 1 PROVE task < x
      BY <1>8, <1>9, <2>1 DEF Below
    <2>2. ASSUME NEW q \in Pids, NEW x, x \in Children(q), times'[x] = 1
          PROVE  task <= q \/ q = 1
      <3>1. x \in Pids
        BY <2>2, ChildrenAre
      <3>2. CASE times[x] = 1
        BY <2>2, <3>2 DEF Below
      <3>3. CASE times[x] # 1
        <4>1. n # 1 /\ x = f.of
          BY <1>8, <2>2, <3>1, <3>3
        <4>2. q = stack[n - 1].of
          BY <1>9, <2>2, <4>1 DEF TreeOK
        <4> QED
          BY <1>9, <4>1, <4>2
      <3> QED
        BY <3>2, <3>3
    <2>3. ASSUME NEW i \in 1 .. Len(stack') PROVE times'[stack'[i].of] = 0
      <3>1. i \in 1 .. n - 1 /\ i \in 1 .. Len(stack)
        BY <1>0, <1>4
      <3>2. stack'[i] = stack[i] /\ stack[i].of # f.of /\ stack[i].of \in Pids
        BY <1>3, <1>4, <1>6, <3>1
      <3>3. times[stack[i].of] = 0
        BY <3>1 DEF Below
      <3> QED
        BY <1>8, <3>2, <3>3
    <2> QED
      BY <1>2, <2>1, <2>2, <2>3 DEF Below, Children
  <1>13. Behind'
    <2> SUFFICES ASSUME NEW q \in kthreads, NEW x, x \in Children(q), times'[x] = 1
                 PROVE  Passed(q, x)' \/ Finished(q)'
      BY <1>2 DEF Behind, Children
    <2>1. q \in Pids /\ x \in Pids
      BY PidsAre, ChildrenAre DEF KernelOK
    <2>2. \A i \in 1 .. n - 1 : stack[i].of = q /\ x \notin Ahead(stack[i]) => Passed(q, x)'
      <3> SUFFICES ASSUME NEW i \in 1 .. n - 1, stack[i].of = q, x \notin Ahead(stack[i])
                   PROVE  Passed(q, x)'
        OBVIOUS
      <3>1. i \in 1 .. Len(stack') /\ stack'[i] = stack[i]
        BY <1>4
      <3>2. stack'[i].of = q /\ x \notin Ahead(stack[i])'
        BY <1>2, <3>1 DEF Ahead, Children
      <3> QED
        BY <3>1, <3>2 DEF Passed
    <2>3. CASE times[x] # 1
      <3>1. n # 1 /\ x = f.of
        BY <1>8, <2>1, <2>3
      <3>2. q = stack[n - 1].of
        BY <1>9, <2>1, <3>1 DEF TreeOK
      <3>3. x \notin Ahead(stack[n - 1])
        BY <1>4, <1>6, <1>9, <3>1, AheadIs
      <3> QED
        BY <1>9, <2>2, <3>1, <3>2, <3>3
    <2>4. CASE times[x] = 1 /\ Passed(q, x)
      <3>1. PICK i \in 1 .. n : stack[i].of = q /\ x \notin Ahead(stack[i])
        BY <1>0, <2>4 DEF Passed
      <3>2. CASE i # n
        BY <1>3, <2>2, <3>1, <3>2
      <3>3. CASE i = n /\ n = 1
        BY <1>1, <1>2, <1>3, <1>4, <3>1, <3>3 DEF Finished, BranchOK
      <3>4. CASE i = n /\ n # 1
        BY <1>3, <1>8, <3>1, <3>4 DEF Finished
      <3> QED
        BY <3>2, <3>3, <3>4
    <2>5. CASE times[x] = 1 /\ Finished(q)
      <3>1. times[q] = 1 => times'[q] = 1
        BY <1>8, <2>1
      <3> QED
        BY <1>1, <1>2, <2>5, <3>1 DEF Finished, Children
    <2> QED
      BY <2>3, <2>4, <2>5 DEF Behind
  <1>14. TaskListed'
    <2>1. 1 \in 1 .. n /\ stack[1].of = task /\ task \in Pids
      BY <1>1, <1>3, <1>6 DEF BranchOK
    <2>2. task \in kthreads =>
            \A x \in Children(task) : \/ x \in Ahead(stack[1]) \/ times[x] = 1
                                      \/ x = stack[1].pos /\ n > 1
      BY <1>0, <1>1 DEF TaskListed
    <2>3. \A x \in Pids : times[x] = 1 => times'[x] = 1
      BY <1>8
    <2>4. ASSUME stack' # <<>>, task \in kthreads, NEW x, x \in Children(task)
          PROVE  \/ x \in Ahead(stack[1])' \/ times'[x] = 1
                 \/ x = stack'[1].pos /\ Len(stack') > 1
      <3>1. x \in Pids /\ n # 1 /\ 1 \in 1 .. n - 1
        BY <1>3, <1>4, <2>1, <2>4, ChildrenAre
      <3>2. stack'[1] = stack[1] /\ (x \in Ahead(stack[1]) => x \in Ahead(stack[1])')
        BY <1>2, <1>4, <3>1 DEF Ahead, Children
      <3>3. ASSUME x = stack[1].pos, ~(Len(stack') > 1) PROVE times'[x] = 1
        <4>1. n - 1 = 1
          BY <1>3, <1>4, <3>1, <3>3
        <4> QED
          BY <1>8, <1>9, <3>1, <3>3, <4>1
      <3> QED
        BY <2>2, <2>3, <2>4, <3>1, <3>2, <3>3
    <2>5. ASSUME stack' = <<>>, task \in kthreads, prev_task \in kthreads,
                 prev_task \in Children(task)
          PROVE  times'[prev_task] = 1
      <3>1. n = 1 /\ stack[1] = f
        BY <1>3, <1>4, <2>5
      <3>2. prev_task \notin Ahead(f)
        BY <1>1, <1>3, AheadIs DEF ToSet
      <3> QED
        BY <1>8, <2>2, <2>5, <3>1, <3>2
    <2> QED
      BY <1>2, <2>4, <2>5 DEF TaskListed, Children
  <1> QED
    BY <1>10, <1>11, <1>12, <1>13, <1>14

LEMMA WalkKept == ASSUME IInv, Walk PROVE IInv'
  <1>1. lost = FALSE /\ lost' = FALSE
    BY DEF IInv, Walk, Climb, print_children, NextChild, ReturnCount
  <1>2. TreeInv /\ WalkOK
    BY <1>1 DEF IInv
  <1>3. UNCHANGED kernel
    BY DEF Walk, Climb, print_children, NextChild, ReturnCount
  <1>4. TreeOK' /\ KernelOK'
    BY <1>2, <1>3 DEF TreeInv, kernel, TreeOK, KernelOK, Children, Live, Known
  <1>5. CASE Climb
    <2>1. ListedOK'
      BY <1>2, <1>5 DEF TreeInv, ListedOK, Climb, kernel, Known
    <2> QED
      BY <1>1, <1>2, <1>4, <1>5, <2>1, ClimbOK DEF IInv, TreeInv
  <1>6. CASE NextChild
    <2>1. ListedOK'
      BY <1>2, <1>6 DEF TreeInv, ListedOK, NextChild, kernel, Known
    <2> QED
      BY <1>1, <1>2, <1>4, <1>6, <2>1, NextChildOK DEF IInv, TreeInv
  <1>7. CASE ReturnCount
    BY <1>1, <1>2, <1>4, <1>7, ReturnCountOK DEF IInv, TreeInv
  <1> QED
    BY <1>5, <1>6, <1>7 DEF Walk, print_children

LEMMA ForkKept == ASSUME IInv, NEW p \in Live, Fork(p) PROVE IInv'
  <1>1. PICK new : new = Loaded + forks + 1
    OBVIOUS
  <1>2. TreeInv /\ TreeOK /\ KernelOK
    BY DEF IInv, TreeInv
  <1>3. Forked(p, new) /\ TreeOK' /\ KernelOK'
    BY <1>1, <1>2, ForkForks
  <1>4. UNCHANGED walk /\ (lost' <=> lost) /\ lost' = lost
    BY DEF Fork
  <1>5. ListedOK'
    BY <1>2, <1>3, <1>4 DEF TreeInv, ListedOK, Forked, walk
  <1>6. lost' = FALSE => WalkOK'
    BY <1>2, <1>3, <1>4, ForkOK DEF IInv
  <1> QED
    BY <1>3, <1>4, <1>5, <1>6 DEF IInv, TreeInv

LEMMA ExitKept == ASSUME IInv, NEW t \in Live \ {0, 1, current}, Exit(t) PROVE IInv'
  <1>1. TreeInv /\ TreeOK /\ KernelOK /\ lost \in BOOLEAN
    BY DEF IInv, TreeInv
  <1>2. Exited(t) /\ TreeOK' /\ KernelOK'
    BY <1>1, ExitExits
  <1>3. UNCHANGED walk /\ lost' = (lost \/ (~Done /\ Stands(t)))
    BY DEF Exit
  <1>4. ListedOK'
    BY <1>1, <1>2, <1>3 DEF TreeInv, ListedOK, Exited, walk
  <1>5. ASSUME lost' = FALSE PROVE WalkOK'
    <2>1. lost = FALSE /\ (Done \/ ~Stands(t))
      BY <1>1, <1>3, <1>5
    <2>2. WalkOK
      BY <2>1 DEF IInv
    <2>3. CASE Done
      <3>1. stack = <<>> /\ task = 0 /\ Len(stack) = 0
        BY <2>3 DEF Done
      <3> QED
        BY <1>1, <1>2, <1>3, <2>2, <3>1, ExitOK DEF Spared
    <2>4. CASE ~Stands(t)
      <3>1. DOMAIN stack = 1 .. Len(stack)
        BY <2>2 DEF WalkOK, BranchOK
      <3>2. Spared(t)
        BY <2>4, <3>1 DEF Stands, Spared
      <3> QED
        BY <1>1, <1>2, <1>3, <2>2, <3>2, ExitOK
    <2> QED
      BY <2>1, <2>3, <2>4
  <1> QED
    BY <1>1, <1>2, <1>3, <1>4, <1>5 DEF IInv, TreeInv

LEMMA Kept == IInv /\ [Next]_vars => IInv'
  <1> SUFFICES ASSUME IInv, [Next]_vars PROVE IInv'
    OBVIOUS
  <1>1. CASE UNCHANGED vars
    <2>1. /\ UNCHANGED <<kids, kthreads, current, forks, exits>>
          /\ UNCHANGED <<task, prev_task, stack, times>> /\ lost' = lost
      BY <1>1 DEF vars, kernel, walk
    <2>2. TreeInv'
      BY <2>1 DEF IInv, TreeInv, TreeOK, KernelOK, ListedOK, Children, Live, Known
    <2>3. ASSUME WalkOK PROVE WalkOK'
      BY <2>1, <2>3 DEF WalkOK, BranchOK, FrameOK, Below, Behind, Passed, Finished,
                        TaskListed, Ahead, Children, Live, Known
    <2> QED
      BY <2>1, <2>2, <2>3 DEF IInv
  <1>2. CASE Over
    BY <1>1, <1>2 DEF Over
  <1> QED
    BY <1>1, <1>2, WalkKept, ForkKept, ExitKept DEF Next
----------------------------------------------------------------------------
(* The inductive invariant holds on every tree, for any number of forks and *)
(* exits.                                                                   *)
THEOREM Invariance == Spec => []IInv
  BY InitOK, Kept, PTL DEF Spec

(* list_procs.c:19-41: the tasks are a tree, whatever forks and exits, and   *)
(* the calls of print_children stand on a branch of it.                     *)
THEOREM TypeCorrect == Spec => []TypeOK
  <1>1. IInv => TypeOK
    <2> SUFFICES ASSUME IInv PROVE TypeOK
      OBVIOUS
    <2> USE DEF IInv, TreeInv
    <2>1. \A p \in Pids : IsInjective(kids[p]) /\ Children(p) \subseteq Pids \ {0}
      <3> SUFFICES ASSUME NEW p \in Pids
                   PROVE  IsInjective(kids[p]) /\ Children(p) \subseteq Pids \ {0}
        OBVIOUS
      <3> QED
        BY ChildrenAre, PidsAre DEF List
    <2>2. \A p, q \in Pids : p # q => Children(p) \cap Children(q) = {}
      BY DEF TreeOK
    <2>3. /\ kthreads \subseteq Pids /\ current \in Live
          /\ forks \in 0 .. MaxForks /\ exits \in 0 .. MaxExits
      BY PidsAre DEF KernelOK
    <2>4. times \in [Pids -> Nat]
      BY DEF ListedOK
    <2>5. ASSUME ~lost
          PROVE  /\ task \in Live
                 /\ \A i \in 1 .. Len(stack) - 1 :
                      /\ stack[i].pos = stack[i + 1].of
                      /\ stack[i].pos \in Children(stack[i].of)
      <3>1. WalkOK
        BY <2>5
      <3> QED
        BY <3>1 DEF WalkOK, BranchOK
    <2> QED
      BY <2>1, <2>2, <2>3, <2>4, <2>5 DEF TypeOK
  <1> QED
    BY <1>1, Invariance, PTL

(* list_procs.c:30, prev_task->pid != task->pid: no task is listed twice on  *)
(* any tree of processes, whatever tasks fork and exit under the walk.      *)
THEOREM NeverListedTwice == Spec => []ListedOnce
  <1>1. IInv => ListedOnce
    BY DEF IInv, TreeInv, ListedOK, ListedOnce
  <1> QED
    BY <1>1, Invariance, PTL
----------------------------------------------------------------------------
(* What is found.  A frame has listed what it is past, but for the branch   *)
(* it is in; and when a task is listed, or climbed, its children are.  The  *)
(* children of the parent of the loading process are not: the walk starts   *)
(* there, without a descent.                                                *)

FramesListed ==
  \A i \in 1 .. Len(stack) :
    stack[i].of \in kthreads /\ stack[i].of # prev_task =>
      \A x \in Children(stack[i].of) :
        \/ x \in Ahead(stack[i]) \/ times[x] = 1
        \/ x = stack[i].pos /\ i < Len(stack)

ChildrenListed(q) == \A x \in Children(q) : x <= Loaded => times[x] = 1

Complete ==
  \A q \in kthreads \ {Parent(current)} :
    times[q] = 1 \/ q = prev_task \/ (q = task /\ stack = <<>>) => ChildrenListed(q)

FoundOK == FramesListed /\ Complete
FoundInv == IInv /\ (lost = FALSE => FoundOK)

LEMMA OneParent ==
  ASSUME TreeOK, NEW p \in Pids, NEW t \in Children(p)
  PROVE  Parent(t) = p
  BY DEF Parent, TreeOK

LEMMA FoundInit == Init => FoundInv
  <1> SUFFICES ASSUME Init PROVE FoundInv
    OBVIOUS
  <1>1. IInv /\ TreeOK /\ KernelOK /\ current \in Children(task) /\ task \in Live
    BY InitOK, InitTree
  <1>2. /\ prev_task = current /\ stack = <<>> /\ \A t \in Pids : times[t] = 0
        /\ Len(stack) = 0
    BY DEF Init
  <1>3. Parent(current) = task
    BY <1>1, LiveKnown, PidsAre, OneParent
  <1>4. kthreads \subseteq Pids /\ current \notin kthreads
    BY <1>1, PidsAre DEF KernelOK
  <1> QED
    BY <1>1, <1>2, <1>3, <1>4 DEF FoundInv, FoundOK, FramesListed, Complete

LEMMA FoundClimb == ASSUME TreeInv, WalkOK, FoundOK, Climb PROVE FoundOK'
  <1> USE DEF TreeInv, WalkOK, FoundOK
  <1>0. PICK up : up = Parent(task)
    OBVIOUS
  <1>1. /\ stack = <<>> /\ prev_task' = task /\ task' = up
        /\ stack' = <<Frame(up)>> /\ times' = times
        /\ kids' = kids /\ kthreads' = kthreads /\ current' = current
    BY <1>0 DEF Climb, kernel
  <1>2. Len(stack') = 1 /\ stack'[1] = [of |-> up, pos |-> up] /\ stack' # <<>>
    BY <1>1 DEF Frame
  <1>3. FramesListed'
    <2>1. Ahead(stack[1])' = Children(up)'
      BY <1>1, <1>2 DEF Ahead
    <2>2. \A i \in 1 .. Len(stack') : i = 1
      BY <1>2
    <2> QED
      BY <1>1, <1>2, <2>1, <2>2 DEF FramesListed, Ahead, Children
  <1>4. Parent(current)' = Parent(current)
    BY <1>1 DEF Parent, Children
  <1>5. Complete'
    BY <1>1, <1>2, <1>4 DEF Complete, ChildrenListed, Children
  <1> QED
    BY <1>3, <1>5

LEMMA FoundNextChild == ASSUME TreeInv, WalkOK, FoundOK, NextChild PROVE FoundOK'
  <1> USE DEF TreeInv, WalkOK, FoundOK
  <1>0. PICK n, f, child : n = Len(stack) /\ f = Top /\ child = Head(Rest(Top))
    OBVIOUS
  <1>1. /\ stack # <<>> /\ Rest(f) # <<>> /\ UNCHANGED <<kernel, task, prev_task, times, lost>>
        /\ StepTo(child, IF Descends(f.of) THEN <<Frame(child)>> ELSE <<>>)
    BY <1>0 DEF NextChild
  <1>2. /\ task' = task /\ prev_task' = prev_task /\ times' = times
        /\ kids' = kids /\ kthreads' = kthreads /\ current' = current
    BY <1>1 DEF kernel
  <1>3. /\ n \in Nat /\ n >= 1 /\ n \in 1 .. n /\ f = stack[n] /\ FrameOK(f)
        /\ f \in Frames /\ f.of \in Pids
    BY <1>0, <1>1, FramesAre DEF BranchOK, Top, Last
  <1>4. /\ child \in Ahead(f)
        /\ \A x : x \in Ahead(StepsTo(f, child)) <=> x \in Ahead(f) /\ x # child
    BY <1>0, <1>1, <1>3, NextAhead
  <1>5. child \in Pids
    BY <1>3, <1>4, AheadIs, ChildrenAre
  <1>6. Stepped(n, f, child)
    BY <1>0, <1>1, <1>3, <1>5, NextSteps
  <1>7. ASSUME NEW i \in 1 .. Len(stack'),
               stack'[i].of \in kthreads, stack'[i].of # prev_task,
               NEW x \in Children(stack'[i].of)
        PROVE  \/ x \in Ahead(stack[i])' \/ times[x] = 1
               \/ x = stack'[i].pos /\ i < Len(stack')
    <2>1. CASE i < n
      <3>1. i \in 1 .. n /\ stack'[i] = stack[i] /\ i < Len(stack')
        BY <1>3, <1>6, <2>1 DEF Stepped
      <3>2. x \in Ahead(stack[i]) \/ times[x] = 1 \/ x = stack[i].pos
        BY <1>0, <1>7, <3>1 DEF FramesListed
      <3> QED
        BY <1>2, <3>1, <3>2 DEF Ahead, Children
    <2>2. CASE i = n
      <3>1. stack'[i] = StepsTo(f, child) /\ stack'[i].of = f.of /\ stack'[i].pos = child
        BY <1>6, <2>2 DEF Stepped, StepsTo
      <3>2. x \in Ahead(f) \/ times[x] = 1
        BY <1>0, <1>3, <1>7, <3>1 DEF FramesListed
      <3>3. i < Len(stack')
        BY <1>3, <1>6, <1>7, <2>2, <3>1 DEF Stepped, Descends
      <3>4. x \in Ahead(f) /\ x # child => x \in Ahead(stack[i])'
        <4>1. x \in Ahead(f) /\ x # child => x \in Ahead(StepsTo(f, child))
          BY <1>4
        <4> QED
          BY <1>2, <3>1, <4>1 DEF Ahead, Children
      <3> QED
        BY <3>1, <3>2, <3>3, <3>4
    <2>3. CASE i = n + 1
      <3>1. stack'[i] = Frame(child)
        BY <1>3, <1>6, <2>3 DEF Stepped
      <3> QED
        BY <1>2, <1>7, <3>1 DEF Ahead, Children, Frame
    <2> QED
      BY <1>3, <1>6, <2>1, <2>2, <2>3 DEF Stepped
  <1>8. FramesListed'
    BY <1>2, <1>7 DEF FramesListed, Ahead, Children
  <1>9. Parent(current)' = Parent(current)
    BY <1>2 DEF Parent, Children
  <1>10. Complete'
    BY <1>1, <1>2, <1>6, <1>9 DEF Complete, ChildrenListed, Children, Stepped
  <1> QED
    BY <1>8, <1>10

LEMMA FoundReturnCount == ASSUME TreeInv, WalkOK, FoundOK, ReturnCount PROVE FoundOK'
  <1> USE DEF TreeInv, WalkOK, FoundOK
  <1>0. PICK n, f : n = Len(stack) /\ f = Top
    OBVIOUS
  <1>1. /\ stack # <<>> /\ Rest(f) = <<>> /\ stack' = Front(stack)
        /\ times' = IF n = 1 THEN times ELSE [times EXCEPT ![f.of] = @ + 1]
        /\ UNCHANGED <<kernel, task, prev_task, lost>>
    BY <1>0 DEF ReturnCount
  <1>2. /\ task' = task /\ prev_task' = prev_task
        /\ kids' = kids /\ kthreads' = kthreads /\ current' = current
    BY <1>1 DEF kernel
  <1>3. /\ n \in Nat /\ n >= 1 /\ n \in 1 .. n /\ f = stack[n] /\ FrameOK(f)
        /\ f \in Frames /\ f.of \in Pids
    BY <1>0, <1>1, FramesAre DEF BranchOK, Top, Last
  <1>4. /\ Len(stack') = n - 1 /\ (stack' = <<>> => n = 1)
        /\ \A i \in 1 .. n - 1 : stack'[i] = stack[i] /\ i \in 1 .. n /\ i < n
    <2> DEFINE k == n - 1
               s == SubSeq(stack, 1, k)
    <2>1. k \in Nat /\ k <= Len(stack) /\ stack' = s /\ stack \in Seq(Frames)
      BY <1>0, <1>1, <1>3 DEF Front, BranchOK
    <2> HIDE DEF k
    <2>2. s \in Seq(Frames) /\ Len(s) = k /\ \A i \in 1 .. k : s[i] = stack[i]
      BY <2>1
    <2>3. s = <<>> => k = 0
      BY <2>1, <2>2
    <2> HIDE DEF s
    <2>4. k = 0 => n = 1
      BY <1>3 DEF k
    <2>5. \A i \in 1 .. n - 1 : i \in 1 .. n /\ i < n
      BY <1>3
    <2> QED
      BY <2>1, <2>2, <2>3, <2>4, <2>5 DEF k
  <1>5. times[f.of] = 0
    BY <1>0, <1>3 DEF Below
  <1>6. /\ n = 1 => times' = times
        /\ n # 1 => \A x \in Pids : times'[x] = IF x = f.of THEN 1 ELSE times[x]
        /\ \A x \in Pids : times[x] = 1 => times'[x] = 1
    BY <1>1, <1>3, <1>5 DEF ListedOK
  <1>7. \A x \in Children(f.of) : x \in Pids /\ x \notin Ahead(f)
    BY <1>1, <1>3, AheadIs, ChildrenAre DEF ToSet
  <1>8. f.of \in kthreads /\ f.of # prev_task => \A x \in Children(f.of) : times[x] = 1
    BY <1>0, <1>3, <1>7 DEF FramesListed
  <1>9. ASSUME NEW i \in 1 .. n - 1,
               stack[i].of \in kthreads, stack[i].of # prev_task,
               NEW x \in Children(stack[i].of)
        PROVE  \/ x \in Ahead(stack[i]) \/ times'[x] = 1
               \/ x = stack[i].pos /\ i < n - 1
    <2>1. /\ i \in 1 .. n /\ i < n /\ x \in Pids
      BY <1>0, <1>4, <1>9, FramesAre, ChildrenAre
    <2>2. \/ x \in Ahead(stack[i]) \/ times[x] = 1
          \/ x = stack[i].pos
      BY <1>0, <1>9, <2>1 DEF FramesListed
    <2>3. ASSUME x = stack[i].pos, ~(i < n - 1) PROVE times'[x] = 1
      <3>1. i = n - 1 /\ i \in 1 .. Len(stack) - 1 /\ i + 1 = n /\ n # 1
        BY <1>0, <1>3, <2>1, <2>3
      <3>2. stack[i].pos = stack[i + 1].of
        BY <3>1 DEF BranchOK
      <3>3. x = f.of
        BY <1>3, <2>3, <3>1, <3>2
      <3> QED
        BY <1>6, <2>1, <3>1, <3>3
    <2> QED
      BY <1>6, <2>1, <2>2, <2>3
  <1>10. FramesListed'
    BY <1>2, <1>4, <1>9 DEF FramesListed, Ahead, Children
  <1>11. Parent(current)' = Parent(current)
    BY <1>2 DEF Parent, Children
  <1>12. ASSUME NEW q \in kthreads \ {Parent(current)},
                times'[q] = 1 \/ q = prev_task \/ (q = task /\ stack' = <<>>)
         PROVE  ChildrenListed(q)'
    <2>1. q \in Pids /\ \A x \in Children(q) : x \in Pids
      BY PidsAre, ChildrenAre DEF KernelOK
    <2>2. CASE times[q] = 1 \/ q = prev_task
      BY <1>2, <1>6, <2>1, <2>2 DEF Complete, ChildrenListed, Children
    <2>3. CASE q = f.of /\ q # prev_task
      BY <1>2, <1>6, <1>8, <2>1, <2>3 DEF ChildrenListed, Children
    <2>4. CASE q # f.of /\ times[q] # 1
      <3>1. times'[q] # 1
        BY <1>6, <2>1, <2>4
      <3>2. q = task /\ n = 1 => q = f.of
        BY <1>1, <1>3 DEF BranchOK
      <3> QED
        BY <1>4, <1>12, <2>2, <2>4, <3>1, <3>2
    <2> QED
      BY <2>2, <2>3, <2>4
  <1>13. Complete'
    BY <1>2, <1>11, <1>12 DEF Complete
  <1> QED
    BY <1>10, <1>13

LEMMA FoundFork ==
  ASSUME TreeInv, WalkOK, FoundOK, TreeOK', NEW p, NEW new, Forked(p, new), new > Loaded,
         UNCHANGED walk, current' = current
  PROVE  FoundOK'
  <1> USE DEF TreeInv, WalkOK, FoundOK
  <1>1. task' = task /\ prev_task' = prev_task /\ stack' = stack /\ times' = times
    BY DEF walk
  <1>2. /\ new \notin Live /\ Live \subseteq Known /\ p # new /\ new \in Pids /\ p \in Pids
        /\ Known \subseteq Pids /\ kthreads \subseteq Pids
        /\ \A q \in Pids : \A x : x \in Children(q)' <=> x \in Children(q) \/ (q = p /\ x = new)
        /\ \A q \in kthreads' : q \in kthreads \/ q = new
    BY LiveKnown, PidsAre DEF Forked, KernelOK
  <1>3. \A x : x \notin Children(new)'
    BY <1>2 DEF TreeOK
  <1>4. ASSUME NEW i \in 1 .. Len(stack)
        PROVE  \A x : x \in Ahead(stack[i])' <=>
                        x \in Ahead(stack[i]) \/ (stack[i].of = p /\ x = new)
    <2>1. FrameOK(stack[i]) /\ stack'[i] = stack[i]
      BY <1>1, FramesAre
    <2>2. \A g : FrameOK(g) =>
            \A x : x \in Ahead(g)' <=> x \in Ahead(g) \/ (g.of = p /\ x = new)
      BY ForkAhead
    <2> QED
      BY <2>1, <2>2 DEF Ahead, Children
  <1>5. ASSUME NEW i \in 1 .. Len(stack), stack[i].of \in kthreads', stack[i].of # prev_task,
               NEW x, x \in Children(stack[i].of)'
        PROVE  \/ x \in Ahead(stack[i])' \/ times[x] = 1
               \/ x = stack[i].pos /\ i < Len(stack)
    <2>1. stack[i].of \in Pids
      BY FramesAre
    <2>2. stack[i].of \in kthreads
      <3>1. stack[i].of # new
        <4>1. stack'[i] = stack[i]
          BY <1>1
        <4> QED
          BY <1>3, <1>5, <4>1 DEF Children
      <3> QED
        BY <1>2, <1>5, <3>1
    <2>3. x \in Children(stack[i].of) \/ (stack[i].of = p /\ x = new)
      <3>1. stack'[i] = stack[i]
        BY <1>1
      <3> QED
        BY <1>2, <1>5, <2>1, <3>1 DEF Children
    <2> QED
      BY <1>4, <1>5, <2>2, <2>3 DEF FramesListed
  <1>6. FramesListed'
    BY <1>1, <1>5 DEF FramesListed, Ahead, Children
  <1>7. Parent(current)' = Parent(current)
    <2>1. PICK c, d : c = current /\ d = Parent(current)
      OBVIOUS
    <2>2. d \in Pids /\ c \in Children(d)
      BY <2>1, ParentIs DEF KernelOK
    <2>3. c \in Children(d)'
      BY <1>2, <2>2
    <2>4. \A q \in Pids : c \in Children(q)' => q = d
      BY <2>2, <2>3 DEF TreeOK
    <2>5. Parent(c)' = d
      BY <2>2, <2>3, <2>4 DEF Parent
    <2> QED
      BY <2>1, <2>5 DEF Parent, Children
  <1>8. ASSUME NEW q \in kthreads' \ {Parent(current)},
               times[q] = 1 \/ q = prev_task \/ (q = task /\ stack = <<>>),
               NEW x, x \in Children(q)', x <= Loaded
        PROVE  times[x] = 1
    <2>1. x # new
      <3>1. ~(new <= Loaded)
        BY <1>2, PidsAre, ListProcsAssumption
      <3> QED
        BY <1>8, <3>1
    <2>2. q \in kthreads
      BY <1>2, <1>3, <1>8
    <2>3. x \in Children(q)
      BY <1>2, <1>8, <2>1, <2>2
    <2> QED
      BY <1>8, <2>2, <2>3 DEF Complete, ChildrenListed
  <1>9. Complete'
    BY <1>1, <1>7, <1>8 DEF Complete, ChildrenListed, Children
  <1> QED
    BY <1>6, <1>9

LEMMA FoundExit ==
  ASSUME TreeInv, WalkOK, FoundOK, TreeOK', NEW t, Exited(t), Spared(t),
         UNCHANGED walk, current' = current
  PROVE  FoundOK'
  <1> USE DEF TreeInv, WalkOK, FoundOK
  <1>1. task' = task /\ prev_task' = prev_task /\ stack' = stack /\ times' = times
    BY DEF walk
  <1>2. /\ kthreads' = kthreads /\ t \in Pids /\ t # 1 /\ t # current
        /\ 1 \in Pids /\ 1 \notin kthreads /\ kthreads \subseteq Pids
    BY PidsAre DEF Exited, KernelOK
  <1>3. /\ \A x : x \notin Children(t)'
        /\ \A q \in Pids \ {1, t} : \A x : x \in Children(q)' <=> x \in Children(q) /\ x # t
        /\ \A x : x \in Children(1)' <=> (x \in Children(1) /\ x # t) \/ x \in Children(t)
    BY DEF Exited
  <1>4. ASSUME NEW i \in 1 .. Len(stack), stack[i].of \in kthreads
        PROVE  \A x : x \in Ahead(stack[i])' <=> x \in Ahead(stack[i]) /\ x # t
    <2>1. /\ FrameOK(stack[i]) /\ stack'[i] = stack[i] /\ stack[i].of # 1
          /\ stack[i].of # t /\ stack[i].pos # t /\ stack[i].pos \notin Children(t)
      BY <1>1, <1>2, <1>4, FramesAre DEF Spared
    <2>2. \A g : /\ FrameOK(g) /\ g.of # 1
                 /\ g.of # t /\ g.pos # t /\ g.pos \notin Children(t)
                 => \A x : x \in Ahead(g)' <=> x \in Ahead(g) /\ x # t
      BY ExitAhead
    <2> QED
      BY <2>1, <2>2 DEF Ahead, Children
  <1>5. ASSUME NEW i \in 1 .. Len(stack), stack[i].of \in kthreads, stack[i].of # prev_task,
               NEW x, x \in Children(stack[i].of)'
        PROVE  \/ x \in Ahead(stack[i])' \/ times[x] = 1
               \/ x = stack[i].pos /\ i < Len(stack)
    <2>1. stack[i].of \in Pids \ {1, t} /\ stack'[i] = stack[i]
      BY <1>1, <1>2, <1>5, FramesAre DEF Spared
    <2>2. x \in Children(stack[i].of) /\ x # t
      BY <1>3, <1>5, <2>1 DEF Children
    <2> QED
      BY <1>4, <1>5, <2>2 DEF FramesListed
  <1>6. FramesListed'
    BY <1>1, <1>2, <1>5 DEF FramesListed, Ahead, Children
  <1>7. Parent(current) = t \/ Parent(current)' = Parent(current)
    <2>1. PICK c, d : c = current /\ d = Parent(current)
      OBVIOUS
    <2> SUFFICES ASSUME d # t PROVE Parent(c)' = d
      BY <2>1 DEF Parent, Children
    <2>2. d \in Pids /\ c \in Children(d) /\ c # t
      BY <1>2, <2>1, ParentIs DEF KernelOK
    <2>3. c \in Children(d)'
      BY <1>3, <2>2
    <2>4. \A q \in Pids : c \in Children(q)' => q = d
      BY <2>2, <2>3 DEF TreeOK
    <2> QED
      BY <2>2, <2>3, <2>4 DEF Parent
  <1>8. ASSUME NEW q \in kthreads, q # Parent(current)',
               times[q] = 1 \/ q = prev_task \/ (q = task /\ stack = <<>>),
               NEW x, x \in Children(q)', x <= Loaded
        PROVE  times[x] = 1
    <2>1. q \in Pids \ {1, t}
      BY <1>2, <1>3, <1>8
    <2>2. x \in Children(q) /\ q # Parent(current)
      BY <1>3, <1>7, <1>8, <2>1
    <2> QED
      BY <1>8, <2>2 DEF Complete, ChildrenListed
  <1>9. Complete'
    BY <1>1, <1>2, <1>8 DEF Complete, ChildrenListed, Children
  <1> QED
    BY <1>6, <1>9

LEMMA FoundKept == FoundInv /\ [Next]_vars => FoundInv'
  <1> SUFFICES ASSUME FoundInv, [Next]_vars PROVE FoundInv'
    OBVIOUS
  <1>1. IInv /\ IInv' /\ TreeInv /\ TreeOK /\ KernelOK /\ TreeOK' /\ KernelOK' /\ lost \in BOOLEAN
    BY Kept DEF FoundInv, IInv, TreeInv
  <1> SUFFICES ASSUME lost' = FALSE PROVE FoundOK'
    BY <1>1 DEF FoundInv
  <1>2. ASSUME lost = FALSE PROVE WalkOK /\ FoundOK
    BY <1>2 DEF FoundInv, IInv
  <1>3. CASE Walk
    <2>1. WalkOK /\ FoundOK
      BY <1>1, <1>2, <1>3 DEF Walk
    <2> QED
      BY <1>1, <1>3, <2>1, FoundClimb, FoundNextChild, FoundReturnCount
         DEF Walk, print_children
  <1>4. ASSUME NEW p \in Live, Fork(p) PROVE FoundOK'
    <2>1. PICK new : new = Loaded + forks + 1
      OBVIOUS
    <2>2. Forked(p, new)
      BY <1>1, <1>4, <2>1, ForkForks
    <2>3. new > Loaded
      BY <1>1, <2>1, ListProcsAssumption DEF KernelOK
    <2>4. UNCHANGED walk /\ current' = current /\ lost = FALSE
      BY <1>4 DEF Fork
    <2> QED
      BY <1>1, <1>2, <2>2, <2>3, <2>4, FoundFork
  <1>5. ASSUME NEW t \in Live \ {0, 1, current}, Exit(t) PROVE FoundOK'
    <2>1. Exited(t)
      BY <1>1, <1>5, ExitExits
    <2>2. /\ UNCHANGED walk /\ current' = current
          /\ lost = FALSE /\ (Done \/ ~Stands(t))
      BY <1>1, <1>5 DEF Exit
    <2>3. WalkOK /\ FoundOK
      BY <1>2, <2>2
    <2>4. CASE ~Stands(t)
      <3>1. DOMAIN stack = 1 .. Len(stack)
        BY <2>3 DEF WalkOK, BranchOK
      <3>2. Spared(t)
        BY <2>4, <3>1 DEF Stands, Spared
      <3> QED
        BY <1>1, <2>1, <2>2, <2>3, <3>2, FoundExit
    <2>5. CASE Done
      <3>1. stack = <<>> /\ task = 0 /\ Len(stack) = 0
        BY <2>5 DEF Done
      <3>2. Spared(t)
        BY <1>5, <3>1 DEF Spared
      <3> QED
        BY <1>1, <2>1, <2>2, <2>3, <3>2, FoundExit
    <2> QED
      BY <2>2, <2>4, <2>5
  <1>6. CASE UNCHANGED vars
    <2>1. FoundOK
      BY <1>2, <1>6 DEF vars
    <2> QED
      BY <1>6, <2>1 DEF vars, kernel, walk, FoundOK, FramesListed, Complete, ChildrenListed,
                        Ahead, Children, Parent
  <1> QED
    BY <1>3, <1>4, <1>5, <1>6 DEF Next, Over

(* The ancestors of a task are its parent and that one's ancestors: a set   *)
(* that is closed under parents exists, and the smallest is Ancestors.      *)
Up(S, t) == (t # 0 => Parent(t) \in S) /\ \A s \in S \ {0} : Parent(s) \in S

LEMMA AncestorsAre ==
  ASSUME TreeOK, KernelOK, NEW t \in Live
  PROVE  Ancestors[t] = IF t = 0 THEN {} ELSE {Parent(t)} \cup Ancestors[Parent(t)]
  <1> DEFINE g == [u \in Live |-> {a \in Live : \A S \in SUBSET Live : Up(S, u) => a \in S}]
             Step(f) == [u \in Live |-> IF u = 0 THEN {} ELSE {Parent(u)} \cup f[Parent(u)]]
  <1>1. \A u \in Live \ {0} : Parent(u) \in Live
    BY ParentIs
  <1>2. ASSUME NEW u \in Live
        PROVE  g[u] = IF u = 0 THEN {} ELSE {Parent(u)} \cup g[Parent(u)]
    <2>1. CASE u = 0
      <3>1. {} \in SUBSET Live /\ Up({}, u)
        BY <2>1 DEF Up
      <3> QED
        BY <2>1, <3>1
    <2>2. CASE u # 0
      <3>1. Parent(u) \in Live
        BY <1>1, <2>2
      <3>2. ASSUME NEW a \in {Parent(u)} \cup g[Parent(u)] PROVE a \in g[u]
        <4>1. a \in Live
          BY <3>1, <3>2
        <4>2. ASSUME NEW S \in SUBSET Live, Up(S, u) PROVE a \in S
          <5>1. Parent(u) \in S /\ Up(S, Parent(u))
            BY <2>2, <4>2 DEF Up
          <5> QED
            BY <3>1, <3>2, <5>1
        <4> QED
          BY <4>1, <4>2
      <3>3. ASSUME NEW a \in g[u], a # Parent(u) PROVE a \in g[Parent(u)]
        <4>1. a \in Live
          BY <3>3
        <4>2. ASSUME NEW S \in SUBSET Live, Up(S, Parent(u)) PROVE a \in S
          <5>1. S \cup {Parent(u)} \in SUBSET Live /\ Up(S \cup {Parent(u)}, u)
            BY <2>2, <3>1, <4>2 DEF Up
          <5> QED
            BY <3>3, <5>1
        <4> QED
          BY <3>1, <4>1, <4>2
      <3> QED
        BY <2>2, <3>2, <3>3
    <2> QED
      BY <2>1, <2>2
  <1>3. g = Step(g)
    BY <1>2
  <1>4. Ancestors = CHOOSE f : f = Step(f)
    BY DEF Ancestors
  <1> HIDE DEF g
  <1>5. Ancestors = Step(Ancestors)
    BY <1>3, <1>4
  <1> QED
    BY <1>5

LEMMA LeastIs ==
  ASSUME NEW S \in SUBSET Nat, S # {}
  PROVE  \E m \in S : \A k \in S : ~(k < m)
  <1> DEFINE R == {pair \in Nat \X Nat : pair[1] < pair[2]}
  <1>1. \A x, y \in Nat : x < y => <<x, y>> \in R
    OBVIOUS
  <1>2. IsWellFoundedOn(R, Nat)
    BY NatLessThanWellFounded DEF OpToRel
  <1> HIDE DEF R
  <1>3. \E m \in S : \A k \in S : ~(<<k, m>> \in R)
    BY <1>2, WFMin
  <1> QED
    BY <1>1, <1>3

(* A task below no one who left the branch is listed, for its parent is:    *)
(* the least pid that is not would have a parent that is listed, or process *)
(* 0 itself, whose children the last descent lists.                         *)
LEMMA FoundImplies ==
  ASSUME TreeOK, KernelOK, Complete
  PROVE  FindsKernelThreads
  <1> DEFINE Kept0(t) == Ancestors[t] \subseteq kthreads /\ Parent(current) \notin Ancestors[t]
             Missed == {t \in Live \cap kthreads \cap 1 .. Loaded :
                          Kept0(t) /\ times[t] # 1}
  <1> SUFFICES ASSUME Done, Missed # {} PROVE FALSE
    BY DEF FindsKernelThreads
  <1>1. Missed \in SUBSET Nat
    BY ListProcsAssumption
  <1>2. PICK m \in Missed : \A k \in Missed : ~(k < m)
    BY <1>1, LeastIs
  <1>3. PICK up : up = Parent(m)
    OBVIOUS
  <1>4. /\ m \in Live \cap kthreads /\ m # 0 /\ m \in 1 .. Loaded /\ times[m] # 1
    BY <1>2, ListProcsAssumption
  <1>5. up \in Pids /\ m \in Children(up) /\ up < m /\ up \in Live /\ up \in Nat
    BY <1>3, <1>4, ParentIs, PidsAre
  <1>6. Ancestors[m] = {up} \cup Ancestors[up]
    BY <1>3, <1>4, AncestorsAre
  <1>7. up \in kthreads \ {Parent(current)} /\ Kept0(up)
    BY <1>2, <1>6
  <1>8. CASE up = 0
    BY <1>4, <1>5, <1>7, <1>8, ListProcsAssumption DEF Complete, ChildrenListed, Done
  <1>9. CASE up # 0
    <2>1. up \in 1 .. Loaded
      BY <1>4, <1>5, <1>9, ListProcsAssumption
    <2>2. times[up] = 1
      BY <1>2, <1>5, <1>7, <2>1
    <2> QED
      BY <1>4, <1>5, <1>7, <2>2, ListProcsAssumption DEF Complete, ChildrenListed
  <1> QED
    BY <1>8, <1>9

(* list_procs.c:17, "List find all kernel threads": on any tree, whatever   *)
(* forks and exits, a walk that is not lost has listed every kernel thread  *)
(* that was there when it started and has only kernel threads above it,     *)
(* but for those below the parent of the loading process.                   *)
THEOREM FindsThemAll == Spec => []FindsKernelThreads
  <1>1. FoundInv => FindsKernelThreads
    <2>1. lost = FALSE /\ FoundInv => FindsKernelThreads
      BY FoundImplies DEF FoundInv, FoundOK, IInv, TreeInv
    <2>2. lost # FALSE /\ FoundInv => FindsKernelThreads
      BY DEF FindsKernelThreads, FoundInv, IInv
    <2> QED
      BY <2>1, <2>2
  <1> QED
    BY <1>1, FoundInit, FoundKept, PTL DEF Spec
----------------------------------------------------------------------------
(* timer.c.                                                                *)

(* Only a machine with several processors runs del_timer beside a callback. *)
RacesNeedSmp == raced => smp

(* del_timer leaves neither timer nor callback behind, but in a race.       *)
DeletedIsQuiet ==
  module = "deleted" /\ (armed \/ cb # "none") => smp /\ raced

(* A period is never shorter than what has passed and what is left.         *)
PeriodAhead == armed => since + left >= TIMER_MS

TimerInv == TimerTypeOK /\ OnlyARaceCrashes /\ RacesNeedSmp /\ DeletedIsQuiet /\ PeriodAhead
----------------------------------------------------------------------------
(* The invariant holds at first. *)
LEMMA TimerInitInv ==
  ASSUME TimerInit
  PROVE  TimerInv
  <1> USE DEF TimerInit
  <1>1. TimerTypeOK
    <2>1. left \in 0 .. TIMER_MS /\ since \in 0 .. TIMER_MS
      BY TimerAssumption
    <2> QED
      BY <2>1 DEF TimerTypeOK
  <1>2. OnlyARaceCrashes /\ RacesNeedSmp /\ DeletedIsQuiet /\ PeriodAhead
    BY DEF OnlyARaceCrashes, RacesNeedSmp, DeletedIsQuiet, PeriodAhead
  <1> QED
    BY <1>1, <1>2 DEF TimerInv

(* The types, whatever step is taken. *)
LEMMA TimerNextTypeOK ==
  ASSUME TimerTypeOK, TimerNext
  PROVE  TimerTypeOK'
  <1> USE TimerAssumption DEF TimerTypeOK, machine
  <1>1. CASE Insmod         BY <1>1 DEF Insmod
  <1>2. CASE timer_init     BY <1>2 DEF timer_init, mod_timer
  <1>3. CASE Rmmod          BY <1>3 DEF Rmmod
  <1>4. CASE timer_cleanup
    <2>1. raced' \in BOOLEAN
      BY <1>4 DEF timer_cleanup
    <2>2. left' \in 0 .. TIMER_MS /\ since' \in 0 .. TIMER_MS
      BY <1>4 DEF timer_cleanup
    <2> QED
      BY <1>4, <2>1, <2>2 DEF timer_cleanup
  <1>5. CASE FreeModule
    <2>1. stale' \subseteq {"timer", "callback"}
      BY <1>5 DEF FreeModule
    <2>2. left' \in 0 .. TIMER_MS /\ since' \in 0 .. TIMER_MS
      BY <1>5 DEF FreeModule
    <2> QED
      BY <1>5, <2>1, <2>2 DEF FreeModule
  <1>6. CASE UseAfterFree   BY <1>6 DEF UseAfterFree
  <1>7. CASE Halted         BY <1>7 DEF Halted, timerVars
  <1>8. CASE Tick           BY <1>8 DEF Tick
  <1>9. CASE Expire         BY <1>9 DEF Expire
  <1>10. CASE Rearm         BY <1>10 DEF Rearm, mod_timer
  <1>11. CASE Return        BY <1>11 DEF Return
  <1> QED BY <1>1, <1>2, <1>3, <1>4, <1>5, <1>6, <1>7, <1>8, <1>9, <1>10, <1>11
             DEF TimerNext, timer_cb

(* FreeModule leaves behind no more than DeletedIsQuiet lets it find.       *)
LEMMA FreeLeavesRaces ==
  ASSUME TimerInv, FreeModule
  PROVE  OnlyARaceCrashes'
  <1>1. CASE armed \/ cb # "none"
    <2>1. smp /\ raced
      BY <1>1 DEF TimerInv, DeletedIsQuiet, FreeModule
    <2> QED
      BY <2>1 DEF FreeModule, OnlyARaceCrashes, machine
  <1>2. CASE ~armed /\ cb = "none"
    <2>1. stale' = stale
      BY <1>2 DEF FreeModule
    <2> QED
      BY <2>1 DEF TimerInv, FreeModule, OnlyARaceCrashes, machine
  <1> QED
    BY <1>1, <1>2 DEF TimerInv, TimerTypeOK

(* The race: each step keeps what is left behind tied to it. *)
LEMMA NextRace ==
  ASSUME TimerInv, TimerNext
  PROVE  OnlyARaceCrashes' /\ RacesNeedSmp' /\ DeletedIsQuiet'
  <1> USE DEF TimerInv, TimerTypeOK, OnlyARaceCrashes, RacesNeedSmp, DeletedIsQuiet,
              machine, Process
  <1>1. CASE Insmod         BY <1>1 DEF Insmod
  <1>2. CASE timer_init     BY <1>2 DEF timer_init
  <1>3. CASE Rmmod          BY <1>3 DEF Rmmod
  <1>4. CASE timer_cleanup  BY <1>4 DEF timer_cleanup
  <1>5. CASE FreeModule
    <2>1. OnlyARaceCrashes'
      BY <1>5, FreeLeavesRaces
    <2> QED
      BY <1>5, <2>1 DEF FreeModule
  <1>6. CASE UseAfterFree   BY <1>6 DEF UseAfterFree
  <1>7. CASE Halted         BY <1>7 DEF Halted, timerVars
  <1>8. CASE Tick           BY <1>8 DEF Tick
  <1>9. CASE Expire         BY <1>9 DEF Expire
  <1>10. CASE Rearm         BY <1>10 DEF Rearm, mod_timer
  <1>11. CASE Return        BY <1>11 DEF Return
  <1> QED BY <1>1, <1>2, <1>3, <1>4, <1>5, <1>6, <1>7, <1>8, <1>9, <1>10, <1>11
             DEF TimerNext, timer_cb

(* The period: time passes no faster for the timer than for the callback.   *)
LEMMA NextPeriod ==
  ASSUME TimerInv, TimerNext
  PROVE  PeriodAhead'
  <1> USE TimerAssumption DEF TimerInv, TimerTypeOK, PeriodAhead, machine
  <1>1. CASE Insmod         BY <1>1 DEF Insmod
  <1>2. CASE timer_init     BY <1>2 DEF timer_init, mod_timer
  <1>3. CASE Rmmod          BY <1>3 DEF Rmmod
  <1>4. CASE timer_cleanup  BY <1>4 DEF timer_cleanup
  <1>5. CASE FreeModule     BY <1>5 DEF FreeModule
  <1>6. CASE UseAfterFree   BY <1>6 DEF UseAfterFree
  <1>7. CASE Halted         BY <1>7 DEF Halted, timerVars
  <1>8. CASE Tick           BY <1>8 DEF Tick
  <1>9. CASE Expire         BY <1>9 DEF Expire
  <1>10. CASE Rearm         BY <1>10 DEF Rearm, mod_timer
  <1>11. CASE Return        BY <1>11 DEF Return
  <1> QED BY <1>1, <1>2, <1>3, <1>4, <1>5, <1>6, <1>7, <1>8, <1>9, <1>10, <1>11
             DEF TimerNext, timer_cb

(* Every step keeps the invariant. *)
LEMMA TimerNextInv ==
  ASSUME TimerInv, [TimerNext]_timerVars
  PROVE  TimerInv'
  <1>1. CASE TimerNext
    <2>1. TimerTypeOK'
      BY <1>1, TimerNextTypeOK DEF TimerInv
    <2> QED
      BY <1>1, <2>1, NextRace, NextPeriod DEF TimerInv
  <1>2. CASE UNCHANGED timerVars
    BY <1>2 DEF timerVars, TimerInv, TimerTypeOK, OnlyARaceCrashes, RacesNeedSmp,
                DeletedIsQuiet, PeriodAhead
  <1> QED
    BY <1>1, <1>2
----------------------------------------------------------------------------
(* The invariant of the timer and its module: types, what a removal may     *)
(* leave behind, and the distance of two calls.                             *)
THEOREM TimerInvariance == TimerSpec => []TimerInv
  <1>1. TimerInit => TimerInv
    BY TimerInitInv
  <1>2. TimerInv /\ [TimerNext]_timerVars => TimerInv'
    BY TimerNextInv
  <1> QED
    BY <1>1, <1>2, PTL DEF TimerSpec

(* Types, for every period. *)
THEOREM TimerTypeCorrect == TimerSpec => []TimerTypeOK
  <1>1. TimerInv => TimerTypeOK
    BY DEF TimerInv
  <1> QED
    BY <1>1, TimerInvariance, PTL

(* timer.c:74: without a second processor del_timer leaves nothing that     *)
(* uses the freed module, and with one only when it ran beside the callback. *)
THEOREM RemovalIsSafe == TimerSpec => []OnlyARaceCrashes
  <1>1. TimerInv => OnlyARaceCrashes
    BY DEF TimerInv
  <1> QED
    BY <1>1, TimerInvariance, PTL

(* timer.c:14: for every TIMER_MS, two calls are at least that far apart.   *)
THEOREM CallsApart == TimerSpec => APeriodApart
  <1>1. TimerInv /\ [TimerNext]_timerVars => [Expire => since >= TIMER_MS]_timerVars
    <2> SUFFICES ASSUME TimerInv, Expire
                 PROVE  since >= TIMER_MS
      OBVIOUS
    <2> QED
      BY TimerAssumption DEF TimerInv, TimerTypeOK, PeriodAhead, Expire
  <1> QED
    BY <1>1, TimerInvariance, PTL DEF TimerSpec, APeriodApart
=============================================================================
