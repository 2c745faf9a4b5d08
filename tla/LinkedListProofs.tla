--------------------------- MODULE LinkedListProofs ---------------------------
(***************************************************************************)
(* Proofs about the doubly linked list, for every heap, every payload and   *)
(* every sequence of calls.                                                 *)
(***************************************************************************)
EXTENDS LinkedList, FiniteSetTheorems, SequenceTheorems, TLAPS

----------------------------------------------------------------------------
(* Sequences with an element more, or one less.                            *)

WithAfter(s, p, n) == SubSeq(s, 1, p) \o <<n>> \o SubSeq(s, p + 1, Len(s))
Without(s, p) == SubSeq(s, 1, p - 1) \o SubSeq(s, p + 1, Len(s))

LEMMA PieceProperties ==
  ASSUME NEW S, NEW s \in Seq(S), NEW a \in 1 .. Len(s) + 1, NEW b \in a - 1 .. Len(s)
  PROVE  /\ SubSeq(s, a, b) \in Seq(S)
         /\ Len(SubSeq(s, a, b)) = b - a + 1
         /\ \A i \in 1 .. b - a + 1 : SubSeq(s, a, b)[i] = s[a + i - 1]
  <1>1. Len(s) \in Nat /\ a \in Int /\ b \in Int
    OBVIOUS
  <1>2. \A i \in a .. b : s[i] \in S
    BY <1>1
  <1>3. IF a <= b THEN b - a + 1 = b - a + 1 ELSE b - a + 1 = 0
    BY <1>1
  <1> QED
    BY <1>1, <1>2, <1>3, SubSeqProperties

(* r is s with n put after its place p. *)
Widened(S, r, s, p, n) ==
  /\ r \in Seq(S) /\ Len(r) = Len(s) + 1
  /\ \A i \in 1 .. p : r[i] = s[i]
  /\ r[p + 1] = n
  /\ \A i \in p + 2 .. Len(s) + 1 : r[i] = s[i - 1]

LEMMA WithAfterProperties ==
  ASSUME NEW S, NEW s \in Seq(S), NEW p \in 0 .. Len(s), NEW n \in S
  PROVE  Widened(S, WithAfter(s, p, n), s, p, n)
  <1> DEFINE a == SubSeq(s, 1, p)
             b == <<n>>
             c == SubSeq(s, p + 1, Len(s))
             l == Len(s)
  <1>1. l \in Nat /\ p \in 0 .. l
    OBVIOUS
  <1>2. a \in Seq(S) /\ Len(a) = p /\ \A i \in 1 .. p : a[i] = s[i]
    <2>1. p \in 1 - 1 .. Len(s) /\ 1 \in 1 .. Len(s) + 1 /\ p - 1 + 1 = p
      BY <1>1
    <2>2. \A i \in 1 .. p : 1 + i - 1 = i
      BY <1>1
    <2> QED
      BY <2>1, <2>2, PieceProperties
  <1>3. b \in Seq(S) /\ Len(b) = 1 /\ b[1] = n
    OBVIOUS
  <1>4. c \in Seq(S) /\ Len(c) = l - p /\ \A i \in 1 .. l - p : c[i] = s[p + i]
    <2>1. p + 1 \in 1 .. Len(s) + 1 /\ Len(s) \in (p + 1) - 1 .. Len(s)
      BY <1>1
    <2>2. /\ c \in Seq(S) /\ Len(c) = l - (p + 1) + 1
          /\ \A i \in 1 .. l - (p + 1) + 1 : c[i] = s[(p + 1) + i - 1]
      BY <2>1, PieceProperties
    <2>3. l - (p + 1) + 1 = l - p /\ \A i \in 1 .. l - p : (p + 1) + i - 1 = p + i
      BY <1>1
    <2> QED
      BY <2>2, <2>3
  <1> HIDE DEF a, b, c, l
  <1>5. /\ a \o b \in Seq(S) /\ Len(a \o b) = p + 1
        /\ \A i \in 1 .. p : (a \o b)[i] = s[i]
        /\ (a \o b)[p + 1] = n
    <2>1. /\ a \o b \in Seq(S) /\ Len(a \o b) = p + 1
          /\ \A i \in 1 .. p + 1 : (a \o b)[i] = IF i <= p THEN a[i] ELSE b[i - p]
      BY <1>2, <1>3, ConcatProperties
    <2>2. /\ \A i \in 1 .. p : i \in 1 .. p + 1 /\ i <= p
          /\ p + 1 \in 1 .. p + 1 /\ ~(p + 1 <= p) /\ (p + 1) - p = 1
      BY <1>1
    <2> QED
      BY <1>2, <1>3, <2>1, <2>2
  <1>6. /\ a \o b \o c \in Seq(S) /\ Len(a \o b \o c) = (p + 1) + (l - p)
        /\ \A i \in 1 .. (p + 1) + (l - p) :
             (a \o b \o c)[i] = IF i <= p + 1 THEN (a \o b)[i] ELSE c[i - (p + 1)]
    <2> DEFINE ab == a \o b
    <2>1. ab \in Seq(S) /\ Len(ab) = p + 1
      BY <1>5
    <2> HIDE DEF ab
    <2>2. /\ ab \o c \in Seq(S) /\ Len(ab \o c) = Len(ab) + Len(c)
          /\ \A i \in 1 .. Len(ab) + Len(c) :
               (ab \o c)[i] = IF i <= Len(ab) THEN ab[i] ELSE c[i - Len(ab)]
      BY <1>4, <2>1, ConcatProperties
    <2> QED
      BY <1>4, <2>1, <2>2 DEF ab
  <1>7. /\ (p + 1) + (l - p) = l + 1
        /\ \A i \in 1 .. p : i \in 1 .. l + 1 /\ i <= p + 1
        /\ p + 1 \in 1 .. l + 1 /\ p + 1 <= p + 1
        /\ \A i \in p + 2 .. l + 1 :
             /\ i \in 1 .. l + 1 /\ ~(i <= p + 1)
             /\ i - (p + 1) \in 1 .. l - p /\ p + (i - (p + 1)) = i - 1
    BY <1>1
  <1>8. WithAfter(s, p, n) = a \o b \o c
    BY DEF WithAfter, a, b, c
  <1> DEFINE t == a \o b \o c
  <1>9. /\ t \in Seq(S) /\ Len(t) = l + 1
        /\ \A i \in 1 .. l + 1 :
             t[i] = IF i <= p + 1 THEN (a \o b)[i] ELSE c[i - (p + 1)]
    BY <1>6, <1>7
  <1> HIDE DEF t
  <1>10. \A i \in 1 .. p : t[i] = s[i]
    BY <1>5, <1>7, <1>9
  <1>11. t[p + 1] = n
    BY <1>5, <1>7, <1>9
  <1>12. \A i \in p + 2 .. l + 1 : t[i] = s[i - 1]
    <2> TAKE i \in p + 2 .. l + 1
    <2>1. t[i] = c[i - (p + 1)]
      BY <1>7, <1>9
    <2>2. c[i - (p + 1)] = s[p + (i - (p + 1))]
      BY <1>4, <1>7
    <2> QED
      BY <1>7, <2>1, <2>2
  <1> QED
    BY <1>8, <1>9, <1>10, <1>11, <1>12 DEF l, t, Widened

LEMMA WithoutProperties ==
  ASSUME NEW S, NEW s \in Seq(S), NEW p \in 1 .. Len(s)
  PROVE  /\ Without(s, p) \in Seq(S)
         /\ Len(Without(s, p)) = Len(s) - 1
         /\ \A i \in 1 .. p - 1 : Without(s, p)[i] = s[i]
         /\ \A i \in p .. Len(s) - 1 : Without(s, p)[i] = s[i + 1]
  <1> DEFINE a == SubSeq(s, 1, p - 1)
             c == SubSeq(s, p + 1, Len(s))
             l == Len(s)
  <1>1. l \in Nat /\ p \in 1 .. l
    OBVIOUS
  <1>2. a \in Seq(S) /\ Len(a) = p - 1 /\ \A i \in 1 .. p - 1 : a[i] = s[i]
    <2>1. p - 1 \in 1 - 1 .. Len(s) /\ 1 \in 1 .. Len(s) + 1 /\ (p - 1) - 1 + 1 = p - 1
      BY <1>1
    <2>2. \A i \in 1 .. p - 1 : 1 + i - 1 = i
      BY <1>1
    <2> QED
      BY <2>1, <2>2, PieceProperties
  <1>3. c \in Seq(S) /\ Len(c) = l - p /\ \A i \in 1 .. l - p : c[i] = s[p + i]
    <2>1. p + 1 \in 1 .. Len(s) + 1 /\ Len(s) \in (p + 1) - 1 .. Len(s)
      BY <1>1
    <2>2. /\ c \in Seq(S) /\ Len(c) = l - (p + 1) + 1
          /\ \A i \in 1 .. l - (p + 1) + 1 : c[i] = s[(p + 1) + i - 1]
      BY <2>1, PieceProperties
    <2>3. l - (p + 1) + 1 = l - p /\ \A i \in 1 .. l - p : (p + 1) + i - 1 = p + i
      BY <1>1
    <2> QED
      BY <2>2, <2>3
  <1> HIDE DEF a, c, l
  <1>4. /\ a \o c \in Seq(S) /\ Len(a \o c) = (p - 1) + (l - p)
        /\ \A i \in 1 .. (p - 1) + (l - p) :
             (a \o c)[i] = IF i <= p - 1 THEN a[i] ELSE c[i - (p - 1)]
    <2>1. /\ a \o c \in Seq(S) /\ Len(a \o c) = Len(a) + Len(c)
          /\ \A i \in 1 .. Len(a) + Len(c) :
               (a \o c)[i] = IF i <= Len(a) THEN a[i] ELSE c[i - Len(a)]
      BY <1>2, <1>3, ConcatProperties
    <2> QED
      BY <1>2, <1>3, <2>1
  <1>5. /\ (p - 1) + (l - p) = l - 1
        /\ \A i \in 1 .. p - 1 : i \in 1 .. l - 1 /\ i <= p - 1
        /\ \A i \in p .. l - 1 :
             /\ i \in 1 .. l - 1 /\ ~(i <= p - 1)
             /\ i - (p - 1) \in 1 .. l - p /\ p + (i - (p - 1)) = i + 1
    BY <1>1
  <1>6. Without(s, p) = a \o c
    BY DEF Without, a, c
  <1> DEFINE t == a \o c
  <1>7. /\ t \in Seq(S) /\ Len(t) = l - 1
        /\ \A i \in 1 .. l - 1 :
             t[i] = IF i <= p - 1 THEN a[i] ELSE c[i - (p - 1)]
    BY <1>4, <1>5
  <1> HIDE DEF t
  <1>8. \A i \in 1 .. p - 1 : t[i] = s[i]
    BY <1>2, <1>5, <1>7
  <1>9. \A i \in p .. l - 1 : t[i] = s[i + 1]
    <2> TAKE i \in p .. l - 1
    <2>1. t[i] = c[i - (p - 1)]
      BY <1>5, <1>7
    <2>2. c[i - (p - 1)] = s[p + (i - (p - 1))]
      BY <1>3, <1>5
    <2> QED
      BY <1>5, <2>1, <2>2
  <1> QED
    BY <1>6, <1>7, <1>8, <1>9 DEF l, t
----------------------------------------------------------------------------
(* Chains of nodes, whatever fields they are linked with.                  *)

Elements(s) == {s[p] : p \in 1 .. Len(s)}

Linked(s, nx, pv) ==
  /\ \A p, q \in 1 .. Len(s) : s[p] = s[q] => p = q
  /\ \A p \in 1 .. Len(s) - 1 : nx[s[p]] = s[p + 1] /\ pv[s[p + 1]] = s[p]
  /\ s # <<>> => nx[s[Len(s)]] = NULL

(* What next and prev are at a position of a chain. *)
LEMMA LinkedFields ==
  ASSUME NEW s \in Seq(Nodes), NEW nx, NEW pv, Linked(s, nx, pv),
         NEW p \in 1 .. Len(s)
  PROVE  /\ s[p] \in Nodes /\ Len(s) \in Nat /\ s # <<>>
         /\ \A q \in 1 .. Len(s) : s[q] = s[p] => q = p
         /\ p < Len(s) => /\ p + 1 \in 1 .. Len(s)
                          /\ nx[s[p]] = s[p + 1] /\ s[p + 1] \in Nodes
                          /\ nx[s[p]] # NULL
         /\ p = Len(s) => nx[s[p]] = NULL
         /\ p > 1 => p - 1 \in 1 .. Len(s) /\ pv[s[p]] = s[p - 1] /\ pv[s[p]] # NULL
  <1>1. Len(s) \in Nat /\ s # <<>> /\ p \in Nat /\ \A q \in 1 .. Len(s) : s[q] \in Nodes
    OBVIOUS
  <1>2. p < Len(s) => p \in 1 .. Len(s) - 1 /\ p + 1 \in 1 .. Len(s)
    BY <1>1
  <1>3. p > 1 => /\ p - 1 \in 1 .. Len(s) - 1 /\ (p - 1) + 1 = p
                 /\ p - 1 \in 1 .. Len(s)
    BY <1>1
  <1>4. NULL \notin Nodes
    BY LinkedListAssumption
  <1>5. \A q \in 1 .. Len(s) : s[q] = s[p] => q = p
    BY DEF Linked
  <1>6. p < Len(s) => nx[s[p]] = s[p + 1]
    BY <1>2 DEF Linked
  <1>7. p > 1 => pv[s[p]] = s[p - 1]
    <2>1. \A q \in 1 .. Len(s) - 1 : pv[s[q + 1]] = s[q]
      BY DEF Linked
    <2> QED
      BY <1>3, <2>1
  <1>8. p = Len(s) => nx[s[p]] = NULL
    BY <1>1 DEF Linked
  <1>9. p < Len(s) => s[p + 1] \in Nodes /\ s[p + 1] # NULL
    BY <1>1, <1>2, <1>4
  <1>10. p > 1 => s[p - 1] # NULL
    BY <1>1, <1>3, <1>4
  <1> QED
    BY <1>1, <1>2, <1>3, <1>5, <1>6, <1>7, <1>8, <1>9, <1>10

(* The fields nx2 and pv2 once n is linked after m, and once m is unlinked.  *)
LinksAfter(m, n, nx, pv, nx2, pv2) ==
  /\ \A k \in Nodes :
       nx2[k] = IF k = n THEN nx[m] ELSE IF k = m THEN n ELSE nx[k]
  /\ \A k \in Nodes :
       pv2[k] = IF k = n THEN m ELSE IF k = nx[m] THEN n ELSE pv[k]

LinksWithout(m, nx, pv, nx2, pv2) ==
  /\ \A k \in Nodes :
       nx2[k] = IF k = m THEN NULL ELSE IF k = pv[m] THEN nx[m] ELSE nx[k]
  /\ \A k \in Nodes :
       pv2[k] = IF k = m THEN NULL ELSE IF k = nx[m] THEN pv[m] ELSE pv[k]

LEMMA LinkedInsert ==
  ASSUME NEW s \in Seq(Nodes), NEW nx, NEW pv, Linked(s, nx, pv),
         NEW p \in 1 .. Len(s), NEW n \in Nodes, n \notin Elements(s), NEW nx2, NEW pv2,
         LinksAfter(s[p], n, nx, pv, nx2, pv2)
  PROVE  /\ Linked(WithAfter(s, p, n), nx2, pv2)
         /\ Elements(WithAfter(s, p, n)) = Elements(s) \cup {n}
         /\ pv2[s[1]] = pv[s[1]]
  <1> DEFINE t == WithAfter(s, p, n)
             l == Len(s)
  <1>1. /\ l \in Nat /\ p \in 1 .. l /\ s # <<>>
        /\ \A q \in 1 .. l : s[q] \in Nodes /\ s[q] # n
    BY DEF Elements
  <1>2. /\ t \in Seq(Nodes) /\ Len(t) = l + 1
        /\ \A i \in 1 .. p : t[i] = s[i]
        /\ t[p + 1] = n
        /\ \A i \in p + 2 .. l + 1 : t[i] = s[i - 1]
    <2>1. p \in 0 .. Len(s) /\ n \in Nodes
      BY <1>1
    <2>2. Widened(Nodes, t, s, p, n)
      BY <2>1, WithAfterProperties
    <2> QED
      BY <2>2 DEF Widened
  <1>3. \A q, r \in 1 .. l : s[q] = s[r] => q = r
    BY DEF Linked
  <1>4. \A q \in 1 .. l - 1 : nx[s[q]] = s[q + 1] /\ pv[s[q + 1]] = s[q]
    BY DEF Linked
  <1>5. nx[s[l]] = NULL /\ NULL \notin Nodes
    BY <1>1, LinkedListAssumption DEF Linked
  <1>fields. /\ \A m \in Nodes : nx2[m] = IF m = n THEN nx[s[p]]
                                      ELSE IF m = s[p] THEN n ELSE nx[m]
         /\ \A m \in Nodes : pv2[m] = IF m = n THEN s[p]
                                      ELSE IF m = nx[s[p]] THEN n ELSE pv[m]
    BY DEF LinksAfter
  <1> HIDE DEF t, l
  <1>6. \A i, j \in 1 .. l + 1 : t[i] = t[j] => i = j
    <2> DEFINE Old(i) == IF i <= p THEN i ELSE i - 1
    <2>1. \A i \in 1 .. l + 1 : i # p + 1 => Old(i) \in 1 .. l /\ t[i] = s[Old(i)]
      <3> TAKE i \in 1 .. l + 1
      <3>1. CASE i <= p
        BY <1>1, <1>2, <3>1
      <3>2. CASE i > p + 1
        BY <1>1, <1>2, <3>2
      <3> QED
        BY <1>1, <3>1, <3>2
    <2>2. \A i, j \in 1 .. l + 1 : i # p + 1 /\ j # p + 1 /\ Old(i) = Old(j) => i = j
      BY <1>1
    <2> HIDE DEF Old
    <2>3. \A i \in 1 .. l + 1 : i # p + 1 => t[i] # n
      BY <1>1, <2>1
    <2> TAKE i, j \in 1 .. l + 1
    <2>4. CASE i = p + 1 \/ j = p + 1
      BY <1>2, <2>3, <2>4
    <2>5. CASE i # p + 1 /\ j # p + 1
      <3>1. /\ Old(i) \in 1 .. l /\ t[i] = s[Old(i)]
            /\ Old(j) \in 1 .. l /\ t[j] = s[Old(j)]
        BY <2>1, <2>5
      <3>2. s[Old(i)] = s[Old(j)] => Old(i) = Old(j)
        BY <1>3, <3>1
      <3> QED
        BY <2>2, <2>5, <3>1, <3>2
    <2> QED
      BY <2>4, <2>5
  <1>7. ASSUME NEW i \in 1 .. l
        PROVE  nx2[t[i]] = t[i + 1] /\ pv2[t[i + 1]] = t[i]
    <2>1. CASE i < p
      <3>1. /\ i \in 1 .. l /\ i + 1 \in 1 .. l /\ i \in 1 .. l - 1 /\ i \in 1 .. p
            /\ i + 1 \in 1 .. p /\ i # p
        BY <1>1, <2>1
      <3>2. t[i] = s[i] /\ t[i + 1] = s[i + 1] /\ s[i] # s[p]
        BY <1>1, <1>2, <1>3, <3>1
      <3>3. nx2[s[i]] = s[i + 1]
        BY <1>fields, <1>1, <1>4, <3>1, <3>2
      <3>4. s[i + 1] # nx[s[p]]
        <4>1. CASE p = l
          BY <1>1, <1>5, <3>1, <4>1
        <4>2. CASE p < l
          <5>1. p \in 1 .. l - 1 /\ p + 1 \in 1 .. l /\ p + 1 # i + 1
            BY <1>1, <2>1, <4>2
          <5> QED
            BY <1>3, <1>4, <3>1, <5>1
        <4> QED
          BY <1>1, <4>1, <4>2
      <3> QED
        BY <1>fields, <1>1, <1>4, <3>1, <3>2, <3>3, <3>4
    <2>2. CASE i = p
      BY <1>fields, <1>1, <1>2, <2>2
    <2>3. CASE i = p + 1
      <3>1. p \in 1 .. l - 1 /\ p + 1 \in 1 .. l /\ p + 2 \in p + 2 .. l + 1
            /\ (p + 2) - 1 = p + 1 /\ i + 1 = p + 2
        BY <1>1, <2>3
      <3>2. t[i] = n /\ t[i + 1] = s[p + 1] /\ nx[s[p]] = s[p + 1]
        BY <1>2, <1>4, <2>3, <3>1
      <3> QED
        BY <1>fields, <1>1, <3>1, <3>2
    <2>4. CASE i > p + 1
      <3>1. /\ i - 1 \in 1 .. l - 1 /\ i - 1 \in 1 .. l /\ (i - 1) + 1 = i /\ i \in 1 .. l
            /\ i \in p + 2 .. l + 1 /\ i + 1 \in p + 2 .. l + 1 /\ (i + 1) - 1 = i
            /\ i - 1 # p /\ p \in 1 .. l - 1 /\ p + 1 \in 1 .. l /\ i # p + 1
        BY <1>1, <2>4
      <3>2. t[i] = s[i - 1] /\ t[i + 1] = s[i] /\ s[i - 1] # s[p] /\ s[i] # s[p + 1]
        BY <1>1, <1>2, <1>3, <3>1
      <3>3. nx[s[i - 1]] = s[i] /\ pv[s[i]] = s[i - 1] /\ nx[s[p]] = s[p + 1]
        BY <1>4, <3>1
      <3> QED
        BY <1>fields, <1>1, <3>1, <3>2, <3>3
    <2> QED
      BY <1>1, <2>1, <2>2, <2>3, <2>4
  <1>8. nx2[t[l + 1]] = NULL
    <2>1. CASE p = l
      BY <1>fields, <1>1, <1>2, <1>5, <2>1
    <2>2. CASE p < l
      <3>1. l + 1 \in p + 2 .. l + 1 /\ (l + 1) - 1 = l /\ l \in 1 .. l /\ l # p
        BY <1>1, <2>2
      <3>2. t[l + 1] = s[l] /\ s[l] # s[p] /\ s[l] # n /\ s[l] \in Nodes
        BY <1>1, <1>2, <1>3, <3>1
      <3> QED
        BY <1>fields, <1>5, <3>2
    <2> QED
      BY <1>1, <2>1, <2>2
  <1>9. Linked(t, nx2, pv2)
    <2>1. (l + 1) - 1 = l
      BY <1>1
    <2> QED
      BY <1>2, <1>6, <1>7, <1>8, <2>1 DEF Linked
  <1>10. Elements(t) = Elements(s) \cup {n}
    <2>1. \A i \in 1 .. l + 1 : t[i] = n \/ t[i] \in Elements(s)
      <3> TAKE i \in 1 .. l + 1
      <3>1. \/ i \in 1 .. p /\ i \in 1 .. l
            \/ i = p + 1
            \/ i \in p + 2 .. l + 1 /\ i - 1 \in 1 .. l
        BY <1>1
      <3> QED
        BY <1>2, <3>1 DEF Elements, l
    <2>2. p + 1 \in 1 .. l + 1
      BY <1>1
    <2>3. \A q \in 1 .. l : \E i \in 1 .. l + 1 : t[i] = s[q]
      <3> TAKE q \in 1 .. l
      <3>1. \/ q \in 1 .. p /\ q \in 1 .. l + 1
            \/ q + 1 \in p + 2 .. l + 1 /\ q + 1 \in 1 .. l + 1 /\ (q + 1) - 1 = q
        BY <1>1
      <3> QED
        BY <1>2, <3>1
    <2>4. Elements(t) \subseteq Elements(s) \cup {n}
      BY <1>2, <2>1 DEF Elements
    <2>5. n \in Elements(t)
      BY <1>2, <2>2 DEF Elements
    <2>6. Elements(s) \subseteq Elements(t)
      BY <1>2, <2>3 DEF Elements, l
    <2> QED
      BY <2>4, <2>5, <2>6
  <1>11. pv2[s[1]] = pv[s[1]]
    <2>1. 1 \in 1 .. l /\ 1 # p + 1
      BY <1>1
    <2>2. s[1] # nx[s[p]]
      <3>1. p = l => nx[s[p]] = NULL
        BY <1>5
      <3>2. p # l => p \in 1 .. l - 1 /\ p + 1 \in 1 .. l
        BY <1>1
      <3> QED
        BY <1>1, <1>3, <1>4, <1>5, <2>1, <3>1, <3>2
    <2> QED
      BY <1>fields, <1>1, <2>1, <2>2
  <1> QED
    BY <1>9, <1>10, <1>11 DEF t

(* The links are those of s without the node at its place p. *)
Unlinked(s, p, pv, nx2, pv2) ==
  /\ Linked(Without(s, p), nx2, pv2)
  /\ Elements(Without(s, p)) = Elements(s) \ {s[p]}
  /\ pv2[s[1]] = pv[s[1]]

LEMMA LinkedRemove ==
  ASSUME NEW s \in Seq(Nodes), NEW nx, NEW pv, Linked(s, nx, pv),
         NEW p \in 2 .. Len(s), NEW nx2, NEW pv2,
         LinksWithout(s[p], nx, pv, nx2, pv2)
  PROVE  Unlinked(s, p, pv, nx2, pv2)
  <1> DEFINE t == Without(s, p)
             l == Len(s)
  <1>1. /\ l \in Nat /\ p \in 2 .. l /\ p \in 1 .. l /\ p - 1 \in 1 .. l - 1
        /\ p - 1 \in 1 .. l /\ (p - 1) + 1 = p
        /\ \A q \in 1 .. l : s[q] \in Nodes
    OBVIOUS
  <1>2. /\ t \in Seq(Nodes) /\ Len(t) = l - 1
        /\ \A i \in 1 .. p - 1 : t[i] = s[i]
        /\ \A i \in p .. l - 1 : t[i] = s[i + 1]
    BY <1>1, WithoutProperties
  <1>3. \A q, r \in 1 .. l : s[q] = s[r] => q = r
    BY DEF Linked
  <1>4. \A q \in 1 .. l - 1 : nx[s[q]] = s[q + 1] /\ pv[s[q + 1]] = s[q]
    BY DEF Linked
  <1>5. nx[s[l]] = NULL /\ NULL \notin Nodes
    BY <1>1, LinkedListAssumption DEF Linked
  <1>fields. /\ \A m \in Nodes : nx2[m] = IF m = s[p] THEN NULL
                                      ELSE IF m = pv[s[p]] THEN nx[s[p]] ELSE nx[m]
         /\ \A m \in Nodes : pv2[m] = IF m = s[p] THEN NULL
                                      ELSE IF m = nx[s[p]] THEN pv[s[p]] ELSE pv[m]
    BY DEF LinksWithout
  <1>6. pv[s[p]] = s[p - 1]
    BY <1>1, <1>4
  <1> HIDE DEF t, l
  <1> DEFINE Old(i) == IF i < p THEN i ELSE i + 1
  <1>7. \A i \in 1 .. l - 1 : Old(i) \in 1 .. l /\ Old(i) # p /\ t[i] = s[Old(i)]
    <2> TAKE i \in 1 .. l - 1
    <2>1. CASE i < p
      BY <1>1, <1>2, <2>1
    <2>2. CASE ~(i < p)
      <3>1. i \in p .. l - 1 /\ i + 1 \in 1 .. l /\ i + 1 # p
        BY <1>1, <2>2
      <3> QED
        BY <1>2, <2>2, <3>1
    <2> QED
      BY <2>1, <2>2
  <1>8. \A i, j \in 1 .. l - 1 : t[i] = t[j] => i = j
    <2>1. \A i, j \in 1 .. l - 1 : Old(i) = Old(j) => i = j
      BY <1>1
    <2> HIDE DEF Old
    <2> QED
      BY <1>3, <1>7, <2>1
  <1>9. \A q \in 1 .. l : q # p => /\ s[q] # s[p]
                                   /\ (s[q] = pv[s[p]] <=> q = p - 1)
                                   /\ (s[q] = nx[s[p]] <=> q = p + 1)
    <2> TAKE q \in 1 .. l
    <2>1. s[q] = s[p] => q = p
      BY <1>1, <1>3
    <2>2. s[q] = s[p - 1] <=> q = p - 1
      BY <1>1, <1>3
    <2>3. CASE p = l
      BY <1>1, <1>5, <1>6, <2>1, <2>2, <2>3
    <2>4. CASE p < l
      <3>1. p \in 1 .. l - 1 /\ p + 1 \in 1 .. l
        BY <1>1, <2>4
      <3>2. nx[s[p]] = s[p + 1] /\ (s[q] = s[p + 1] <=> q = p + 1)
        BY <1>3, <1>4, <3>1
      <3> QED
        BY <1>6, <2>1, <2>2, <3>2
    <2> QED
      BY <1>1, <2>3, <2>4
  <1>10. ASSUME NEW i \in 1 .. l - 2
         PROVE  nx2[t[i]] = t[i + 1] /\ pv2[t[i + 1]] = t[i]
    <2>1. i \in 1 .. l - 1 /\ i + 1 \in 1 .. l - 1
      BY <1>1
    <2>2. /\ t[i] = s[Old(i)] /\ Old(i) \in 1 .. l /\ Old(i) # p
          /\ t[i + 1] = s[Old(i + 1)] /\ Old(i + 1) \in 1 .. l /\ Old(i + 1) # p
      BY <1>7, <2>1
    <2>3. CASE i = p - 1
      <3>1. Old(i) = p - 1 /\ Old(i + 1) = p + 1 /\ p \in 1 .. l - 1
        BY <1>1, <2>3
      <3> HIDE DEF Old
      <3>2. nx[s[p]] = s[p + 1]
        BY <1>4, <3>1
      <3> QED
        BY <1>fields, <1>1, <1>6, <1>9, <2>2, <3>1, <3>2
    <2>4. CASE i # p - 1
      <3>1. /\ Old(i) # p - 1 /\ Old(i + 1) # p + 1 /\ Old(i + 1) = Old(i) + 1
            /\ Old(i) \in 1 .. l - 1
        BY <1>1, <2>4
      <3> HIDE DEF Old
      <3>2. nx[s[Old(i)]] = s[Old(i + 1)] /\ pv[s[Old(i + 1)]] = s[Old(i)]
        BY <1>4, <3>1
      <3>3. nx2[s[Old(i)]] = nx[s[Old(i)]]
        BY <1>fields, <1>1, <1>9, <2>2, <3>1
      <3>4. pv2[s[Old(i + 1)]] = pv[s[Old(i + 1)]]
        BY <1>fields, <1>1, <1>9, <2>2, <3>1
      <3> QED
        BY <2>2, <3>2, <3>3, <3>4
    <2> QED
      BY <2>3, <2>4
  <1>11. nx2[t[l - 1]] = NULL
    <2>1. l - 1 \in 1 .. l - 1
      BY <1>1
    <2>2. t[l - 1] = s[Old(l - 1)] /\ Old(l - 1) \in 1 .. l /\ Old(l - 1) # p
      BY <1>7, <2>1
    <2>3. CASE p = l
      <3>1. Old(l - 1) = p - 1
        BY <1>1, <2>3
      <3> HIDE DEF Old
      <3> QED
        BY <1>fields, <1>1, <1>5, <1>9, <2>2, <2>3, <3>1
    <2>4. CASE p < l
      <3>1. Old(l - 1) = l /\ l # p - 1
        BY <1>1, <2>4
      <3> HIDE DEF Old
      <3> QED
        BY <1>fields, <1>1, <1>5, <1>9, <2>2, <3>1
    <2> QED
      BY <1>1, <2>3, <2>4
  <1>12. Linked(t, nx2, pv2)
    <2>1. (l - 1) - 1 = l - 2
      BY <1>1
    <2> QED
      BY <1>2, <1>8, <1>10, <1>11, <2>1 DEF Linked
  <1>13. Elements(t) = Elements(s) \ {s[p]}
    <2>1. Elements(t) \subseteq Elements(s) \ {s[p]}
      <3> HIDE DEF Old
      <3> QED
        BY <1>2, <1>7, <1>9 DEF Elements, l
    <2>2. \A q \in 1 .. l : q # p => \E i \in 1 .. l - 1 : t[i] = s[q]
      <3> TAKE q \in 1 .. l
      <3>1. \/ q = p
            \/ q \in 1 .. p - 1 /\ q \in 1 .. l - 1
            \/ q - 1 \in p .. l - 1 /\ q - 1 \in 1 .. l - 1 /\ (q - 1) + 1 = q
        BY <1>1
      <3> QED
        BY <1>2, <3>1
    <2>3. ASSUME NEW q \in 1 .. l, s[q] # s[p]
          PROVE  s[q] \in Elements(t)
      <3>1. PICK i \in 1 .. l - 1 : t[i] = s[q]
        BY <2>2, <2>3
      <3> QED
        BY <1>2, <3>1 DEF Elements
    <2>4. Elements(s) \ {s[p]} \subseteq Elements(t)
      BY <2>3 DEF Elements, l
    <2> QED
      BY <2>1, <2>4
  <1>14. pv2[s[1]] = pv[s[1]]
    <2>1. 1 \in 1 .. l /\ 1 # p /\ 1 # p + 1
      BY <1>1
    <2> QED
      BY <1>fields, <1>1, <1>9, <2>1
  <1> QED
    BY <1>12, <1>13, <1>14 DEF t, Unlinked

(* Freeing the first node of a chain leaves the chain of the others. *)
LEMMA LinkedTail ==
  ASSUME NEW s \in Seq(Nodes), NEW nx, NEW pv, Linked(s, nx, pv), Len(s) > 1,
         NEW nx2, NEW pv2,
         \A m \in Nodes : m # s[1] => nx2[m] = nx[m] /\ pv2[m] = pv[m]
  PROVE  /\ Tail(s) \in Seq(Nodes) /\ Len(Tail(s)) = Len(s) - 1
         /\ \A i \in 1 .. Len(s) - 1 : Tail(s)[i] = s[i + 1]
         /\ Linked(Tail(s), nx2, pv2)
         /\ Elements(Tail(s)) = Elements(s) \ {s[1]}
  <1> DEFINE t == Tail(s)
             l == Len(s)
  <1>1. /\ l \in Nat /\ l > 1 /\ s # <<>>
        /\ \A q \in 1 .. l : s[q] \in Nodes
    OBVIOUS
  <1>2. t \in Seq(Nodes) /\ Len(t) = l - 1 /\ \A i \in 1 .. l - 1 : t[i] = s[i + 1]
    BY <1>1, HeadTailProperties
  <1>3. \A q, r \in 1 .. l : s[q] = s[r] => q = r
    BY DEF Linked
  <1>4. \A q \in 1 .. l - 1 : nx[s[q]] = s[q + 1] /\ pv[s[q + 1]] = s[q]
    BY DEF Linked
  <1>5. nx[s[l]] = NULL
    BY <1>1 DEF Linked
  <1> HIDE DEF t, l
  <1>6. \A i \in 1 .. l - 1 : /\ i + 1 \in 1 .. l /\ t[i] # s[1] /\ t[i] \in Nodes
                              /\ nx2[t[i]] = nx[s[i + 1]] /\ pv2[t[i]] = pv[s[i + 1]]
    <2> TAKE i \in 1 .. l - 1
    <2>1. i + 1 \in 1 .. l /\ 1 \in 1 .. l /\ i + 1 # 1
      BY <1>1
    <2>2. s[i + 1] # s[1] /\ s[i + 1] \in Nodes
      BY <1>1, <1>3, <2>1
    <2> QED
      BY <1>2, <2>1, <2>2
  <1>7. Linked(t, nx2, pv2)
    <2>1. \A i, j \in 1 .. l - 1 : t[i] = t[j] => i = j
      <3> TAKE i, j \in 1 .. l - 1
      <3>1. i + 1 = j + 1 => i = j
        BY <1>1
      <3> QED
        BY <1>2, <1>3, <1>6, <3>1
    <2>2. \A i \in 1 .. (l - 1) - 1 : nx2[t[i]] = t[i + 1] /\ pv2[t[i + 1]] = t[i]
      <3> TAKE i \in 1 .. (l - 1) - 1
      <3>1. i \in 1 .. l - 1 /\ i + 1 \in 1 .. l - 1
        BY <1>1
      <3> QED
        BY <1>2, <1>4, <1>6, <3>1
    <2>3. nx2[t[l - 1]] = NULL
      <3>1. l - 1 \in 1 .. l - 1 /\ (l - 1) + 1 = l
        BY <1>1
      <3> QED
        BY <1>5, <1>6, <3>1
    <2> QED
      BY <1>2, <2>1, <2>2, <2>3 DEF Linked
  <1>8. Elements(t) = Elements(s) \ {s[1]}
    <2>1. Elements(t) \subseteq Elements(s) \ {s[1]}
      BY <1>2, <1>6 DEF Elements, l
    <2>2. \A q \in 1 .. l : q # 1 => \E i \in 1 .. l - 1 : t[i] = s[q]
      <3> TAKE q \in 1 .. l
      <3>1. q = 1 \/ (q - 1 \in 1 .. l - 1 /\ (q - 1) + 1 = q)
        BY <1>1
      <3> QED
        BY <1>2, <3>1
    <2>3. ASSUME NEW q \in 1 .. l, s[q] # s[1]
          PROVE  s[q] \in Elements(t)
      <3>1. PICK i \in 1 .. l - 1 : t[i] = s[q]
        BY <2>2, <2>3
      <3> QED
        BY <1>2, <3>1 DEF Elements
    <2>4. Elements(s) \ {s[1]} \subseteq Elements(t)
      BY <2>3 DEF Elements, l
    <2> QED
      BY <2>1, <2>4
  <1> QED
    BY <1>2, <1>7, <1>8 DEF t, l
----------------------------------------------------------------------------
(* The inductive invariant: the nodes, the handle, and the running call.    *)

LinksOK ==
  /\ head \in Nodes \cup {NULL} /\ heap \subseteq Nodes
  /\ next \in [Nodes -> Nodes \cup {NULL}] /\ prev \in [Nodes -> Nodes \cup {NULL}]
  /\ data \in [Nodes -> Data \cup {NULL}]
  /\ chain \in Seq(Nodes)
  /\ \A p \in 2 .. Len(chain) : data[chain[p]] \in Data
  /\ Linked(chain, next, prev)
  /\ heap = Elements(chain)

HeadOK ==
  IF head = NULL THEN chain = <<>>
  ELSE chain # <<>> /\ chain[1] = head /\ prev[head] = NULL

(* What no property says and the next step needs: the arguments a call      *)
(* without an index or an item runs with, that a node is linked only where  *)
(* no index was walked past, that ll_destroy runs on a list, and that a     *)
(* program that crashed stays where it is.                                  *)
Arguments ==
  /\ index \in Indexes
  /\ pc \notin {"insert", "link", "remove"} => index = 0
  /\ pc \notin {"insert", "link", "search"} => item = NULL
  /\ pc = "link" => count \in Nat /\ index \notin 0 .. count - 1
  /\ pc = "destroy" => head # NULL
  /\ status = "CRASHED" => pc = "crashed"

LoopOK ==
  /\ pc \in Walks \cup {"idle", "crashed"}
  /\ current \in Nodes \cup {NULL} /\ count \in Int
  /\ item \in Data \cup {NULL} /\ seen \in Seq(Data)
  /\ pc \in {"insert", "link", "search"} => item \in Data
  /\ Arguments
  /\ WalksCount

IInv == LinksOK /\ (pc # "destroy" => HeadOK) /\ LoopOK

(* The properties are what the invariant says. *)
LEMMA InvImplies ==
  ASSUME IInv
  PROVE  TypeOK /\ ListIsLinked /\ NothingLeaksOrDangles /\ WalksCount
  <1> USE DEF IInv
  <1>1. index \in Int
    <2>1. Cardinality(Nodes) \in Nat
      BY LinkedListAssumption, FS_CardinalityType
    <2> QED
      BY <2>1 DEF LoopOK, Arguments, Indexes
  <1>2. TypeOK
    BY <1>1 DEF LinksOK, LoopOK, TypeOK
  <1>3. ListIsLinked
    BY DEF LinksOK, HeadOK, ListIsLinked, Linked
  <1>4. pc \in Walks => \E p \in 1 .. Len(chain) : current = chain[p]
    <2>1. SUFFICES ASSUME pc \in Walks
                   PROVE  \E p \in Int : p \in 1 .. Len(chain) /\ current = chain[p]
      OBVIOUS
    <2>2. count \in Int /\ count + 1 \in Int /\ count + 2 \in Int /\ 1 \in Int
      BY DEF LoopOK
    <2>3. WalksCount
      BY DEF LoopOK
    <2> QED
      BY <2>1, <2>2, <2>3 DEF WalksCount, Walks
  <1>5. NothingLeaksOrDangles
    BY <1>4 DEF LinksOK, Elements, NothingLeaksOrDangles
  <1> QED
    BY <1>2, <1>3, <1>5 DEF LoopOK

LEMMA ZeroIsAnIndex == 0 \in Indexes
  <1>1. Cardinality(Nodes) \in Nat
    BY LinkedListAssumption, FS_CardinalityType
  <1> QED
    BY <1>1 DEF Indexes

LEMMA IInvInit == Init => IInv
  <1> SUFFICES ASSUME Init PROVE IInv
    OBVIOUS
  <1>1. /\ <<>> \in Seq(Nodes) /\ <<>> \in Seq(Data) /\ Len(<<>>) = 0
    BY EmptySeq
  <1>2. LinksOK
    BY <1>1 DEF Init, LinksOK, Linked, Elements
  <1>3. HeadOK
    BY DEF Init, HeadOK
  <1>4. LoopOK
    BY <1>1, ZeroIsAnIndex DEF Init, LoopOK, Arguments, WalksCount, Walks
  <1> QED
    BY <1>2, <1>3, <1>4 DEF IInv

(* A call that has returned. *)
LEMMA ReplyKeepsLoop ==
  ASSUME NEW op, NEW i, NEW x, NEW code, NEW given, code # "CRASHED",
         Reply(op, i, x, code, given)
  PROVE  LoopOK' /\ pc' = "idle"
  <1>1. <<>> \in Seq(Data)
    BY EmptySeq
  <1> QED
    BY <1>1, ZeroIsAnIndex DEF Reply, LoopOK, Arguments, WalksCount, Walks

LEMMA SameLinks ==
  ASSUME LinksOK, UNCHANGED links
  PROVE  LinksOK' /\ (HeadOK => HeadOK')
  BY DEF links, LinksOK, HeadOK, Linked, Elements

(* Every call that returns and leaves the list as it was. *)
LEMMA ReturnKeepsInv ==
  ASSUME IInv, pc # "destroy", UNCHANGED links,
         NEW op, NEW i, NEW x, NEW code, NEW given, code # "CRASHED",
         Reply(op, i, x, code, given)
  PROVE  IInv'
  BY ReplyKeepsLoop, SameLinks DEF IInv

LEMMA EmptyPrefix ==
  ASSUME NEW S, NEW f \in [1 .. 0 -> S]
  PROVE  f = <<>>
  <1>1. f \in Seq(S) /\ Len(f) = 0
    OBVIOUS
  <1> QED
    BY <1>1, EmptySeq

(* What the calls of the program give Call. *)
Callable(op, from, i, x, args) ==
  /\ op \in {"insert", "remove", "search", "size", "dump", "destroy"}
  /\ from = IF op = "remove" THEN -1 ELSE 0
  /\ i \in Indexes /\ (op \notin {"insert", "remove"} => i = 0)
  /\ x \in Data \cup {NULL} /\ (op \notin {"insert", "search"} => x = NULL)
  /\ op \in {"insert", "search"} /\ args => x \in Data

(* A call that starts its loop, or is refused for a missing argument. *)
LEMMA CallKeepsInv ==
  ASSUME IInv, NEW op, NEW from, NEW i, NEW x, NEW args,
         Callable(op, from, i, x, args), Call(op, from, i, x, args)
  PROVE  IInv'
  <1> USE DEF Callable
  <1>1. pc = "idle"
    BY DEF Call
  <1>2. CASE Reply(op, i, x, "NULL_POINTER", <<>>) /\ UNCHANGED links
    BY <1>1, <1>2, ReturnKeepsInv
  <1>3. CASE /\ head # NULL /\ args
             /\ pc' = op /\ current' = head /\ count' = from
             /\ index' = i /\ item' = x /\ seen' = <<>>
             /\ UNCHANGED <<links, answer>>
    <2>1. UNCHANGED links /\ status' = status
      BY <1>3 DEF answer
    <2>2. LinksOK' /\ HeadOK'
      BY <1>1, <2>1, SameLinks DEF IInv
    <2>3. /\ head' # NULL /\ head' \in Nodes
          /\ chain' # <<>> /\ chain'[1] = current' /\ chain' \in Seq(Nodes)
      BY <1>3, <2>1, <2>2 DEF LinksOK, HeadOK, links
    <2>4. 1 \in 1 .. Len(chain')
      BY <2>3
    <2>5. <<>> \in Seq(Data) /\ Len(<<>>) = 0
      BY EmptySeq
    <2>6. \A f \in [1 .. 0 -> Data] : <<>> = f
      BY EmptyPrefix
    <2>7. status # "CRASHED"
      BY <1>1 DEF IInv, LoopOK, Arguments
    <2>8. Arguments'
      BY <1>3, <2>1, <2>3, <2>7 DEF Arguments, Indexes
    <2>9. WalksCount'
      <3>1. op = "remove" => count' + 2 = 1 /\ 0 .. count' - 1 = {}
        BY <1>3
      <3>2. op # "remove" => count' = 0 /\ count' + 1 = 1 /\ 0 .. count' - 1 = {}
                             /\ 1 .. count' = {}
        BY <1>3
      <3>3. op = "dump" => seen' = [j \in 1 .. (count' + 1) - 1 |-> data'[chain'[j + 1]]]
        <4> SUFFICES ASSUME op = "dump"
                     PROVE  seen' = [j \in 1 .. (count' + 1) - 1 |-> data'[chain'[j + 1]]]
          OBVIOUS
        <4> DEFINE f == [j \in 1 .. 0 |-> data'[chain'[j + 1]]]
        <4>1. f \in [1 .. 0 -> Data]
          OBVIOUS
        <4>2. (count' + 1) - 1 = 0
          BY <3>2
        <4> QED
          BY <1>3, <2>6, <4>1, <4>2
      <3> QED
        BY <1>3, <2>3, <2>4, <2>5, <3>1, <3>2, <3>3 DEF WalksCount
    <2>10. LoopOK'
      BY <1>3, <2>3, <2>5, <2>8, <2>9 DEF LoopOK, Walks
    <2> QED
      BY <2>2, <2>10 DEF IInv
  <1> QED
    BY <1>2, <1>3 DEF Call

(* A turn of a loop to the next node. *)
LEMMA WalkKeepsInv ==
  ASSUME IInv,
         \/ InsertWalk \/ InsertBreak \/ InsertStop \/ RemoveWalk
         \/ SearchWalk \/ SizeWalk \/ DumpWalk
  PROVE  IInv'
  <1> USE DEF IInv
  <1>1. UNCHANGED links /\ pc # "destroy" /\ pc' # "destroy" /\ status' = status
    BY DEF InsertWalk, InsertBreak, InsertStop, RemoveWalk, SearchWalk, SizeWalk,
           DumpWalk, Visit, Turn, AtLast, Advance, answer
  <1>2. LinksOK' /\ HeadOK'
    BY <1>1, SameLinks
  <1>3. chain' = chain /\ data' = data /\ next' = next /\ head' = head
    BY <1>1 DEF links
  <1>4. count \in Int /\ Len(chain) \in Nat /\ chain \in Seq(Nodes)
    BY DEF LoopOK, LinksOK
  <1>5. \A p \in 1 .. Len(chain) : current = chain[p] /\ Following # NULL =>
           /\ p + 1 \in 1 .. Len(chain) /\ Following = chain[p + 1]
           /\ Following \in Nodes /\ data[Following] \in Data
    <2> SUFFICES ASSUME NEW p \in 1 .. Len(chain), current = chain[p], Following # NULL
                 PROVE  /\ p + 1 \in 1 .. Len(chain) /\ Following = chain[p + 1]
                        /\ Following \in Nodes /\ data[Following] \in Data
      OBVIOUS
    <2>1. /\ p < Len(chain) => /\ p + 1 \in 1 .. Len(chain) /\ Following = chain[p + 1]
                               /\ chain[p + 1] \in Nodes
          /\ p = Len(chain) => Following = NULL
      BY LinkedFields DEF LinksOK, Following
    <2>2. p < Len(chain) => p + 1 \in 2 .. Len(chain)
      BY <1>4
    <2> QED
      BY <1>4, <2>1, <2>2 DEF LinksOK
  <1>6. WalksCount /\ Arguments /\ seen \in Seq(Data) /\ item \in Data \cup {NULL}
    BY DEF LoopOK
  <1>7. CASE InsertWalk
    <2>1. /\ pc = "insert" /\ pc' = "insert" /\ current' = Following /\ Following # NULL
          /\ count' = count + 1 /\ count # index
          /\ index' = index /\ item' = item /\ seen' = seen
      BY <1>7 DEF InsertWalk, Visit, Turn, Advance
    <2>2. /\ count + 1 \in 1 .. Len(chain) /\ current = chain[count + 1]
          /\ index \notin 0 .. count - 1
      BY <1>6, <2>1 DEF WalksCount
    <2>3. (count + 1) + 1 \in 1 .. Len(chain) /\ Following = chain[(count + 1) + 1]
          /\ Following \in Nodes
      BY <1>5, <2>1, <2>2
    <2>4. index \notin 0 .. (count + 1) - 1
      BY <1>4, <2>1, <2>2
    <2>5. WalksCount'
      BY <1>3, <2>1, <2>3, <2>4 DEF WalksCount
    <2>6. Arguments'
      BY <1>1, <1>3, <1>6, <2>1 DEF Arguments, Indexes
    <2> QED
      BY <1>2, <1>4, <1>6, <2>1, <2>3, <2>5, <2>6 DEF LoopOK, Walks
  <1>8. CASE InsertBreak
    <2>1. /\ pc = "insert" /\ pc' = "link" /\ current' = Following /\ Following # NULL
          /\ count' = count /\ count = index
          /\ index' = index /\ item' = item /\ seen' = seen
      BY <1>8 DEF InsertBreak, Turn
    <2>2. /\ count + 1 \in 1 .. Len(chain) /\ current = chain[count + 1]
      BY <1>6, <2>1 DEF WalksCount
    <2>3. count + 2 \in 1 .. Len(chain) /\ Following = chain[count + 2]
          /\ Following \in Nodes
      <3>1. (count + 1) + 1 = count + 2
        BY <1>4
      <3> QED
        BY <1>5, <2>1, <2>2, <3>1
    <2>4. count \in Nat /\ index \notin 0 .. count - 1
      BY <1>4, <2>1, <2>2
    <2>5. WalksCount'
      BY <1>3, <2>1, <2>3 DEF WalksCount
    <2>6. Arguments'
      BY <1>1, <1>3, <1>6, <2>1, <2>4 DEF Arguments, Indexes
    <2> QED
      BY <1>2, <1>4, <1>6, <2>1, <2>3, <2>5, <2>6 DEF LoopOK, Walks
  <1>9. CASE InsertStop
    <2>1. /\ pc = "insert" /\ pc' = "link" /\ current' = current /\ Following = NULL
          /\ count' = count /\ index' = index /\ item' = item /\ seen' = seen
      BY <1>9 DEF InsertStop, AtLast
    <2>2. /\ count + 1 \in 1 .. Len(chain) /\ current = chain[count + 1]
          /\ index \notin 0 .. count - 1
      BY <1>6, <2>1 DEF WalksCount
    <2>3. count \in Nat
      BY <1>4, <2>2
    <2>4. WalksCount'
      BY <1>3, <2>1, <2>2 DEF WalksCount, Following
    <2>5. Arguments'
      BY <1>1, <1>3, <1>6, <2>1, <2>2, <2>3 DEF Arguments, Indexes
    <2> QED
      BY <1>2, <1>4, <1>6, <2>1, <2>4, <2>5 DEF LoopOK, Walks
  <1>10. CASE RemoveWalk
    <2>1. /\ pc = "remove" /\ pc' = "remove" /\ current' = Following /\ Following # NULL
          /\ count' = count + 1 /\ (count = -1 \/ count # index)
          /\ index' = index /\ item' = item /\ seen' = seen
      BY <1>10 DEF RemoveWalk, Visit, Turn, Advance, RemoveStops, REMOVE_AT_END
    <2>2. /\ count + 2 \in 1 .. Len(chain) /\ current = chain[count + 2]
          /\ index \notin 0 .. count - 1
      BY <1>6, <2>1 DEF WalksCount
    <2>3. (count + 1) + 2 \in 1 .. Len(chain) /\ Following = chain[(count + 1) + 2]
          /\ Following \in Nodes
      <3>1. (count + 2) + 1 = (count + 1) + 2
        BY <1>4
      <3> QED
        BY <1>5, <2>1, <2>2, <3>1
    <2>4. index \notin 0 .. (count + 1) - 1
      BY <1>4, <2>1, <2>2
    <2>5. WalksCount'
      BY <1>3, <2>1, <2>3, <2>4 DEF WalksCount
    <2>6. Arguments'
      BY <1>1, <1>3, <1>6, <2>1 DEF Arguments, Indexes
    <2> QED
      BY <1>2, <1>4, <1>6, <2>1, <2>3, <2>5, <2>6 DEF LoopOK, Walks
  <1>11. CASE SearchWalk
    <2>1. /\ pc = "search" /\ pc' = "search" /\ current' = Following /\ Following # NULL
          /\ count' = count + 1 /\ ~Compare(item, data[Following])
          /\ index' = index /\ item' = item /\ seen' = seen
      BY <1>11 DEF SearchWalk, Visit, Turn, Advance
    <2>2. /\ count + 1 \in 1 .. Len(chain) /\ current = chain[count + 1]
          /\ \A j \in 1 .. count : ~Compare(item, data[chain[j + 1]])
      BY <1>6, <2>1 DEF WalksCount
    <2>3. (count + 1) + 1 \in 1 .. Len(chain) /\ Following = chain[(count + 1) + 1]
          /\ Following \in Nodes
      BY <1>5, <2>1, <2>2
    <2>4. \A j \in 1 .. count + 1 : ~Compare(item, data[chain[j + 1]])
      <3>1. \A j \in 1 .. count + 1 : j \in 1 .. count \/ j = count + 1
        BY <1>4
      <3> QED
        BY <2>1, <2>2, <2>3, <3>1
    <2>5. WalksCount'
      BY <1>3, <2>1, <2>3, <2>4 DEF WalksCount
    <2>6. Arguments'
      BY <1>1, <1>3, <1>6, <2>1 DEF Arguments, Indexes
    <2> QED
      BY <1>2, <1>4, <1>6, <2>1, <2>3, <2>5, <2>6 DEF LoopOK, Walks
  <1>12. CASE SizeWalk
    <2>1. /\ pc = "size" /\ pc' = "size" /\ current' = Following /\ Following # NULL
          /\ count' = count + 1 /\ index' = index /\ item' = item /\ seen' = seen
      BY <1>12 DEF SizeWalk, Visit, Turn, Advance
    <2>2. /\ count + 1 \in 1 .. Len(chain) /\ current = chain[count + 1]
      BY <1>6, <2>1 DEF WalksCount
    <2>3. (count + 1) + 1 \in 1 .. Len(chain) /\ Following = chain[(count + 1) + 1]
          /\ Following \in Nodes
      BY <1>5, <2>1, <2>2
    <2>4. WalksCount'
      BY <1>3, <2>1, <2>3 DEF WalksCount
    <2>5. Arguments'
      BY <1>1, <1>3, <1>6, <2>1 DEF Arguments, Indexes
    <2> QED
      BY <1>2, <1>4, <1>6, <2>1, <2>3, <2>4, <2>5 DEF LoopOK, Walks
  <1>13. CASE DumpWalk
    <2>1. /\ pc = "dump" /\ pc' = "dump" /\ current' = Following /\ Following # NULL
          /\ count' = count + 1 /\ index' = index /\ item' = item
          /\ seen' = Append(seen, data[Following])
      BY <1>13 DEF DumpWalk, Visit, Turn, Advance
    <2>2. /\ count + 1 \in 1 .. Len(chain) /\ current = chain[count + 1]
          /\ seen = [j \in 1 .. (count + 1) - 1 |-> data[chain[j + 1]]]
      BY <1>6, <2>1 DEF WalksCount
    <2>3. (count + 1) + 1 \in 1 .. Len(chain) /\ Following = chain[(count + 1) + 1]
          /\ Following \in Nodes /\ data[Following] \in Data
      BY <1>5, <2>1, <2>2
    <2>4. /\ seen' \in Seq(Data) /\ Len(seen') = Len(seen) + 1
          /\ \A j \in 1 .. Len(seen) : seen'[j] = seen[j]
          /\ seen'[Len(seen) + 1] = data[Following]
      BY <1>6, <2>1, <2>3, AppendProperties
    <2>5. Len(seen) = count /\ \A j \in 1 .. count : seen[j] = data[chain[j + 1]]
      <3>1. (count + 1) - 1 = count /\ count \in Nat
        BY <1>4, <2>2
      <3>2. seen = [j \in 1 .. count |-> data[chain[j + 1]]]
        BY <2>2, <3>1
      <3> QED
        BY <1>6, <3>1, <3>2
    <2>6. seen' = [j \in 1 .. ((count + 1) + 1) - 1 |-> data[chain[j + 1]]]
      <3>1. ((count + 1) + 1) - 1 = count + 1 /\ count \in Nat
        BY <1>4, <2>2
      <3>2. \A j \in 1 .. count + 1 : j \in 1 .. count \/ j = count + 1
        BY <1>4
      <3>3. \A j \in 1 .. count + 1 : seen'[j] = data[chain[j + 1]]
        <4> TAKE j \in 1 .. count + 1
        <4>1. CASE j \in 1 .. count
          BY <2>4, <2>5, <4>1
        <4>2. CASE j = count + 1
          <5>1. seen'[count + 1] = data[Following]
            BY <2>4, <2>5
          <5>2. data[Following] = data[chain[(count + 1) + 1]]
            BY <2>3
          <5> QED
            BY <4>2, <5>1, <5>2
        <4> QED
          BY <3>2, <4>1, <4>2
      <3>4. DOMAIN seen' = 1 .. count + 1 /\ seen' = [j \in DOMAIN seen' |-> seen'[j]]
        BY <2>4, <2>5
      <3> QED
        BY <3>1, <3>3, <3>4
    <2>7. WalksCount'
      BY <1>3, <2>1, <2>3, <2>6 DEF WalksCount
    <2>8. Arguments'
      BY <1>1, <1>3, <1>6, <2>1 DEF Arguments, Indexes
    <2> QED
      BY <1>2, <1>4, <1>6, <2>1, <2>3, <2>4, <2>7, <2>8 DEF LoopOK, Walks
  <1> QED
    BY <1>7, <1>8, <1>9, <1>10, <1>11, <1>12, <1>13

LEMMA PlaceIs ==
  ASSUME LinksOK, NEW p \in 1 .. Len(chain)
  PROVE  Place(chain[p]) = p
  <1>1. \A q \in 1 .. Len(chain) : chain[q] = chain[p] <=> q = p
    BY DEF LinksOK, Linked
  <1> QED
    BY <1>1 DEF Place

(* ll_init. *)
LEMMA InitKeepsInv ==
  ASSUME IInv, NEW given \in BOOLEAN, ll_init(given)
  PROVE  IInv'
  <1>1. pc = "idle" /\ head = NULL
    BY DEF ll_init
  <1>2. CASE \/ Refuse("init", "NULL_POINTER") \/ Refuse("init", "ALLOC_FAILURE")
    BY <1>1, <1>2, ReturnKeepsInv DEF Refuse, Return
  <1>3. ASSUME NEW n \in Nodes \ heap,
               head' = n /\ heap' = heap \cup {n} /\ chain' = <<n>>,
               next' = Cleared(next, n) /\ prev' = Cleared(prev, n),
               data' = Cleared(data, n), Return("init", "NO_ERROR", <<>>)
        PROVE  IInv'
    <2>1. chain = <<>> /\ heap = {} /\ NULL \notin Nodes
      BY <1>1, LinkedListAssumption DEF IInv, HeadOK, LinksOK, Elements
    <2>2. /\ next' \in [Nodes -> Nodes \cup {NULL}] /\ next'[n] = NULL
          /\ prev' \in [Nodes -> Nodes \cup {NULL}] /\ prev'[n] = NULL
          /\ data' \in [Nodes -> Data \cup {NULL}]
      BY <1>3 DEF IInv, LinksOK, Cleared
    <2>3. chain' \in Seq(Nodes) /\ Len(chain') = 1 /\ chain'[1] = n /\ chain' # <<>>
      BY <1>3
    <2>4. LinksOK'
      BY <1>3, <2>1, <2>2, <2>3 DEF LinksOK, Linked, Elements
    <2>5. HeadOK'
      BY <1>3, <2>1, <2>2, <2>3 DEF HeadOK
    <2> QED
      BY <1>3, <2>4, <2>5, ReplyKeepsLoop DEF IInv, Return
  <1> QED
    BY <1>2, <1>3 DEF ll_init

(* A call that looked at the list, or that could not be served. *)
LEMMA AnswerKeepsInv ==
  ASSUME IInv, SearchHit \/ SearchEnd \/ SizeEnd \/ DumpEnd
  PROVE  IInv'
  BY ReturnKeepsInv DEF SearchHit, SearchEnd, SizeEnd, DumpEnd, Turn, AtLast,
                        Refuse, Return

(* ll_insert links the node it was given after the one its loop stands on. *)
LEMMA InsertKeepsInv ==
  ASSUME IInv, InsertLink
  PROVE  IInv'
  <1>1. pc = "link"
    BY DEF InsertLink
  <1>2. CASE Refuse("insert", "INDEX_TOO_LARGE") \/ Refuse("insert", "ALLOC_FAILURE")
    BY <1>1, <1>2, ReturnKeepsInv DEF Refuse, Return
  <1>3. ASSUME NEW n \in Nodes \ heap, LinkAfter(n), Return("insert", "NO_ERROR", <<>>)
        PROVE  IInv'
    <2>1. LinksOK /\ HeadOK /\ item \in Data
      BY <1>1 DEF IInv, LoopOK
    <2>2. PICK p \in 1 .. Len(chain) : current = chain[p]
      <3>1. count + 1 \in Int /\ count + 2 \in Int
        BY DEF IInv, LoopOK
      <3> QED
        BY <1>1, <3>1 DEF IInv, LoopOK, WalksCount
    <2>3. Place(current) = p
      BY <2>1, <2>2, PlaceIs
    <2>4. /\ head' = head /\ heap' = heap \cup {n}
          /\ next' = [next EXCEPT ![current] = n, ![n] = next[current]]
          /\ prev' = [m \in Nodes |-> IF m = n THEN current
                                      ELSE IF m = next[current] THEN n ELSE prev[m]]
          /\ data' = [data EXCEPT ![n] = item]
          /\ chain' = WithAfter(chain, p, n)
      BY <1>3, <2>3 DEF LinkAfter, WithAfter
    <2>5. /\ chain \in Seq(Nodes) /\ Len(chain) \in Nat /\ current \in Nodes
          /\ n \in Nodes /\ n # current /\ n \notin Elements(chain)
          /\ next[current] \in Nodes \cup {NULL} /\ heap = Elements(chain)
          /\ \A q \in 1 .. Len(chain) : chain[q] \in Elements(chain)
      BY <2>1, <2>2 DEF LinksOK, Elements
    <2>6. /\ \A m \in Nodes : next'[m] = IF m = n THEN next[current]
                                         ELSE IF m = current THEN n ELSE next[m]
          /\ \A m \in Nodes : prev'[m] = IF m = n THEN current
                                         ELSE IF m = next[current] THEN n ELSE prev[m]
      BY <2>1, <2>4, <2>5 DEF LinksOK
    <2>7. /\ Linked(chain', next', prev')
          /\ Elements(chain') = Elements(chain) \cup {n}
          /\ prev'[chain[1]] = prev[chain[1]]
      <3>1. Linked(chain, next, prev) /\ n \in Nodes /\ n \notin Elements(chain)
        BY <2>1, <2>5 DEF LinksOK
      <3>2. LinksAfter(chain[p], n, next, prev, next', prev')
        BY <2>2, <2>6 DEF LinksAfter
      <3>3. /\ Linked(WithAfter(chain, p, n), next', prev')
            /\ Elements(WithAfter(chain, p, n)) = Elements(chain) \cup {n}
            /\ prev'[chain[1]] = prev[chain[1]]
        <4>1. chain \in Seq(Nodes) /\ p \in 1 .. Len(chain)
          BY <2>5
        <4> QED
          BY <4>1, <3>1, <3>2, LinkedInsert
      <3> QED
        BY <2>4, <3>3
    <2>8. /\ chain' \in Seq(Nodes) /\ Len(chain') = Len(chain) + 1
          /\ \A i \in 1 .. p : chain'[i] = chain[i]
          /\ chain'[p + 1] = n
          /\ \A i \in p + 2 .. Len(chain) + 1 : chain'[i] = chain[i - 1]
      <3>1. p \in 0 .. Len(chain)
        BY <2>5
      <3> QED
        <4>1. /\ WithAfter(chain, p, n) \in Seq(Nodes)
              /\ Len(WithAfter(chain, p, n)) = Len(chain) + 1
              /\ \A i \in 1 .. p : WithAfter(chain, p, n)[i] = chain[i]
              /\ WithAfter(chain, p, n)[p + 1] = n
              /\ \A i \in p + 2 .. Len(chain) + 1 : WithAfter(chain, p, n)[i] = chain[i - 1]
          <5>1. chain \in Seq(Nodes) /\ p \in 0 .. Len(chain) /\ n \in Nodes
            BY <2>5, <3>1
          <5>2. Widened(Nodes, WithAfter(chain, p, n), chain, p, n)
            BY <5>1, WithAfterProperties
          <5> QED
            BY <5>2 DEF Widened
        <4> QED
          BY <2>4, <4>1
    <2>9. \A q \in 2 .. Len(chain') : data'[chain'[q]] \in Data
      <3>1. /\ \A q \in 1 .. Len(chain) : chain[q] # n /\ chain[q] \in Nodes
            /\ \A q \in 2 .. Len(chain) : data[chain[q]] \in Data
        BY <2>1, <2>5 DEF LinksOK
      <3>2. /\ data'[n] = item
            /\ \A m \in Nodes : m # n => data'[m] = data[m]
        BY <2>1, <2>4, <2>5 DEF LinksOK
      <3> TAKE q \in 2 .. Len(chain')
      <3>3. \/ q \in 1 .. p /\ q \in 2 .. Len(chain) /\ q \in 1 .. Len(chain)
            \/ q = p + 1
            \/ /\ q \in p + 2 .. Len(chain) + 1 /\ q - 1 \in 2 .. Len(chain)
               /\ q - 1 \in 1 .. Len(chain)
        BY <2>5, <2>8
      <3> QED
        BY <2>1, <2>8, <3>1, <3>2, <3>3
    <2>10. /\ next' \in [Nodes -> Nodes \cup {NULL}]
           /\ prev' \in [Nodes -> Nodes \cup {NULL}]
           /\ data' \in [Nodes -> Data \cup {NULL}]
      BY <2>1, <2>4, <2>5 DEF LinksOK
    <2>11. LinksOK'
      BY <2>1, <2>4, <2>5, <2>7, <2>8, <2>9, <2>10 DEF LinksOK
    <2>12. HeadOK'
      <3>1. 1 \in 1 .. p /\ chain' # <<>> /\ chain # <<>>
        BY <2>5, <2>8
      <3> QED
        BY <2>1, <2>4, <2>7, <2>8, <3>1 DEF HeadOK
    <2> QED
      BY <1>3, <2>11, <2>12, ReplyKeepsLoop DEF IInv, Return
  <1> QED
    BY <1>2, <1>3 DEF InsertLink

(* ll_remove unlinks the node its loop stands on, never the sentinel. *)
LEMMA RemoveKeepsInv ==
  ASSUME IInv, RemoveUnlink
  PROVE  IInv'
  <1>1. pc = "remove"
    BY DEF RemoveUnlink
  <1>2. CASE Refuse("remove", "INDEX_TOO_LARGE")
    BY <1>1, <1>2, ReturnKeepsInv DEF Refuse, Return
  <1>3. CASE prev[current] # NULL /\ Unlink
             /\ Return("remove", "NO_ERROR", <<data[current]>>)
    <2>1. LinksOK /\ HeadOK
      BY <1>1 DEF IInv
    <2>2. PICK p \in 1 .. Len(chain) : current = chain[p]
      BY <1>1 DEF IInv, LoopOK, WalksCount
    <2>3. Place(current) = p
      BY <2>1, <2>2, PlaceIs
    <2>4. /\ head' = head /\ heap' = heap \ {current}
          /\ next' = [[next EXCEPT ![prev[current]] = next[current]]
                        EXCEPT ![current] = NULL]
          /\ prev' = [[m \in Nodes |-> IF m = next[current] THEN prev[current]
                                       ELSE prev[m]] EXCEPT ![current] = NULL]
          /\ data' = [data EXCEPT ![current] = NULL]
          /\ chain' = Without(chain, p)
      BY <1>3, <2>3 DEF Unlink, Unchain, Without, Cleared
    <2>5. /\ chain \in Seq(Nodes) /\ Len(chain) \in Nat /\ current \in Nodes
          /\ next[current] \in Nodes \cup {NULL} /\ prev[current] \in Nodes
          /\ heap = Elements(chain) /\ chain # <<>>
      BY <1>3, <2>1, <2>2 DEF LinksOK
    <2>6. p \in 2 .. Len(chain)
      <3>1. prev[chain[1]] = NULL
        BY <2>1, <2>5 DEF HeadOK
      <3> QED
        BY <1>3, <2>2, <2>5, <3>1
    <2>7. /\ \A m \in Nodes : next'[m] = IF m = current THEN NULL
                                         ELSE IF m = prev[current] THEN next[current]
                                         ELSE next[m]
          /\ \A m \in Nodes : prev'[m] = IF m = current THEN NULL
                                         ELSE IF m = next[current] THEN prev[current]
                                         ELSE prev[m]
      BY <2>1, <2>4, <2>5 DEF LinksOK
    <2>8. /\ Linked(chain', next', prev')
          /\ Elements(chain') = Elements(chain) \ {current}
          /\ prev'[chain[1]] = prev[chain[1]]
      <3>1. Linked(chain, next, prev)
        BY <2>1 DEF LinksOK
      <3>2. LinksWithout(chain[p], next, prev, next', prev')
        BY <2>2, <2>7 DEF LinksWithout
      <3>3. /\ Linked(Without(chain, p), next', prev')
            /\ Elements(Without(chain, p)) = Elements(chain) \ {chain[p]}
            /\ prev'[chain[1]] = prev[chain[1]]
        <4>1. chain \in Seq(Nodes) /\ p \in 2 .. Len(chain)
          BY <2>5, <2>6
        <4>2. Unlinked(chain, p, prev, next', prev')
          BY <4>1, <3>1, <3>2, LinkedRemove
        <4> QED
          BY <4>2 DEF Unlinked
      <3> QED
        BY <2>2, <2>4, <3>3
    <2>9. /\ chain' \in Seq(Nodes) /\ Len(chain') = Len(chain) - 1
          /\ \A i \in 1 .. p - 1 : chain'[i] = chain[i]
          /\ \A i \in p .. Len(chain) - 1 : chain'[i] = chain[i + 1]
      BY <2>2, <2>4, <2>5, WithoutProperties
    <2>10. \A q \in 2 .. Len(chain') : data'[chain'[q]] \in Data
      <3>1. /\ \A q \in 2 .. Len(chain) : data[chain[q]] \in Data /\ chain[q] \in Nodes
            /\ \A q \in 2 .. Len(chain) : q # p => chain[q] # current
        BY <2>1, <2>2 DEF LinksOK, Linked
      <3>2. \A m \in Nodes : m # current => data'[m] = data[m]
        BY <2>1, <2>4, <2>5 DEF LinksOK
      <3> TAKE q \in 2 .. Len(chain')
      <3>3. \/ q \in 1 .. p - 1 /\ q \in 2 .. Len(chain) /\ q # p
            \/ q \in p .. Len(chain) - 1 /\ q + 1 \in 2 .. Len(chain) /\ q + 1 # p
        BY <2>5, <2>9
      <3> QED
        BY <2>9, <3>1, <3>2, <3>3
    <2>11. /\ next' \in [Nodes -> Nodes \cup {NULL}]
           /\ prev' \in [Nodes -> Nodes \cup {NULL}]
           /\ data' \in [Nodes -> Data \cup {NULL}]
      BY <2>1, <2>4, <2>5 DEF LinksOK
    <2>12. LinksOK'
      BY <2>1, <2>4, <2>5, <2>8, <2>9, <2>10, <2>11 DEF LinksOK
    <2>13. HeadOK'
      <3>1. 1 \in 1 .. p - 1 /\ chain' # <<>>
        BY <2>5, <2>6, <2>9
      <3> QED
        BY <2>1, <2>4, <2>5, <2>8, <2>9, <3>1 DEF HeadOK
    <2> QED
      BY <1>3, <2>12, <2>13, ReplyKeepsLoop DEF IInv, Return
  <1>4. CASE /\ pc' = "crashed" /\ current' = NULL /\ count' = 0
             /\ index' = 0 /\ item' = NULL /\ seen' = <<>>
             /\ UNCHANGED links
    <2>1. LinksOK' /\ HeadOK'
      BY <1>1, <1>4, SameLinks DEF IInv
    <2>2. <<>> \in Seq(Data)
      BY EmptySeq
    <2> QED
      BY <1>4, <2>1, <2>2, ZeroIsAnIndex DEF IInv, LoopOK, Arguments, WalksCount, Walks
  <1> QED
    BY <1>2, <1>3, <1>4 DEF RemoveUnlink

(* ll_destroy frees the node behind the one it has gone to, then the last. *)
LEMMA DestroyKeepsInv ==
  ASSUME IInv, DestroyWalk \/ DestroyEnd
  PROVE  IInv'
  <1>1. pc = "destroy" /\ LinksOK /\ head # NULL
    BY DEF IInv, LoopOK, Arguments, DestroyWalk, DestroyEnd, Turn, AtLast
  <1>2. /\ 1 \in 1 .. Len(chain) /\ current = chain[1] /\ Len(seen) = count
        /\ seen \in Seq(Data) /\ Len(chain) \in Nat /\ chain \in Seq(Nodes)
        /\ current \in Nodes
    BY <1>1 DEF IInv, LoopOK, WalksCount, LinksOK
  <1>3. \/ /\ Len(chain) > 1 /\ 2 \in 1 .. Len(chain) /\ 2 \in 2 .. Len(chain)
           /\ next[current] = chain[2] /\ chain[2] # NULL
        \/ Len(chain) = 1 /\ next[current] = NULL
    <2>1. 1 + 1 = 2 /\ Linked(chain, next, prev)
      BY <1>1 DEF LinksOK
    <2>2. /\ 1 < Len(chain) => next[chain[1]] = chain[1 + 1] /\ next[chain[1]] # NULL
          /\ 1 = Len(chain) => next[chain[1]] = NULL
      BY <1>2, <2>1, LinkedFields
    <2>3. \/ Len(chain) > 1 /\ 2 \in 1 .. Len(chain) /\ 2 \in 2 .. Len(chain)
             /\ 1 < Len(chain)
          \/ Len(chain) = 1
      <3> DEFINE l == Len(chain)
      <3>1. l \in Nat /\ 1 <= l
        BY <1>2
      <3> HIDE DEF l
      <3>2. (l > 1 /\ 2 \in 1 .. l /\ 2 \in 2 .. l /\ 1 < l) \/ l = 1
        BY <3>1
      <3> QED
        BY <3>2 DEF l
    <2> QED
      BY <1>2, <2>1, <2>2, <2>3
  <1>4. CASE DestroyWalk
    <2>1. /\ next[current] # NULL /\ pc' = "destroy" /\ head' = head
          /\ current' = next[current] /\ count' = count + 1
          /\ index' = index /\ item' = item /\ status' = status
          /\ seen' = Append(seen, data[next[current]])
          /\ chain' = Tail(chain)
          /\ Free(prev[next[current]])
      BY <1>4 DEF DestroyWalk, Turn, Advance, Following, answer
    <2>2. Len(chain) > 1 /\ next[current] = chain[2] /\ 2 \in 2 .. Len(chain)
      BY <1>3, <2>1
    <2>3. prev[next[current]] = current
      <3>1. 2 \in 1 .. Len(chain) /\ 2 > 1 /\ 2 - 1 = 1
        BY <1>2, <2>2
      <3> QED
        BY <1>1, <1>2, <2>2, <3>1, LinkedFields DEF LinksOK
    <2>4. /\ heap' = heap \ {current}
          /\ next' = [next EXCEPT ![current] = NULL]
          /\ prev' = [prev EXCEPT ![current] = NULL]
          /\ data' = [data EXCEPT ![current] = NULL]
      BY <2>1, <2>3 DEF Free, Cleared
    <2>5. \A m \in Nodes : m # current =>
            next'[m] = next[m] /\ prev'[m] = prev[m] /\ data'[m] = data[m]
      BY <1>1, <1>2, <2>4 DEF LinksOK
    <2>6. /\ chain' \in Seq(Nodes) /\ Len(chain') = Len(chain) - 1
          /\ \A i \in 1 .. Len(chain) - 1 : chain'[i] = chain[i + 1]
          /\ Linked(chain', next', prev')
          /\ Elements(chain') = Elements(chain) \ {current}
      <3>1. Linked(chain, next, prev)
        BY <1>1 DEF LinksOK
      <3>2. \A m \in Nodes : m # chain[1] => next'[m] = next[m] /\ prev'[m] = prev[m]
        BY <1>2, <2>5
      <3>3. /\ Tail(chain) \in Seq(Nodes) /\ Len(Tail(chain)) = Len(chain) - 1
            /\ \A i \in 1 .. Len(chain) - 1 : Tail(chain)[i] = chain[i + 1]
            /\ Linked(Tail(chain), next', prev')
            /\ Elements(Tail(chain)) = Elements(chain) \ {chain[1]}
        BY <1>2, <2>2, <3>1, <3>2, LinkedTail
      <3> QED
        BY <1>2, <2>1, <3>3
    <2>7. /\ next' \in [Nodes -> Nodes \cup {NULL}]
          /\ prev' \in [Nodes -> Nodes \cup {NULL}]
          /\ data' \in [Nodes -> Data \cup {NULL}]
      BY <1>1, <1>2, <2>4 DEF LinksOK
    <2>8. \A q \in 2 .. Len(chain') : data'[chain'[q]] \in Data
      <3>1. /\ \A q \in 2 .. Len(chain) : data[chain[q]] \in Data /\ chain[q] \in Nodes
            /\ \A q \in 2 .. Len(chain) : chain[q] # current
        <4>1. \A q \in 2 .. Len(chain) : q # 1 /\ q \in 1 .. Len(chain)
          BY <1>2
        <4> QED
          BY <1>1, <1>2, <4>1 DEF LinksOK, Linked
      <3> TAKE q \in 2 .. Len(chain')
      <3>2. q \in 1 .. Len(chain) - 1 /\ q + 1 \in 2 .. Len(chain)
        BY <1>2, <2>6
      <3> QED
        BY <2>5, <2>6, <3>1, <3>2
    <2>9. LinksOK'
      BY <1>1, <2>1, <2>4, <2>6, <2>7, <2>8 DEF LinksOK
    <2>10. 1 \in 1 .. Len(chain') /\ current' = chain'[1] /\ current' \in Nodes
      <3>1. 1 \in 1 .. Len(chain) - 1 /\ 1 + 1 = 2
        BY <1>2, <2>2
      <3> QED
        BY <2>1, <2>2, <2>6, <3>1
    <2>11. data[next[current]] \in Data
      BY <1>1, <2>2 DEF LinksOK
    <2>12. seen' \in Seq(Data) /\ Len(seen') = count' /\ count' \in Int
      <3>1. seen' \in Seq(Data) /\ Len(seen') = Len(seen) + 1
        BY <1>2, <2>1, <2>11, AppendProperties
      <3>2. count \in Int
        BY DEF IInv, LoopOK
      <3> QED
        BY <1>2, <2>1, <3>1, <3>2
    <2>13. WalksCount'
      BY <2>1, <2>10, <2>12 DEF WalksCount
    <2>14. Arguments'
      BY <1>1, <2>1 DEF IInv, LoopOK, Arguments, Indexes
    <2>15. LoopOK'
      BY <2>1, <2>10, <2>12, <2>13, <2>14 DEF IInv, LoopOK, Walks
    <2> QED
      BY <2>1, <2>9, <2>15 DEF IInv
  <1>5. CASE DestroyEnd
    <2>1. /\ next[current] = NULL /\ Free(current) /\ head' = NULL /\ chain' = <<>>
          /\ Return("destroy", "NO_ERROR", seen)
      BY <1>5 DEF DestroyEnd, AtLast, Following
    <2>2. Len(chain) = 1
      BY <1>3, <2>1
    <2>3. heap' = {} /\ Elements(chain') = {}
      <3>1. heap = {current}
        BY <1>1, <1>2, <2>2 DEF LinksOK, Elements
      <3>2. Elements(<<>>) = {}
        BY EmptySeq DEF Elements
      <3> QED
        BY <2>1, <3>1, <3>2 DEF Free
    <2>4. /\ next' \in [Nodes -> Nodes \cup {NULL}]
          /\ prev' \in [Nodes -> Nodes \cup {NULL}]
          /\ data' \in [Nodes -> Data \cup {NULL}]
      BY <1>1, <1>2, <2>1 DEF LinksOK, Free, Cleared
    <2>5. LinksOK' /\ HeadOK'
      <3>1. chain' \in Seq(Nodes) /\ Len(chain') = 0
        BY <2>1, EmptySeq
      <3> QED
        BY <2>1, <2>3, <2>4, <3>1 DEF LinksOK, Linked, HeadOK
    <2> QED
      BY <2>1, <2>5, ReplyKeepsLoop DEF IInv, Return
  <1> QED
    BY <1>4, <1>5

LEMMA AnyCallKeepsInv ==
  ASSUME IInv,
         \/ \E x \in Data \cup {NULL}, i \in Indexes : ll_insert(x, i)
         \/ \E i \in Indexes, dst \in BOOLEAN : ll_remove(dst, i)
         \/ \E x \in Data \cup {NULL}, args \in BOOLEAN : ll_search(x, args)
         \/ \E given \in BOOLEAN : ll_size(given) \/ ll_dump(given)
         \/ ll_destroy
  PROVE  IInv'
  <1>1. ASSUME NEW x \in Data \cup {NULL}, NEW i \in Indexes, ll_insert(x, i)
        PROVE  IInv'
    <2>1. Callable("insert", 0, i, x, x # NULL)
      BY DEF Callable
    <2> QED
      BY <1>1, <2>1, CallKeepsInv DEF ll_insert
  <1>2. ASSUME NEW i \in Indexes, NEW dst \in BOOLEAN, ll_remove(dst, i)
        PROVE  IInv'
    <2>1. Callable("remove", -1, i, NULL, dst)
      BY DEF Callable
    <2> QED
      BY <1>2, <2>1, CallKeepsInv DEF ll_remove
  <1>3. ASSUME NEW x \in Data \cup {NULL}, NEW args \in BOOLEAN, ll_search(x, args)
        PROVE  IInv'
    <2>1. Callable("search", 0, 0, x, x # NULL /\ args)
      BY ZeroIsAnIndex DEF Callable
    <2> QED
      BY <1>3, <2>1, CallKeepsInv DEF ll_search
  <1>4. ASSUME NEW given \in BOOLEAN, ll_size(given) \/ ll_dump(given)
        PROVE  IInv'
    <2>1. /\ Callable("size", 0, 0, NULL, given)
          /\ Callable("dump", 0, 0, NULL, given)
      BY ZeroIsAnIndex DEF Callable
    <2> QED
      BY <1>4, <2>1, CallKeepsInv DEF ll_size, ll_dump
  <1>5. CASE ll_destroy
    <2>1. Callable("destroy", 0, 0, NULL, TRUE)
      BY ZeroIsAnIndex DEF Callable
    <2> QED
      BY <1>5, <2>1, CallKeepsInv DEF ll_destroy
  <1> QED
    BY <1>1, <1>2, <1>3, <1>4, <1>5

LEMMA IInvNext ==
  ASSUME IInv, [Next]_vars
  PROVE  IInv'
  <1>1. CASE UNCHANGED vars
    <2>1. UNCHANGED links /\ UNCHANGED loop /\ UNCHANGED answer
      BY <1>1 DEF vars
    <2>2. LinksOK' /\ (HeadOK => HeadOK')
      BY <2>1, SameLinks DEF IInv
    <2>3. WalksCount'
      BY <2>1 DEF IInv, LoopOK, WalksCount, links, loop
    <2>4. LoopOK' /\ pc' = pc
      BY <2>1, <2>3 DEF IInv, LoopOK, Arguments, Indexes, links, loop, answer
    <2> QED
      BY <2>2, <2>4 DEF IInv
  <1>2. CASE Crashed
    BY <1>1, <1>2 DEF Crashed
  <1>3. CASE \E given \in BOOLEAN : ll_init(given)
    BY <1>3, InitKeepsInv
  <1>4. CASE \/ InsertWalk \/ InsertBreak \/ InsertStop \/ RemoveWalk
             \/ SearchWalk \/ SizeWalk \/ DumpWalk
    BY <1>4, WalkKeepsInv
  <1>5. CASE SearchHit \/ SearchEnd \/ SizeEnd \/ DumpEnd
    BY <1>5, AnswerKeepsInv
  <1>6. CASE InsertLink
    BY <1>6, InsertKeepsInv
  <1>7. CASE RemoveUnlink
    BY <1>7, RemoveKeepsInv
  <1>8. CASE DestroyWalk \/ DestroyEnd
    BY <1>8, DestroyKeepsInv
  <1> QED
    BY <1>1, <1>2, <1>3, <1>4, <1>5, <1>6, <1>7, <1>8, AnyCallKeepsInv DEF Next

(* The chain, the fields, the heap and the place of each loop agree after   *)
(* every step of every call of linkedlist.c.                                *)
THEOREM Invariance == Spec => []IInv
  <1>1. IInv /\ [Next]_vars => IInv'
    BY IInvNext
  <1> QED
    BY <1>1, IInvInit, PTL DEF Spec

(* Every field holds a node or NULL, and every item is one the client gave. *)
THEOREM TypeCorrect == Spec => []TypeOK
  <1>1. IInv => TypeOK
    BY InvImplies
  <1> QED
    BY <1>1, Invariance, PTL

(* next and prev agree, the nodes are distinct and the last one ends the    *)
(* list, after any calls of ll_insert, ll_remove and ll_destroy.            *)
THEOREM StaysLinked == Spec => []ListIsLinked
  <1>1. IInv => ListIsLinked
    BY InvImplies
  <1> QED
    BY <1>1, Invariance, PTL

(* The heap is the linked nodes at every step of every call: nothing leaks, *)
(* nothing linked is freed, and no loop stands on a freed node.             *)
THEOREM HeapIsTheList == Spec => []NothingLeaksOrDangles
  <1>1. IInv => NothingLeaksOrDangles
    BY InvImplies
  <1> QED
    BY <1>1, Invariance, PTL

(* A loop that counted to n has seen exactly the first n items. *)
THEOREM LoopsCount == Spec => []WalksCount
  <1>1. IInv => WalksCount
    BY InvImplies
  <1> QED
    BY <1>1, Invariance, PTL
----------------------------------------------------------------------------
(* The list of items: what it becomes when the chain of nodes changes.     *)

ItemsIn(s, d) == [p \in 1 .. Len(s) - 1 |-> d[s[p + 1]]]

LEMMA DataConcat == \A s, t, u \in Seq(Data) : (s \o t) \o u = s \o (t \o u)
  BY ConcatAssociative

LEMMA ItemsInType ==
  ASSUME NEW s \in Seq(Nodes), NEW d, \A p \in 2 .. Len(s) : d[s[p]] \in Data
  PROVE  /\ ItemsIn(s, d) \in Seq(Data)
         /\ Len(ItemsIn(s, d)) = IF s = <<>> THEN 0 ELSE Len(s) - 1
         /\ \A p \in 1 .. Len(s) - 1 : ItemsIn(s, d)[p] = d[s[p + 1]]
  <1> DEFINE l == Len(s)
  <1>1. l \in Nat /\ (s = <<>> => l = 0) /\ (s # <<>> => l > 0)
    OBVIOUS
  <1>2. \A p \in 1 .. l - 1 : d[s[p + 1]] \in Data
    <2>1. \A p \in 1 .. l - 1 : p + 1 \in 2 .. l
      BY <1>1
    <2> QED
      BY <2>1
  <1> HIDE DEF l
  <1> DEFINE n == IF s = <<>> THEN 0 ELSE l - 1
  <1>3. n \in Nat /\ 1 .. l - 1 = 1 .. n
    <2>1. CASE s = <<>>
      BY <1>1, <2>1
    <2>2. CASE s # <<>>
      BY <1>1, <2>2
    <2> QED
      BY <2>1, <2>2
  <1>4. ItemsIn(s, d) = [p \in 1 .. n |-> d[s[p + 1]]]
    BY <1>3 DEF ItemsIn, l
  <1> HIDE DEF n
  <1>5. ItemsIn(s, d) \in Seq(Data) /\ Len(ItemsIn(s, d)) = n
    <2>1. \A p \in 1 .. n : d[s[p + 1]] \in Data
      BY <1>2, <1>3
    <2>2. ItemsIn(s, d) \in [1 .. n -> Data]
      BY <1>4, <2>1
    <2> QED
      BY <1>3, <2>2
  <1> QED
    BY <1>3, <1>4, <1>5 DEF l, n

AreItems(a, s, d) ==
  /\ a \in Seq(Data) /\ Len(a) = IF s = <<>> THEN 0 ELSE Len(s) - 1
  /\ \A p \in 1 .. Len(s) - 1 : a[p] = d[s[p + 1]]

LEMMA TheItems ==
  ASSUME NEW s \in Seq(Nodes), NEW d, \A p \in 2 .. Len(s) : d[s[p]] \in Data
  PROVE  AreItems(ItemsIn(s, d), s, d)
  BY ItemsInType DEF AreItems

(* One more node after the p-th, holding x. *)
LEMMA ItemsInsert ==
  ASSUME NEW s \in Seq(Nodes), NEW d, \A q \in 2 .. Len(s) : d[s[q]] \in Data,
         NEW p \in 1 .. Len(s), NEW n \in Nodes, n \notin Elements(s),
         NEW x \in Data, NEW d2, \A k \in Nodes : d2[k] = IF k = n THEN x ELSE d[k]
  PROVE  ItemsIn(WithAfter(s, p, n), d2) = WithAfter(ItemsIn(s, d), p - 1, x)
  <1> DEFINE l == Len(s)
             t == WithAfter(s, p, n)
             a == ItemsIn(s, d)
             b == WithAfter(a, p - 1, x)
             c == ItemsIn(t, d2)
  <1>1. /\ l \in Nat /\ p \in 1 .. l /\ p \in 0 .. l /\ s # <<>>
        /\ \A q \in 1 .. l : s[q] \in Nodes /\ s[q] # n
    BY DEF Elements
  <1>2. /\ t \in Seq(Nodes) /\ Len(t) = l + 1
        /\ \A i \in 1 .. p : t[i] = s[i]
        /\ t[p + 1] = n
        /\ \A i \in p + 2 .. l + 1 : t[i] = s[i - 1]
    <2>1. p \in 0 .. Len(s) /\ n \in Nodes
      BY <1>1
    <2>2. Widened(Nodes, t, s, p, n)
      BY <2>1, WithAfterProperties
    <2> QED
      BY <2>2 DEF Widened
  <1>3. /\ a \in Seq(Data) /\ Len(a) = l - 1
        /\ \A q \in 1 .. l - 1 : a[q] = d[s[q + 1]]
    BY <1>1, ItemsInType
  <1>4. /\ b \in Seq(Data) /\ Len(b) = l
        /\ \A i \in 1 .. p - 1 : b[i] = a[i]
        /\ b[p] = x
        /\ \A i \in p + 1 .. l : b[i] = a[i - 1]
    <2> DEFINE k == p - 1
    <2>1. k \in 0 .. l - 1 /\ (l - 1) + 1 = l /\ k + 1 = p /\ k + 2 = p + 1
      BY <1>1
    <2> HIDE DEF a, k
    <2>2. a \in Seq(Data) /\ k \in 0 .. Len(a)
      BY <1>3, <2>1
    <2>3. /\ WithAfter(a, k, x) \in Seq(Data)
          /\ Len(WithAfter(a, k, x)) = Len(a) + 1
          /\ \A i \in 1 .. k : WithAfter(a, k, x)[i] = a[i]
          /\ WithAfter(a, k, x)[k + 1] = x
          /\ \A i \in k + 2 .. Len(a) + 1 : WithAfter(a, k, x)[i] = a[i - 1]
      <3>1. Widened(Data, WithAfter(a, k, x), a, k, x)
        BY <2>2, WithAfterProperties
      <3> QED
        BY <3>1 DEF Widened
    <2> QED
      BY <1>3, <2>1, <2>3 DEF k
  <1> HIDE DEF l, t, a, b
  <1>5. ASSUME NEW i \in 1 .. l
        PROVE  d2[t[i + 1]] = b[i]
    <2>1. CASE i < p
      <3>1. i \in 1 .. p - 1 /\ i + 1 \in 1 .. p /\ i + 1 \in 1 .. l /\ i \in 1 .. l - 1
        BY <1>1, <2>1
      <3>2. t[i + 1] = s[i + 1] /\ d2[s[i + 1]] = d[s[i + 1]]
        BY <1>1, <1>2, <3>1
      <3> QED
        BY <1>3, <1>4, <3>1, <3>2
    <2>2. CASE i = p
      BY <1>2, <1>4, <2>2
    <2>3. CASE i > p
      <3>1. /\ i + 1 \in p + 2 .. l + 1 /\ (i + 1) - 1 = i /\ i \in p + 1 .. l
            /\ i - 1 \in 1 .. l - 1 /\ (i - 1) + 1 = i
        BY <1>1, <2>3
      <3>2. t[i + 1] = s[i] /\ d2[s[i]] = d[s[i]]
        BY <1>1, <1>2, <3>1
      <3> QED
        BY <1>3, <1>4, <3>1, <3>2
    <2> QED
      BY <1>1, <2>1, <2>2, <2>3
  <1>6. c = [i \in 1 .. l |-> d2[t[i + 1]]]
    <2>1. (l + 1) - 1 = l
      BY <1>1
    <2> QED
      BY <1>2, <2>1 DEF ItemsIn
  <1>7. b = [i \in 1 .. l |-> b[i]]
    BY <1>4
  <1> QED
    BY <1>5, <1>6, <1>7 DEF b, t, a

(* The p-th node is taken out. *)
LEMMA ItemsRemove ==
  ASSUME NEW s \in Seq(Nodes), NEW d, \A q \in 2 .. Len(s) : d[s[q]] \in Data,
         \A q, r \in 1 .. Len(s) : s[q] = s[r] => q = r,
         NEW p \in 2 .. Len(s), NEW d2, \A k \in Nodes : k # s[p] => d2[k] = d[k]
  PROVE  ItemsIn(Without(s, p), d2) = Without(ItemsIn(s, d), p - 1)
  <1> DEFINE l == Len(s)
             t == Without(s, p)
             a == ItemsIn(s, d)
             b == Without(a, p - 1)
             c == ItemsIn(t, d2)
  <1>1. /\ l \in Nat /\ p \in 2 .. l /\ p \in 1 .. l /\ s # <<>>
        /\ \A q \in 1 .. l : s[q] \in Nodes /\ (q # p => s[q] # s[p])
    OBVIOUS
  <1>2. /\ t \in Seq(Nodes) /\ Len(t) = l - 1
        /\ \A i \in 1 .. p - 1 : t[i] = s[i]
        /\ \A i \in p .. l - 1 : t[i] = s[i + 1]
    BY <1>1, WithoutProperties
  <1>3. /\ a \in Seq(Data) /\ Len(a) = l - 1
        /\ \A q \in 1 .. l - 1 : a[q] = d[s[q + 1]]
    BY <1>1, ItemsInType
  <1>4. /\ b \in Seq(Data) /\ Len(b) = l - 2
        /\ \A i \in 1 .. p - 2 : b[i] = a[i]
        /\ \A i \in p - 1 .. l - 2 : b[i] = a[i + 1]
    <2>1. p - 1 \in 1 .. l - 1 /\ (l - 1) - 1 = l - 2 /\ (p - 1) - 1 = p - 2
      BY <1>1
    <2> HIDE DEF a
    <2>2. p - 1 \in 1 .. Len(a)
      BY <1>3, <2>1
    <2>3. /\ Without(a, p - 1) \in Seq(Data)
          /\ Len(Without(a, p - 1)) = Len(a) - 1
          /\ \A i \in 1 .. (p - 1) - 1 : Without(a, p - 1)[i] = a[i]
          /\ \A i \in p - 1 .. Len(a) - 1 : Without(a, p - 1)[i] = a[i + 1]
      BY <1>3, <2>2, WithoutProperties
    <2> QED
      BY <1>3, <2>1, <2>3
  <1> HIDE DEF l, t, a, b
  <1>5. ASSUME NEW i \in 1 .. l - 2
        PROVE  d2[t[i + 1]] = b[i]
    <2>1. CASE i < p - 1
      <3>1. /\ i \in 1 .. p - 2 /\ i + 1 \in 1 .. p - 1 /\ i + 1 \in 1 .. l
            /\ i \in 1 .. l - 1 /\ i + 1 # p
        BY <1>1, <2>1
      <3>2. t[i + 1] = s[i + 1] /\ d2[s[i + 1]] = d[s[i + 1]]
        BY <1>1, <1>2, <3>1
      <3> QED
        BY <1>3, <1>4, <3>1, <3>2
    <2>2. CASE i >= p - 1
      <3>1. /\ i + 1 \in p .. l - 1 /\ (i + 1) + 1 \in 1 .. l /\ i \in p - 1 .. l - 2
            /\ i + 1 \in 1 .. l - 1 /\ (i + 1) + 1 # p
        BY <1>1, <2>2
      <3>2. t[i + 1] = s[(i + 1) + 1] /\ d2[s[(i + 1) + 1]] = d[s[(i + 1) + 1]]
        BY <1>1, <1>2, <3>1
      <3> QED
        BY <1>3, <1>4, <3>1, <3>2
    <2> QED
      BY <1>1, <2>1, <2>2
  <1>6. c = [i \in 1 .. l - 2 |-> d2[t[i + 1]]]
    <2>1. (l - 1) - 1 = l - 2
      BY <1>1
    <2> QED
      BY <1>2, <2>1 DEF ItemsIn
  <1>7. b = [i \in 1 .. l - 2 |-> b[i]]
    BY <1>4
  <1> QED
    BY <1>5, <1>6, <1>7 DEF b, t, a

(* The first item goes from the chain s to what was freed: t is left. *)
FirstFreed(freed, s, d, more, t, d2) ==
  /\ more = Append(freed, d[s[2]])
  /\ Len(s) > 1 /\ Len(t) = Len(s) - 1
  /\ \A i \in 1 .. Len(s) - 1 : t[i] = s[i + 1]
  /\ \A q \in 2 .. Len(s) : d[s[q]] \in Data /\ d2[s[q]] = d[s[q]]

FreedThen(freed, s, d) == freed \o ItemsIn(s, d)

LEMMA ItemsFreed ==
  ASSUME NEW s \in Seq(Nodes), NEW d, NEW t \in Seq(Nodes), NEW d2,
         NEW freed \in Seq(Data), NEW more, FirstFreed(freed, s, d, more, t, d2)
  PROVE  FreedThen(freed, s, d) = FreedThen(more, t, d2)
  <1> DEFINE l == Len(s)
             a == ItemsIn(s, d)
             c == ItemsIn(t, d2)
             x == d[s[2]]
  <1> USE DEF FirstFreed
  <1>1. l \in Nat /\ l > 1 /\ s # <<>> /\ t # <<>> /\ x \in Data
    <2>1. l \in Nat /\ l > 1 /\ Len(t) = l - 1
      OBVIOUS
    <2>2. 2 \in 2 .. Len(s)
      BY <2>1
    <2>3. Len(t) # 0 /\ Len(s) # 0
      BY <2>1
    <2> QED
      BY <2>1, <2>2, <2>3, EmptySeq
  <1>2. /\ a \in Seq(Data) /\ Len(a) = l - 1
        /\ \A q \in 1 .. l - 1 : a[q] = d[s[q + 1]]
    <2>1. \A q \in 2 .. Len(s) : d[s[q]] \in Data
      OBVIOUS
    <2>2. /\ a \in Seq(Data) /\ Len(a) = IF s = <<>> THEN 0 ELSE Len(s) - 1
          /\ \A q \in 1 .. Len(s) - 1 : a[q] = d[s[q + 1]]
      <3>1. AreItems(a, s, d)
        BY <2>1, TheItems
      <3> QED
        BY <3>1 DEF AreItems
    <2> QED
      BY <1>1, <2>2
  <1>3. \A q \in 1 .. Len(t) : q + 1 \in 2 .. Len(s) /\ t[q] = s[q + 1]
                               /\ d2[t[q]] = d[s[q + 1]]
    <2>1. \A q \in 1 .. Len(t) : q + 1 \in 2 .. Len(s) /\ q \in 1 .. Len(s) - 1
      BY <1>1
    <2> QED
      BY <2>1
  <1>4. /\ c \in Seq(Data) /\ Len(c) = l - 2
        /\ \A q \in 1 .. l - 2 : c[q] = d2[t[q + 1]]
    <2>1. \A q \in 2 .. Len(t) : d2[t[q]] \in Data
      <3>1. \A q \in 2 .. Len(t) : q \in 1 .. Len(t)
        BY <1>1
      <3> QED
        BY <1>3, <3>1
    <2>2. Len(t) - 1 = l - 2
      BY <1>1
    <2>3. /\ c \in Seq(Data) /\ Len(c) = IF t = <<>> THEN 0 ELSE Len(t) - 1
          /\ \A q \in 1 .. Len(t) - 1 : c[q] = d2[t[q + 1]]
      BY <2>1, ItemsInType
    <2> QED
      BY <1>1, <2>2, <2>3
  <1>5. a = <<x>> \o c
    <2> DEFINE b == <<x>> \o c
    <2>1. <<x>> \in Seq(Data) /\ Len(<<x>>) = 1 /\ <<x>>[1] = x
      BY <1>1
    <2>2. /\ b \in Seq(Data) /\ Len(b) = Len(<<x>>) + Len(c)
          /\ \A i \in 1 .. Len(<<x>>) + Len(c) :
               b[i] = IF i <= Len(<<x>>) THEN <<x>>[i] ELSE c[i - Len(<<x>>)]
      BY <1>4, <2>1, ConcatProperties
    <2>3. /\ Len(b) = l - 1
          /\ \A i \in 1 .. l - 1 : b[i] = IF i <= 1 THEN <<x>>[i] ELSE c[i - 1]
      <3>1. 1 + (l - 2) = l - 1
        BY <1>1
      <3> QED
        BY <1>4, <2>1, <2>2, <3>1
    <2> HIDE DEF a, c, x, b, l
    <2>4. ASSUME NEW i \in 1 .. l - 1
          PROVE  a[i] = b[i]
      <3>1. CASE i = 1
        <4>1. b[1] = x /\ a[1] = d[s[1 + 1]] /\ 1 + 1 = 2
          BY <1>1, <1>2, <2>1, <2>3, <3>1
        <4> QED
          BY <3>1, <4>1 DEF x
      <3>2. CASE i > 1
        <4>1. /\ i - 1 \in 1 .. l - 2 /\ (i - 1) + 1 = i /\ ~(i <= 1) /\ i \in 1 .. l - 1
              /\ i \in Nat
          BY <1>1, <3>2
        <4>2. b[i] = d2[t[i]]
          BY <1>4, <2>3, <4>1
        <4>3. d2[t[i]] = d[s[i + 1]]
          BY <1>3, <4>1 DEF l
        <4> QED
          BY <1>2, <4>1, <4>2, <4>3
      <3> QED
        BY <1>1, <3>1, <3>2
    <2>5. a \in Seq(Data) /\ b \in Seq(Data) /\ Len(a) = Len(b)
          /\ \A i \in 1 .. Len(a) : a[i] = b[i]
      BY <1>2, <2>2, <2>3, <2>4
    <2>6. a = b
      BY <2>5, SeqEqual
    <2> QED
      BY <2>6 DEF b
  <1>6. <<x>> \in Seq(Data) /\ Append(freed, x) = freed \o <<x>>
    BY <1>1, AppendIsConcat
  <1> HIDE DEF a, c, x
  <1>7. (freed \o <<x>>) \o c = freed \o (<<x>> \o c)
    <2>1. freed \in Seq(Data) /\ <<x>> \in Seq(Data) /\ c \in Seq(Data)
      BY <1>4, <1>6
    <2> QED
      BY <2>1, DataConcat
  <1> QED
    BY <1>5, <1>6, <1>7 DEF a, c, x, FreedThen
----------------------------------------------------------------------------
(* Every call is one step of ItemList, when it returns.                    *)

LEMMA SameIndexes == L!Indexes = Indexes
  <1>1. Cardinality(Nodes) \in Nat
    BY LinkedListAssumption, FS_CardinalityType
  <1>2. (Cardinality(Nodes) - 1) + 1 = Cardinality(Nodes)
    BY <1>1
  <1> QED
    BY <1>2 DEF L!Indexes, Indexes, Max

LEMMA NothingBefore ==
  ASSUME NEW s \in Seq(Nodes), NEW d, \A p \in 2 .. Len(s) : d[s[p]] \in Data
  PROVE  <<>> \o ItemsIn(s, d) = ItemsIn(s, d)
  BY ItemsInType, ConcatEmptySeq

(* Outside ll_destroy the items are those the nodes hold. *)
LEMMA ItemsAre ==
  ASSUME LinksOK, pc # "destroy"
  PROVE  /\ ItemsOf = ItemsIn(chain, data) /\ ItemsOf \in Seq(Data)
         /\ Len(ItemsOf) = IF chain = <<>> THEN 0 ELSE Len(chain) - 1
         /\ \A p \in 1 .. Len(chain) - 1 : ItemsOf[p] = data[chain[p + 1]]
  <1>1. ItemsOf = <<>> \o ItemsIn(chain, data)
    BY DEF ItemsOf, ItemsIn
  <1>2. ItemsOf = ItemsIn(chain, data)
    BY <1>1, NothingBefore DEF LinksOK
  <1> QED
    BY <1>2, ItemsInType DEF LinksOK

LEMMA ItemsAreNext ==
  ASSUME LinksOK', pc' # "destroy"
  PROVE  ItemsOf' = ItemsIn(chain', data')
  <1>1. ItemsOf' = <<>> \o ItemsIn(chain', data')
    BY DEF ItemsOf, ItemsIn
  <1>2. /\ chain' \in Seq(Nodes)
        /\ \A p \in 2 .. Len(chain') : data'[chain'[p]] \in Data
    BY DEF LinksOK
  <1> QED
    BY <1>1, <1>2, NothingBefore

LEMMA ItemsKept ==
  ASSUME UNCHANGED links, pc # "destroy", pc' # "destroy" \/ seen' = <<>>
  PROVE  ItemsOf' = ItemsOf /\ (head' # NULL) = (head # NULL)
  BY DEF ItemsOf, links

(* A call that starts, or is refused for a missing argument. *)
LEMMA CallIsStep ==
  ASSUME IInv, NEW op, NEW from, NEW i, NEW x, NEW args,
         Callable(op, from, i, x, args), Call(op, from, i, x, args)
  PROVE  [L!Next]_(L!listVars)
  <1>1. pc = "idle" /\ status # "CRASHED"
    BY DEF Call, IInv, LoopOK, Arguments
  <1>2. CASE Reply(op, i, x, "NULL_POINTER", <<>>) /\ UNCHANGED links
    <2>1. ItemsOf' = ItemsOf /\ (head' # NULL) = (head # NULL)
      <3>1. pc' # "destroy"
        BY <1>2 DEF Reply
      <3> QED
        BY <1>1, <1>2, <3>1, ItemsKept
    <2>2. asked' = <<op, i, x>> /\ status' = "NULL_POINTER" /\ out' = <<>>
      BY <1>2 DEF Reply
    <2>3. L!NullPointer(i, x)
      BY <2>1, <2>2 DEF L!NullPointer, L!Refuse, L!Reply, Callable
    <2>4. i \in L!Indexes /\ x \in Data \cup {NULL}
      BY SameIndexes DEF Callable
    <2> QED
      BY <1>1, <2>3, <2>4 DEF L!Next
  <1>3. CASE /\ pc' = op /\ seen' = <<>> /\ UNCHANGED <<links, answer>>
    <2>1. ItemsOf' = ItemsOf /\ (head' # NULL) = (head # NULL)
      BY <1>1, <1>3, ItemsKept
    <2> QED
      BY <1>3, <2>1 DEF L!listVars, answer
  <1> QED
    BY <1>2, <1>3 DEF Call

LEMMA AnyCallIsStep ==
  ASSUME IInv,
         \/ \E x \in Data \cup {NULL}, i \in Indexes : ll_insert(x, i)
         \/ \E i \in Indexes, dst \in BOOLEAN : ll_remove(dst, i)
         \/ \E x \in Data \cup {NULL}, args \in BOOLEAN : ll_search(x, args)
         \/ \E given \in BOOLEAN : ll_size(given) \/ ll_dump(given)
         \/ ll_destroy
  PROVE  [L!Next]_(L!listVars)
  <1>1. ASSUME NEW x \in Data \cup {NULL}, NEW i \in Indexes, ll_insert(x, i)
        PROVE  [L!Next]_(L!listVars)
    <2>1. Callable("insert", 0, i, x, x # NULL)
      BY DEF Callable
    <2> QED
      BY <1>1, <2>1, CallIsStep DEF ll_insert
  <1>2. ASSUME NEW i \in Indexes, NEW dst \in BOOLEAN, ll_remove(dst, i)
        PROVE  [L!Next]_(L!listVars)
    <2>1. Callable("remove", -1, i, NULL, dst)
      BY DEF Callable
    <2> QED
      BY <1>2, <2>1, CallIsStep DEF ll_remove
  <1>3. ASSUME NEW x \in Data \cup {NULL}, NEW args \in BOOLEAN, ll_search(x, args)
        PROVE  [L!Next]_(L!listVars)
    <2>1. Callable("search", 0, 0, x, x # NULL /\ args)
      BY ZeroIsAnIndex DEF Callable
    <2> QED
      BY <1>3, <2>1, CallIsStep DEF ll_search
  <1>4. ASSUME NEW given \in BOOLEAN, ll_size(given) \/ ll_dump(given)
        PROVE  [L!Next]_(L!listVars)
    <2>1. /\ Callable("size", 0, 0, NULL, given)
          /\ Callable("dump", 0, 0, NULL, given)
      BY ZeroIsAnIndex DEF Callable
    <2> QED
      BY <1>4, <2>1, CallIsStep DEF ll_size, ll_dump
  <1>5. CASE ll_destroy
    <2>1. Callable("destroy", 0, 0, NULL, TRUE)
      BY ZeroIsAnIndex DEF Callable
    <2> QED
      BY <1>5, <2>1, CallIsStep DEF ll_destroy
  <1> QED
    BY <1>1, <1>2, <1>3, <1>4, <1>5

(* The turns of the loops are not seen by the client. *)
LEMMA WalkStutters ==
  ASSUME IInv,
         \/ InsertWalk \/ InsertBreak \/ InsertStop \/ RemoveWalk
         \/ SearchWalk \/ SizeWalk \/ DumpWalk
  PROVE  UNCHANGED L!listVars
  <1>1. UNCHANGED links /\ UNCHANGED answer /\ pc # "destroy" /\ pc' # "destroy"
    BY DEF InsertWalk, InsertBreak, InsertStop, RemoveWalk, SearchWalk, SizeWalk,
           DumpWalk, Visit, Turn, AtLast, Advance
  <1>2. ItemsOf' = ItemsOf /\ (head' # NULL) = (head # NULL)
    BY <1>1, ItemsKept
  <1> QED
    BY <1>1, <1>2 DEF L!listVars, answer

LEMMA InitIsStep ==
  ASSUME IInv, IInv', NEW given \in BOOLEAN, ll_init(given)
  PROVE  L!Next
  <1>1. /\ pc = "idle" /\ head = NULL /\ status # "CRASHED" /\ index = 0 /\ item = NULL
        /\ chain = <<>>
    BY DEF ll_init, IInv, LoopOK, Arguments, HeadOK
  <1>2. ASSUME NEW code, Refuse("init", code), code \in {"NULL_POINTER", "ALLOC_FAILURE"}
        PROVE  L!Next
    <2>1. /\ UNCHANGED links /\ pc' # "destroy"
          /\ asked' = <<"init", 0, NULL>> /\ status' = code /\ out' = <<>>
      BY <1>1, <1>2 DEF Refuse, Return, Reply
    <2>2. ItemsOf' = ItemsOf /\ (head' # NULL) = (head # NULL)
      BY <1>1, <2>1, ItemsKept
    <2>3. L!Refuse("init", 0, NULL, code)
      BY <2>1, <2>2 DEF L!Refuse, L!Reply
    <2>4. CASE code = "NULL_POINTER"
      <3>1. L!NullPointer(0, NULL) /\ 0 \in L!Indexes
        BY <2>3, <2>4, SameIndexes, ZeroIsAnIndex DEF L!NullPointer
      <3> QED
        BY <1>1, <3>1 DEF L!Next
    <2>5. CASE code = "ALLOC_FAILURE"
      BY <1>1, <2>3, <2>5 DEF L!Next, L!Open
    <2> QED
      BY <1>2, <2>4, <2>5
  <1>3. ASSUME NEW n \in Nodes, head' = n, chain' = <<n>>,
               Return("init", "NO_ERROR", <<>>)
        PROVE  L!Next
    <2>1. head' # NULL /\ pc' # "destroy"
      BY <1>3, LinkedListAssumption DEF Return, Reply
    <2>2. ItemsOf = <<>>
      <3>1. ItemsOf \in Seq(Data) /\ Len(ItemsOf) = 0
        BY <1>1, ItemsAre DEF IInv
      <3> QED
        BY <3>1, EmptySeq
    <2>3. ItemsOf' = <<>>
      <3>1. /\ chain' \in Seq(Nodes) /\ Len(chain') = 1 /\ chain' # <<>>
            /\ \A p \in 2 .. Len(chain') : data'[chain'[p]] \in Data
            /\ 1 - 1 = 0
        BY <1>3
      <3>2. ItemsIn(chain', data') \in Seq(Data) /\ Len(ItemsIn(chain', data')) = 0
        BY <3>1, ItemsInType
      <3> QED
        BY <2>1, <3>2, ItemsAreNext, EmptySeq DEF IInv
    <2>4. asked' = <<"init", 0, NULL>> /\ status' = "NO_ERROR" /\ out' = <<>>
      BY <1>1, <1>3 DEF Return, Reply
    <2>5. L!Open
      BY <1>1, <2>1, <2>2, <2>3, <2>4 DEF L!Open, L!Reply
    <2> QED
      BY <1>1, <2>5 DEF L!Next
  <1> QED
    BY <1>2, <1>3 DEF ll_init

(* Where a loop stands on the p-th node. *)
LEMMA FollowingIs ==
  ASSUME LinksOK, NEW p \in 1 .. Len(chain), current = chain[p]
  PROVE  /\ Following = NULL => p = Len(chain)
         /\ Following # NULL => /\ p < Len(chain) /\ p + 1 \in 1 .. Len(chain)
                                /\ p \in 1 .. Len(chain) - 1
                                /\ Following = chain[p + 1]
  <1>1. Linked(chain, next, prev) /\ chain \in Seq(Nodes) /\ Len(chain) \in Nat
    BY DEF LinksOK
  <1>2. /\ p < Len(chain) => next[chain[p]] = chain[p + 1] /\ next[chain[p]] # NULL
        /\ p = Len(chain) => next[chain[p]] = NULL
    BY <1>1, LinkedFields
  <1> DEFINE l == Len(chain)
  <1>3. l \in Nat /\ p \in 1 .. l
    BY <1>1
  <1>4. /\ p < l => next[chain[p]] = chain[p + 1] /\ next[chain[p]] # NULL
        /\ p = l => next[chain[p]] = NULL
    BY <1>2
  <1> HIDE DEF l
  <1>5. \/ p < l /\ p + 1 \in 1 .. l /\ p \in 1 .. l - 1
        \/ p = l
    BY <1>3
  <1> QED
    BY <1>4, <1>5 DEF Following, l

(* A loop that is looking at the list: the items are there to be seen. *)
LEMMA LoopSeesItems ==
  ASSUME IInv, pc \in {"insert", "link", "remove", "search", "size", "dump"}
  PROVE  /\ LinksOK /\ head # NULL /\ chain # <<>> /\ status # "CRASHED"
         /\ chain \in Seq(Nodes) /\ Len(chain) \in Nat /\ Len(chain) >= 1
         /\ ItemsOf = ItemsIn(chain, data) /\ ItemsOf \in Seq(Data)
         /\ Len(ItemsOf) = Len(chain) - 1
         /\ \A p \in 1 .. Len(chain) - 1 : ItemsOf[p] = data[chain[p + 1]]
         /\ \E p \in 1 .. Len(chain) : current = chain[p]
         /\ index \in Indexes /\ count \in Int
  <1>1. LinksOK /\ HeadOK /\ WalksCount /\ count \in Int /\ index \in Indexes
        /\ status # "CRASHED"
    BY DEF IInv, LoopOK, Arguments
  <1>2. \E p \in 1 .. Len(chain) : current = chain[p]
    <2>1. count + 1 \in Int /\ count + 2 \in Int
      BY <1>1
    <2> QED
      BY <1>1, <2>1 DEF WalksCount
  <1>3. chain \in Seq(Nodes) /\ Len(chain) \in Nat
    BY <1>1 DEF LinksOK
  <1>4. Len(chain) >= 1
    BY <1>2, <1>3
  <1>5. chain # <<>>
    BY <1>3, <1>4, EmptySeq
  <1>6. head # NULL
    BY <1>1, <1>5 DEF HeadOK
  <1>7. pc # "destroy"
    OBVIOUS
  <1>8. /\ ItemsOf = ItemsIn(chain, data) /\ ItemsOf \in Seq(Data)
        /\ Len(ItemsOf) = IF chain = <<>> THEN 0 ELSE Len(chain) - 1
        /\ \A p \in 1 .. Len(chain) - 1 : ItemsOf[p] = data[chain[p + 1]]
    BY <1>1, <1>7, ItemsAre
  <1> QED
    BY <1>1, <1>2, <1>3, <1>4, <1>5, <1>6, <1>8

(* A call that returns and leaves the list as it was. *)
LEMMA ReturnSeen ==
  ASSUME pc # "destroy", NEW op, NEW code, NEW given,
         Return(op, code, given), UNCHANGED links
  PROVE  /\ L!Reply(op, index, item, code, given)
         /\ ItemsOf' = ItemsOf /\ (head' # NULL) = (head # NULL)
  <1>1. seen' = <<>>
    BY DEF Return, Reply
  <1>2. ItemsOf' = ItemsOf /\ (head' # NULL) = (head # NULL)
    BY <1>1, ItemsKept
  <1> QED
    BY <1>2 DEF Return, Reply, L!Reply

(* ll_search, ll_size and ll_dump say what the list of items says. *)
LEMMA AnswerIsStep ==
  ASSUME IInv, SearchHit \/ SearchEnd \/ SizeEnd \/ DumpEnd
  PROVE  L!Next
  <1>1. pc \in {"search", "size", "dump"} /\ pc # "destroy"
    BY DEF SearchHit, SearchEnd, SizeEnd, DumpEnd, Turn, AtLast
  <1> DEFINE l == Len(chain)
             its == ItemsOf
  <1>2. /\ LinksOK /\ head # NULL /\ status # "CRASHED" /\ l \in Nat /\ l >= 1
        /\ its \in Seq(Data) /\ Len(its) = l - 1
        /\ \A p \in 1 .. l - 1 : its[p] = data[chain[p + 1]]
        /\ count \in Int
    BY <1>1, LoopSeesItems
  <1>3. /\ count + 1 \in 1 .. l /\ current = chain[count + 1] /\ index = 0
        /\ count \in Nat
    BY <1>1, <1>2 DEF IInv, LoopOK, WalksCount, Arguments
  <1>4. /\ Following = NULL => count + 1 = l
        /\ Following # NULL => /\ count + 1 < l /\ count + 1 \in 1 .. l - 1
                               /\ Following = chain[(count + 1) + 1]
    BY <1>2, <1>3, FollowingIs
  <1>5. pc # "search" => item = NULL
    BY <1>1 DEF IInv, LoopOK, Arguments
  <1>6. ASSUME pc = "search"
        PROVE  /\ item \in Data
               /\ \A j \in 1 .. count : ~Compare(item, its[j])
    <2>1. item \in Data /\ \A j \in 1 .. count : ~Compare(item, data[chain[j + 1]])
      BY <1>6 DEF IInv, LoopOK, WalksCount
    <2>2. \A j \in 1 .. count : its[j] = data[chain[j + 1]]
      <3> HIDE DEF l, its
      <3>1. \A j \in 1 .. count : j \in 1 .. l - 1
        BY <1>2, <1>3
      <3> QED
        BY <1>2, <3>1
    <2> QED
      BY <2>1, <2>2
  <1>7. Following = NULL => count = Len(its)
    <2> HIDE DEF l, its
    <2> QED
      BY <1>2, <1>3, <1>4
  <1>8. CASE SearchHit
    <2>1. /\ pc = "search" /\ Following # NULL /\ Compare(item, data[Following])
          /\ Return("search", "NO_ERROR", <<count>>) /\ UNCHANGED links
      BY <1>8 DEF SearchHit, Turn
    <2>2. Compare(item, its[count + 1])
      BY <1>2, <1>4, <2>1
    <2>3. count \in 0 .. Len(its) - 1
      <3> HIDE DEF l, its
      <3> QED
        BY <1>2, <1>3, <1>4, <2>1
    <2>4. /\ L!Reply("search", 0, item, "NO_ERROR", <<count>>)
          /\ ItemsOf' = ItemsOf /\ (head' # NULL) = (head # NULL)
      BY <1>1, <1>3, <2>1, ReturnSeen
    <2>5. L!Answer("search", item, <<count>>)
      BY <1>2, <2>4 DEF L!Answer
    <2>6. L!Search(item)
      BY <1>6, <2>1, <2>2, <2>3, <2>5 DEF L!Search
    <2> QED
      BY <1>2, <1>6, <2>1, <2>6 DEF L!Next
  <1>9. CASE SearchEnd
    <2>1. /\ pc = "search" /\ Following = NULL
          /\ Return("search", "DATA_NOT_FOUND", <<>>) /\ UNCHANGED links
      BY <1>9 DEF SearchEnd, AtLast, Refuse
    <2>2. \A i \in 1 .. Len(its) : ~Compare(item, its[i])
      BY <1>6, <1>7, <2>1
    <2>3. /\ L!Reply("search", 0, item, "DATA_NOT_FOUND", <<>>)
          /\ ItemsOf' = ItemsOf /\ (head' # NULL) = (head # NULL)
      BY <1>1, <1>3, <2>1, ReturnSeen
    <2>4. L!Search(item)
      BY <1>2, <2>2, <2>3 DEF L!Search, L!Refuse
    <2> QED
      BY <1>2, <1>6, <2>1, <2>4 DEF L!Next
  <1>10. CASE SizeEnd
    <2>1. /\ pc = "size" /\ Following = NULL
          /\ Return("size", "NO_ERROR", <<count>>) /\ UNCHANGED links
      BY <1>10 DEF SizeEnd, AtLast
    <2>2. /\ L!Reply("size", 0, NULL, "NO_ERROR", <<count>>)
          /\ ItemsOf' = ItemsOf /\ (head' # NULL) = (head # NULL)
      <3>1. item = NULL
        BY <1>5, <2>1
      <3> QED
        BY <1>1, <1>3, <2>1, <3>1, ReturnSeen
    <2>3. L!Answer("size", NULL, <<Len(its)>>)
      BY <1>2, <1>7, <2>1, <2>2 DEF L!Answer
    <2> QED
      BY <1>2, <2>3 DEF L!Next
  <1>11. CASE DumpEnd
    <2>1. /\ pc = "dump" /\ Following = NULL
          /\ Return("dump", "NO_ERROR", seen) /\ UNCHANGED links
      BY <1>11 DEF DumpEnd, AtLast
    <2>2. /\ L!Reply("dump", 0, NULL, "NO_ERROR", seen)
          /\ ItemsOf' = ItemsOf /\ (head' # NULL) = (head # NULL)
      <3>1. item = NULL
        BY <1>5, <2>1
      <3> QED
        BY <1>1, <1>3, <2>1, <3>1, ReturnSeen
    <2>3. seen = its
      <3>1. seen = [j \in 1 .. (count + 1) - 1 |-> data[chain[j + 1]]]
        BY <2>1 DEF IInv, LoopOK, WalksCount
      <3>2. its = [p \in 1 .. Len(chain) - 1 |-> data[chain[p + 1]]]
        BY <1>1, LoopSeesItems DEF ItemsIn
      <3>3. (count + 1) - 1 = Len(chain) - 1
        BY <1>4, <2>1
      <3> QED
        BY <3>1, <3>2, <3>3
    <2>4. L!Answer("dump", NULL, its)
      BY <1>2, <2>2, <2>3 DEF L!Answer
    <2> QED
      BY <1>2, <2>4 DEF L!Next
  <1> QED
    BY <1>8, <1>9, <1>10, <1>11

(* Where the loop of ll_insert stopped: on the node of its index, or on the *)
(* last one with no node of that index behind it.                           *)
LEMMA LinkPlace ==
  ASSUME IInv, pc = "link"
  PROVE  \E p \in 1 .. Len(chain) :
           /\ current = chain[p]
           /\ \/ /\ InsertFound /\ index \in 0 .. Len(ItemsOf) - 1
                 /\ p - 1 = index + 1
              \/ /\ InsertFound => index \in {-1} \cup 0 .. Len(ItemsOf)
                 /\ ~InsertFound => index \notin {-1} \cup 0 .. Len(ItemsOf)
                 /\ index \notin 0 .. Len(ItemsOf) - 1
                 /\ p - 1 = Len(ItemsOf)
  <1> DEFINE l == Len(chain)
             m == Len(ItemsOf)
  <1>1. /\ LinksOK /\ l \in Nat /\ l >= 1 /\ m = l - 1 /\ count \in Nat
        /\ index \notin 0 .. count - 1 /\ index \in Int
    <2>1. LinksOK /\ l \in Nat /\ l >= 1 /\ m = l - 1 /\ index \in Indexes
      BY LoopSeesItems
    <2>2. count \in Nat /\ index \notin 0 .. count - 1
      BY DEF IInv, LoopOK, Arguments
    <2>3. Cardinality(Nodes) \in Nat
      BY LinkedListAssumption, FS_CardinalityType
    <2>4. index \in Int
      BY <2>1, <2>3 DEF Indexes
    <2> QED
      BY <2>1, <2>2, <2>4
  <1>2. CASE count + 2 \in 1 .. l /\ current = chain[count + 2] /\ count = index
    <2> DEFINE p == count + 2
    <2>1. /\ p \in 1 .. l /\ index \in 0 .. m - 1 /\ p - 1 = index + 1
          /\ InsertFound
      <3> HIDE DEF l, m
      <3> QED
        BY <1>1, <1>2 DEF InsertFound
    <2> QED
      BY <1>2, <2>1
  <1>3. CASE /\ count + 1 \in 1 .. l /\ current = chain[count + 1]
             /\ next[current] = NULL
    <2> DEFINE p == count + 1
    <2>1. p = l
      BY <1>1, <1>3, FollowingIs DEF Following
    <2>2. p \in 1 .. l /\ p - 1 = m /\ count = m /\ index \notin 0 .. m - 1
      <3> HIDE DEF l, m
      <3> QED
        BY <1>1, <1>3, <2>1
    <2>3. /\ InsertFound => index \in {-1} \cup 0 .. m
          /\ ~InsertFound => index \notin {-1} \cup 0 .. m
      <3> HIDE DEF l, m
      <3> QED
        BY <1>1, <2>2 DEF InsertFound, INSERT_AT_END
    <2> QED
      BY <1>3, <2>2, <2>3
  <1> QED
    BY <1>2, <1>3 DEF IInv, LoopOK, WalksCount

(* ll_insert. *)
LEMMA InsertIsStep ==
  ASSUME IInv, IInv', InsertLink
  PROVE  L!Next
  <1>1. pc = "link" /\ pc # "destroy" /\ item \in Data
    BY DEF InsertLink, IInv, LoopOK
  <1> DEFINE l == Len(chain)
             its == ItemsOf
             m == Len(ItemsOf)
  <1>2. /\ LinksOK /\ head # NULL /\ status # "CRASHED" /\ l \in Nat /\ l >= 1
        /\ its \in Seq(Data) /\ m = l - 1 /\ its = ItemsIn(chain, data)
        /\ index \in L!Indexes
    BY <1>1, LoopSeesItems, SameIndexes
  <1>3. PICK p \in 1 .. l :
          /\ current = chain[p]
          /\ \/ /\ InsertFound /\ index \in 0 .. m - 1
                /\ p - 1 = index + 1
             \/ /\ InsertFound => index \in {-1} \cup 0 .. m
                /\ ~InsertFound => index \notin {-1} \cup 0 .. m
                /\ index \notin 0 .. m - 1
                /\ p - 1 = m
    BY <1>1, LinkPlace
  <1>4. InsertFound => index \in {-1} \cup 0 .. m
    <2> HIDE DEF m
    <2>1. m \in Nat
      BY <1>2
    <2> QED
      BY <1>3, <2>1
  <1>5. CASE ~InsertFound /\ Refuse("insert", "INDEX_TOO_LARGE")
    <2>1. index \notin {-1} \cup 0 .. m
      BY <1>3, <1>5
    <2>2. /\ L!Reply("insert", index, item, "INDEX_TOO_LARGE", <<>>)
          /\ ItemsOf' = ItemsOf /\ (head' # NULL) = (head # NULL)
      BY <1>1, <1>5, ReturnSeen DEF Refuse
    <2>3. L!InsertTooFar(index, item)
      BY <1>2, <2>1, <2>2 DEF L!InsertTooFar, L!Refuse, L!AtEnd
    <2> QED
      BY <1>1, <1>2, <2>3 DEF L!Next
  <1>6. CASE InsertFound /\ Refuse("insert", "ALLOC_FAILURE")
    <2>1. /\ L!Reply("insert", index, item, "ALLOC_FAILURE", <<>>)
          /\ ItemsOf' = ItemsOf /\ (head' # NULL) = (head # NULL)
      BY <1>1, <1>6, ReturnSeen DEF Refuse
    <2>2. L!Insert(index, item)
      BY <1>2, <1>4, <1>6, <2>1 DEF L!Insert, L!Refuse, L!AtEnd
    <2> QED
      BY <1>1, <1>2, <2>2 DEF L!Next
  <1>7. ASSUME InsertFound, NEW n \in Nodes \ heap, LinkAfter(n),
               Return("insert", "NO_ERROR", <<>>)
        PROVE  L!Next
    <2>1. Place(current) = p
      BY <1>2, <1>3, PlaceIs
    <2>2. /\ head' = head /\ chain' = WithAfter(chain, p, n)
          /\ data' = [data EXCEPT ![n] = item]
      BY <1>7, <2>1 DEF LinkAfter, WithAfter
    <2>3. /\ chain \in Seq(Nodes) /\ n \in Nodes /\ n \notin Elements(chain)
          /\ \A q \in 2 .. Len(chain) : data[chain[q]] \in Data
          /\ data \in [Nodes -> Data \cup {NULL}]
      BY <1>2, <1>7 DEF LinksOK
    <2>4. \A k \in Nodes : data'[k] = IF k = n THEN item ELSE data[k]
      BY <2>2, <2>3
    <2>5. ItemsIn(chain', data') = WithAfter(its, p - 1, item)
      <3>1. ItemsIn(WithAfter(chain, p, n), data') = WithAfter(ItemsIn(chain, data), p - 1, item)
        BY <1>1, <1>3, <2>3, <2>4, ItemsInsert
      <3> QED
        BY <1>2, <2>2, <3>1
    <2>6. pc' # "destroy" /\ asked' = <<"insert", index, item>>
          /\ status' = "NO_ERROR" /\ out' = <<>>
      BY <1>7 DEF Return, Reply
    <2>7. ItemsOf' = WithAfter(its, p - 1, item)
      BY <2>5, <2>6, ItemsAreNext DEF IInv
    <2>8. p - 1 = IF index \in 0 .. Len(its) - 1 THEN index + 1 ELSE Len(its)
      BY <1>3, <1>7
    <2>9. L!Insert(index, item)
      <3> HIDE DEF its
      <3>1. ItemsOf' = LET at == IF index \in 0 .. Len(its) - 1 THEN index + 1 ELSE Len(its)
                       IN  WithAfter(its, at, item)
        BY <2>7, <2>8
      <3> USE DEF its
      <3> QED
        BY <1>2, <1>4, <1>7, <2>2, <2>6, <3>1 DEF L!Insert, L!Reply, L!AtEnd, WithAfter
    <2> QED
      BY <1>1, <1>2, <2>9 DEF L!Next
  <1> QED
    BY <1>5, <1>6, <1>7 DEF InsertLink

(* Where the loop of ll_remove stopped. *)
LEMMA RemovePlace ==
  ASSUME IInv, pc = "remove", RemoveStops
  PROVE  \E p \in 1 .. Len(chain) :
           /\ current = chain[p]
           /\ ~RemoveFound => index \notin {-1} \cup 0 .. Len(ItemsOf) - 1
           /\ p > 1 /\ RemoveFound =>
                /\ index \in {-1} \cup 0 .. Len(ItemsOf) - 1
                /\ p - 1 = IF index = -1 THEN Len(ItemsOf) ELSE index + 1
           /\ p = 1 /\ RemoveFound => Len(ItemsOf) = 0 /\ index = -1
  <1> DEFINE l == Len(chain)
             m == Len(ItemsOf)
             p == count + 2
  <1>1. /\ LinksOK /\ l \in Nat /\ l >= 1 /\ m = l - 1 /\ count \in Int
        /\ index \in Int
    <2>1. LinksOK /\ l \in Nat /\ l >= 1 /\ m = l - 1 /\ index \in Indexes /\ count \in Int
      BY LoopSeesItems
    <2>2. Cardinality(Nodes) \in Nat
      BY LinkedListAssumption, FS_CardinalityType
    <2>3. index \in Int
      BY <2>1, <2>2 DEF Indexes
    <2> QED
      BY <2>1, <2>3
  <1>2. p \in 1 .. l /\ current = chain[p] /\ index \notin 0 .. count - 1
    BY DEF IInv, LoopOK, WalksCount
  <1>3. Following = NULL => p = l
    BY <1>1, <1>2, FollowingIs
  <1>4. \/ p = l
        \/ count # -1 /\ count = index
    BY <1>3 DEF RemoveStops, REMOVE_AT_END
  <1>5. RemoveFound <=> index = -1 \/ count = index
    BY DEF RemoveFound, REMOVE_AT_END
  <1>6. ~RemoveFound => index \notin {-1} \cup 0 .. m - 1
    <2> HIDE DEF l, m
    <2> QED
      BY <1>1, <1>2, <1>4, <1>5
  <1>7. p > 1 /\ RemoveFound =>
          /\ index \in {-1} \cup 0 .. m - 1
          /\ p - 1 = IF index = -1 THEN m ELSE index + 1
    <2> HIDE DEF l, m
    <2>1. CASE index = -1
      BY <1>1, <1>2, <1>4, <2>1
    <2>2. CASE index # -1
      BY <1>1, <1>2, <1>5, <2>2
    <2> QED
      BY <2>1, <2>2
  <1>8. p = 1 /\ RemoveFound => m = 0 /\ index = -1
    <2> HIDE DEF l, m
    <2> QED
      BY <1>1, <1>2, <1>4, <1>5
  <1> QED
    BY <1>2, <1>6, <1>7, <1>8

(* ll_remove, and what it does to the sentinel of an empty list. *)
LEMMA RemoveIsStep ==
  ASSUME IInv, IInv', RemoveUnlink
  PROVE  L!Next
  <1>1. pc = "remove" /\ RemoveStops /\ pc # "destroy" /\ item = NULL
    BY DEF RemoveUnlink, IInv, LoopOK, Arguments
  <1> DEFINE l == Len(chain)
             its == ItemsOf
             m == Len(ItemsOf)
  <1>2. /\ LinksOK /\ head # NULL /\ status # "CRASHED" /\ l \in Nat /\ l >= 1
        /\ its \in Seq(Data) /\ m = l - 1 /\ its = ItemsIn(chain, data)
        /\ \A p \in 1 .. l - 1 : its[p] = data[chain[p + 1]]
        /\ index \in L!Indexes /\ HeadOK
    BY <1>1, LoopSeesItems, SameIndexes DEF IInv
  <1>3. PICK p \in 1 .. l :
          /\ current = chain[p]
          /\ ~RemoveFound => index \notin {-1} \cup 0 .. m - 1
          /\ p > 1 /\ RemoveFound =>
               /\ index \in {-1} \cup 0 .. m - 1
               /\ p - 1 = IF index = -1 THEN m ELSE index + 1
          /\ p = 1 /\ RemoveFound => m = 0 /\ index = -1
    BY <1>1, RemovePlace
  <1>4. p > 1 \/ p = 1
    BY <1>2
  <1>5. /\ p = 1 => prev[current] = NULL
        /\ p > 1 => prev[current] # NULL
    <2>1. Linked(chain, next, prev) /\ chain \in Seq(Nodes)
      BY <1>2 DEF LinksOK
    <2>2. p > 1 => prev[chain[p]] # NULL
      BY <2>1, LinkedFields
    <2>3. prev[chain[1]] = NULL
      BY <1>2 DEF HeadOK
    <2> QED
      BY <1>3, <2>2, <2>3
  <1>6. CASE ~RemoveFound /\ Refuse("remove", "INDEX_TOO_LARGE")
    <2>1. /\ L!Reply("remove", index, NULL, "INDEX_TOO_LARGE", <<>>)
          /\ ItemsOf' = ItemsOf /\ (head' # NULL) = (head # NULL)
      BY <1>1, <1>6, ReturnSeen DEF Refuse
    <2>2. L!RemoveTooFar(index)
      BY <1>2, <1>3, <1>6, <2>1 DEF L!RemoveTooFar, L!Refuse, L!AtEnd
    <2> QED
      BY <1>2, <2>2 DEF L!Next
  <1>7. CASE /\ RemoveFound /\ prev[current] # NULL /\ Unlink
             /\ Return("remove", "NO_ERROR", <<data[current]>>)
    <2>1. Place(current) = p
      BY <1>2, <1>3, PlaceIs
    <2>2. /\ head' = head /\ chain' = Without(chain, p)
          /\ data' = [data EXCEPT ![current] = NULL]
      BY <1>7, <2>1 DEF Unlink, Unchain, Without, Cleared
    <2>3. p > 1 /\ p \in 2 .. l /\ p - 1 \in 1 .. l - 1 /\ (p - 1) + 1 = p
      <3>1. p > 1
        BY <1>4, <1>5, <1>7
      <3> HIDE DEF l
      <3> QED
        BY <1>2, <3>1
    <2>4. /\ chain \in Seq(Nodes)
          /\ \A q \in 2 .. Len(chain) : data[chain[q]] \in Data
          /\ \A q, r \in 1 .. Len(chain) : chain[q] = chain[r] => q = r
          /\ data \in [Nodes -> Data \cup {NULL}]
      BY <1>2 DEF LinksOK, Linked
    <2>5. \A k \in Nodes : k # chain[p] => data'[k] = data[k]
      BY <1>3, <2>2, <2>4
    <2>6. ItemsIn(Without(chain, p), data') = Without(ItemsIn(chain, data), p - 1)
      <3>1. p \in 2 .. Len(chain) /\ chain \in Seq(Nodes)
        BY <2>3, <2>4
      <3>2. \A q \in 2 .. Len(chain) : data[chain[q]] \in Data
        BY <2>4
      <3>3. \A q, r \in 1 .. Len(chain) : chain[q] = chain[r] => q = r
        BY <2>4
      <3> HIDE DEF l, its, m
      <3> QED
        BY <3>1, <3>2, <3>3, <2>5, ItemsRemove
    <2>7. pc' # "destroy" /\ asked' = <<"remove", index, NULL>>
          /\ status' = "NO_ERROR" /\ out' = <<data[current]>>
      BY <1>1, <1>7 DEF Return, Reply
    <2>8. ItemsOf' = Without(its, p - 1)
      BY <1>2, <2>2, <2>6, <2>7, ItemsAreNext DEF IInv
    <2>9. data[current] = its[p - 1]
      BY <1>2, <1>3, <2>3
    <2>10. index \in {-1} \cup 0 .. m - 1
           /\ p - 1 = IF index = -1 THEN m ELSE index + 1
      BY <1>3, <1>7, <2>3
    <2>11. its # <<>>
      <3>1. m > 0
        <4> HIDE DEF l, m
        <4> QED
          BY <1>2, <2>3
      <3>2. Len(<<>>) = 0
        BY EmptySeq
      <3> QED
        BY <3>1, <3>2
    <2>12. L!Remove(index)
      <3> HIDE DEF its
      <3>1. /\ ItemsOf' = LET at == IF index = -1 THEN m ELSE index + 1
                          IN  Without(its, at)
            /\ out' = LET at == IF index = -1 THEN m ELSE index + 1
                      IN  <<its[at]>>
        BY <2>7, <2>8, <2>9, <2>10
      <3> USE DEF its
      <3> QED
        BY <1>2, <2>2, <2>7, <2>10, <2>11, <3>1 DEF L!Remove, L!Reply, L!AtEnd, Without
    <2> QED
      BY <1>2, <2>12 DEF L!Next
  <1>8. CASE /\ RemoveFound /\ prev[current] = NULL
             /\ pc' = "crashed" /\ UNCHANGED links /\ seen' = <<>>
             /\ asked' = <<"remove", index, item>> /\ status' = "CRASHED" /\ out' = <<>>
    <2>1. m = 0 /\ index = -1
      BY <1>3, <1>4, <1>5, <1>8
    <2>2. its = <<>>
      BY <1>2, <2>1, EmptySeq
    <2>3. ItemsOf' = ItemsOf /\ (head' # NULL) = (head # NULL)
      BY <1>1, <1>8, ItemsKept
    <2>4. L!RemoveFromNothing
      BY <1>1, <1>2, <1>8, <2>1, <2>2, <2>3
         DEF L!RemoveFromNothing, L!Refuse, L!Reply, L!AtEnd
    <2> QED
      BY <1>2, <2>4 DEF L!Next
  <1> QED
    BY <1>6, <1>7, <1>8 DEF RemoveUnlink

(* A turn of the loop of ll_destroy moves an item from the nodes to what    *)
(* was freed: the client still owns it.                                     *)
LEMMA DestroyWalkStutters ==
  ASSUME IInv, DestroyWalk
  PROVE  UNCHANGED L!listVars
  <1>1. pc = "destroy" /\ LinksOK /\ head # NULL
    BY DEF IInv, LoopOK, Arguments, DestroyWalk, Turn
  <1>2. /\ 1 \in 1 .. Len(chain) /\ current = chain[1] /\ seen \in Seq(Data)
        /\ Len(chain) \in Nat /\ chain \in Seq(Nodes) /\ chain # <<>>
        /\ index = 0 /\ item = NULL /\ status # "CRASHED"
        /\ \A q \in 2 .. Len(chain) : data[chain[q]] \in Data
        /\ data \in [Nodes -> Data \cup {NULL}]
    <2>1. 1 \in 1 .. Len(chain) /\ chain \in Seq(Nodes)
      BY <1>1 DEF IInv, LoopOK, WalksCount, LinksOK
    <2>2. chain # <<>>
      BY <2>1, EmptySeq
    <2> QED
      BY <1>1, <2>1, <2>2 DEF IInv, LoopOK, WalksCount, LinksOK, Arguments
  <1>3. /\ Following = NULL => Len(chain) = 1
        /\ Following # NULL => Len(chain) > 1 /\ Following = chain[2]
    <2>1. 1 + 1 = 2
      OBVIOUS
    <2>2. /\ Following = NULL => 1 = Len(chain)
          /\ Following # NULL => 1 < Len(chain) /\ Following = chain[1 + 1]
      BY <1>1, <1>2, FollowingIs
    <2> QED
      BY <1>2, <2>1, <2>2
  <1>4. ItemsOf = seen \o ItemsIn(chain, data)
    BY <1>1 DEF ItemsOf, ItemsIn
  <1>5. /\ Following # NULL /\ pc' = "destroy" /\ head' = head
        /\ asked' = asked /\ status' = status /\ out' = out
        /\ seen' = Append(seen, data[Following])
        /\ chain' = Tail(chain) /\ Free(prev[Following])
    BY <1>1 DEF DestroyWalk, Turn, Advance, answer
  <1>6. Len(chain) > 1 /\ Following = chain[2]
    BY <1>3, <1>5
  <1>7. prev[Following] = current
    <2>1. 1 \in 1 .. Len(chain) - 1 /\ 1 + 1 = 2
      BY <1>2, <1>6
    <2>2. prev[chain[1 + 1]] = chain[1]
      BY <1>1, <2>1 DEF LinksOK, Linked
    <2> QED
      BY <1>2, <1>6, <2>1, <2>2
  <1>8. data' = [data EXCEPT ![current] = NULL]
    BY <1>5, <1>7 DEF Free, Cleared
  <1>9. \A q \in 2 .. Len(chain) : data'[chain[q]] = data[chain[q]]
    <2>1. \A q \in 2 .. Len(chain) : q # 1 /\ q \in 1 .. Len(chain)
      BY <1>2
    <2>2. \A q \in 2 .. Len(chain) : chain[q] # chain[1] /\ chain[q] \in Nodes
      BY <1>1, <1>2, <2>1 DEF LinksOK, Linked
    <2> QED
      BY <1>2, <1>8, <2>2
  <1>10. /\ chain' \in Seq(Nodes) /\ Len(chain') = Len(chain) - 1
        /\ \A i \in 1 .. Len(chain) - 1 : chain'[i] = chain[i + 1]
    BY <1>2, <1>5
  <1>11. FreedThen(seen, chain, data) = FreedThen(seen', chain', data')
    <2>1. /\ chain \in Seq(Nodes) /\ chain' \in Seq(Nodes) /\ seen \in Seq(Data)
          /\ Len(chain) > 1 /\ Len(chain') = Len(chain) - 1
      BY <1>2, <1>6, <1>10
    <2>2. \A q \in 2 .. Len(chain) : data[chain[q]] \in Data
      BY <1>2
    <2>3. \A i \in 1 .. Len(chain) - 1 : chain'[i] = chain[i + 1]
      BY <1>10
    <2>4. seen' = Append(seen, data[chain[2]])
      BY <1>5, <1>6
    <2>5. FirstFreed(seen, chain, data, seen', chain', data')
      BY <1>9, <2>1, <2>2, <2>3, <2>4 DEF FirstFreed
    <2> QED
      BY <2>1, <2>5, ItemsFreed
  <1>12. ItemsOf' = FreedThen(seen', chain', data')
    BY <1>5 DEF ItemsOf, ItemsIn, FreedThen
  <1>13. ItemsOf' = ItemsOf
    BY <1>4, <1>11, <1>12 DEF FreedThen
  <1> QED
    BY <1>5, <1>13 DEF L!listVars

(* ll_destroy is seen as one step, when the last node is freed.            *)
LEMMA DestroyIsStep ==
  ASSUME IInv, IInv', DestroyWalk \/ DestroyEnd
  PROVE  [L!Next]_(L!listVars)
  <1>1. pc = "destroy" /\ LinksOK /\ LinksOK' /\ head # NULL
    BY DEF IInv, LoopOK, Arguments, DestroyWalk, DestroyEnd, Turn, AtLast
  <1>2. /\ 1 \in 1 .. Len(chain) /\ current = chain[1] /\ seen \in Seq(Data)
        /\ Len(chain) \in Nat /\ chain \in Seq(Nodes) /\ chain # <<>>
        /\ index = 0 /\ item = NULL /\ status # "CRASHED"
        /\ \A q \in 2 .. Len(chain) : data[chain[q]] \in Data
        /\ data \in [Nodes -> Data \cup {NULL}]
    <2>1. 1 \in 1 .. Len(chain) /\ chain \in Seq(Nodes)
      BY <1>1 DEF IInv, LoopOK, WalksCount, LinksOK
    <2>2. chain # <<>>
      BY <2>1, EmptySeq
    <2> QED
      BY <1>1, <2>1, <2>2 DEF IInv, LoopOK, WalksCount, LinksOK, Arguments
  <1>3. /\ Following = NULL => Len(chain) = 1
        /\ Following # NULL => Len(chain) > 1 /\ Following = chain[2]
    <2>1. 1 + 1 = 2
      OBVIOUS
    <2>2. /\ Following = NULL => 1 = Len(chain)
          /\ Following # NULL => 1 < Len(chain) /\ Following = chain[1 + 1]
      BY <1>1, <1>2, FollowingIs
    <2> QED
      BY <1>2, <2>1, <2>2
  <1>4. ItemsOf = seen \o ItemsIn(chain, data)
    BY <1>1 DEF ItemsOf, ItemsIn
  <1>5. CASE DestroyWalk
    BY <1>5, DestroyWalkStutters
  <1>6. CASE DestroyEnd
    <2>1. /\ Following = NULL /\ head' = NULL /\ chain' = <<>>
          /\ pc' = "idle" /\ asked' = <<"destroy", 0, NULL>>
          /\ status' = "NO_ERROR" /\ out' = seen
      BY <1>2, <1>6 DEF DestroyEnd, AtLast, Return, Reply
    <2>2. Len(chain) = 1
      BY <1>3, <2>1
    <2>3. ItemsOf = seen
      <3>1. ItemsIn(chain, data) \in Seq(Data) /\ Len(ItemsIn(chain, data)) = Len(chain) - 1
        BY <1>2, ItemsInType
      <3>2. ItemsIn(chain, data) = <<>>
        BY <2>2, <3>1, EmptySeq
      <3> QED
        BY <1>2, <1>4, <3>2, ConcatEmptySeq
    <2>4. ItemsOf' = <<>>
      <3>1. ItemsOf' = ItemsIn(chain', data')
        BY <1>1, <2>1, ItemsAreNext
      <3>2. <<>> \in Seq(Nodes) /\ Len(<<>>) = 0
        BY EmptySeq
      <3>3. ItemsIn(<<>>, data') \in Seq(Data) /\ Len(ItemsIn(<<>>, data')) = 0
        <4> DEFINE d2 == data'
        <4>1. \A q \in 2 .. Len(<<>>) : d2[<<>>[q]] \in Data
          BY <3>2
        <4> HIDE DEF d2
        <4>2. ItemsIn(<<>>, d2) \in Seq(Data) /\ Len(ItemsIn(<<>>, d2)) = 0
          BY <3>2, <4>1, ItemsInType
        <4> QED
          BY <4>2 DEF d2
      <3> QED
        BY <2>1, <3>1, <3>3, EmptySeq
    <2>5. L!Destroy
      BY <1>1, <2>1, <2>3, <2>4 DEF L!Destroy, L!Reply
    <2> QED
      BY <1>2, <2>5 DEF L!Next
  <1> QED
    BY <1>5, <1>6

----------------------------------------------------------------------------
(* What each call answered, and made of the items.                          *)
Answered(code, given) == pc' = "idle" /\ status' = code /\ out' = given
Same == head' = head /\ ItemsOf' = ItemsOf

InsertAnswers(x, i) ==
  LET n == Len(ItemsOf)
  IN  \/ /\ i \in {-1} \cup 0 .. n /\ Answered("NO_ERROR", <<>>) /\ head' = head
         /\ ItemsOf' = WithAfter(ItemsOf, IF i \in 0 .. n - 1 THEN i + 1 ELSE n, x)
      \/ i \in {-1} \cup 0 .. n /\ Answered("ALLOC_FAILURE", <<>>) /\ Same
      \/ i \notin {-1} \cup 0 .. n /\ Answered("INDEX_TOO_LARGE", <<>>) /\ Same

RemoveAnswers(i) ==
  LET n == Len(ItemsOf)
      p == IF i = -1 THEN n ELSE i + 1
  IN  \/ /\ ItemsOf # <<>> /\ i \in {-1} \cup 0 .. n - 1
         /\ Answered("NO_ERROR", <<ItemsOf[p]>>) /\ head' = head
         /\ ItemsOf' = Without(ItemsOf, p)
      \/ i \notin {-1} \cup 0 .. n - 1 /\ Answered("INDEX_TOO_LARGE", <<>>) /\ Same
      \/ ItemsOf = <<>> /\ i = -1 /\ status' = "CRASHED"

SearchAnswers(x) ==
  \E i \in 0 .. Len(ItemsOf) - 1 :
    /\ Compare(x, ItemsOf[i + 1]) /\ \A j \in 1 .. i : ~Compare(x, ItemsOf[j])
    /\ Answered("NO_ERROR", <<i>>) /\ Same

LEMMA InsertSays ==
  ASSUME IInv, IInv', InsertLink
  PROVE  InsertAnswers(item, index)
  <1>1. L!Next
    BY InsertIsStep
  <1>2. /\ asked' = <<"insert", index, item>> /\ pc' = "idle" /\ head' = head
        /\ status' \in {"NO_ERROR", "ALLOC_FAILURE", "INDEX_TOO_LARGE"}
    BY DEF InsertLink, Refuse, Return, Reply, LinkAfter, links
  <1>3. L!Insert(index, item) \/ L!InsertTooFar(index, item)
    BY <1>1, <1>2 DEF L!Next, L!Open, L!Destroy, L!RemoveFromNothing, L!Answer,
       L!NullPointer, L!Remove, L!RemoveTooFar, L!Insert, L!InsertTooFar, L!Search,
       L!Refuse, L!Reply
  <1> QED
    BY <1>2, <1>3 DEF L!Insert, L!InsertTooFar, L!Refuse, L!Reply, L!AtEnd,
       InsertAnswers, Answered, Same, WithAfter

LEMMA RemoveSays ==
  ASSUME IInv, IInv', RemoveUnlink
  PROVE  RemoveAnswers(index)
  <1>1. L!Next
    BY RemoveIsStep
  <1>2. /\ asked' = <<"remove", index, item>> /\ head' = head
        /\ \/ pc' = "idle" /\ status' \in {"NO_ERROR", "INDEX_TOO_LARGE"}
           \/ status' = "CRASHED"
    BY DEF RemoveUnlink, Refuse, Return, Reply, Unlink, links
  <1>3. L!Remove(index) \/ L!RemoveTooFar(index) \/ (L!RemoveFromNothing /\ index = -1)
    BY <1>1, <1>2 DEF L!Next, L!Open, L!Destroy, L!RemoveFromNothing, L!Answer,
       L!NullPointer, L!Remove, L!RemoveTooFar, L!Insert, L!InsertTooFar, L!Search,
       L!Refuse, L!Reply, L!AtEnd
  <1> QED
    BY <1>2, <1>3 DEF L!Remove, L!RemoveTooFar, L!RemoveFromNothing, L!Refuse, L!Reply,
       L!AtEnd, RemoveAnswers, Answered, Same, Without

LEMMA SearchSays ==
  ASSUME IInv, SearchHit
  PROVE  SearchAnswers(item)
  <1>1. L!Next
    BY AnswerIsStep
  <1>2. /\ asked' = <<"search", index, item>> /\ pc' = "idle" /\ head' = head
        /\ status' = "NO_ERROR"
    BY DEF SearchHit, Return, Reply, links
  <1>3. L!Search(item)
    BY <1>1, <1>2 DEF L!Next, L!Open, L!Destroy, L!RemoveFromNothing, L!Answer,
       L!NullPointer, L!Remove, L!RemoveTooFar, L!Insert, L!InsertTooFar, L!Search,
       L!Refuse, L!Reply
  <1> QED
    BY <1>2, <1>3 DEF L!Search, L!Answer, L!Refuse, L!Reply, SearchAnswers, Answered, Same

LEMMA SizeSays ==
  ASSUME IInv, SizeEnd
  PROVE  Answered("NO_ERROR", <<Len(ItemsOf)>>) /\ Same
  <1>1. L!Next
    BY AnswerIsStep
  <1>2. /\ asked' = <<"size", index, item>> /\ pc' = "idle" /\ head' = head
        /\ status' = "NO_ERROR"
    BY DEF SizeEnd, Return, Reply, links
  <1>3. L!Answer("size", NULL, <<Len(ItemsOf)>>)
    BY <1>1, <1>2 DEF L!Next, L!Open, L!Destroy, L!RemoveFromNothing, L!Answer,
       L!NullPointer, L!Remove, L!RemoveTooFar, L!Insert, L!InsertTooFar, L!Search,
       L!Refuse, L!Reply
  <1> QED
    BY <1>2, <1>3 DEF L!Answer, L!Reply, Answered, Same

LEMMA DestroySays ==
  ASSUME IInv, IInv', DestroyEnd
  PROVE  Answered("NO_ERROR", ItemsOf) /\ head' = NULL
  <1>1. [L!Next]_(L!listVars)
    BY DestroyIsStep
  <1>2. /\ asked' = <<"destroy", index, item>> /\ pc' = "idle" /\ head' = NULL
        /\ status' = "NO_ERROR"
    BY DEF DestroyEnd, Return, Reply
  <1>3. pc = "destroy" /\ head # NULL
    BY DEF DestroyEnd, AtLast, IInv, LoopOK, Arguments
  <1>4. L!Next
    BY <1>1, <1>2, <1>3 DEF L!listVars
  <1>5. L!Destroy
    BY <1>2, <1>4 DEF L!Next, L!Open, L!Destroy, L!RemoveFromNothing, L!Answer,
       L!NullPointer, L!Remove, L!RemoveTooFar, L!Insert, L!InsertTooFar, L!Search,
       L!Refuse, L!Reply
  <1> QED
    BY <1>2, <1>5 DEF L!Destroy, L!Reply, Answered

(* A call that starts leaves what the client sees, and knows its arguments. *)
Begins(op, i, x) ==
  pc' = op /\ index' = i /\ item' = x /\ Same /\ UNCHANGED <<status, out>>

LEMMA CallSays ==
  ASSUME IInv, NEW op, NEW from, NEW i, NEW x, NEW args,
         Callable(op, from, i, x, args), Call(op, from, i, x, args)
  PROVE  \/ (head = NULL \/ ~args) /\ Answered("NULL_POINTER", <<>>) /\ Same
         \/ head # NULL /\ args /\ Begins(op, i, x)
  <1>1. pc = "idle" /\ pc # "destroy"
    BY DEF Call
  <1>2. CASE (head = NULL \/ ~args) /\ Reply(op, i, x, "NULL_POINTER", <<>>) /\ UNCHANGED links
    <2>1. pc' = "idle" /\ status' = "NULL_POINTER" /\ out' = <<>> /\ seen' = <<>>
      BY <1>2 DEF Reply
    <2>2. ItemsOf' = ItemsOf /\ head' = head
      BY <1>1, <1>2, <2>1, ItemsKept DEF links
    <2> QED
      BY <1>2, <2>1, <2>2 DEF Answered, Same
  <1>3. CASE /\ head # NULL /\ args
             /\ pc' = op /\ index' = i /\ item' = x /\ seen' = <<>>
             /\ UNCHANGED <<links, answer>>
    <2>1. ItemsOf' = ItemsOf /\ head' = head
      BY <1>1, <1>3, ItemsKept DEF links
    <2> QED
      BY <1>3, <2>1 DEF Begins, Same, answer
  <1> QED
    BY <1>2, <1>3 DEF Call

LEMMA InitSays ==
  ASSUME IInv, IInv', ll_init(TRUE)
  PROVE  \/ Answered("NO_ERROR", <<>>) /\ head' # NULL /\ ItemsOf' = <<>>
         \/ Answered("ALLOC_FAILURE", <<>>)
  <1>1. L!Next
    BY InitIsStep
  <1>2. pc' = "idle" /\ asked' = <<"init", index, item>>
        /\ status' \in {"NO_ERROR", "ALLOC_FAILURE"}
    BY DEF ll_init, Refuse, Return, Reply
  <1>3. L!Open
    BY <1>1, <1>2 DEF L!Next, L!Open, L!Destroy, L!RemoveFromNothing, L!Answer,
       L!NullPointer, L!Remove, L!RemoveTooFar, L!Insert, L!InsertTooFar, L!Search,
       L!Refuse, L!Reply
  <1>4. head = NULL => ItemsOf = <<>>
    <2>1. ASSUME head = NULL PROVE ItemsOf = <<>>
      <3>1. pc # "destroy" /\ chain = <<>>
        BY <2>1 DEF ll_init, IInv, HeadOK
      <3>2. ItemsOf \in Seq(Data) /\ Len(ItemsOf) = 0
        BY <3>1, ItemsAre DEF IInv
      <3> QED
        BY <3>2, EmptySeq
    <2> QED
      BY <2>1
  <1>5. head = NULL
    BY DEF ll_init
  <1> QED
    BY <1>2, <1>3, <1>4, <1>5 DEF L!Open, L!Refuse, L!Reply, Answered

(* A turn of a loop: the call goes on, and the client sees no difference.   *)
Continues == Same /\ UNCHANGED <<index, item, status, out>>

LEMMA WalkSays ==
  ASSUME IInv,
         \/ InsertWalk \/ InsertBreak \/ InsertStop \/ RemoveWalk
         \/ SearchWalk \/ SizeWalk \/ DumpWalk
  PROVE  Continues
  <1>1. UNCHANGED L!listVars
    BY WalkStutters
  <1>2. UNCHANGED <<head, index, item>>
    BY DEF InsertWalk, InsertBreak, InsertStop, RemoveWalk, SearchWalk, SizeWalk,
           DumpWalk, Visit, Turn, AtLast, Advance, links
  <1> QED
    BY <1>1, <1>2 DEF L!listVars, Continues, Same

LEMMA DestroyWalkSays ==
  ASSUME IInv, DestroyWalk
  PROVE  Continues
  <1>1. UNCHANGED L!listVars
    BY DestroyWalkStutters
  <1>2. UNCHANGED <<head, index, item>>
    BY DEF DestroyWalk, Advance
  <1> QED
    BY <1>1, <1>2 DEF L!listVars, Continues, Same
----------------------------------------------------------------------------
LEMMA InitIsInit == Init => L!Init
  <1> SUFFICES ASSUME Init PROVE L!Init
    OBVIOUS
  <1>1. LinksOK /\ pc # "destroy" /\ chain = <<>>
    BY IInvInit DEF Init, IInv
  <1>2. ItemsOf \in Seq(Data) /\ Len(ItemsOf) = 0
    BY <1>1, ItemsAre
  <1>3. ItemsOf = <<>>
    BY <1>2, EmptySeq
  <1> QED
    BY <1>3 DEF Init, L!Init

LEMMA NextIsStep == IInv /\ IInv' /\ [Next]_vars => [L!Next]_(L!listVars)
  <1> SUFFICES ASSUME IInv, IInv', [Next]_vars
               PROVE  [L!Next]_(L!listVars)
    OBVIOUS
  <1>1. CASE UNCHANGED vars
    BY <1>1 DEF vars, links, loop, answer, L!listVars, ItemsOf
  <1>2. CASE Crashed
    BY <1>2 DEF Crashed, vars, links, loop, answer, L!listVars, ItemsOf
  <1>3. CASE \E given \in BOOLEAN : ll_init(given)
    BY <1>3, InitIsStep
  <1>4. CASE \/ InsertWalk \/ InsertBreak \/ InsertStop \/ RemoveWalk
             \/ SearchWalk \/ SizeWalk \/ DumpWalk
    BY <1>4, WalkStutters
  <1>5. CASE SearchHit \/ SearchEnd \/ SizeEnd \/ DumpEnd
    BY <1>5, AnswerIsStep
  <1>6. CASE InsertLink
    BY <1>6, InsertIsStep
  <1>7. CASE RemoveUnlink
    BY <1>7, RemoveIsStep
  <1>8. CASE DestroyWalk \/ DestroyEnd
    BY <1>8, DestroyIsStep
  <1> QED
    BY <1>1, <1>2, <1>3, <1>4, <1>5, <1>6, <1>7, <1>8, AnyCallIsStep DEF Next

(* Every sequence of calls of linkedlist.c is one of the list of items: the *)
(* indexes, the answers, what is handed over and what is freed agree, for   *)
(* any number of nodes.                                                     *)
THEOREM Implements == Spec => ImplementsList
  <1>1. IInv /\ IInv' /\ [Next]_vars => [L!Next]_(L!listVars)
    BY NextIsStep
  <1> QED
    BY <1>1, InitIsInit, Invariance, PTL DEF Spec, ImplementsList, L!Spec
=============================================================================
