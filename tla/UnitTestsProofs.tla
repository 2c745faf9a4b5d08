---------------------------- MODULE UnitTestsProofs ----------------------------
(***************************************************************************)
(* Proofs about the unit tests, for every BUF_SIZE, HALF_LIST_SIZE, set of  *)
(* values and number of failed allocations: the tests are legal clients of  *)
(* both containers, and the containers answer them as the tests assert.     *)
(***************************************************************************)
EXTENDS UnitTests, FiniteSetTheorems, TLAPS

(* The containers again, with the theorems about them.                     *)
C == INSTANCE CircBufProofs WITH
  asked <- ring_asked, MaxLength <- BUF_SIZE, PtrBytes <- 2, Payloads <- 0 .. BUF_SIZE

P == INSTANCE LinkedListProofs WITH
  head <- p_head, count <- walked, status <- ll_status, out <- ll_out,
  Data <- [id : 1 .. MaxPayloads, val : Vals], Compare <- compare

(* Their assumptions hold of what the tests give them. *)
LEMMA RingAssumption == C!CircBufAssumption
  BY UnitTestsAssumption DEF C!CircBufAssumption

LEMMA SizesAreNumbers ==
  /\ BUF_SIZE \in Nat /\ BUF_SIZE >= 2 /\ HALF_LIST_SIZE \in Nat /\ HALF_LIST_SIZE >= 4
  /\ MaxPayloads = HALF_LIST_SIZE + 1 /\ MaxPayloads \in Nat
  /\ MaxFails \in Nat
  BY UnitTestsAssumption DEF MaxPayloads

LEMMA ListAssumption == P!LinkedListAssumption
  <1>1. P!IsFiniteSet(Nodes)
    <2>1. MaxPayloads + 1 \in Int /\ 1 \in Int
      BY SizesAreNumbers
    <2>2. IsFiniteSet(Nodes)
      BY <2>1, FS_Interval DEF Nodes
    <2> QED
      BY <2>2 DEF P!IsFiniteSet, IsFiniteSet
  <1>2. NULL \notin Nodes
    BY UnitTestsAssumption, SizesAreNumbers DEF Nodes
  <1>3. NULL \notin [id : 1 .. MaxPayloads, val : Vals]
    BY UnitTestsAssumption, SizesAreNumbers
  <1> QED
    BY <1>1, <1>2, <1>3 DEF P!LinkedListAssumption, compare
----------------------------------------------------------------------------
(* The steps of the ring and of the list, as the theorems about them read.  *)

LEMMA RingSteps ==
  /\ CB!Init <=> C!Init
  /\ \A n : CB!circbuf_init(n) <=> C!circbuf_init(n)
  /\ \A x : CB!circbuf_add_item(x) <=> C!circbuf_add_item(x)
  /\ \A dst : CB!circbuf_remove_item(dst) <=> C!circbuf_remove_item(dst)
  /\ \A i : CB!circbuf_peek(i) <=> C!circbuf_peek(i)
  /\ CB!circbuf_full <=> C!circbuf_full
  /\ CB!circbuf_empty <=> C!circbuf_empty
  /\ CB!circbuf_destroy <=> C!circbuf_destroy
  /\ CB!circbuf_null_buffer <=> C!circbuf_null_buffer
  /\ \A code : CB!Refuse(code) <=> C!Refuse(code)
  /\ CB!Release <=> C!Release
  /\ \A code, given : CB!Reply(code, given) <=> C!Reply(code, given)
  <1> USE DEF C!NoBuffer, CB!NoBuffer, C!Refuse, CB!Refuse, C!Reply, CB!Reply,
        C!Asked, CB!Asked, C!ring, CB!ring
  <1>1. CB!Init <=> C!Init
    BY DEF CB!Init, C!Init
  <1>2. \A n : CB!circbuf_init(n) <=> C!circbuf_init(n)
    BY DEF CB!circbuf_init, C!circbuf_init, CB!InitNull, C!InitNull,
           CB!InitNoLength, C!InitNoLength, CB!InitNoStruct, C!InitNoStruct,
           CB!InitNoBuffer, C!InitNoBuffer, CB!InitOk, C!InitOk,
           CB!MayInit, C!MayInit, CB!FreshBuffer, C!FreshBuffer
  <1>3. \A x : CB!circbuf_add_item(x) <=> C!circbuf_add_item(x)
    BY DEF CB!circbuf_add_item, C!circbuf_add_item, CB!IsFull, C!IsFull,
           CB!Store, C!Store, CB!NextHead, C!NextHead
  <1>4. \A dst : CB!circbuf_remove_item(dst) <=> C!circbuf_remove_item(dst)
    BY DEF CB!circbuf_remove_item, C!circbuf_remove_item, CB!TakeFront, C!TakeFront,
           CB!NextTail, C!NextTail, CB!Front, C!Front
  <1>5. \A i : CB!circbuf_peek(i) <=> C!circbuf_peek(i)
    BY DEF CB!circbuf_peek, C!circbuf_peek, CB!PeekInRange, C!PeekInRange,
           CB!PeekSlot, C!PeekSlot
  <1>6. CB!circbuf_full <=> C!circbuf_full
    BY DEF CB!circbuf_full, C!circbuf_full, CB!IsFull, C!IsFull
  <1>7. CB!circbuf_empty <=> C!circbuf_empty
    BY DEF CB!circbuf_empty, C!circbuf_empty
  <1>8. CB!Release <=> C!Release
    BY DEF CB!Release, C!Release
  <1>9. CB!circbuf_destroy <=> C!circbuf_destroy
    BY <1>8 DEF CB!circbuf_destroy, C!circbuf_destroy
  <1>10. CB!circbuf_null_buffer <=> C!circbuf_null_buffer
    BY DEF CB!circbuf_null_buffer, C!circbuf_null_buffer
  <1>11. /\ \A code : CB!Refuse(code) <=> C!Refuse(code)
         /\ \A code, given : CB!Reply(code, given) <=> C!Reply(code, given)
    OBVIOUS
  <1> QED
    BY <1>1, <1>2, <1>3, <1>4, <1>5, <1>6, <1>7, <1>8, <1>9, <1>10, <1>11

LEMMA ListCalls ==
  /\ LL!Init <=> P!Init
  /\ \A given : LL!ll_init(given) <=> P!ll_init(given)
  /\ \A op, from, i, x, args : LL!Call(op, from, i, x, args) <=> P!Call(op, from, i, x, args)
  /\ \A op, code : LL!Refuse(op, code) <=> P!Refuse(op, code)
  <1> USE DEF LL!Reply, P!Reply, LL!Return, P!Return, LL!Refuse, P!Refuse,
        LL!links, P!links, LL!answer, P!answer
  <1>1. LL!Init <=> P!Init
    BY DEF LL!Init, P!Init
  <1>2. \A given : LL!ll_init(given) <=> P!ll_init(given)
    BY DEF LL!ll_init, P!ll_init, LL!Cleared, P!Cleared
  <1>3. \A op, from, i, x, args : LL!Call(op, from, i, x, args) <=> P!Call(op, from, i, x, args)
    BY DEF LL!Call, P!Call
  <1>4. \A op, code : LL!Refuse(op, code) <=> P!Refuse(op, code)
    OBVIOUS
  <1> QED
    BY <1>1, <1>2, <1>3, <1>4

LEMMA ListTurns ==
  /\ LL!InsertWalk <=> P!InsertWalk
  /\ LL!InsertBreak <=> P!InsertBreak
  /\ LL!InsertStop <=> P!InsertStop
  /\ LL!InsertLink <=> P!InsertLink
  /\ LL!RemoveWalk <=> P!RemoveWalk
  /\ LL!RemoveUnlink <=> P!RemoveUnlink
  /\ LL!SearchHit <=> P!SearchHit
  /\ LL!SearchWalk <=> P!SearchWalk
  /\ LL!SizeWalk <=> P!SizeWalk
  /\ LL!SizeEnd <=> P!SizeEnd
  /\ LL!DestroyWalk <=> P!DestroyWalk
  /\ LL!DestroyEnd <=> P!DestroyEnd
  <1> USE DEF LL!Reply, P!Reply, LL!Return, P!Return, LL!Refuse, P!Refuse,
        LL!links, P!links, LL!answer, P!answer, LL!Turn, P!Turn, LL!AtLast, P!AtLast,
        LL!Following, P!Following, LL!Advance, P!Advance, LL!Visit, P!Visit,
        LL!Cleared, P!Cleared
  <1>1. LL!InsertWalk <=> P!InsertWalk
    BY DEF LL!InsertWalk, P!InsertWalk
  <1>2. LL!InsertBreak <=> P!InsertBreak
    BY DEF LL!InsertBreak, P!InsertBreak
  <1>3. LL!InsertStop <=> P!InsertStop
    BY DEF LL!InsertStop, P!InsertStop
  <1>4. LL!InsertLink <=> P!InsertLink
    BY DEF LL!InsertLink, P!InsertLink, LL!InsertFound, P!InsertFound, LL!LinkAfter,
           P!LinkAfter, LL!Place, P!Place, LL!INSERT_AT_END, P!INSERT_AT_END
  <1>5. LL!RemoveWalk <=> P!RemoveWalk
    BY DEF LL!RemoveWalk, P!RemoveWalk, LL!RemoveStops, P!RemoveStops,
           LL!REMOVE_AT_END, P!REMOVE_AT_END
  <1>6. LL!RemoveUnlink <=> P!RemoveUnlink
    BY DEF LL!RemoveUnlink, P!RemoveUnlink, LL!RemoveStops, P!RemoveStops,
           LL!REMOVE_AT_END, P!REMOVE_AT_END, LL!RemoveFound, P!RemoveFound,
           LL!Unlink, P!Unlink, LL!Unchain, P!Unchain, LL!Place, P!Place
  <1>7. LL!SearchHit <=> P!SearchHit
    BY DEF LL!SearchHit, P!SearchHit
  <1>8. LL!SearchWalk <=> P!SearchWalk
    BY DEF LL!SearchWalk, P!SearchWalk
  <1>9. LL!SizeWalk <=> P!SizeWalk
    BY DEF LL!SizeWalk, P!SizeWalk
  <1>10. LL!SizeEnd <=> P!SizeEnd
    BY DEF LL!SizeEnd, P!SizeEnd
  <1>11. LL!DestroyWalk <=> P!DestroyWalk
    BY DEF LL!DestroyWalk, P!DestroyWalk, LL!Free, P!Free
  <1>12. LL!DestroyEnd <=> P!DestroyEnd
    BY DEF LL!DestroyEnd, P!DestroyEnd, LL!Free, P!Free
  <1> QED
    BY <1>1, <1>2, <1>3, <1>4, <1>5, <1>6, <1>7, <1>8, <1>9, <1>10, <1>11, <1>12
----------------------------------------------------------------------------
(* Scripts: s is a sequence of n calls.                                    *)
Calls(s, n) == n \in Nat /\ Len(s) = n /\ s \in Seq({s[i] : i \in 1 .. n})

(* r is the m calls of s, then the n calls of t. *)
Joined(r, s, m, t, n) ==
  /\ Calls(r, m + n)
  /\ \A k \in 1 .. m : r[k] = s[k]
  /\ \A k \in 1 .. n : r[m + k] = t[k]

LEMMA AreCalls ==
  ASSUME NEW S, NEW s \in Seq(S)
  PROVE  Calls(s, Len(s))
  <1>1. Len(s) \in Nat /\ s \in [1 .. Len(s) -> S]
    OBVIOUS
  <1>2. s \in [1 .. Len(s) -> {s[i] : i \in 1 .. Len(s)}]
    BY <1>1
  <1>3. s \in Seq({s[i] : i \in 1 .. Len(s)})
    BY <1>1, <1>2
  <1> QED
    BY <1>1, <1>3, Zenon DEF Calls

LEMMA Joins ==
  ASSUME NEW s, NEW t, NEW m, NEW n, Calls(s, m), Calls(t, n)
  PROVE  Joined(s \o t, s, m, t, n)
  <1> DEFINE S == {s[i] : i \in 1 .. m} \cup {t[i] : i \in 1 .. n}
  <1>1. /\ s \in Seq(S) /\ t \in Seq(S) /\ Len(s) = m /\ Len(t) = n
        /\ m \in Nat /\ n \in Nat
    BY DEF Calls
  <1> HIDE DEF S
  <1>2. /\ s \o t \in Seq(S) /\ Len(s \o t) = m + n
        /\ \A k \in 1 .. m : (s \o t)[k] = s[k]
        /\ \A k \in 1 .. n : (s \o t)[m + k] = t[k]
    BY <1>1
  <1>3. Calls(s \o t, m + n)
    BY <1>2, AreCalls, Zenon
  <1> QED
    BY <1>2, <1>3, Zenon DEF Joined

(* The n calls of t stand in r after the first m.                          *)
Part(r, m, t, n) == \A k \in 1 .. n : r[m + k] = t[k]

Three(r, a, l, b, m, c, n) ==
  /\ Calls(r, l + m + n)
  /\ Part(r, 0, a, l) /\ Part(r, l, b, m) /\ Part(r, l + m, c, n)
Four(r, a, l, b, m, c, n, d, o) ==
  /\ Calls(r, l + m + n + o)
  /\ Part(r, 0, a, l) /\ Part(r, l, b, m) /\ Part(r, l + m, c, n)
  /\ Part(r, l + m + n, d, o)
Five(r, a, l, b, m, c, n, d, o, e, p) ==
  /\ Calls(r, l + m + n + o + p)
  /\ Part(r, 0, a, l) /\ Part(r, l, b, m) /\ Part(r, l + m, c, n)
  /\ Part(r, l + m + n, d, o) /\ Part(r, l + m + n + o, e, p)

(* A part stays where it is when more calls follow. *)
LEMMA PartStays ==
  ASSUME NEW r, NEW s, NEW m, NEW t, NEW n, Joined(r, s, m, t, n), m \in Nat,
         NEW u, NEW i \in Nat, NEW j \in Nat, i + j <= m, Part(s, i, u, j)
  PROVE  Part(r, i, u, j)
  <1> SUFFICES ASSUME NEW k \in 1 .. j PROVE r[i + k] = u[k]
    BY DEF Part
  <1>1. i + k \in 1 .. m
    OBVIOUS
  <1> QED
    BY <1>1 DEF Joined, Part

LEMMA JoinThree ==
  ASSUME NEW a, NEW l, NEW b, NEW m, NEW c, NEW n,
         Calls(a, l), Calls(b, m), Calls(c, n)
  PROVE  Three(a \o b \o c, a, l, b, m, c, n)
  <1> DEFINE s == a \o b
             r == s \o c
  <1>1. l \in Nat /\ m \in Nat /\ n \in Nat
    BY DEF Calls
  <1>2. Joined(s, a, l, b, m)
    BY Joins
  <1> HIDE DEF s
  <1>3. Calls(s, l + m) /\ Part(s, 0, a, l) /\ Part(s, l, b, m)
    BY <1>1, <1>2 DEF Joined, Part
  <1>4. Joined(r, s, l + m, c, n)
    BY <1>3, Joins
  <1> HIDE DEF r
  <1>5. Part(r, 0, a, l)
    BY <1>1, <1>3, <1>4, PartStays
  <1>6. Part(r, l, b, m)
    BY <1>1, <1>3, <1>4, PartStays
  <1>7. Three(r, a, l, b, m, c, n)
    BY <1>4, <1>5, <1>6 DEF Three, Joined, Part
  <1> QED
    BY <1>7 DEF r, s

LEMMA JoinFour ==
  ASSUME NEW a, NEW l, NEW b, NEW m, NEW c, NEW n, NEW d, NEW o,
         Calls(a, l), Calls(b, m), Calls(c, n), Calls(d, o)
  PROVE  Four(a \o b \o c \o d, a, l, b, m, c, n, d, o)
  <1> DEFINE s == a \o b \o c
             r == s \o d
  <1>1. l \in Nat /\ m \in Nat /\ n \in Nat /\ o \in Nat
    BY DEF Calls
  <1>2. Three(s, a, l, b, m, c, n)
    BY JoinThree
  <1> HIDE DEF s
  <1>3. /\ Calls(s, l + m + n)
        /\ Part(s, 0, a, l) /\ Part(s, l, b, m) /\ Part(s, l + m, c, n)
    BY <1>2 DEF Three
  <1>4. Joined(r, s, l + m + n, d, o)
    BY <1>3, Joins
  <1> HIDE DEF r
  <1>5. Part(r, 0, a, l)
    BY <1>1, <1>3, <1>4, PartStays
  <1>6. Part(r, l, b, m)
    BY <1>1, <1>3, <1>4, PartStays
  <1>7. Part(r, l + m, c, n)
    BY <1>1, <1>3, <1>4, PartStays
  <1>8. Four(r, a, l, b, m, c, n, d, o)
    BY <1>4, <1>5, <1>6, <1>7 DEF Four, Joined, Part
  <1> QED
    BY <1>8 DEF r, s

LEMMA JoinFive ==
  ASSUME NEW a, NEW l, NEW b, NEW m, NEW c, NEW n, NEW d, NEW o, NEW e, NEW p,
         Calls(a, l), Calls(b, m), Calls(c, n), Calls(d, o), Calls(e, p)
  PROVE  Five(a \o b \o c \o d \o e, a, l, b, m, c, n, d, o, e, p)
  <1> DEFINE s == a \o b \o c \o d
             r == s \o e
  <1>1. l \in Nat /\ m \in Nat /\ n \in Nat /\ o \in Nat /\ p \in Nat
    BY DEF Calls
  <1>2. Four(s, a, l, b, m, c, n, d, o)
    BY JoinFour
  <1> HIDE DEF s
  <1>3. /\ Calls(s, l + m + n + o)
        /\ Part(s, 0, a, l) /\ Part(s, l, b, m) /\ Part(s, l + m, c, n)
        /\ Part(s, l + m + n, d, o)
    BY <1>2 DEF Four
  <1>4. Joined(r, s, l + m + n + o, e, p)
    BY <1>3, Joins
  <1> HIDE DEF r
  <1>5. Part(r, 0, a, l)
    BY <1>1, <1>3, <1>4, PartStays
  <1>6. Part(r, l, b, m)
    BY <1>1, <1>3, <1>4, PartStays
  <1>7. Part(r, l + m, c, n)
    BY <1>1, <1>3, <1>4, PartStays
  <1>8. Part(r, l + m + n, d, o)
    BY <1>1, <1>3, <1>4, PartStays
  <1>9. Five(r, a, l, b, m, c, n, d, o, e, p)
    BY <1>4, <1>5, <1>6, <1>7, <1>8 DEF Five, Joined, Part
  <1> QED
    BY <1>9 DEF r, s

LEMMA OneCall == \A x : Calls(<<x>>, 1)
  BY DEF Calls

LEMMA TheSame ==
  ASSUME NEW n \in Nat, NEW step
  PROVE  Calls(Times(n, step), n) /\ \A k \in 1 .. n : Times(n, step)[k] = step
  <1>1. /\ Times(n, step) \in Seq({step}) /\ Len(Times(n, step)) = n
        /\ \A k \in 1 .. n : Times(n, step)[k] = step
    BY DEF Times
  <1> QED
    BY <1>1, AreCalls

(* What the loops of the tests of the ring call. *)
LEMMA TheLoops ==
  ASSUME NEW n \in Nat
  PROVE  /\ Calls(Repeat(n, Add), n) /\ Calls(Repeat(n, Take), n)
         /\ \A k \in 1 .. n : Repeat(n, Add)[k] = Add(k)
         /\ \A k \in 1 .. n : Repeat(n, Take)[k] = Take(k)
  <1>1. /\ Repeat(n, Add) \in Seq({Add(k) : k \in 1 .. n})
        /\ Len(Repeat(n, Add)) = n
        /\ \A k \in 1 .. n : Repeat(n, Add)[k] = Add(k)
    BY DEF Repeat
  <1>2. /\ Repeat(n, Take) \in Seq({Take(k) : k \in 1 .. n})
        /\ Len(Repeat(n, Take)) = n
        /\ \A k \in 1 .. n : Repeat(n, Take)[k] = Take(k)
    BY DEF Repeat
  <1> QED
    BY <1>1, <1>2, AreCalls, Zenon

LEMMA TheEnds ==
  /\ Calls(New, 1) /\ New[1] = Ok("circbuf_init", BUF_SIZE)
  /\ Calls(Destroy, 1) /\ Destroy[1] = Ok("circbuf_destroy", 0)
  /\ Calls(ListNew, 1) /\ ListNew[1] = Ok("ll_init", 0)
  /\ Calls(ListDestroy, 1) /\ ListDestroy[1] = Ok("ll_destroy", 0)
  BY OneCall DEF New, Destroy, ListNew, ListDestroy

LEMMA HalfIsANumber == Half \in Nat /\ Half <= BUF_SIZE
  BY SizesAreNumbers DEF Half

LEMMA Script_init_destroy ==
  LET s == test_circbuf_init_destroy
  IN  /\ Calls(s, 2)
      /\ s[1] = Ok("circbuf_init", BUF_SIZE) /\ s[2] = Ok("circbuf_destroy", 0)
  <1>1. Joined(test_circbuf_init_destroy, New, 1, Destroy, 1)
    BY TheEnds, Joins DEF test_circbuf_init_destroy
  <1> QED
    BY <1>1, TheEnds DEF Joined

LEMMA Script_ops_null_ptr ==
  LET s == test_circbuf_ops_null_ptr
  IN  /\ Calls(s, 7)
      /\ \A k \in 1 .. 7 : s[k] = Refused("circbuf NULL", 0)
  BY TheSame, Zenon DEF test_circbuf_ops_null_ptr

LEMMA SixCalls ==
  ASSUME NEW a, NEW b, NEW c, NEW d, NEW e, NEW f
  PROVE  LET s == <<a, b, c, d, e, f>>
         IN  /\ Calls(s, 6) /\ s[1] = a /\ s[2] = b /\ s[3] = c
             /\ s[4] = d /\ s[5] = e /\ s[6] = f
  BY DEF Calls

LEMMA Script_null_buffer ==
  LET s == test_circbuf_null_buffer
  IN  /\ Calls(s, 7)
      /\ s[1] = Ok("circbuf_init", BUF_SIZE)
      /\ s[2] = Ok("circbuf_null_buffer", 0)
      /\ s[3] = Refused("circbuf_add_item", 1)
      /\ s[4] = Refused("circbuf_remove_item", 0)
      /\ s[5] = Refused("circbuf_peek", 1)
      /\ s[6] = Refused("circbuf_destroy", 0)
      /\ s[7] = Ok("free buf", 0)
  <1> DEFINE t == <<Ok("circbuf_null_buffer", 0), Refused("circbuf_add_item", 1),
                    Refused("circbuf_remove_item", 0), Refused("circbuf_peek", 1),
                    Refused("circbuf_destroy", 0), Ok("free buf", 0)>>
  <1>1. /\ Calls(t, 6)
        /\ t[1] = Ok("circbuf_null_buffer", 0)
        /\ t[2] = Refused("circbuf_add_item", 1)
        /\ t[3] = Refused("circbuf_remove_item", 0)
        /\ t[4] = Refused("circbuf_peek", 1)
        /\ t[5] = Refused("circbuf_destroy", 0)
        /\ t[6] = Ok("free buf", 0)
    BY SixCalls, Zenon
  <1>2. test_circbuf_null_buffer = New \o t
    BY DEF test_circbuf_null_buffer
  <1> HIDE DEF t
  <1>3. Joined(test_circbuf_null_buffer, New, 1, t, 6)
    BY <1>1, <1>2, TheEnds, Joins, Zenon
  <1>4. /\ Calls(test_circbuf_null_buffer, 7)
        /\ test_circbuf_null_buffer[1] = New[1]
        /\ \A k \in 1 .. 6 : test_circbuf_null_buffer[1 + k] = t[k]
    BY <1>3 DEF Joined
  <1> DEFINE s == test_circbuf_null_buffer
  <1> HIDE DEF s
  <1>5. Calls(s, 7) /\ s[1] = New[1] /\ \A k \in 1 .. 6 : s[1 + k] = t[k]
    BY <1>4 DEF s
  <1>6. /\ s[2] = t[1] /\ s[3] = t[2] /\ s[4] = t[3]
        /\ s[5] = t[4] /\ s[6] = t[5] /\ s[7] = t[6]
    BY <1>5
  <1> QED
    BY <1>1, <1>5, <1>6, TheEnds, Zenon DEF s

LEMMA Script_add_remove_full ==
  LET s == test_circbuf_add_remove_full
  IN  /\ Calls(s, 2 * BUF_SIZE + 2)
      /\ s[1] = Ok("circbuf_init", BUF_SIZE)
      /\ \A i \in 1 .. BUF_SIZE : s[1 + i] = Add(i)
      /\ \A i \in 1 .. BUF_SIZE : s[1 + BUF_SIZE + i] = Take(i)
      /\ s[2 * BUF_SIZE + 2] = Ok("circbuf_destroy", 0)
  <1> DEFINE s == test_circbuf_add_remove_full
  <1>1. Four(s, New, 1, Repeat(BUF_SIZE, Add), BUF_SIZE, Repeat(BUF_SIZE, Take), BUF_SIZE, Destroy, 1)
    BY SizesAreNumbers, TheEnds, TheLoops, JoinFour, Zenon DEF test_circbuf_add_remove_full
  <1> HIDE DEF s
  <1>2. /\ 1 + BUF_SIZE + BUF_SIZE + 1 = 2 * BUF_SIZE + 2
        /\ 0 + 1 = 1
    BY SizesAreNumbers
  <1>3. /\ Calls(s, 1 + BUF_SIZE + BUF_SIZE + 1) /\ s[0 + 1] = New[1]
        /\ \A i \in 1 .. BUF_SIZE : s[1 + i] = Repeat(BUF_SIZE, Add)[i]
        /\ \A i \in 1 .. BUF_SIZE : s[1 + BUF_SIZE + i] = Repeat(BUF_SIZE, Take)[i]
        /\ s[1 + BUF_SIZE + BUF_SIZE + 1] = Destroy[1]
    BY <1>1 DEF Four, Part
  <1> QED
    BY <1>2, <1>3, SizesAreNumbers, TheEnds, TheLoops, Zenon DEF s

LEMMA Script_add_full ==
  LET s == test_circbuf_add_full
  IN  /\ Calls(s, BUF_SIZE + 3)
      /\ s[1] = Ok("circbuf_init", BUF_SIZE)
      /\ \A i \in 1 .. BUF_SIZE : s[1 + i] = Add(0)
      /\ s[BUF_SIZE + 2] = Expect("circbuf_add_item", 1, "FULL", Any)
      /\ s[BUF_SIZE + 3] = Ok("circbuf_destroy", 0)
  <1> DEFINE s == test_circbuf_add_full
             last == <<Expect("circbuf_add_item", 1, "FULL", Any)>>
  <1>1. /\ Calls(last, 1)
        /\ last[1] = Expect("circbuf_add_item", 1, "FULL", Any)
    BY OneCall
  <1>2. Four(s, New, 1, Times(BUF_SIZE, Add(0)), BUF_SIZE, last, 1, Destroy, 1)
    BY <1>1, SizesAreNumbers, TheEnds, TheSame, JoinFour DEF test_circbuf_add_full
  <1> HIDE DEF s, last
  <1>3. /\ 1 + BUF_SIZE + 1 + 1 = BUF_SIZE + 3
        /\ 1 + BUF_SIZE + 1 = BUF_SIZE + 2
        /\ 0 + 1 = 1
    BY SizesAreNumbers
  <1>4. /\ Calls(s, 1 + BUF_SIZE + 1 + 1) /\ s[0 + 1] = New[1]
        /\ \A i \in 1 .. BUF_SIZE : s[1 + i] = Times(BUF_SIZE, Add(0))[i]
        /\ s[1 + BUF_SIZE + 1] = last[1]
        /\ s[1 + BUF_SIZE + 1 + 1] = Destroy[1]
    BY <1>2 DEF Four, Part
  <1> QED
    BY <1>1, <1>3, <1>4, SizesAreNumbers, TheEnds, TheSame DEF s

LEMMA Script_remove_empty ==
  LET s == test_circbuf_remove_empty
  IN  /\ Calls(s, 3)
      /\ s[1] = Ok("circbuf_init", BUF_SIZE)
      /\ s[2] = Expect("circbuf_remove_item", 0, "EMPTY", Any)
      /\ s[3] = Ok("circbuf_destroy", 0)
  <1> DEFINE s == test_circbuf_remove_empty
             last == <<Expect("circbuf_remove_item", 0, "EMPTY", Any)>>
  <1>1. /\ Calls(last, 1)
        /\ last[1] = Expect("circbuf_remove_item", 0, "EMPTY", Any)
    BY OneCall
  <1>2. Three(s, New, 1, last, 1, Destroy, 1)
    BY <1>1, SizesAreNumbers, TheEnds, JoinThree DEF test_circbuf_remove_empty
  <1> HIDE DEF s, last
  <1>3. /\ 1 + 1 + 1 = 3
        /\ 1 + 1 = 2
        /\ 0 + 1 = 1
    BY SizesAreNumbers
  <1>4. /\ Calls(s, 1 + 1 + 1) /\ s[0 + 1] = New[1]
        /\ s[1 + 1] = last[1]
        /\ s[1 + 1 + 1] = Destroy[1]
    BY <1>2 DEF Three, Part
  <1> QED
    BY <1>1, <1>3, <1>4, SizesAreNumbers, TheEnds DEF s

LEMMA Script_wrap_add ==
  LET s == test_circbuf_wrap_add
  IN  /\ Calls(s, 2 * Half + BUF_SIZE + 2)
      /\ s[1] = Ok("circbuf_init", BUF_SIZE)
      /\ \A i \in 1 .. Half : s[1 + i] = Add(i)
      /\ \A i \in 1 .. Half : s[1 + Half + i] = Take(i)
      /\ \A i \in 1 .. BUF_SIZE : s[1 + Half + Half + i] = Add(i)
      /\ s[2 * Half + BUF_SIZE + 2] = Ok("circbuf_destroy", 0)
  <1> DEFINE s == test_circbuf_wrap_add
  <1>1. Five(s, New, 1, Repeat(Half, Add), Half, Repeat(Half, Take), Half, Repeat(BUF_SIZE, Add), BUF_SIZE, Destroy, 1)
    BY SizesAreNumbers, HalfIsANumber, TheEnds, TheLoops, JoinFive, Zenon DEF test_circbuf_wrap_add, HalfWay
  <1> HIDE DEF s
  <1>2. /\ 1 + Half + Half + BUF_SIZE + 1 = 2 * Half + BUF_SIZE + 2
        /\ 0 + 1 = 1
    BY SizesAreNumbers, HalfIsANumber
  <1>3. /\ Calls(s, 1 + Half + Half + BUF_SIZE + 1)
        /\ s[0 + 1] = New[1]
        /\ \A i \in 1 .. Half : s[1 + i] = Repeat(Half, Add)[i]
        /\ \A i \in 1 .. Half : s[1 + Half + i] = Repeat(Half, Take)[i]
        /\ \A i \in 1 .. BUF_SIZE : s[1 + Half + Half + i] = Repeat(BUF_SIZE, Add)[i]
        /\ s[1 + Half + Half + BUF_SIZE + 1] = Destroy[1]
    BY <1>1 DEF Five, Part
  <1> QED
    BY <1>2, <1>3, SizesAreNumbers, HalfIsANumber, TheEnds, TheLoops, ZenonT(30) DEF s

LEMMA Script_wrap_remove ==
  LET s == test_circbuf_wrap_remove
  IN  /\ Calls(s, 2 * Half + 2 * BUF_SIZE + 2)
      /\ s[1] = Ok("circbuf_init", BUF_SIZE)
      /\ \A i \in 1 .. Half : s[1 + i] = Add(i)
      /\ \A i \in 1 .. Half : s[1 + Half + i] = Take(i)
      /\ \A i \in 1 .. BUF_SIZE : s[1 + Half + Half + i] = Add(i)
      /\ \A i \in 1 .. BUF_SIZE : s[1 + Half + Half + BUF_SIZE + i] = Take(i)
      /\ s[2 * Half + 2 * BUF_SIZE + 2] = Ok("circbuf_destroy", 0)
  <1> DEFINE s == test_circbuf_wrap_remove
             h == HalfWay
             n == 1 + Half + Half
  <1>1. Three(h, New, 1, Repeat(Half, Add), Half, Repeat(Half, Take), Half)
    BY HalfIsANumber, TheEnds, TheLoops, JoinThree, Zenon DEF HalfWay
  <1> HIDE DEF h
  <1>2. /\ Calls(h, n) /\ h[0 + 1] = New[1]
        /\ \A i \in 1 .. Half : h[1 + i] = Repeat(Half, Add)[i]
        /\ \A i \in 1 .. Half : h[1 + Half + i] = Repeat(Half, Take)[i]
    BY <1>1 DEF Three, Part
  <1>3. Four(s, h, n, Repeat(BUF_SIZE, Add), BUF_SIZE, Repeat(BUF_SIZE, Take), BUF_SIZE,
             Destroy, 1)
    BY <1>2, SizesAreNumbers, TheEnds, TheLoops, JoinFour, Zenon DEF test_circbuf_wrap_remove, h
  <1> HIDE DEF s
  <1>4. /\ Calls(s, n + BUF_SIZE + BUF_SIZE + 1)
        /\ \A i \in 1 .. n : s[0 + i] = h[i]
        /\ \A i \in 1 .. BUF_SIZE : s[n + i] = Repeat(BUF_SIZE, Add)[i]
        /\ \A i \in 1 .. BUF_SIZE : s[n + BUF_SIZE + i] = Repeat(BUF_SIZE, Take)[i]
        /\ s[n + BUF_SIZE + BUF_SIZE + 1] = Destroy[1]
    BY <1>3 DEF Four, Part
  <1>5. /\ n + BUF_SIZE + BUF_SIZE + 1 = 2 * Half + 2 * BUF_SIZE + 2 /\ 0 + 1 = 1
        /\ \A i \in 1 .. n : 0 + i = i
        /\ 1 \in 1 .. n
        /\ \A i \in 1 .. Half : 1 + i \in 1 .. n /\ 1 + Half + i \in 1 .. n
    BY SizesAreNumbers, HalfIsANumber
  <1>6. /\ s[1] = Ok("circbuf_init", BUF_SIZE)
        /\ \A i \in 1 .. Half : s[1 + i] = Add(i)
        /\ \A i \in 1 .. Half : s[1 + Half + i] = Take(i)
    <2>1. \A i \in 1 .. n : s[i] = h[i]
      BY <1>4, <1>5
    <2> HIDE DEF n
    <2> QED
      BY <2>1, <1>2, <1>5, HalfIsANumber, TheEnds, TheLoops, Zenon
  <1>7. /\ \A i \in 1 .. BUF_SIZE : s[n + i] = Add(i)
        /\ \A i \in 1 .. BUF_SIZE : s[n + BUF_SIZE + i] = Take(i)
        /\ s[n + BUF_SIZE + BUF_SIZE + 1] = Ok("circbuf_destroy", 0)
    <2> HIDE DEF n
    <2> QED
      BY <1>4, SizesAreNumbers, TheEnds, TheLoops, Zenon
  <1> QED
    BY <1>4, <1>5, <1>6, <1>7 DEF s

LEMMA Script_check_full ==
  LET s == test_circbuf_check_full
  IN  /\ Calls(s, BUF_SIZE + 4)
      /\ s[1] = Ok("circbuf_init", BUF_SIZE)
      /\ s[2] = Expect("circbuf_full", 0, "FAILURE", Any)
      /\ \A i \in 1 .. BUF_SIZE : s[2 + i] = Add(0)
      /\ s[BUF_SIZE + 3] = Expect("circbuf_full", 0, "FULL", Any)
      /\ s[BUF_SIZE + 4] = Ok("circbuf_destroy", 0)
  <1> DEFINE s == test_circbuf_check_full
             first == <<Expect("circbuf_full", 0, "FAILURE", Any)>>
             last == <<Expect("circbuf_full", 0, "FULL", Any)>>
  <1>1. /\ Calls(first, 1) /\ first[1] = Expect("circbuf_full", 0, "FAILURE", Any)
        /\ Calls(last, 1) /\ last[1] = Expect("circbuf_full", 0, "FULL", Any)
    BY OneCall
  <1>2. Five(s, New, 1, first, 1, Times(BUF_SIZE, Add(0)), BUF_SIZE, last, 1, Destroy, 1)
    BY <1>1, SizesAreNumbers, TheEnds, TheSame, JoinFive DEF test_circbuf_check_full
  <1> HIDE DEF s, first, last
  <1>3. /\ 1 + 1 + BUF_SIZE + 1 + 1 = BUF_SIZE + 4 /\ 1 + 1 + BUF_SIZE + 1 = BUF_SIZE + 3
        /\ 0 + 1 = 1 /\ 1 + 1 = 2
    BY SizesAreNumbers
  <1>4. /\ Calls(s, 1 + 1 + BUF_SIZE + 1 + 1) /\ s[0 + 1] = New[1]
        /\ s[1 + 1] = first[1]
        /\ \A i \in 1 .. BUF_SIZE : s[1 + 1 + i] = Times(BUF_SIZE, Add(0))[i]
        /\ s[1 + 1 + BUF_SIZE + 1] = last[1]
        /\ s[1 + 1 + BUF_SIZE + 1 + 1] = Destroy[1]
    BY <1>2 DEF Five, Part
  <1> QED
    BY <1>1, <1>3, <1>4, SizesAreNumbers, TheEnds, TheSame DEF s

LEMMA Script_check_empty ==
  LET s == test_circbuf_check_empty
  IN  /\ Calls(s, 5)
      /\ s[1] = Ok("circbuf_init", BUF_SIZE)
      /\ s[2] = Expect("circbuf_empty", 0, "EMPTY", Any)
      /\ s[3] = Add(1)
      /\ s[4] = Expect("circbuf_empty", 0, "FAILURE", Any)
      /\ s[5] = Ok("circbuf_destroy", 0)
  <1> DEFINE s == test_circbuf_check_empty
             t == <<Expect("circbuf_empty", 0, "EMPTY", Any), Add(1),
                    Expect("circbuf_empty", 0, "FAILURE", Any)>>
  <1>1. \A a, b, c : LET u == <<a, b, c>>
                     IN  Calls(u, 3) /\ u[1] = a /\ u[2] = b /\ u[3] = c
    BY DEF Calls
  <1>2. /\ Calls(t, 3) /\ t[1] = Expect("circbuf_empty", 0, "EMPTY", Any)
        /\ t[2] = Add(1) /\ t[3] = Expect("circbuf_empty", 0, "FAILURE", Any)
    BY <1>1, Zenon
  <1>3. Three(s, New, 1, t, 3, Destroy, 1)
    BY <1>2, TheEnds, JoinThree DEF test_circbuf_check_empty
  <1> HIDE DEF s, t
  <1>4. Calls(s, 1 + 3 + 1) /\ Part(s, 0, New, 1) /\ Part(s, 1, t, 3) /\ Part(s, 1 + 3, Destroy, 1)
    BY <1>3 DEF Three
  <1>5. s[1] = New[1] /\ s[2] = t[1] /\ s[3] = t[2] /\ s[4] = t[3] /\ s[5] = Destroy[1]
    BY <1>4 DEF Part
  <1> QED
    BY <1>2, <1>4, <1>5, TheEnds DEF s
----------------------------------------------------------------------------
(* The scripts of the tests of the list.                                   *)

LEMMA TwoCalls ==
  ASSUME NEW a, NEW b
  PROVE  Calls(<<a, b>>, 2) /\ <<a, b>>[1] = a /\ <<a, b>>[2] = b
  BY DEF Calls

LEMMA ThePairs ==
  ASSUME NEW i, NEW j
  PROVE  /\ Calls(Insert(j, i), 2) /\ Insert(j, i)[1] = Ok("malloc", j)
         /\ Insert(j, i)[2] = Ok("ll_insert", <<j, i>>)
         /\ Calls(Remove(i, j), 2)
         /\ Remove(i, j)[1] = Expect("ll_remove", i, "NO_ERROR", <<Payload(j)>>)
         /\ Remove(i, j)[2] = Ok("free", j)
  BY TwoCalls DEF Insert, Remove

LEMMA TheDrop ==
  ASSUME NEW i, NEW j
  PROVE  /\ Calls(Drop(i, j), 2) /\ Drop(i, j)[1] = Ok("ll_remove", i)
         /\ Drop(i, j)[2] = Ok("free", j)
  BY TwoCalls DEF Drop

LEMMA TheSingles ==
  /\ \A call, arg : /\ Calls(NoSuchIndex(call, arg), 1)
                    /\ NoSuchIndex(call, arg)[1] = Expect(call, arg, "INDEX_TOO_LARGE", Any)
  /\ \A i, j : /\ Calls(Search(j, i), 1)
               /\ Search(j, i)[1] = Expect("ll_search", j, "NO_ERROR", <<i>>)
  /\ \A n : /\ Calls(Size(n), 1)
            /\ Size(n)[1] = Expect("ll_size", 0, "NO_ERROR", <<n>>)
  BY OneCall DEF NoSuchIndex, Search, Size

(* The turns of a loop that makes two calls in each. *)
LEMMA Halves ==
  ASSUME NEW j \in Nat
  PROVE  /\ (2 * j + 1) % 2 = 1 /\ (2 * j + 2) % 2 = 0
         /\ (2 * j + 1 + 1) \div 2 = j + 1 /\ (2 * j + 2 + 1) \div 2 = j + 1
         /\ (2 * j + 1 - 1) \div 2 = j /\ (2 * j + 2 - 1) \div 2 = j
  OBVIOUS

LEMMA TheInsertions ==
  ASSUME num_inserts \in Nat
  PROVE  /\ Calls(InsertAll, 2 * num_inserts)
         /\ \A j \in 0 .. num_inserts - 1 :
              /\ InsertAll[2 * j + 1] = Ok("malloc", j + 1)
              /\ InsertAll[2 * j + 2] = Ok("ll_insert", <<j + 1, -1>>)
  <1> DEFINE n == num_inserts
             step(k) == Insert((k + 1) \div 2, AtEnd)[2 - (k % 2)]
  <1>1. /\ InsertAll \in Seq({step(k) : k \in 1 .. 2 * n}) /\ Len(InsertAll) = 2 * n
        /\ \A k \in 1 .. 2 * n : InsertAll[k] = step(k)
    <2>1. InsertAll = [k \in 1 .. 2 * n |-> step(k)]
      BY DEF InsertAll
    <2>2. 2 * n \in Nat
      OBVIOUS
    <2> HIDE DEF step, n
    <2> QED
      BY <2>1, <2>2
  <1>2. Calls(InsertAll, 2 * n)
    BY <1>1, AreCalls
  <1>3. ASSUME NEW j \in 0 .. n - 1
        PROVE  /\ InsertAll[2 * j + 1] = Ok("malloc", j + 1)
               /\ InsertAll[2 * j + 2] = Ok("ll_insert", <<j + 1, -1>>)
    <2>1. /\ 2 * j + 1 \in 1 .. 2 * n /\ 2 * j + 2 \in 1 .. 2 * n
      OBVIOUS
    <2>2. InsertAll[2 * j + 1] = step(2 * j + 1) /\ InsertAll[2 * j + 2] = step(2 * j + 2)
      BY <1>1, <2>1, Zenon
    <2>3. /\ (2 * j + 1 + 1) \div 2 = j + 1 /\ (2 * j + 2 + 1) \div 2 = j + 1
          /\ 2 - ((2 * j + 1) % 2) = 1 /\ 2 - ((2 * j + 2) % 2) = 2
      BY Halves
    <2>4. /\ InsertAll[2 * j + 1] = Insert(j + 1, AtEnd)[1]
          /\ InsertAll[2 * j + 2] = Insert(j + 1, AtEnd)[2]
      BY <2>2, <2>3, Zenon
    <2> QED
      BY <2>4, ThePairs, Zenon DEF AtEnd
  <1> QED
    BY <1>2, <1>3

LEMMA TheRemovals ==
  ASSUME num_inserts \in Nat, num_removes \in Nat
  PROVE  /\ Calls(RemoveLast, 2 * num_removes)
         /\ \A j \in 0 .. num_removes - 1 :
              /\ RemoveLast[2 * j + 1]
                   = Ok("ll_remove", -1)
              /\ RemoveLast[2 * j + 2] = Ok("free", num_inserts - j)
  <1> DEFINE n == num_removes
             step(k) == Drop(AtEnd, num_inserts - ((k - 1) \div 2))[2 - (k % 2)]
  <1>1. /\ RemoveLast \in Seq({step(k) : k \in 1 .. 2 * n}) /\ Len(RemoveLast) = 2 * n
        /\ \A k \in 1 .. 2 * n : RemoveLast[k] = step(k)
    <2>1. RemoveLast = [k \in 1 .. 2 * n |-> step(k)]
      BY DEF RemoveLast, RemovesMade
    <2>2. 2 * n \in Nat
      OBVIOUS
    <2> HIDE DEF step, n
    <2> QED
      BY <2>1, <2>2
  <1>2. Calls(RemoveLast, 2 * n)
    BY <1>1, AreCalls
  <1>3. ASSUME NEW j \in 0 .. n - 1
        PROVE  /\ RemoveLast[2 * j + 1]
                    = Ok("ll_remove", -1)
               /\ RemoveLast[2 * j + 2] = Ok("free", num_inserts - j)
    <2>1. /\ 2 * j + 1 \in 1 .. 2 * n /\ 2 * j + 2 \in 1 .. 2 * n
      OBVIOUS
    <2>2. RemoveLast[2 * j + 1] = step(2 * j + 1) /\ RemoveLast[2 * j + 2] = step(2 * j + 2)
      BY <1>1, <2>1, Zenon
    <2>3. /\ (2 * j + 1 - 1) \div 2 = j /\ (2 * j + 2 - 1) \div 2 = j
          /\ 2 - ((2 * j + 1) % 2) = 1 /\ 2 - ((2 * j + 2) % 2) = 2
      BY Halves
    <2>4. /\ RemoveLast[2 * j + 1] = Drop(AtEnd, num_inserts - j)[1]
          /\ RemoveLast[2 * j + 2] = Drop(AtEnd, num_inserts - j)[2]
      <3>1. /\ step(2 * j + 1) = Drop(AtEnd, num_inserts - j)[1]
            /\ step(2 * j + 2) = Drop(AtEnd, num_inserts - j)[2]
        BY <2>3
      <3> HIDE DEF step
      <3> QED
        BY <2>2, <3>1
    <2> QED
      BY <2>4, TheDrop, Zenon DEF AtEnd
  <1> QED
    BY <1>2, <1>3, Zenon

LEMMA Script_ll_init_destroy ==
  LET s == test_ll_init_destroy
  IN  /\ Calls(s, 2) /\ s[1] = Ok("ll_init", 0) /\ s[2] = Ok("ll_destroy", 0)
  <1>1. Joined(test_ll_init_destroy, ListNew, 1, ListDestroy, 1)
    BY TheEnds, Joins DEF test_ll_init_destroy
  <1> QED
    BY <1>1, TheEnds DEF Joined

(* The calls of test_ll_ops_null_ptr on an empty list: each is refused. *)
Refusals == <<Refused("ll NULL", 0), Refused("ll NULL", 0),
  Refused("ll NULL", 0), Refused("ll_insert", <<0, 1>>),
  Refused("ll NULL", 0), Refused("ll_remove to NULL", 1),
  Refused("ll NULL", 0), Refused("ll_search", 0),
  Refused("ll_search with NULL", 1), Refused("ll_search with NULL", 1),
  Refused("ll NULL", 0), Refused("ll_size to NULL", 0)>>

LEMMA Script_ll_ops_null_ptr ==
  LET s == test_ll_ops_null_ptr
  IN  /\ Calls(s, 14) /\ s[1] = Ok("ll_init", 0) /\ s[14] = Ok("ll_destroy", 0)
      /\ \A k \in 2 .. 13 : s[k] \in
           {Refused("ll NULL", 0), Refused("ll_insert", <<0, 1>>),
            Refused("ll_remove to NULL", 1), Refused("ll_search", 0),
            Refused("ll_search with NULL", 1), Refused("ll_size to NULL", 0)}
  <1> DEFINE s == test_ll_ops_null_ptr
             R == {Refused("ll NULL", 0), Refused("ll_insert", <<0, 1>>),
                   Refused("ll_remove to NULL", 1), Refused("ll_search", 0),
                   Refused("ll_search with NULL", 1), Refused("ll_size to NULL", 0)}
             t == Refusals
  <1>1. \A S : \A a, b, c, d, e, f \in S :
          LET u == <<a, a, a, b, a, c, a, d, e, e, a, f>>
          IN  u \in Seq(S) /\ Len(u) = 12 /\ \A i \in 1 .. 12 : u[i] \in S
    OBVIOUS
  <1>2. t \in Seq(R) /\ Len(t) = 12 /\ \A i \in 1 .. 12 : t[i] \in R
    BY <1>1 DEF Refusals
  <1>3. s = ListNew \o t \o ListDestroy
    BY DEF test_ll_ops_null_ptr, Refusals
  <1> HIDE DEF s, R, t
  <1>4. Calls(t, 12)
    BY <1>2, AreCalls, Zenon
  <1>5. Three(s, ListNew, 1, t, 12, ListDestroy, 1)
    BY <1>3, <1>4, TheEnds, JoinThree
  <1>6. /\ Calls(s, 1 + 12 + 1) /\ s[0 + 1] = ListNew[1]
        /\ \A k \in 1 .. 12 : s[1 + k] = t[k]
        /\ s[1 + 12 + 1] = ListDestroy[1]
    BY <1>5 DEF Three, Part
  <1>7. \A k \in 2 .. 13 : s[k] \in R
    <2> SUFFICES ASSUME NEW k \in 2 .. 13 PROVE s[k] \in R
      OBVIOUS
    <2>1. k - 1 \in 1 .. 12 /\ 1 + (k - 1) = k
      OBVIOUS
    <2>2. s[k] = t[k - 1]
      BY <1>6, <2>1
    <2> QED
      BY <1>2, <2>1, <2>2
  <1>8. 1 + 12 + 1 = 14 /\ 0 + 1 = 1
    OBVIOUS
  <1> QED
    BY <1>6, <1>7, <1>8, TheEnds, Zenon DEF s, R

LEMMA Script_ll_insert ==
  ASSUME num_inserts \in Nat
  PROVE  LET s == test_ll_insert
             n == num_inserts
         IN  /\ Calls(s, 2 * n + 7)
             /\ s[1] = Ok("ll_init", 0)
             /\ \A j \in 0 .. n - 1 : /\ s[2 * j + 2] = Ok("malloc", j + 1)
                                      /\ s[2 * j + 3] = Ok("ll_insert", <<j + 1, -1>>)
             /\ s[2 * n + 2] = Expect("ll_insert", <<n, n + 1>>, "INDEX_TOO_LARGE", Any)
             /\ s[2 * n + 3] = Ok("malloc", n + 1)
             /\ s[2 * n + 4] = Ok("ll_insert", <<n + 1, Middle>>)
             /\ s[2 * n + 5] = Ok("malloc", n + 2)
             /\ s[2 * n + 6] = Ok("ll_insert", <<n + 2, 0>>)
             /\ s[2 * n + 7] = Ok("ll_destroy", 0)
  <1> DEFINE n == num_inserts
             a == NoSuchIndex("ll_insert", <<n, n + 1>>)
             b == Insert(n + 1, Middle)
             c == Insert(n + 2, 0)
             t == ListNew \o InsertAll \o a
             s == test_ll_insert
             m == 1 + 2 * n + 1
  <1>1. /\ Calls(a, 1) /\ a[1] = Expect("ll_insert", <<n, n + 1>>, "INDEX_TOO_LARGE", Any)
    BY TheSingles, Zenon
  <1>2. /\ Calls(b, 2) /\ b[1] = Ok("malloc", n + 1) /\ b[2] = Ok("ll_insert", <<n + 1, Middle>>)
        /\ Calls(c, 2) /\ c[1] = Ok("malloc", n + 2) /\ c[2] = Ok("ll_insert", <<n + 2, 0>>)
    BY ThePairs, Zenon
  <1>3. s = t \o b \o c \o ListDestroy
    BY DEF test_ll_insert
  <1> HIDE DEF a, b, c, s
  <1>4. Three(t, ListNew, 1, InsertAll, 2 * n, a, 1)
    BY <1>1, TheEnds, TheInsertions, JoinThree
  <1> HIDE DEF t
  <1>5. /\ Calls(t, m) /\ t[0 + 1] = ListNew[1]
        /\ \A k \in 1 .. 2 * n : t[1 + k] = InsertAll[k]
        /\ t[1 + 2 * n + 1] = a[1]
    BY <1>4 DEF Three, Part
  <1>6. Four(s, t, m, b, 2, c, 2, ListDestroy, 1)
    BY <1>2, <1>3, <1>5, TheEnds, JoinFour
  <1>7. /\ Calls(s, m + 2 + 2 + 1)
        /\ \A k \in 1 .. m : s[0 + k] = t[k]
        /\ s[m + 1] = b[1] /\ s[m + 2] = b[2]
        /\ s[m + 2 + 1] = c[1] /\ s[m + 2 + 2] = c[2]
        /\ s[m + 2 + 2 + 1] = ListDestroy[1]
    BY <1>6 DEF Four, Part
  <1>8. /\ 0 + 1 = 1 /\ m = 2 * n + 2 /\ m + 1 = 2 * n + 3 /\ m + 2 = 2 * n + 4
        /\ m + 2 + 1 = 2 * n + 5 /\ m + 2 + 2 = 2 * n + 6 /\ m + 2 + 2 + 1 = 2 * n + 7
        /\ 1 \in 1 .. m /\ 1 + 2 * n + 1 \in 1 .. m
        /\ \A k \in 1 .. m : 0 + k = k
    OBVIOUS
  <1>9. ASSUME NEW j \in 0 .. n - 1
        PROVE  s[2 * j + 2] = Ok("malloc", j + 1) /\ s[2 * j + 3] = Ok("ll_insert", <<j + 1, -1>>)
    <2>1. /\ 2 * j + 1 \in 1 .. 2 * n /\ 1 + (2 * j + 1) = 2 * j + 2 /\ 2 * j + 2 \in 1 .. m
          /\ 2 * j + 2 \in 1 .. 2 * n /\ 1 + (2 * j + 2) = 2 * j + 3 /\ 2 * j + 3 \in 1 .. m
      OBVIOUS
    <2>2. t[2 * j + 2] = InsertAll[2 * j + 1] /\ t[2 * j + 3] = InsertAll[2 * j + 2]
      BY <1>5, <2>1
    <2>3. s[2 * j + 2] = t[2 * j + 2] /\ s[2 * j + 3] = t[2 * j + 3]
      BY <1>7, <1>8, <2>1
    <2> QED
      BY <2>2, <2>3, TheInsertions
  <1>10. s[1] = t[1] /\ s[m] = t[m]
    BY <1>7, <1>8
  <1> HIDE DEF m
  <1>11. s[1] = Ok("ll_init", 0) /\ s[2 * n + 2] = a[1]
    BY <1>5, <1>8, <1>10, TheEnds DEF m
  <1> QED
    BY <1>1, <1>2, <1>7, <1>8, <1>9, <1>11, TheEnds, Zenon DEF s

LEMMA Script_ll_search ==
  ASSUME num_inserts \in Nat
  PROVE  LET s == test_ll_search
             n == num_inserts
         IN  /\ Calls(s, 2 * n + 5)
             /\ s[1] = Ok("ll_init", 0)
             /\ s[2] = Expect("ll_remove", 0, "INDEX_TOO_LARGE", Any)
             /\ \A j \in 0 .. n - 1 : /\ s[2 * j + 3] = Ok("malloc", j + 1)
                                      /\ s[2 * j + 4] = Ok("ll_insert", <<j + 1, -1>>)
             /\ s[2 * n + 3] = Expect("ll_search", Middle + 1, "NO_ERROR", <<Middle>>)
             /\ s[2 * n + 4] = Expect("ll_search", 1, "NO_ERROR", <<0>>)
             /\ s[2 * n + 5] = Ok("ll_destroy", 0)
  <1> DEFINE n == num_inserts
             a == NoSuchIndex("ll_remove", 0)
             b == Search(Middle + 1, Middle)
             c == Search(1, 0)
             t == ListNew \o a \o InsertAll
             s == test_ll_search
             m == 1 + 1 + 2 * n
  <1>1. /\ Calls(a, 1) /\ a[1] = Expect("ll_remove", 0, "INDEX_TOO_LARGE", Any)
        /\ Calls(b, 1) /\ b[1] = Expect("ll_search", Middle + 1, "NO_ERROR", <<Middle>>)
        /\ Calls(c, 1) /\ c[1] = Expect("ll_search", 1, "NO_ERROR", <<0>>)
    BY TheSingles, Zenon
  <1>2. s = t \o b \o c \o ListDestroy
    BY DEF test_ll_search
  <1> HIDE DEF a, b, c, s
  <1>3. Three(t, ListNew, 1, a, 1, InsertAll, 2 * n)
    BY <1>1, TheEnds, TheInsertions, JoinThree
  <1> HIDE DEF t
  <1>4. /\ Calls(t, m) /\ t[0 + 1] = ListNew[1] /\ t[1 + 1] = a[1]
        /\ \A k \in 1 .. 2 * n : t[1 + 1 + k] = InsertAll[k]
    BY <1>3 DEF Three, Part
  <1>5. Four(s, t, m, b, 1, c, 1, ListDestroy, 1)
    BY <1>1, <1>2, <1>4, TheEnds, JoinFour
  <1>6. /\ Calls(s, m + 1 + 1 + 1)
        /\ \A k \in 1 .. m : s[0 + k] = t[k]
        /\ s[m + 1] = b[1] /\ s[m + 1 + 1] = c[1] /\ s[m + 1 + 1 + 1] = ListDestroy[1]
    BY <1>5 DEF Four, Part
  <1>7. /\ 0 + 1 = 1 /\ 1 + 1 = 2 /\ m + 1 = 2 * n + 3
        /\ m + 1 + 1 = 2 * n + 4 /\ m + 1 + 1 + 1 = 2 * n + 5
        /\ 1 \in 1 .. m /\ 2 \in 1 .. m
        /\ \A k \in 1 .. m : 0 + k = k
    OBVIOUS
  <1>8. ASSUME NEW j \in 0 .. n - 1
        PROVE  s[2 * j + 3] = Ok("malloc", j + 1) /\ s[2 * j + 4] = Ok("ll_insert", <<j + 1, -1>>)
    <2>1. /\ 2 * j + 1 \in 1 .. 2 * n /\ 1 + 1 + (2 * j + 1) = 2 * j + 3
          /\ 2 * j + 2 \in 1 .. 2 * n /\ 1 + 1 + (2 * j + 2) = 2 * j + 4
          /\ 2 * j + 3 \in 1 .. m /\ 2 * j + 4 \in 1 .. m
      OBVIOUS
    <2>2. t[2 * j + 3] = InsertAll[2 * j + 1] /\ t[2 * j + 4] = InsertAll[2 * j + 2]
      BY <1>4, <2>1
    <2>3. s[2 * j + 3] = t[2 * j + 3] /\ s[2 * j + 4] = t[2 * j + 4]
      BY <1>6, <1>7, <2>1
    <2> QED
      BY <2>2, <2>3, TheInsertions
  <1>9. s[1] = t[1] /\ s[2] = t[2]
    BY <1>6, <1>7
  <1> HIDE DEF m
  <1>10. s[1] = Ok("ll_init", 0) /\ s[2] = a[1]
    BY <1>4, <1>7, <1>9, TheEnds
  <1> QED
    BY <1>1, <1>6, <1>7, <1>8, <1>10, TheEnds, Zenon DEF s

LEMMA Script_ll_remove ==
  ASSUME num_inserts \in Nat
  PROVE  LET s == test_ll_remove
             n == num_inserts
         IN  /\ Calls(s, 2 * n + 10)
             /\ s[1] = Ok("ll_init", 0)
             /\ s[2] = Expect("ll_remove", 0, "INDEX_TOO_LARGE", Any)
             /\ \A j \in 0 .. n - 1 : /\ s[2 * j + 3] = Ok("malloc", j + 1)
                                      /\ s[2 * j + 4] = Ok("ll_insert", <<j + 1, -1>>)
             /\ s[2 * n + 3] = Expect("ll_remove", Middle, "NO_ERROR", <<Payload(Middle + 1)>>)
             /\ s[2 * n + 4] = Ok("free", Middle + 1)
             /\ s[2 * n + 5] = Expect("ll_remove", 0, "NO_ERROR", <<Payload(1)>>)
             /\ s[2 * n + 6] = Ok("free", 1)
             /\ s[2 * n + 7] = Expect("ll_remove", -1, "NO_ERROR", <<Payload(n)>>)
             /\ s[2 * n + 8] = Ok("free", n)
             /\ s[2 * n + 9] = Expect("ll_remove", n, "INDEX_TOO_LARGE", Any)
             /\ s[2 * n + 10] = Ok("ll_destroy", 0)
  <1> DEFINE n == num_inserts
             a == NoSuchIndex("ll_remove", 0)
             b == Remove(Middle, Middle + 1)
             c == Remove(0, 1)
             d == Remove(AtEnd, n)
             e == NoSuchIndex("ll_remove", n)
             t == ListNew \o a \o InsertAll \o b
             s == test_ll_remove
             m == 1 + 1 + 2 * n + 2
  <1>1. /\ Calls(a, 1) /\ a[1] = Expect("ll_remove", 0, "INDEX_TOO_LARGE", Any)
        /\ Calls(e, 1) /\ e[1] = Expect("ll_remove", n, "INDEX_TOO_LARGE", Any)
    BY TheSingles, Zenon
  <1>2. /\ Calls(b, 2) /\ b[1] = Expect("ll_remove", Middle, "NO_ERROR", <<Payload(Middle + 1)>>)
        /\ b[2] = Ok("free", Middle + 1)
        /\ Calls(c, 2) /\ c[1] = Expect("ll_remove", 0, "NO_ERROR", <<Payload(1)>>)
        /\ c[2] = Ok("free", 1)
        /\ Calls(d, 2) /\ d[1] = Expect("ll_remove", -1, "NO_ERROR", <<Payload(n)>>)
        /\ d[2] = Ok("free", n)
    <2>1. /\ Calls(b, 2) /\ b[1] = Expect("ll_remove", Middle, "NO_ERROR", <<Payload(Middle + 1)>>)
          /\ b[2] = Ok("free", Middle + 1)
      BY ThePairs, Zenon
    <2>2. /\ Calls(c, 2) /\ c[1] = Expect("ll_remove", 0, "NO_ERROR", <<Payload(1)>>)
          /\ c[2] = Ok("free", 1)
      BY ThePairs, Zenon
    <2>3. /\ Calls(d, 2) /\ d[1] = Expect("ll_remove", -1, "NO_ERROR", <<Payload(n)>>)
          /\ d[2] = Ok("free", n)
      BY ThePairs, Zenon DEF AtEnd
    <2> QED
      BY <2>1, <2>2, <2>3
  <1>3. s = t \o c \o d \o e \o ListDestroy
    BY DEF test_ll_remove
  <1> HIDE DEF a, b, c, d, e, s
  <1>4. Four(t, ListNew, 1, a, 1, InsertAll, 2 * n, b, 2)
    BY <1>1, <1>2, TheEnds, TheInsertions, JoinFour
  <1> HIDE DEF t
  <1>5. /\ Calls(t, m) /\ t[0 + 1] = ListNew[1] /\ t[1 + 1] = a[1]
        /\ \A k \in 1 .. 2 * n : t[1 + 1 + k] = InsertAll[k]
        /\ t[1 + 1 + 2 * n + 1] = b[1] /\ t[1 + 1 + 2 * n + 2] = b[2]
    BY <1>4 DEF Four, Part
  <1>6. Five(s, t, m, c, 2, d, 2, e, 1, ListDestroy, 1)
    BY <1>1, <1>2, <1>3, <1>5, TheEnds, JoinFive
  <1>7. /\ Calls(s, m + 2 + 2 + 1 + 1)
        /\ \A k \in 1 .. m : s[0 + k] = t[k]
        /\ s[m + 1] = c[1] /\ s[m + 2] = c[2]
        /\ s[m + 2 + 1] = d[1] /\ s[m + 2 + 2] = d[2]
        /\ s[m + 2 + 2 + 1] = e[1] /\ s[m + 2 + 2 + 1 + 1] = ListDestroy[1]
    BY <1>6 DEF Five, Part
  <1>8. /\ 0 + 1 = 1 /\ 1 + 1 = 2 /\ 1 + 1 + 2 * n + 1 = 2 * n + 3
        /\ 1 + 1 + 2 * n + 2 = 2 * n + 4
        /\ m + 1 = 2 * n + 5 /\ m + 2 = 2 * n + 6 /\ m + 2 + 1 = 2 * n + 7
        /\ m + 2 + 2 = 2 * n + 8 /\ m + 2 + 2 + 1 = 2 * n + 9
        /\ m + 2 + 2 + 1 + 1 = 2 * n + 10
        /\ 1 \in 1 .. m /\ 2 \in 1 .. m /\ 2 * n + 3 \in 1 .. m /\ 2 * n + 4 \in 1 .. m
        /\ \A k \in 1 .. m : 0 + k = k
    OBVIOUS
  <1>9. ASSUME NEW j \in 0 .. n - 1
        PROVE  s[2 * j + 3] = Ok("malloc", j + 1) /\ s[2 * j + 4] = Ok("ll_insert", <<j + 1, -1>>)
    <2>1. /\ 2 * j + 1 \in 1 .. 2 * n /\ 1 + 1 + (2 * j + 1) = 2 * j + 3
          /\ 2 * j + 2 \in 1 .. 2 * n /\ 1 + 1 + (2 * j + 2) = 2 * j + 4
          /\ 2 * j + 3 \in 1 .. m /\ 2 * j + 4 \in 1 .. m
      OBVIOUS
    <2>2. t[2 * j + 3] = InsertAll[2 * j + 1] /\ t[2 * j + 4] = InsertAll[2 * j + 2]
      BY <1>5, <2>1
    <2>3. s[2 * j + 3] = t[2 * j + 3] /\ s[2 * j + 4] = t[2 * j + 4]
      BY <1>7, <1>8, <2>1
    <2> QED
      BY <2>2, <2>3, TheInsertions
  <1>10. /\ s[1] = t[1] /\ s[2] = t[2]
         /\ s[2 * n + 3] = t[2 * n + 3] /\ s[2 * n + 4] = t[2 * n + 4]
    BY <1>7, <1>8
  <1> HIDE DEF m
  <1>11. s[1] = Ok("ll_init", 0) /\ s[2] = a[1] /\ s[2 * n + 3] = b[1] /\ s[2 * n + 4] = b[2]
    BY <1>5, <1>8, <1>10, TheEnds
  <1> QED
    BY <1>1, <1>2, <1>7, <1>8, <1>9, <1>11, TheEnds, Zenon DEF s

LEMMA Script_ll_size ==
  ASSUME num_inserts \in Nat, num_removes \in Nat
  PROVE  LET s == test_ll_size
             n == num_inserts
             r == num_removes
         IN  /\ Calls(s, 2 * n + 2 * r + 5)
             /\ s[1] = Ok("ll_init", 0)
             /\ s[2] = Expect("ll_size", 0, "NO_ERROR", <<0>>)
             /\ \A j \in 0 .. n - 1 : /\ s[2 * j + 3] = Ok("malloc", j + 1)
                                      /\ s[2 * j + 4] = Ok("ll_insert", <<j + 1, -1>>)
             /\ s[2 * n + 3] = Expect("ll_size", 0, "NO_ERROR", <<n>>)
             /\ \A j \in 0 .. r - 1 :
                  /\ s[2 * n + 2 * j + 4] = Ok("ll_remove", -1)
                  /\ s[2 * n + 2 * j + 5] = Ok("free", n - j)
             /\ s[2 * n + 2 * r + 4] = Expect("ll_size", 0, "NO_ERROR", <<n - r>>)
             /\ s[2 * n + 2 * r + 5] = Ok("ll_destroy", 0)
  <1> DEFINE n == num_inserts
             r == num_removes
             a == Size(0)
             b == Size(n)
             c == Size(n - r)
             t == ListNew \o a \o InsertAll \o b
             s == test_ll_size
             m == 1 + 1 + 2 * n + 1
  <1>1. /\ Calls(a, 1) /\ a[1] = Expect("ll_size", 0, "NO_ERROR", <<0>>)
        /\ Calls(b, 1) /\ b[1] = Expect("ll_size", 0, "NO_ERROR", <<n>>)
        /\ Calls(c, 1) /\ c[1] = Expect("ll_size", 0, "NO_ERROR", <<n - r>>)
    BY TheSingles, Zenon
  <1>2. s = t \o RemoveLast \o c \o ListDestroy
    BY DEF test_ll_size
  <1> HIDE DEF a, b, c, s
  <1>3. Four(t, ListNew, 1, a, 1, InsertAll, 2 * n, b, 1)
    BY <1>1, TheEnds, TheInsertions, JoinFour
  <1> HIDE DEF t
  <1>4. /\ Calls(t, m) /\ t[0 + 1] = ListNew[1] /\ t[1 + 1] = a[1]
        /\ \A k \in 1 .. 2 * n : t[1 + 1 + k] = InsertAll[k]
        /\ t[1 + 1 + 2 * n + 1] = b[1]
    BY <1>3 DEF Four, Part
  <1>5. Four(s, t, m, RemoveLast, 2 * r, c, 1, ListDestroy, 1)
    BY <1>1, <1>2, <1>4, TheEnds, TheRemovals, JoinFour
  <1>6. /\ Calls(s, m + 2 * r + 1 + 1)
        /\ \A k \in 1 .. m : s[0 + k] = t[k]
        /\ \A k \in 1 .. 2 * r : s[m + k] = RemoveLast[k]
        /\ s[m + 2 * r + 1] = c[1] /\ s[m + 2 * r + 1 + 1] = ListDestroy[1]
    BY <1>5 DEF Four, Part
  <1>7. /\ 0 + 1 = 1 /\ 1 + 1 = 2 /\ 1 + 1 + 2 * n + 1 = 2 * n + 3
        /\ m + 2 * r + 1 = 2 * n + 2 * r + 4 /\ m + 2 * r + 1 + 1 = 2 * n + 2 * r + 5
        /\ 1 \in 1 .. m /\ 2 \in 1 .. m /\ 2 * n + 3 \in 1 .. m
        /\ \A k \in 1 .. m : 0 + k = k
    OBVIOUS
  <1>8. ASSUME NEW j \in 0 .. n - 1
        PROVE  s[2 * j + 3] = Ok("malloc", j + 1) /\ s[2 * j + 4] = Ok("ll_insert", <<j + 1, -1>>)
    <2>1. /\ 2 * j + 1 \in 1 .. 2 * n /\ 1 + 1 + (2 * j + 1) = 2 * j + 3
          /\ 2 * j + 2 \in 1 .. 2 * n /\ 1 + 1 + (2 * j + 2) = 2 * j + 4
          /\ 2 * j + 3 \in 1 .. m /\ 2 * j + 4 \in 1 .. m
      OBVIOUS
    <2>2. t[2 * j + 3] = InsertAll[2 * j + 1] /\ t[2 * j + 4] = InsertAll[2 * j + 2]
      BY <1>4, <2>1
    <2>3. s[2 * j + 3] = t[2 * j + 3] /\ s[2 * j + 4] = t[2 * j + 4]
      BY <1>6, <1>7, <2>1
    <2> QED
      BY <2>2, <2>3, TheInsertions
  <1>9. ASSUME NEW j \in 0 .. r - 1
        PROVE  /\ s[2 * n + 2 * j + 4] = Ok("ll_remove", -1)
               /\ s[2 * n + 2 * j + 5] = Ok("free", n - j)
    <2>1. /\ 2 * j + 1 \in 1 .. 2 * r /\ m + (2 * j + 1) = 2 * n + 2 * j + 4
          /\ 2 * j + 2 \in 1 .. 2 * r /\ m + (2 * j + 2) = 2 * n + 2 * j + 5
      OBVIOUS
    <2>2. /\ s[2 * n + 2 * j + 4] = RemoveLast[2 * j + 1]
          /\ s[2 * n + 2 * j + 5] = RemoveLast[2 * j + 2]
      BY <1>6, <2>1
    <2> QED
      BY <2>2, TheRemovals
  <1>10. s[1] = t[1] /\ s[2] = t[2] /\ s[2 * n + 3] = t[2 * n + 3]
    BY <1>6, <1>7
  <1> HIDE DEF m
  <1>11. s[1] = Ok("ll_init", 0) /\ s[2] = a[1] /\ s[2 * n + 3] = b[1]
    BY <1>4, <1>7, <1>10, TheEnds
  <1> QED
    BY <1>1, <1>6, <1>7, <1>8, <1>9, <1>11, TheEnds, Zenon DEF s
----------------------------------------------------------------------------
(* The invariant.                                                          *)

(* Where a test stands before its k-th call: what the ring and the list     *)
(* hold, and which payloads are live.                                      *)

Holds(n) == handle = "live" /\ length = BUF_SIZE /\ count = n
Stores(a, n) == Holds(n) /\ \A i \in 1 .. n : C!Items[i] = a + i
Unused == handle \notin {"live", "draining"}

Lists(s) == p_head # NULL /\ P!ItemsOf = [i \in DOMAIN s |-> Payload(s[i])]
Upto(m) == [i \in 1 .. m |-> i]
Keeps(m) ==
  \E s \in [1 .. m -> 1 .. m] : Lists(s) /\ IsInjective(s) /\ Range(s) = 1 .. m
Apart == p_head = NULL

At_init_destroy(k) == (k # 2 => Unused) /\ (k = 2 => Holds(0))
At_null_buffer(k) ==
  /\ k = 1 \/ k = 8 => Unused
  /\ k = 2 => Holds(0)
  /\ k \in 3 .. 7 => handle = "nobuf"
At_add_remove_full(k) ==
  /\ k = 1 \/ k = 2 * BUF_SIZE + 3 => Unused
  /\ k \in 2 .. BUF_SIZE + 2 => Stores(0, k - 2)
  /\ k \in BUF_SIZE + 2 .. 2 * BUF_SIZE + 2 =>
       Stores(k - BUF_SIZE - 2, 2 * BUF_SIZE + 2 - k)
At_add_full(k) ==
  /\ k = 1 \/ k = BUF_SIZE + 4 => Unused
  /\ k \in 2 .. BUF_SIZE + 2 => Holds(k - 2)
  /\ k = BUF_SIZE + 3 => Holds(BUF_SIZE)
At_remove_empty(k) ==
  /\ k = 1 \/ k = 4 => Unused
  /\ k \in 2 .. 3 => Holds(0)
At_half_way(k) ==
  /\ k = 1 => Unused
  /\ k \in 2 .. Half + 2 => Stores(0, k - 2)
  /\ k \in Half + 2 .. 2 * Half + 2 => Stores(k - Half - 2, 2 * Half + 2 - k)
  /\ k \in 2 * Half + 2 .. 2 * Half + BUF_SIZE + 2 => Stores(0, k - 2 * Half - 2)
At_wrap_add(k) == At_half_way(k) /\ (k = 2 * Half + BUF_SIZE + 3 => Unused)
At_wrap_remove(k) ==
  /\ At_half_way(k)
  /\ k \in 2 * Half + BUF_SIZE + 2 .. 2 * Half + 2 * BUF_SIZE + 2 =>
       Stores(k - 2 * Half - BUF_SIZE - 2, 2 * Half + 2 * BUF_SIZE + 2 - k)
  /\ k = 2 * Half + 2 * BUF_SIZE + 3 => Unused
At_check_full(k) ==
  /\ k = 1 \/ k = BUF_SIZE + 5 => Unused
  /\ k = 2 => Holds(0)
  /\ k \in 3 .. BUF_SIZE + 3 => Holds(k - 3)
  /\ k = BUF_SIZE + 4 => Holds(BUF_SIZE)
At_check_empty(k) ==
  /\ k = 1 \/ k = 6 => Unused
  /\ k \in 2 .. 3 => Holds(0)
  /\ k \in 4 .. 5 => Holds(1)

At_ll_init_destroy(k) == (k # 2 => Apart) /\ (k = 2 => Lists(<<>>))
At_ll_ops_null_ptr(k) ==
  (k = 1 \/ k = 15 => Apart) /\ (k \in 2 .. 14 => Lists(<<>>))

(* Where InsertAll stands, from the f-th call on. *)
Inserting(k, f, L) ==
  /\ \A j \in 0 .. num_inserts :
       k = f + 2 * j => Lists(Upto(j)) /\ L = 1 .. j
  /\ \A j \in 0 .. num_inserts - 1 :
       k = f + 1 + 2 * j => Lists(Upto(j)) /\ L = 1 .. j + 1

At_ll_insert(k, L) ==
  LET n == num_inserts
  IN  /\ k = 1 \/ k = 2 * n + 8 => Apart /\ L = {}
      /\ Inserting(k, 2, L)
      /\ k \in 2 * n + 3 .. 2 * n + 4 => Lists(Upto(n)) /\ L = 1 .. k - n - 3
      /\ k \in 2 * n + 5 .. 2 * n + 6 => Keeps(n + 1) /\ L = 1 .. k - n - 4
      /\ k = 2 * n + 7 => Keeps(n + 2) /\ L = 1 .. n + 2

(* The numbers after c, m of them, without Middle + 1. *)
Skipping(c, m) == [i \in 1 .. m |-> IF c + i <= Middle THEN c + i ELSE c + i + 1]

At_ll_remove(k, L) ==
  LET n == num_inserts
  IN  /\ k = 1 \/ k = 2 * n + 11 => Apart /\ L = {}
      /\ k = 2 => Lists(<<>>) /\ L = {}
      /\ Inserting(k, 3, L)
      /\ k \in 2 * n + 4 .. 2 * n + 5 => Lists(Skipping(0, n - 1))
      /\ k \in 2 * n + 6 .. 2 * n + 7 => Lists(Skipping(1, n - 2))
      /\ k \in 2 * n + 8 .. 2 * n + 10 => Lists(Skipping(1, n - 3))
      /\ k = 2 * n + 4 => L = 1 .. n /\ ll_out = <<Payload(Middle + 1)>>
      /\ k = 2 * n + 5 => L = (1 .. n) \ {Middle + 1}
      /\ k = 2 * n + 6 => L = (1 .. n) \ {Middle + 1} /\ ll_out = <<Payload(1)>>
      /\ k = 2 * n + 7 => L = (2 .. n) \ {Middle + 1}
      /\ k = 2 * n + 8 => L = (2 .. n) \ {Middle + 1} /\ ll_out = <<Payload(n)>>
      /\ k \in 2 * n + 9 .. 2 * n + 10 => L = (2 .. n - 1) \ {Middle + 1}

At_ll_search(k, L) ==
  LET n == num_inserts
  IN  /\ k = 1 \/ k = 2 * n + 6 => Apart /\ L = {}
      /\ k = 2 => Lists(<<>>) /\ L = {}
      /\ Inserting(k, 3, L)
      /\ k \in 2 * n + 3 .. 2 * n + 5 => Lists(Upto(n)) /\ L = 1 .. n

At_ll_size(k, L) ==
  LET n == num_inserts
      r == num_removes
  IN  /\ k = 1 \/ k = 2 * n + 2 * r + 6 => Apart /\ L = {}
      /\ k = 2 => Lists(<<>>) /\ L = {}
      /\ Inserting(k, 3, L)
      /\ \A j \in 0 .. r : k = 2 * n + 4 + 2 * j => Lists(Upto(n - j)) /\ L = 1 .. n - j
      /\ \A j \in 0 .. r - 1 : k = 2 * n + 5 + 2 * j =>
           /\ Lists(Upto(n - j - 1)) /\ L = 1 .. n - j
           /\ ll_out = <<Payload(n - j)>>
      /\ k = 2 * n + 2 * r + 5 => Lists(Upto(n - r)) /\ L = 1 .. n - r

RingTest == test \in 1 .. 10

At(k, L) ==
  /\ IF RingTest THEN Apart /\ L = {} ELSE Unused
  /\ Suite[test] = "init_destroy" => At_init_destroy(k)
  /\ Suite[test] = "ops_null_ptr" => Unused
  /\ Suite[test] = "null_buffer" => At_null_buffer(k)
  /\ Suite[test] = "add_remove_full" => At_add_remove_full(k)
  /\ Suite[test] = "add_full" => At_add_full(k)
  /\ Suite[test] = "remove_empty" => At_remove_empty(k)
  /\ Suite[test] = "wrap_add" => At_wrap_add(k)
  /\ Suite[test] = "wrap_remove" => At_wrap_remove(k)
  /\ Suite[test] = "check_full" => At_check_full(k)
  /\ Suite[test] = "check_empty" => At_check_empty(k)
  /\ Suite[test] = "ll_init_destroy" => At_ll_init_destroy(k) /\ L = {}
  /\ Suite[test] = "ll_ops_null_ptr" => At_ll_ops_null_ptr(k) /\ L = {}
  /\ Suite[test] = "ll_insert" => At_ll_insert(k, L)
  /\ Suite[test] = "ll_remove" => At_ll_remove(k, L)
  /\ Suite[test] = "ll_search" => At_ll_search(k, L)
  /\ Suite[test] = "ll_size" => At_ll_size(k, L)

(* A call of the list that has started and not returned. *)
Underway(s) ==
  \/ s.call = "ll_insert" /\ pc \in {"insert", "link"}
       /\ item = Payload(s.arg[1]) /\ index = s.arg[2]
  \/ s.call = "ll_remove" /\ pc = "remove" /\ index = s.arg
  \/ s.call = "ll_search" /\ pc = "search" /\ item = Payload(s.arg)
  \/ s.call = "ll_size" /\ pc = "size"
  \/ s.call = "ll_destroy" /\ pc = "destroy"

Idle == pc = "idle"
Clean == Unused /\ Apart /\ Idle /\ live = {}
FreesOnce == IsInjective(Released) /\ Range(Released) \subseteq live

Size_(n) == IF Suite[test] = "ll_insert" THEN n + 2 ELSE n
RandomsOK ==
  /\ num_inserts \in Drawn /\ Enough(num_inserts)
  /\ num_removes \in {0} \cup 0 .. num_inserts - 1
  /\ Suite[test] # "ll_size" => num_removes = 0
  /\ vals \in [1 .. Size_(num_inserts) -> Vals]

ClientOK ==
  /\ TypeOK
  /\ failed \subseteq {Suite[i] : i \in 1 .. test - 1}

Calling ==
  /\ RandomsOK /\ ~short /\ Idle
  /\ at \in 1 .. Len(Script) + 1 /\ At(at, live)
Checking ==
  /\ RandomsOK /\ at \in 1 .. Len(Script)
  /\ \/ ~short /\ Underway(Now) /\ At(at, live)
     \/ ~short /\ Idle /\ Asserted(Now) /\ FreesOnce /\ At(at + 1, live \ Range(Released))
     \/ Idle /\ ~Asserted(Now) /\ Released = <<>> /\ (short \/ SameContents)
 
ClientInv ==
  /\ ClientOK
  /\ phase = "setup" => Clean /\ at = 1
  /\ phase # "setup" => Running
  /\ phase = "call" => Calling
  /\ phase = "check" => Checking
----------------------------------------------------------------------------
(* The script of each test, and where it stands.                           *)

LEMMA Suites ==
  /\ Len(Suite) = 16
  /\ Suite[1] = "init_destroy" /\ Suite[2] = "ops_null_ptr"
  /\ Suite[3] = "null_buffer" /\ Suite[4] = "add_remove_full"
  /\ Suite[5] = "add_full" /\ Suite[6] = "remove_empty"
  /\ Suite[7] = "wrap_add" /\ Suite[8] = "wrap_remove"
  /\ Suite[9] = "check_full" /\ Suite[10] = "check_empty"
  /\ Suite[11] = "ll_init_destroy" /\ Suite[12] = "ll_ops_null_ptr"
  /\ Suite[13] = "ll_insert" /\ Suite[14] = "ll_remove"
  /\ Suite[15] = "ll_search" /\ Suite[16] = "ll_size"
  BY DEF Suite

(* No two tests have the same name. *)
LEMMA SuiteIsInjective ==
  \A i, j \in 1 .. 16 : Suite[i] = Suite[j] => i = j
  BY Suites

LEMMA ScriptOf ==
  /\ test = 1 => Script = test_circbuf_init_destroy
  /\ test = 2 => Script = test_circbuf_ops_null_ptr
  /\ test = 3 => Script = test_circbuf_null_buffer
  /\ test = 4 => Script = test_circbuf_add_remove_full
  /\ test = 5 => Script = test_circbuf_add_full
  /\ test = 6 => Script = test_circbuf_remove_empty
  /\ test = 7 => Script = test_circbuf_wrap_add
  /\ test = 8 => Script = test_circbuf_wrap_remove
  /\ test = 9 => Script = test_circbuf_check_full
  /\ test = 10 => Script = test_circbuf_check_empty
  /\ test = 11 => Script = test_ll_init_destroy
  /\ test = 12 => Script = test_ll_ops_null_ptr
  /\ test = 13 => Script = test_ll_insert
  /\ test = 14 => Script = test_ll_remove
  /\ test = 15 => Script = test_ll_search
  /\ test = 16 => Script = test_ll_size
  BY Suites, SMTT(30) DEF Script

LEMMA AtOf ==
  ASSUME NEW k, NEW L
  PROVE  /\ test = 1 => (At(k, L) <=> Apart /\ L = {} /\ At_init_destroy(k))
         /\ test = 2 => (At(k, L) <=> Apart /\ L = {} /\ Unused)
         /\ test = 3 => (At(k, L) <=> Apart /\ L = {} /\ At_null_buffer(k))
         /\ test = 4 => (At(k, L) <=> Apart /\ L = {} /\ At_add_remove_full(k))
         /\ test = 5 => (At(k, L) <=> Apart /\ L = {} /\ At_add_full(k))
         /\ test = 6 => (At(k, L) <=> Apart /\ L = {} /\ At_remove_empty(k))
         /\ test = 7 => (At(k, L) <=> Apart /\ L = {} /\ At_wrap_add(k))
         /\ test = 8 => (At(k, L) <=> Apart /\ L = {} /\ At_wrap_remove(k))
         /\ test = 9 => (At(k, L) <=> Apart /\ L = {} /\ At_check_full(k))
         /\ test = 10 => (At(k, L) <=> Apart /\ L = {} /\ At_check_empty(k))
         /\ test = 11 => (At(k, L) <=> Unused /\ At_ll_init_destroy(k) /\ L = {})
         /\ test = 12 => (At(k, L) <=> Unused /\ At_ll_ops_null_ptr(k) /\ L = {})
         /\ test = 13 => (At(k, L) <=> Unused /\ At_ll_insert(k, L))
         /\ test = 14 => (At(k, L) <=> Unused /\ At_ll_remove(k, L))
         /\ test = 15 => (At(k, L) <=> Unused /\ At_ll_search(k, L))
         /\ test = 16 => (At(k, L) <=> Unused /\ At_ll_size(k, L))
  <1>1. test = 1 => (At(k, L) <=> Apart /\ L = {} /\ At_init_destroy(k))
    BY Suites DEF At, RingTest
  <1>2. test = 2 => (At(k, L) <=> Apart /\ L = {} /\ Unused)
    BY Suites DEF At, RingTest
  <1>3. test = 3 => (At(k, L) <=> Apart /\ L = {} /\ At_null_buffer(k))
    BY Suites DEF At, RingTest
  <1>4. test = 4 => (At(k, L) <=> Apart /\ L = {} /\ At_add_remove_full(k))
    BY Suites DEF At, RingTest
  <1>5. test = 5 => (At(k, L) <=> Apart /\ L = {} /\ At_add_full(k))
    BY Suites DEF At, RingTest
  <1>6. test = 6 => (At(k, L) <=> Apart /\ L = {} /\ At_remove_empty(k))
    BY Suites DEF At, RingTest
  <1>7. test = 7 => (At(k, L) <=> Apart /\ L = {} /\ At_wrap_add(k))
    BY Suites DEF At, RingTest
  <1>8. test = 8 => (At(k, L) <=> Apart /\ L = {} /\ At_wrap_remove(k))
    BY Suites DEF At, RingTest
  <1>9. test = 9 => (At(k, L) <=> Apart /\ L = {} /\ At_check_full(k))
    BY Suites DEF At, RingTest
  <1>10. test = 10 => (At(k, L) <=> Apart /\ L = {} /\ At_check_empty(k))
    BY Suites DEF At, RingTest
  <1>11. test = 11 => (At(k, L) <=> Unused /\ At_ll_init_destroy(k) /\ L = {})
    BY Suites DEF At, RingTest
  <1>12. test = 12 => (At(k, L) <=> Unused /\ At_ll_ops_null_ptr(k) /\ L = {})
    BY Suites DEF At, RingTest
  <1>13. test = 13 => (At(k, L) <=> Unused /\ At_ll_insert(k, L))
    BY Suites DEF At, RingTest
  <1>14. test = 14 => (At(k, L) <=> Unused /\ At_ll_remove(k, L))
    BY Suites DEF At, RingTest
  <1>15. test = 15 => (At(k, L) <=> Unused /\ At_ll_search(k, L))
    BY Suites DEF At, RingTest
  <1>16. test = 16 => (At(k, L) <=> Unused /\ At_ll_size(k, L))
    BY Suites DEF At, RingTest
  <1> QED
    BY <1>1, <1>2, <1>3, <1>4, <1>5, <1>6, <1>7, <1>8, <1>9,
       <1>10, <1>11, <1>12, <1>13, <1>14, <1>15, <1>16
----------------------------------------------------------------------------
(* What the ring answers the calls of a test.                              *)

(* The answer is the one asserted; it is not, and an allocation failed. *)
RingGood(s) == status' = s.code /\ (s.gives = Any \/ s.gives = out')
RingFailed(s) == ~RingGood(s) /\ short'

LEMMA RingStutter ==
  ASSUME C!RingInv, UNCHANGED ringVars
  PROVE  C!RingInv'
  BY RingAssumption, C!StutterKeepsInv DEF ringVars, C!vars

LEMMA RingInits ==
  ASSUME C!RingInv, Unused, NEW s, s = Ok("circbuf_init", BUF_SIZE), RingCall(s)
  PROVE  C!RingInv' /\ ((RingGood(s) /\ Holds(0)') \/ RingFailed(s))
  <1>1. CB!circbuf_init(BUF_SIZE) /\ status' # "NULL_POINTER" /\ Allocates(status')
    BY DEF RingCall, Ok, Expect
  <1>2. C!circbuf_init(BUF_SIZE) /\ BUF_SIZE \in 0 .. BUF_SIZE /\ BUF_SIZE > 0
    BY <1>1, RingSteps, SizesAreNumbers
  <1>3. C!RingInv'
    BY <1>2, RingAssumption, C!InitKeepsInv
  <1>4. \/ status' = "ALLOC_FAILURE"
        \/ /\ status' = "NO_ERROR"
           /\ handle' = "live" /\ length' = BUF_SIZE /\ count' = 0
    <2>1. \/ C!InitNull \/ C!InitNoLength(BUF_SIZE) \/ C!InitNoStruct(BUF_SIZE)
          \/ C!InitNoBuffer(BUF_SIZE) \/ C!InitOk(BUF_SIZE)
      BY <1>2, Zenon DEF C!circbuf_init
    <2> QED
      BY <1>1, <1>2, <2>1, SMT DEF C!InitNull, C!InitNoLength, C!InitNoStruct,
           C!InitNoBuffer, C!InitOk, C!Refuse, C!Reply
  <1>5. s.code = "NO_ERROR" /\ s.gives = Any
    BY DEF Ok, Expect
  <1> QED
    BY <1>1, <1>3, <1>4, <1>5 DEF RingGood, RingFailed, Holds, Allocates

(* A call that is refused leaves the ring as it was. *)
LEMMA RingRefuses ==
  ASSUME C!RingInv, NEW code \in C!Codes, C!Refuse(code)
  PROVE  /\ C!RingInv' /\ status' = code /\ out' = <<>> /\ handle' = handle
         /\ \A n : Holds(n) => Holds(n)'
         /\ \A a, n : Stores(a, n) => Stores(a, n)'
  <1>1. C!RingInv'
    BY RingAssumption, C!RefuseKeepsInv
  <1> QED
    BY <1>1 DEF C!Refuse, C!Reply, C!ring, Holds, Stores, C!Items, C!PeekSlot

LEMMA RingAdds ==
  ASSUME C!RingInv, NEW n, Holds(n), NEW s, RingCall(s),
         s.call = "circbuf_add_item", s.arg \in 0 .. BUF_SIZE
  PROVE  /\ C!RingInv' /\ n \in 0 .. BUF_SIZE
         /\ n < BUF_SIZE =>
              /\ status' = "NO_ERROR" /\ Holds(n + 1)'
              /\ \A a \in Int : Stores(a, n) /\ s.arg = a + n + 1 => Stores(a, n + 1)'
         /\ n = BUF_SIZE => status' = "FULL" /\ Holds(n)'
  <1>1. C!circbuf_add_item(s.arg)
    BY RingSteps DEF RingCall
  <1>2. C!RingInv'
    BY <1>1, RingAssumption, C!AddKeepsInv
  <1>3. /\ handle = "live" /\ length = BUF_SIZE /\ count = n
        /\ C!InUse /\ ~C!NoBuffer /\ count \in 0 .. BUF_SIZE
    BY SizesAreNumbers DEF Holds, C!RingInv, C!TypeOK, C!InUse, C!NoBuffer
  <1>4. CASE n = BUF_SIZE
    <2>1. C!Refuse("FULL")
      BY <1>1, <1>3, <1>4 DEF C!circbuf_add_item, C!IsFull
    <2>2. "FULL" \in C!Codes
      BY DEF C!Codes
    <2>3. status' = "FULL" /\ Holds(n)'
      BY <2>1, <2>2, RingRefuses
    <2> QED
      BY <1>2, <1>3, <1>4, <2>3
  <1>5. CASE n < BUF_SIZE
    <2>1. /\ ~C!IsFull /\ C!Store(s.arg) /\ C!Reply("NO_ERROR", <<>>)
          /\ UNCHANGED <<handle, tail, length, freed>>
      BY <1>1, <1>3, <1>5 DEF C!circbuf_add_item, C!IsFull
    <2>2. C!Items' = Append(C!Items, s.arg)
      BY <1>2, <1>3, <2>1, RingAssumption, C!StoreAppends
    <2>3. C!Items \in Seq(0 .. BUF_SIZE) /\ Len(C!Items) = n
      BY <1>3, RingAssumption, C!ItemAt
    <2>4. Holds(n + 1)' /\ status' = "NO_ERROR"
      BY <1>3, <2>1 DEF Holds, C!Store, C!Reply
    <2>5. ASSUME NEW a \in Int, Stores(a, n), s.arg = a + n + 1
          PROVE  Stores(a, n + 1)'
      <3>1. \A i \in 1 .. n : C!Items[i] = a + i
        BY <2>5 DEF Stores
      <3>2. \A i \in 1 .. n + 1 : Append(C!Items, s.arg)[i] = a + i
        BY <1>3, <2>3, <2>5, <3>1
      <3>3. \A i \in 1 .. n + 1 : C!Items'[i] = a + i
        BY <2>2, <3>2, Zenon
      <3> QED
        BY <2>4, <3>3 DEF Stores
    <2> QED
      BY <1>2, <1>3, <1>5, <2>4, <2>5
  <1> QED
    BY <1>3, <1>4, <1>5, SizesAreNumbers

LEMMA RingTakes ==
  ASSUME C!RingInv, NEW n, Holds(n), NEW s, RingCall(s), s.call = "circbuf_remove_item"
  PROVE  /\ C!RingInv' /\ n \in 0 .. BUF_SIZE
         /\ n = 0 => status' = "EMPTY" /\ Holds(0)'
         /\ n > 0 => \A a \in Int : Stores(a, n) =>
              /\ status' = "NO_ERROR" /\ out' = <<a + 1>>
              /\ Stores(a + 1, n - 1)'
  <1>1. C!circbuf_remove_item(TRUE)
    BY RingSteps, Zenon DEF RingCall
  <1>2. C!RingInv'
    BY <1>1, RingAssumption, C!RemoveKeepsInv, Zenon
  <1>3. /\ handle = "live" /\ length = BUF_SIZE /\ count = n
        /\ C!InUse /\ ~C!NoBuffer /\ count \in 0 .. BUF_SIZE
    BY SizesAreNumbers DEF Holds, C!RingInv, C!TypeOK, C!InUse, C!NoBuffer
  <1>4. CASE n = 0
    <2>1. C!Refuse("EMPTY") /\ "EMPTY" \in C!Codes
      BY <1>1, <1>3, <1>4 DEF C!circbuf_remove_item, C!Codes
    <2>2. status' = "EMPTY" /\ Holds(n)'
      BY <2>1, RingRefuses
    <2> QED
      BY <1>2, <1>3, <1>4, <2>2
  <1>5. CASE n > 0
    <2>1. /\ C!TakeFront /\ C!Reply("NO_ERROR", <<C!Front>>)
          /\ UNCHANGED <<handle, buffer, head, length, freed>>
      BY <1>1, <1>3, <1>5 DEF C!circbuf_remove_item
    <2>2. /\ C!Items[1] = C!Front
          /\ C!Items' \in Seq(0 .. BUF_SIZE) /\ Len(C!Items') = count - 1
          /\ \A i \in 1 .. count - 1 : C!Items'[i] = C!Items[i + 1]
      BY <1>3, <1>5, <2>1, RingAssumption, C!TakeFrontIsTail
    <2>3. Holds(n - 1)' /\ status' = "NO_ERROR" /\ out' = <<C!Front>>
      BY <1>3, <2>1 DEF Holds, C!TakeFront, C!Reply
    <2>4. ASSUME NEW a \in Int, Stores(a, n)
          PROVE  out' = <<a + 1>> /\ Stores(a + 1, n - 1)'
      <3>1. \A i \in 1 .. n : C!Items[i] = a + i
        BY <2>4 DEF Stores
      <3>2. \A i \in 1 .. n - 1 : C!Items'[i] = a + 1 + i
        BY <1>3, <2>2, <3>1
      <3>3. C!Front = a + 1
        BY <1>3, <1>5, <2>2, <3>1
      <3> QED
        BY <2>3, <3>2, <3>3 DEF Stores
    <2> QED
      BY <1>2, <1>3, <1>5, <2>3, <2>4
  <1> QED
    BY <1>3, <1>4, <1>5

LEMMA RingAsks ==
  ASSUME C!RingInv, NEW n, Holds(n), NEW s, RingCall(s)
  PROVE  /\ s.call = "circbuf_full" =>
              /\ C!RingInv' /\ Holds(n)'
              /\ status' = IF n = BUF_SIZE THEN "FULL" ELSE "FAILURE"
         /\ s.call = "circbuf_empty" =>
              /\ C!RingInv' /\ Holds(n)'
              /\ status' = IF n = 0 THEN "EMPTY" ELSE "FAILURE"
  <1>1. handle = "live" /\ length = BUF_SIZE /\ count = n
    BY DEF Holds
  <1>2. ASSUME s.call = "circbuf_full"
        PROVE  /\ C!RingInv' /\ Holds(n)'
               /\ status' = IF n = BUF_SIZE THEN "FULL" ELSE "FAILURE"
    <2> DEFINE code == IF n = BUF_SIZE THEN "FULL" ELSE "FAILURE"
    <2>1. C!circbuf_full
      BY <1>2, RingSteps DEF RingCall
    <2>2. C!Refuse(code) /\ code \in C!Codes
      BY <1>1, <2>1 DEF C!circbuf_full, C!IsFull, C!Codes
    <2> HIDE DEF code
    <2>3. C!RingInv' /\ Holds(n)' /\ status' = code
      BY <2>2, RingRefuses
    <2> QED
      BY <2>3 DEF code
  <1>3. ASSUME s.call = "circbuf_empty"
        PROVE  /\ C!RingInv' /\ Holds(n)'
               /\ status' = IF n = 0 THEN "EMPTY" ELSE "FAILURE"
    <2> DEFINE code == IF n = 0 THEN "EMPTY" ELSE "FAILURE"
    <2>1. C!circbuf_empty
      BY <1>3, RingSteps DEF RingCall
    <2>2. C!Refuse(code) /\ code \in C!Codes
      BY <1>1, <2>1 DEF C!circbuf_empty, C!Codes
    <2> HIDE DEF code
    <2>3. C!RingInv' /\ Holds(n)' /\ status' = code
      BY <2>2, RingRefuses
    <2> QED
      BY <2>3 DEF code
  <1> QED
    BY <1>2, <1>3

LEMMA RingEnds ==
  ASSUME C!RingInv, NEW n, Holds(n), NEW s, RingCall(s)
  PROVE  /\ s.call = "circbuf_destroy" => C!RingInv' /\ status' = "NO_ERROR" /\ Unused'
         /\ s.call = "circbuf_null_buffer" =>
              C!RingInv' /\ status' = "NO_ERROR" /\ handle' = "nobuf"
  <1>1. handle = "live"
    BY DEF Holds
  <1>2. ASSUME s.call = "circbuf_destroy"
        PROVE  C!RingInv' /\ status' = "NO_ERROR" /\ Unused'
    <2>1. C!circbuf_destroy
      BY <1>2, RingSteps DEF RingCall
    <2>2. C!RingInv'
      BY <2>1, RingAssumption, C!DestroyKeepsInv
    <2> QED
      BY <1>1, <2>1, <2>2 DEF C!circbuf_destroy, C!NoBuffer, C!Release, C!Reply, Unused
  <1>3. ASSUME s.call = "circbuf_null_buffer"
        PROVE  C!RingInv' /\ status' = "NO_ERROR" /\ handle' = "nobuf"
    <2>1. C!circbuf_null_buffer
      BY <1>3, RingSteps DEF RingCall
    <2>2. C!RingInv'
      BY <2>1, RingAssumption, C!NullBufferKeepsInv
    <2> QED
      BY <1>1, <2>1, <2>2 DEF C!circbuf_null_buffer, C!Reply
  <1> QED
    BY <1>2, <1>3

(* With no internal buffer every call of the tests is refused, until the    *)
(* test frees the structure itself.                                         *)
LEMMA RingWithoutBuffer ==
  ASSUME C!RingInv, handle = "nobuf", NEW s, RingCall(s)
  PROVE  /\ s.call \in {"circbuf_add_item", "circbuf_remove_item", "circbuf_peek",
                        "circbuf_destroy"} =>
              C!RingInv' /\ status' = "NULL_POINTER" /\ handle' = "nobuf"
         /\ s.call = "free buf" => C!RingInv' /\ status' = "NO_ERROR" /\ Unused'
  <1>1. C!NoBuffer /\ handle # "live"
    BY DEF C!NoBuffer
  <1>2. ASSUME s.call \in {"circbuf_add_item", "circbuf_remove_item", "circbuf_peek",
                           "circbuf_destroy"}
        PROVE  C!RingInv' /\ status' = "NULL_POINTER" /\ handle' = "nobuf"
    <2>1. \/ C!circbuf_add_item(s.arg) \/ C!circbuf_remove_item(TRUE)
          \/ C!circbuf_peek(s.arg) \/ C!circbuf_destroy
      BY <1>2, RingSteps, Zenon DEF RingCall
    <2>2. C!Refuse("NULL_POINTER") /\ "NULL_POINTER" \in C!Codes
      BY <1>1, <2>1 DEF C!circbuf_add_item, C!circbuf_remove_item, C!circbuf_peek,
           C!circbuf_destroy, C!Refuse, C!Codes
    <2> QED
      BY <2>2, RingRefuses
  <1>3. ASSUME s.call = "free buf"
        PROVE  C!RingInv' /\ status' = "NO_ERROR" /\ Unused'
    <2>1. CB!Release /\ CB!Reply("NO_ERROR", <<>>)
      BY <1>3, Zenon DEF RingCall
    <2>2. C!Release /\ C!Reply("NO_ERROR", <<>>)
      BY <2>1, RingSteps
    <2>3. <<>> \in Seq(C!Cells)
      OBVIOUS
    <2>4. C!RingInv'
      BY <2>2, <2>3, RingAssumption, C!ReleaseKeepsInv, Zenon
    <2> QED
      BY <2>2, <2>4 DEF C!Release, C!Reply, Unused
  <1> QED
    BY <1>2, <1>3, Zenon

LEMMA RingOfNull ==
  ASSUME C!RingInv, NEW s, RingCall(s), s.call = "circbuf NULL"
  PROVE  C!RingInv' /\ status' = "NULL_POINTER" /\ handle' = handle
  <1>1. C!Refuse("NULL_POINTER") /\ "NULL_POINTER" \in C!Codes
    BY RingSteps, Zenon DEF RingCall, C!Codes
  <1> QED
    BY <1>1, RingRefuses, Zenon
(* The calls the tests make most, with what they assert of them. *)
LEMMA Destroys ==
  ASSUME C!RingInv, NEW n, Holds(n), NEW s, RingCall(s), s = Ok("circbuf_destroy", 0)
  PROVE  C!RingInv' /\ RingGood(s) /\ Unused'
  <1>1. s.call = "circbuf_destroy" /\ s.code = "NO_ERROR" /\ s.gives = Any
    BY DEF Ok, Expect
  <1> QED
    BY <1>1, RingEnds DEF RingGood

LEMMA Fills ==
  ASSUME C!RingInv, NEW n, Holds(n), n < BUF_SIZE,
         NEW i \in 0 .. BUF_SIZE, NEW s, RingCall(s), s = Add(i)
  PROVE  C!RingInv' /\ RingGood(s) /\ Holds(n + 1)'
  <1>1. /\ s.call = "circbuf_add_item" /\ s.arg = i /\ s.code = "NO_ERROR"
        /\ s.gives = Any
    BY DEF Add, Ok, Expect
  <1> QED
    BY <1>1, RingAdds DEF RingGood

LEMMA Adds ==
  ASSUME C!RingInv, NEW a \in Int, NEW n, Stores(a, n), n < BUF_SIZE,
         NEW i \in 0 .. BUF_SIZE, i = a + n + 1, NEW s, RingCall(s), s = Add(i)
  PROVE  C!RingInv' /\ RingGood(s) /\ Stores(a, n + 1)'
  <1>1. /\ s.call = "circbuf_add_item" /\ s.arg = i /\ s.code = "NO_ERROR"
        /\ s.gives = Any
    BY DEF Add, Ok, Expect
  <1>2. Holds(n)
    BY DEF Stores
  <1> QED
    BY <1>1, <1>2, RingAdds DEF RingGood

LEMMA Takes ==
  ASSUME C!RingInv, NEW a \in Int, NEW n, Stores(a, n), n > 0,
         NEW i, i = a + 1, NEW s, RingCall(s), s = Take(i)
  PROVE  C!RingInv' /\ RingGood(s) /\ Stores(i, n - 1)'
  <1>1. s.call = "circbuf_remove_item" /\ s.code = "NO_ERROR" /\ s.gives = <<i>>
    BY DEF Take, Expect
  <1>2. Holds(n)
    BY DEF Stores
  <1>3. C!RingInv' /\ status' = "NO_ERROR" /\ out' = <<i>> /\ Stores(i, n - 1)'
    BY <1>1, <1>2, RingTakes
  <1> QED
    BY <1>1, <1>3 DEF RingGood
----------------------------------------------------------------------------
(* The tests of the ring, call by call.                                    *)

RingStep(after) == C!RingInv' /\ ((RingGood(Now) /\ after) \/ RingFailed(Now))

LEMMA Step_init_destroy ==
  ASSUME C!RingInv, test = 1, at \in 1 .. Len(Script), at' = at, RingCall(Now),
         At_init_destroy(at)
  PROVE  RingStep(At_init_destroy(at + 1)')
  <1>1. Script = test_circbuf_init_destroy /\ at \in 1 .. 2
    BY ScriptOf, Script_init_destroy, Zenon DEF Calls
  <1>2. CASE at = 1
    <2>1. Now = Ok("circbuf_init", BUF_SIZE) /\ Unused
      BY <1>1, <1>2, Script_init_destroy DEF Now, At_init_destroy
    <2>2. C!RingInv' /\ ((RingGood(Now) /\ Holds(0)') \/ RingFailed(Now))
      BY <2>1, RingInits
    <2> QED
      BY <1>2, <2>2 DEF RingStep, At_init_destroy
  <1>3. CASE at = 2
    <2>1. Now = Ok("circbuf_destroy", 0) /\ Holds(0)
      BY <1>1, <1>3, Script_init_destroy DEF Now, At_init_destroy
    <2>2. C!RingInv' /\ status' = "NO_ERROR" /\ Unused'
      BY <2>1, RingEnds DEF Ok, Expect
    <2> QED
      BY <1>3, <2>1, <2>2 DEF RingStep, At_init_destroy, RingGood, Ok, Expect
  <1> QED
    BY <1>1, <1>2, <1>3

LEMMA Step_ops_null_ptr ==
  ASSUME C!RingInv, test = 2, at \in 1 .. Len(Script), at' = at, RingCall(Now), Unused
  PROVE  RingStep(Unused')
  <1>1. Now = Refused("circbuf NULL", 0)
    BY ScriptOf, Script_ops_null_ptr, Zenon DEF Calls, Now
  <1>2. C!RingInv' /\ status' = "NULL_POINTER" /\ handle' = handle
    BY <1>1, RingOfNull, Zenon DEF Refused, Expect
  <1> QED
    BY <1>1, <1>2, Zenon DEF RingStep, RingGood, Refused, Expect, Unused

LEMMA Step_null_buffer ==
  ASSUME C!RingInv, test = 3, at \in 1 .. Len(Script), at' = at, RingCall(Now),
         At_null_buffer(at)
  PROVE  RingStep(At_null_buffer(at + 1)')
  <1>1. Script = test_circbuf_null_buffer /\ at \in 1 .. 7
    BY ScriptOf, Script_null_buffer, Zenon DEF Calls
  <1>2. CASE at = 1
    <2>1. Now = Ok("circbuf_init", BUF_SIZE) /\ Unused
      BY <1>1, <1>2, Script_null_buffer, Zenon DEF Now, At_null_buffer
    <2>2. C!RingInv' /\ ((RingGood(Now) /\ Holds(0)') \/ RingFailed(Now))
      BY <2>1, RingInits
    <2> QED
      BY <1>2, <2>2 DEF RingStep, At_null_buffer
  <1>3. CASE at = 2
    <2>1. Now = Ok("circbuf_null_buffer", 0) /\ Holds(0)
      BY <1>1, <1>3, Script_null_buffer, Zenon DEF Now, At_null_buffer
    <2>2. C!RingInv' /\ status' = "NO_ERROR" /\ handle' = "nobuf"
      BY <2>1, RingEnds DEF Ok, Expect
    <2> QED
      BY <1>3, <2>1, <2>2 DEF RingStep, At_null_buffer, RingGood, Ok, Expect
  <1>4. ASSUME at \in 3 .. 7 PROVE handle = "nobuf"
    BY <1>4 DEF At_null_buffer
  <1>5. CASE at \in 3 .. 6
    <2>1. Now = Script[at] /\ handle = "nobuf"
      BY <1>4, <1>5 DEF Now
    <2>2. \/ Now = Refused("circbuf_add_item", 1) \/ Now = Refused("circbuf_remove_item", 0)
          \/ Now = Refused("circbuf_peek", 1) \/ Now = Refused("circbuf_destroy", 0)
      <3>1. at = 3 \/ at = 4 \/ at = 5 \/ at = 6
        BY <1>5
      <3> QED
        BY <1>1, <2>1, <3>1, Script_null_buffer, Zenon
    <2>3. /\ Now.code = "NULL_POINTER" /\ Now.gives = Any
          /\ Now.call \in {"circbuf_add_item", "circbuf_remove_item", "circbuf_peek",
                           "circbuf_destroy"}
      BY <2>2 DEF Refused, Expect
    <2>4. C!RingInv' /\ status' = "NULL_POINTER" /\ handle' = "nobuf"
      BY <2>1, <2>3, RingWithoutBuffer, Zenon
    <2>5. At_null_buffer(at + 1)'
      BY <1>5, <2>4 DEF At_null_buffer
    <2> QED
      BY <2>3, <2>4, <2>5 DEF RingStep, RingGood
  <1>6. CASE at = 7
    <2>1. Now = Ok("free buf", 0)
      BY <1>1, <1>6, Script_null_buffer, Zenon DEF Now
    <2>2. handle = "nobuf"
      BY <1>4, <1>6
    <2>3. Now.call = "free buf" /\ Now.code = "NO_ERROR" /\ Now.gives = Any
      BY <2>1, Zenon DEF Ok, Expect
    <2>4. C!RingInv' /\ status' = "NO_ERROR" /\ Unused'
      BY <2>2, <2>3, RingWithoutBuffer, Zenon
    <2>5. At_null_buffer(at + 1)'
      BY <1>6, <2>4 DEF At_null_buffer
    <2> QED
      BY <2>3, <2>4, <2>5, Zenon DEF RingStep, RingGood
  <1> QED
    BY <1>1, <1>2, <1>3, <1>5, <1>6

LEMMA Step_add_remove_full ==
  ASSUME C!RingInv, test = 4, at \in 1 .. Len(Script), at' = at, RingCall(Now),
         At_add_remove_full(at)
  PROVE  RingStep(At_add_remove_full(at + 1)')
  <1>1. Script = test_circbuf_add_remove_full /\ at \in 1 .. 2 * BUF_SIZE + 2
    BY ScriptOf, Script_add_remove_full DEF Calls
  <1>2. CASE at = 1
    <2>1. Now = Ok("circbuf_init", BUF_SIZE) /\ Unused
      BY <1>1, <1>2, Script_add_remove_full DEF Now, At_add_remove_full
    <2>2. C!RingInv' /\ ((RingGood(Now) /\ Holds(0)') \/ RingFailed(Now))
      BY <2>1, RingInits
    <2>3. Holds(0)' => At_add_remove_full(at + 1)'
      BY <1>2, SizesAreNumbers DEF At_add_remove_full, Stores
    <2> QED
      BY <2>2, <2>3 DEF RingStep
  <1>3. ASSUME NEW i \in 1 .. BUF_SIZE, at = 1 + i
        PROVE  RingStep(At_add_remove_full(at + 1)')
    <2>1. Now = Add(i) /\ Stores(0, i - 1)
      BY <1>1, <1>3, Script_add_remove_full, SizesAreNumbers DEF Now, At_add_remove_full
    <2>2. /\ i \in 0 .. BUF_SIZE /\ i - 1 < BUF_SIZE /\ i = 0 + (i - 1) + 1 /\ 0 \in Int
          /\ i - 1 + 1 = i
      BY SizesAreNumbers
    <2>3. C!RingInv' /\ RingGood(Now) /\ Stores(0, i - 1 + 1)'
      BY <2>1, <2>2, Adds
    <2>4. Stores(0, i)' => At_add_remove_full(at + 1)'
      BY <1>3, SizesAreNumbers DEF At_add_remove_full
    <2> QED
      BY <2>2, <2>3, <2>4 DEF RingStep
  <1>4. ASSUME NEW i \in 1 .. BUF_SIZE, at = 1 + BUF_SIZE + i
        PROVE  RingStep(At_add_remove_full(at + 1)')
    <2>1. Now = Take(i) /\ Stores(i - 1, BUF_SIZE - i + 1)
      <3>1. Now = Take(i)
        BY <1>1, <1>4, Script_add_remove_full, SizesAreNumbers DEF Now
      <3>2. /\ at \in BUF_SIZE + 2 .. 2 * BUF_SIZE + 2
            /\ at - BUF_SIZE - 2 = i - 1 /\ 2 * BUF_SIZE + 2 - at = BUF_SIZE - i + 1
        BY <1>4, SizesAreNumbers
      <3>3. Stores(i - 1, BUF_SIZE - i + 1)
        BY <1>1, <3>2 DEF At_add_remove_full
      <3> QED
        BY <3>1, <3>3
    <2> DEFINE n == BUF_SIZE - i + 1
               a == i - 1
    <2>2. n > 0 /\ a \in Int /\ i = a + 1 /\ n - 1 = BUF_SIZE - i
      BY SizesAreNumbers
    <2> HIDE DEF n, a
    <2>3. Stores(a, n)
      BY <2>1 DEF n, a
    <2>4. C!RingInv' /\ RingGood(Now) /\ Stores(i, n - 1)'
      BY <2>1, <2>2, <2>3, Takes
    <2>5. Stores(i, BUF_SIZE - i)' => At_add_remove_full(at + 1)'
      BY <1>4, SizesAreNumbers DEF At_add_remove_full
    <2> QED
      BY <2>2, <2>4, <2>5 DEF RingStep
  <1>5. CASE at = 2 * BUF_SIZE + 2
    <2>1. Now = Ok("circbuf_destroy", 0) /\ Holds(0)
      BY <1>1, <1>5, Script_add_remove_full, SizesAreNumbers
         DEF Now, At_add_remove_full, Stores
    <2>2. C!RingInv' /\ RingGood(Now) /\ Unused'
      BY <2>1, Destroys
    <2>3. Unused' => At_add_remove_full(at + 1)'
      BY <1>5, SizesAreNumbers DEF At_add_remove_full
    <2> QED
      BY <2>2, <2>3 DEF RingStep
  <1>6. \/ at = 1 \/ \E i \in 1 .. BUF_SIZE : at = 1 + i
        \/ \E i \in 1 .. BUF_SIZE : at = 1 + BUF_SIZE + i
        \/ at = 2 * BUF_SIZE + 2
    <2>1. at \in 2 .. BUF_SIZE + 1 => at - 1 \in 1 .. BUF_SIZE /\ at = 1 + (at - 1)
      BY SizesAreNumbers
    <2>2. at \in BUF_SIZE + 2 .. 2 * BUF_SIZE + 1 =>
            at - BUF_SIZE - 1 \in 1 .. BUF_SIZE /\ at = 1 + BUF_SIZE + (at - BUF_SIZE - 1)
      BY SizesAreNumbers
    <2> QED
      BY <1>1, <2>1, <2>2, SizesAreNumbers
  <1> QED
    BY <1>2, <1>3, <1>4, <1>5, <1>6

LEMMA Step_add_full ==
  ASSUME C!RingInv, test = 5, at \in 1 .. Len(Script), at' = at, RingCall(Now),
         At_add_full(at)
  PROVE  RingStep(At_add_full(at + 1)')
  <1>1. Script = test_circbuf_add_full /\ at \in 1 .. BUF_SIZE + 3
    BY ScriptOf, Script_add_full DEF Calls
  <1>2. CASE at = 1
    <2>1. Now = Ok("circbuf_init", BUF_SIZE) /\ Unused
      BY <1>1, <1>2, Script_add_full DEF Now, At_add_full
    <2>2. C!RingInv' /\ ((RingGood(Now) /\ Holds(0)') \/ RingFailed(Now))
      BY <2>1, RingInits
    <2>3. Holds(0)' => At_add_full(at + 1)'
      BY <1>2, SizesAreNumbers DEF At_add_full
    <2> QED
      BY <2>2, <2>3 DEF RingStep
  <1>3. ASSUME NEW i \in 1 .. BUF_SIZE, at = 1 + i
        PROVE  RingStep(At_add_full(at + 1)')
    <2>1. Now = Add(0) /\ Holds(i - 1)
      BY <1>1, <1>3, Script_add_full, SizesAreNumbers DEF Now, At_add_full
    <2> DEFINE n == i - 1
    <2>2. n < BUF_SIZE /\ n + 1 = i /\ 0 \in 0 .. BUF_SIZE /\ Holds(n)
      BY <2>1, SizesAreNumbers
    <2> HIDE DEF n
    <2>3. C!RingInv' /\ RingGood(Now) /\ Holds(n + 1)'
      BY <2>1, <2>2, Fills
    <2>4. Holds(i)' => At_add_full(at + 1)'
      BY <1>3, SizesAreNumbers DEF At_add_full
    <2> QED
      BY <2>2, <2>3, <2>4 DEF RingStep
  <1>4. CASE at = BUF_SIZE + 2
    <2>1. Now = Expect("circbuf_add_item", 1, "FULL", Any) /\ Holds(BUF_SIZE)
      BY <1>1, <1>4, Script_add_full, SizesAreNumbers DEF Now, At_add_full
    <2>2. /\ Now.call = "circbuf_add_item" /\ Now.arg \in 0 .. BUF_SIZE
          /\ Now.code = "FULL" /\ Now.gives = Any
      BY <2>1, SizesAreNumbers DEF Expect
    <2>3. C!RingInv' /\ status' = "FULL" /\ Holds(BUF_SIZE)'
      BY <2>1, <2>2, RingAdds
    <2>4. At_add_full(at + 1)'
      BY <1>4, <2>3, SizesAreNumbers DEF At_add_full
    <2> QED
      BY <2>2, <2>3, <2>4 DEF RingStep, RingGood
  <1>5. CASE at = BUF_SIZE + 3
    <2>1. Now = Ok("circbuf_destroy", 0) /\ Holds(BUF_SIZE)
      BY <1>1, <1>5, Script_add_full, SizesAreNumbers DEF Now, At_add_full
    <2>2. C!RingInv' /\ RingGood(Now) /\ Unused'
      BY <2>1, Destroys
    <2>3. Unused' => At_add_full(at + 1)'
      BY <1>5, SizesAreNumbers DEF At_add_full
    <2> QED
      BY <2>2, <2>3 DEF RingStep
  <1>6. \/ at = 1 \/ \E i \in 1 .. BUF_SIZE : at = 1 + i
        \/ at = BUF_SIZE + 2 \/ at = BUF_SIZE + 3
    <2>1. at \in 2 .. BUF_SIZE + 1 => at - 1 \in 1 .. BUF_SIZE /\ at = 1 + (at - 1)
      BY SizesAreNumbers
    <2> QED
      BY <1>1, <2>1, SizesAreNumbers
  <1> QED
    BY <1>2, <1>3, <1>4, <1>5, <1>6

LEMMA Step_remove_empty ==
  ASSUME C!RingInv, test = 6, at \in 1 .. Len(Script), at' = at, RingCall(Now),
         At_remove_empty(at)
  PROVE  RingStep(At_remove_empty(at + 1)')
  <1>1. Script = test_circbuf_remove_empty /\ at \in 1 .. 3
    BY ScriptOf, Script_remove_empty, Zenon DEF Calls
  <1>2. CASE at = 1
    <2>1. Now = Ok("circbuf_init", BUF_SIZE) /\ Unused
      BY <1>1, <1>2, Script_remove_empty DEF Now, At_remove_empty
    <2>2. C!RingInv' /\ ((RingGood(Now) /\ Holds(0)') \/ RingFailed(Now))
      BY <2>1, RingInits
    <2>3. Holds(0)' => At_remove_empty(at + 1)'
      BY <1>2 DEF At_remove_empty
    <2> QED
      BY <2>2, <2>3 DEF RingStep
  <1>3. CASE at = 2
    <2>1. Now = Expect("circbuf_remove_item", 0, "EMPTY", Any) /\ Holds(0)
      BY <1>1, <1>3, Script_remove_empty DEF Now, At_remove_empty
    <2>2. Now.call = "circbuf_remove_item" /\ Now.code = "EMPTY" /\ Now.gives = Any
      BY <2>1 DEF Expect
    <2>3. C!RingInv' /\ status' = "EMPTY" /\ Holds(0)'
      BY <2>1, <2>2, RingTakes
    <2>4. At_remove_empty(at + 1)'
      BY <1>3, <2>3 DEF At_remove_empty
    <2> QED
      BY <2>2, <2>3, <2>4 DEF RingStep, RingGood
  <1>4. CASE at = 3
    <2>1. Now = Ok("circbuf_destroy", 0) /\ Holds(0)
      BY <1>1, <1>4, Script_remove_empty DEF Now, At_remove_empty
    <2>2. C!RingInv' /\ RingGood(Now) /\ Unused'
      BY <2>1, Destroys
    <2>3. Unused' => At_remove_empty(at + 1)'
      BY <1>4 DEF At_remove_empty
    <2> QED
      BY <2>2, <2>3 DEF RingStep
  <1> QED
    BY <1>1, <1>2, <1>3, <1>4

(* The calls both tests of the wrap begin with. *)
LEMMA Step_half_way ==
  ASSUME C!RingInv, at \in 1 .. 2 * Half + BUF_SIZE + 1, at' = at, RingCall(Now),
         At_half_way(at),
         at = 1 => Now = Ok("circbuf_init", BUF_SIZE),
         \A i \in 1 .. Half : at = 1 + i => Now = Add(i),
         \A i \in 1 .. Half : at = 1 + Half + i => Now = Take(i),
         \A i \in 1 .. BUF_SIZE : at = 1 + Half + Half + i => Now = Add(i)
  PROVE  RingStep(At_half_way(at + 1)')
  <1>1. CASE at = 1
    <2>1. Now = Ok("circbuf_init", BUF_SIZE) /\ Unused
      BY <1>1 DEF At_half_way
    <2>2. C!RingInv' /\ ((RingGood(Now) /\ Holds(0)') \/ RingFailed(Now))
      BY <2>1, RingInits
    <2>3. Holds(0)' => At_half_way(at + 1)'
      BY <1>1, HalfIsANumber, SizesAreNumbers DEF At_half_way, Stores
    <2> QED
      BY <2>2, <2>3 DEF RingStep
  <1>2. ASSUME NEW i \in 1 .. Half, at = 1 + i
        PROVE  RingStep(At_half_way(at + 1)')
    <2>1. Now = Add(i) /\ Stores(0, i - 1)
      BY <1>2, HalfIsANumber, SizesAreNumbers DEF At_half_way
    <2> DEFINE n == i - 1
    <2>2. /\ n < BUF_SIZE /\ i = 0 + n + 1 /\ n + 1 = i /\ i \in 0 .. BUF_SIZE
          /\ 0 \in Int /\ Stores(0, n)
      BY <2>1, HalfIsANumber, SizesAreNumbers
    <2> HIDE DEF n
    <2>3. C!RingInv' /\ RingGood(Now) /\ Stores(0, n + 1)'
      BY <2>1, <2>2, Adds
    <2>4. Stores(0, i)' => At_half_way(at + 1)'
      BY <1>2, HalfIsANumber, SizesAreNumbers DEF At_half_way
    <2> QED
      BY <2>2, <2>3, <2>4 DEF RingStep
  <1>3. ASSUME NEW i \in 1 .. Half, at = 1 + Half + i
        PROVE  RingStep(At_half_way(at + 1)')
    <2>1. Now = Take(i) /\ Stores(i - 1, Half - i + 1)
      BY <1>3, HalfIsANumber, SizesAreNumbers DEF At_half_way
    <2> DEFINE n == Half - i + 1
               a == i - 1
    <2>2. n > 0 /\ a \in Int /\ i = a + 1 /\ n - 1 = Half - i /\ Stores(a, n)
      BY <2>1, HalfIsANumber
    <2> HIDE DEF n, a
    <2>3. C!RingInv' /\ RingGood(Now) /\ Stores(i, n - 1)'
      BY <2>1, <2>2, Takes
    <2>4. Stores(i, Half - i)' => At_half_way(at + 1)'
      <3>1. CASE i < Half
        BY <1>3, <3>1, HalfIsANumber, SizesAreNumbers DEF At_half_way
      <3>2. CASE i = Half
        <4>1. Stores(i, Half - i)' => Stores(Half, 0)' /\ Stores(0, 0)'
          BY <3>2, HalfIsANumber DEF Stores
        <4>2. at + 1 = 2 * Half + 2
          BY <1>3, <3>2, HalfIsANumber
        <4>3. Stores(Half, 0)' /\ Stores(0, 0)' => At_half_way(2 * Half + 2)'
          BY HalfIsANumber, SizesAreNumbers DEF At_half_way
        <4> QED
          BY <4>1, <4>2, <4>3
      <3> QED
        BY <3>1, <3>2, HalfIsANumber
    <2> QED
      BY <2>2, <2>3, <2>4 DEF RingStep
  <1>4. ASSUME NEW i \in 1 .. BUF_SIZE, at = 1 + Half + Half + i
        PROVE  RingStep(At_half_way(at + 1)')
    <2>1. Now = Add(i) /\ Stores(0, i - 1)
      BY <1>4, HalfIsANumber, SizesAreNumbers DEF At_half_way
    <2> DEFINE n == i - 1
    <2>2. /\ n < BUF_SIZE /\ i = 0 + n + 1 /\ n + 1 = i /\ i \in 0 .. BUF_SIZE
          /\ 0 \in Int /\ Stores(0, n)
      BY <2>1, SizesAreNumbers
    <2> HIDE DEF n
    <2>3. C!RingInv' /\ RingGood(Now) /\ Stores(0, n + 1)'
      BY <2>1, <2>2, Adds
    <2>4. Stores(0, i)' => At_half_way(at + 1)'
      BY <1>4, HalfIsANumber, SizesAreNumbers DEF At_half_way
    <2> QED
      BY <2>2, <2>3, <2>4 DEF RingStep
  <1>5. \/ at = 1 \/ \E i \in 1 .. Half : at = 1 + i
        \/ \E i \in 1 .. Half : at = 1 + Half + i
        \/ \E i \in 1 .. BUF_SIZE : at = 1 + Half + Half + i
    <2>1. at \in 2 .. Half + 1 => at - 1 \in 1 .. Half /\ at = 1 + (at - 1)
      BY HalfIsANumber
    <2>2. at \in Half + 2 .. 2 * Half + 1 =>
            at - Half - 1 \in 1 .. Half /\ at = 1 + Half + (at - Half - 1)
      BY HalfIsANumber
    <2>3. at \in 2 * Half + 2 .. 2 * Half + BUF_SIZE + 1 =>
            /\ at - 2 * Half - 1 \in 1 .. BUF_SIZE
            /\ at = 1 + Half + Half + (at - 2 * Half - 1)
      BY HalfIsANumber, SizesAreNumbers
    <2>4. \/ at = 1 \/ at \in 2 .. Half + 1 \/ at \in Half + 2 .. 2 * Half + 1
          \/ at \in 2 * Half + 2 .. 2 * Half + BUF_SIZE + 1
      BY HalfIsANumber, SizesAreNumbers
    <2> QED
      BY <2>1, <2>2, <2>3, <2>4
  <1> QED
    BY <1>1, <1>2, <1>3, <1>4, <1>5

LEMMA Step_wrap_add ==
  ASSUME C!RingInv, test = 7, at \in 1 .. Len(Script), at' = at, RingCall(Now),
         At_wrap_add(at)
  PROVE  RingStep(At_wrap_add(at + 1)')
  <1>1. Script = test_circbuf_wrap_add /\ at \in 1 .. 2 * Half + BUF_SIZE + 2
    BY ScriptOf, Script_wrap_add DEF Calls
  <1>2. CASE at <= 2 * Half + BUF_SIZE + 1
    <2>1. /\ at = 1 => Now = Ok("circbuf_init", BUF_SIZE)
          /\ \A i \in 1 .. Half : at = 1 + i => Now = Add(i)
          /\ \A i \in 1 .. Half : at = 1 + Half + i => Now = Take(i)
          /\ \A i \in 1 .. BUF_SIZE : at = 1 + Half + Half + i => Now = Add(i)
      BY <1>1, Script_wrap_add, Zenon DEF Now
    <2>2. at \in 1 .. 2 * Half + BUF_SIZE + 1 /\ At_half_way(at)
      BY <1>1, <1>2, HalfIsANumber, SizesAreNumbers DEF At_wrap_add
    <2>3. RingStep(At_half_way(at + 1)')
      BY <2>1, <2>2, Step_half_way
    <2>4. At_half_way(at + 1)' => At_wrap_add(at + 1)'
      BY <2>2, HalfIsANumber, SizesAreNumbers DEF At_wrap_add
    <2> QED
      BY <2>3, <2>4 DEF RingStep
  <1>3. CASE at = 2 * Half + BUF_SIZE + 2
    <2>1. Now = Ok("circbuf_destroy", 0)
      BY <1>1, <1>3, Script_wrap_add DEF Now
    <2>2. Holds(BUF_SIZE)
      BY <1>3, HalfIsANumber, SizesAreNumbers DEF At_wrap_add, At_half_way, Stores
    <2>3. C!RingInv' /\ RingGood(Now) /\ Unused'
      BY <2>1, <2>2, Destroys
    <2>4. Unused' => At_wrap_add(at + 1)'
      BY <1>3, HalfIsANumber, SizesAreNumbers DEF At_wrap_add, At_half_way
    <2> QED
      BY <2>3, <2>4 DEF RingStep
  <1> QED
    BY <1>1, <1>2, <1>3, HalfIsANumber, SizesAreNumbers

LEMMA Step_wrap_remove ==
  ASSUME C!RingInv, test = 8, at \in 1 .. Len(Script), at' = at, RingCall(Now),
         At_wrap_remove(at)
  PROVE  RingStep(At_wrap_remove(at + 1)')
  <1>1. Script = test_circbuf_wrap_remove /\ at \in 1 .. 2 * Half + 2 * BUF_SIZE + 2
    BY ScriptOf, Script_wrap_remove DEF Calls
  <1>2. CASE at <= 2 * Half + BUF_SIZE + 1
    <2>1. /\ at = 1 => Now = Ok("circbuf_init", BUF_SIZE)
          /\ \A i \in 1 .. Half : at = 1 + i => Now = Add(i)
          /\ \A i \in 1 .. Half : at = 1 + Half + i => Now = Take(i)
          /\ \A i \in 1 .. BUF_SIZE : at = 1 + Half + Half + i => Now = Add(i)
      BY <1>1, Script_wrap_remove, Zenon DEF Now
    <2>2. at \in 1 .. 2 * Half + BUF_SIZE + 1 /\ At_half_way(at)
      BY <1>1, <1>2, HalfIsANumber, SizesAreNumbers DEF At_wrap_remove
    <2>3. RingStep(At_half_way(at + 1)')
      BY <2>1, <2>2, Step_half_way
    <2>4. At_half_way(at + 1)' => At_wrap_remove(at + 1)'
      <3>1. PICK k \in Int : k = at + 1
        BY <2>2
      <3>2. at' + 1 = k /\ k <= 2 * Half + BUF_SIZE + 2
        BY <1>2, <2>2, <3>1, HalfIsANumber, SizesAreNumbers
      <3>3. At_half_way(k)' => At_wrap_remove(k)'
        <4>1. ASSUME At_half_way(k)', k = 2 * Half + BUF_SIZE + 2
              PROVE  At_wrap_remove(k)'
          <5>1. /\ k - 2 * Half - BUF_SIZE - 2 = 0 /\ k - 2 * Half - 2 = BUF_SIZE
                /\ 2 * Half + 2 * BUF_SIZE + 2 - k = BUF_SIZE
                /\ k \in 2 * Half + 2 .. 2 * Half + BUF_SIZE + 2
                /\ k # 2 * Half + 2 * BUF_SIZE + 3
            BY <4>1, HalfIsANumber, SizesAreNumbers
          <5>2. Stores(0, BUF_SIZE)'
            BY <4>1, <5>1 DEF At_half_way
          <5> QED
            BY <4>1, <5>1, <5>2 DEF At_wrap_remove
        <4>2. CASE k # 2 * Half + BUF_SIZE + 2
          <5>1. /\ k \notin 2 * Half + BUF_SIZE + 2 .. 2 * Half + 2 * BUF_SIZE + 2
                /\ k # 2 * Half + 2 * BUF_SIZE + 3
            BY <3>2, <4>2, HalfIsANumber, SizesAreNumbers
          <5> QED
            BY <5>1 DEF At_wrap_remove
        <4> QED
          BY <4>1, <4>2
      <3> QED
        BY <3>2, <3>3
    <2> QED
      BY <2>3, <2>4 DEF RingStep
  <1>3. ASSUME NEW i \in 1 .. BUF_SIZE, at = 1 + Half + Half + BUF_SIZE + i
        PROVE  RingStep(At_wrap_remove(at + 1)')
    <2>1. Now = Take(i) /\ Stores(i - 1, BUF_SIZE - i + 1)
      <3>1. Now = Take(i)
        BY <1>1, <1>3, Script_wrap_remove, Zenon DEF Now
      <3>2. /\ at \in 2 * Half + BUF_SIZE + 2 .. 2 * Half + 2 * BUF_SIZE + 2
            /\ at - 2 * Half - BUF_SIZE - 2 = i - 1
            /\ 2 * Half + 2 * BUF_SIZE + 2 - at = BUF_SIZE - i + 1
        BY <1>3, HalfIsANumber, SizesAreNumbers
      <3> QED
        BY <3>1, <3>2 DEF At_wrap_remove
    <2> DEFINE n == BUF_SIZE - i + 1
               a == i - 1
    <2>2. n > 0 /\ a \in Int /\ i = a + 1 /\ n - 1 = BUF_SIZE - i /\ Stores(a, n)
      BY <2>1, SizesAreNumbers
    <2> HIDE DEF n, a
    <2>3. C!RingInv' /\ RingGood(Now) /\ Stores(i, n - 1)'
      BY <2>1, <2>2, Takes
    <2>4. Stores(i, BUF_SIZE - i)' => At_wrap_remove(at + 1)'
      <3>1. PICK k \in Int : k = at + 1
        BY <1>1, HalfIsANumber, SizesAreNumbers
      <3>2. /\ at' + 1 = k
            /\ k \in 2 * Half + BUF_SIZE + 3 .. 2 * Half + 2 * BUF_SIZE + 2
            /\ k - 2 * Half - BUF_SIZE - 2 = i
            /\ 2 * Half + 2 * BUF_SIZE + 2 - k = BUF_SIZE - i
            /\ k # 2 * Half + 2 * BUF_SIZE + 3
        BY <1>3, <3>1, HalfIsANumber, SizesAreNumbers
      <3>3. At_half_way(k)'
        BY <3>2, HalfIsANumber, SizesAreNumbers DEF At_half_way
      <3>4. Stores(i, BUF_SIZE - i)' => At_wrap_remove(k)'
        BY <3>2, <3>3 DEF At_wrap_remove
      <3> QED
        BY <3>2, <3>4
    <2> QED
      BY <2>2, <2>3, <2>4 DEF RingStep
  <1>4. CASE at = 2 * Half + 2 * BUF_SIZE + 2
    <2>1. Now = Ok("circbuf_destroy", 0)
      BY <1>1, <1>4, Script_wrap_remove DEF Now
    <2>2. Holds(0)
      BY <1>4, HalfIsANumber, SizesAreNumbers DEF At_wrap_remove, Stores
    <2>3. C!RingInv' /\ RingGood(Now) /\ Unused'
      BY <2>1, <2>2, Destroys
    <2>4. Unused' => At_wrap_remove(at + 1)'
      BY <1>4, HalfIsANumber, SizesAreNumbers DEF At_wrap_remove, At_half_way
    <2> QED
      BY <2>3, <2>4 DEF RingStep
  <1>5. \/ at <= 2 * Half + BUF_SIZE + 1
        \/ \E i \in 1 .. BUF_SIZE : at = 1 + Half + Half + BUF_SIZE + i
        \/ at = 2 * Half + 2 * BUF_SIZE + 2
    <2>1. at \in 2 * Half + BUF_SIZE + 2 .. 2 * Half + 2 * BUF_SIZE + 1 =>
            /\ at - 2 * Half - BUF_SIZE - 1 \in 1 .. BUF_SIZE
            /\ at = 1 + Half + Half + BUF_SIZE + (at - 2 * Half - BUF_SIZE - 1)
      BY HalfIsANumber, SizesAreNumbers
    <2>2. \/ at <= 2 * Half + BUF_SIZE + 1
          \/ at \in 2 * Half + BUF_SIZE + 2 .. 2 * Half + 2 * BUF_SIZE + 1
          \/ at = 2 * Half + 2 * BUF_SIZE + 2
      BY <1>1, HalfIsANumber, SizesAreNumbers
    <2> QED
      BY <2>1, <2>2
  <1> QED
    BY <1>2, <1>3, <1>4, <1>5

LEMMA Step_check_full ==
  ASSUME C!RingInv, test = 9, at \in 1 .. Len(Script), at' = at, RingCall(Now),
         At_check_full(at)
  PROVE  RingStep(At_check_full(at + 1)')
  <1>1. Script = test_circbuf_check_full /\ at \in 1 .. BUF_SIZE + 4
    BY ScriptOf, Script_check_full DEF Calls
  <1>2. CASE at = 1
    <2>1. Now = Ok("circbuf_init", BUF_SIZE) /\ Unused
      BY <1>1, <1>2, Script_check_full DEF Now, At_check_full
    <2>2. C!RingInv' /\ ((RingGood(Now) /\ Holds(0)') \/ RingFailed(Now))
      BY <2>1, RingInits
    <2>3. Holds(0)' => At_check_full(at + 1)'
      BY <1>2, SizesAreNumbers DEF At_check_full
    <2> QED
      BY <2>2, <2>3 DEF RingStep
  <1>3. CASE at = 2
    <2>1. Now = Expect("circbuf_full", 0, "FAILURE", Any) /\ Holds(0)
      BY <1>1, <1>3, Script_check_full DEF Now, At_check_full
    <2>2. Now.call = "circbuf_full" /\ Now.code = "FAILURE" /\ Now.gives = Any
      BY <2>1 DEF Expect
    <2>3. C!RingInv' /\ status' = "FAILURE" /\ Holds(0)'
      BY <2>1, <2>2, RingAsks, SizesAreNumbers
    <2>4. At_check_full(at + 1)'
      BY <1>3, <2>3, SizesAreNumbers DEF At_check_full
    <2> QED
      BY <2>2, <2>3, <2>4 DEF RingStep, RingGood
  <1>4. ASSUME NEW i \in 1 .. BUF_SIZE, at = 2 + i
        PROVE  RingStep(At_check_full(at + 1)')
    <2>1. Now = Add(0) /\ Holds(i - 1)
      BY <1>1, <1>4, Script_check_full, SizesAreNumbers DEF Now, At_check_full
    <2> DEFINE n == i - 1
    <2>2. n < BUF_SIZE /\ n + 1 = i /\ 0 \in 0 .. BUF_SIZE /\ Holds(n)
      BY <2>1, SizesAreNumbers
    <2> HIDE DEF n
    <2>3. C!RingInv' /\ RingGood(Now) /\ Holds(n + 1)'
      BY <2>1, <2>2, Fills
    <2>4. Holds(i)' => At_check_full(at + 1)'
      BY <1>4, SizesAreNumbers DEF At_check_full
    <2> QED
      BY <2>2, <2>3, <2>4 DEF RingStep
  <1>5. CASE at = BUF_SIZE + 3
    <2>1. Now = Expect("circbuf_full", 0, "FULL", Any) /\ Holds(BUF_SIZE)
      BY <1>1, <1>5, Script_check_full, SizesAreNumbers DEF Now, At_check_full
    <2>2. Now.call = "circbuf_full" /\ Now.code = "FULL" /\ Now.gives = Any
      BY <2>1 DEF Expect
    <2>3. C!RingInv' /\ status' = "FULL" /\ Holds(BUF_SIZE)'
      BY <2>1, <2>2, RingAsks
    <2>4. At_check_full(at + 1)'
      BY <1>5, <2>3, SizesAreNumbers DEF At_check_full
    <2> QED
      BY <2>2, <2>3, <2>4 DEF RingStep, RingGood
  <1>6. CASE at = BUF_SIZE + 4
    <2>1. Now = Ok("circbuf_destroy", 0) /\ Holds(BUF_SIZE)
      BY <1>1, <1>6, Script_check_full, SizesAreNumbers DEF Now, At_check_full
    <2>2. C!RingInv' /\ RingGood(Now) /\ Unused'
      BY <2>1, Destroys
    <2>3. Unused' => At_check_full(at + 1)'
      BY <1>6, SizesAreNumbers DEF At_check_full
    <2> QED
      BY <2>2, <2>3 DEF RingStep
  <1>7. \/ at = 1 \/ at = 2 \/ \E i \in 1 .. BUF_SIZE : at = 2 + i
        \/ at = BUF_SIZE + 3 \/ at = BUF_SIZE + 4
    <2>1. at \in 3 .. BUF_SIZE + 2 => at - 2 \in 1 .. BUF_SIZE /\ at = 2 + (at - 2)
      BY SizesAreNumbers
    <2> QED
      BY <1>1, <2>1, SizesAreNumbers
  <1> QED
    BY <1>2, <1>3, <1>4, <1>5, <1>6, <1>7

LEMMA Step_check_empty ==
  ASSUME C!RingInv, test = 10, at \in 1 .. Len(Script), at' = at, RingCall(Now),
         At_check_empty(at)
  PROVE  RingStep(At_check_empty(at + 1)')
  <1>1. Script = test_circbuf_check_empty /\ at \in 1 .. 5
    BY ScriptOf, Script_check_empty, Zenon DEF Calls
  <1>2. CASE at = 1
    <2>1. Now = Ok("circbuf_init", BUF_SIZE) /\ Unused
      BY <1>1, <1>2, Script_check_empty DEF Now, At_check_empty
    <2>2. C!RingInv' /\ ((RingGood(Now) /\ Holds(0)') \/ RingFailed(Now))
      BY <2>1, RingInits
    <2>3. Holds(0)' => At_check_empty(at + 1)'
      BY <1>2 DEF At_check_empty
    <2> QED
      BY <2>2, <2>3 DEF RingStep
  <1>3. CASE at = 2
    <2>1. Now = Expect("circbuf_empty", 0, "EMPTY", Any) /\ Holds(0)
      BY <1>1, <1>3, Script_check_empty DEF Now, At_check_empty
    <2>2. Now.call = "circbuf_empty" /\ Now.code = "EMPTY" /\ Now.gives = Any
      BY <2>1 DEF Expect
    <2>3. C!RingInv' /\ status' = "EMPTY" /\ Holds(0)'
      BY <2>1, <2>2, RingAsks
    <2>4. At_check_empty(at + 1)'
      BY <1>3, <2>3 DEF At_check_empty
    <2> QED
      BY <2>2, <2>3, <2>4 DEF RingStep, RingGood
  <1>4. CASE at = 3
    <2>1. Now = Add(1) /\ Holds(0) /\ 0 < BUF_SIZE /\ 1 \in 0 .. BUF_SIZE
      BY <1>1, <1>4, Script_check_empty, SizesAreNumbers DEF Now, At_check_empty
    <2>2. C!RingInv' /\ RingGood(Now) /\ Holds(0 + 1)'
      BY <2>1, Fills
    <2>3. Holds(1)' => At_check_empty(at + 1)'
      BY <1>4 DEF At_check_empty
    <2> QED
      BY <2>2, <2>3 DEF RingStep
  <1>5. CASE at = 4
    <2>1. Now = Expect("circbuf_empty", 0, "FAILURE", Any) /\ Holds(1)
      BY <1>1, <1>5, Script_check_empty DEF Now, At_check_empty
    <2>2. Now.call = "circbuf_empty" /\ Now.code = "FAILURE" /\ Now.gives = Any
      BY <2>1 DEF Expect
    <2>3. C!RingInv' /\ status' = "FAILURE" /\ Holds(1)'
      BY <2>1, <2>2, RingAsks
    <2>4. At_check_empty(at + 1)'
      BY <1>5, <2>3 DEF At_check_empty
    <2> QED
      BY <2>2, <2>3, <2>4 DEF RingStep, RingGood
  <1>6. CASE at = 5
    <2>1. Now = Ok("circbuf_destroy", 0) /\ Holds(1)
      BY <1>1, <1>6, Script_check_empty DEF Now, At_check_empty
    <2>2. C!RingInv' /\ RingGood(Now) /\ Unused'
      BY <2>1, Destroys
    <2>3. Unused' => At_check_empty(at + 1)'
      BY <1>6 DEF At_check_empty
    <2> QED
      BY <2>2, <2>3 DEF RingStep
  <1> QED
    BY <1>1, <1>2, <1>3, <1>4, <1>5, <1>6

(* What the tests of the ring call, in any order. *)
AskedOnce ==
  {Ok("circbuf_init", BUF_SIZE), Ok("circbuf_destroy", 0), Refused("circbuf NULL", 0),
   Ok("circbuf_null_buffer", 0), Refused("circbuf_add_item", 1),
   Refused("circbuf_remove_item", 0), Refused("circbuf_peek", 1),
   Refused("circbuf_destroy", 0), Ok("free buf", 0),
   Expect("circbuf_add_item", 1, "FULL", Any),
   Expect("circbuf_remove_item", 0, "EMPTY", Any),
   Expect("circbuf_full", 0, "FAILURE", Any), Expect("circbuf_full", 0, "FULL", Any),
   Expect("circbuf_empty", 0, "EMPTY", Any), Expect("circbuf_empty", 0, "FAILURE", Any)}
RingCalls ==
  AskedOnce \cup {Add(i) : i \in 0 .. BUF_SIZE} \cup {Take(i) : i \in 0 .. BUF_SIZE}

(* A call of the ring, and no test expects it to run out of memory. *)
AsksRing(s) == OfRing(s.call) /\ s.code # "ALLOC_FAILURE"

LEMMA RingCallsAskTheRing == \A s \in RingCalls : AsksRing(s)
  <1> USE DEF AsksRing, OfRing, Ok, Refused, Expect
  <1>1. \A i : AsksRing(Add(i)) /\ AsksRing(Take(i))
    BY DEF Add, Take
  <1>2. ASSUME NEW s \in RingCalls
        PROVE  AsksRing(s)
    <2>1. CASE \E i \in 0 .. BUF_SIZE : s = Add(i) \/ s = Take(i)
      BY <1>1, <2>1, Zenon
    <2>2. CASE ~\E i \in 0 .. BUF_SIZE : s = Add(i) \/ s = Take(i)
      <3>1. s \in AskedOnce
        BY <1>2, <2>2 DEF RingCalls
      <3>2. /\ AsksRing(Ok("circbuf_init", BUF_SIZE))
            /\ AsksRing(Ok("circbuf_destroy", 0))
            /\ AsksRing(Refused("circbuf NULL", 0))
            /\ AsksRing(Ok("circbuf_null_buffer", 0))
            /\ AsksRing(Refused("circbuf_add_item", 1))
            /\ AsksRing(Refused("circbuf_remove_item", 0))
            /\ AsksRing(Refused("circbuf_peek", 1))
            /\ AsksRing(Refused("circbuf_destroy", 0))
            /\ AsksRing(Ok("free buf", 0))
            /\ AsksRing(Expect("circbuf_add_item", 1, "FULL", Any))
            /\ AsksRing(Expect("circbuf_remove_item", 0, "EMPTY", Any))
            /\ AsksRing(Expect("circbuf_full", 0, "FAILURE", Any))
            /\ AsksRing(Expect("circbuf_full", 0, "FULL", Any))
            /\ AsksRing(Expect("circbuf_empty", 0, "EMPTY", Any))
            /\ AsksRing(Expect("circbuf_empty", 0, "FAILURE", Any))
        OBVIOUS
      <3> HIDE DEF AsksRing, OfRing, Ok, Refused, Expect
      <3> QED
        BY <3>1, <3>2, Zenon DEF AskedOnce
    <2> QED
      BY <2>1, <2>2, Zenon
  <1> QED
    BY <1>2, Zenon

LEMMA RingTestsCallTheRing ==
  ASSUME RingTest, at \in 1 .. Len(Script)
  PROVE  AsksRing(Now)
  <1>1. /\ New \in Seq(RingCalls) /\ Destroy \in Seq(RingCalls)
        /\ \A n \in 0 .. BUF_SIZE : /\ Repeat(n, Add) \in Seq(RingCalls)
                                    /\ Repeat(n, Take) \in Seq(RingCalls)
        /\ \A n \in Nat : \A s \in RingCalls : Times(n, s) \in Seq(RingCalls)
        /\ \A s \in RingCalls : <<s>> \in Seq(RingCalls)
    <2>1. New \in Seq(RingCalls) /\ Destroy \in Seq(RingCalls)
      BY DEF New, Destroy, RingCalls, AskedOnce
    <2>2. \A i \in 0 .. BUF_SIZE : Add(i) \in RingCalls /\ Take(i) \in RingCalls
      BY DEF RingCalls
    <2>3. ASSUME NEW n \in 0 .. BUF_SIZE
          PROVE  Repeat(n, Add) \in Seq(RingCalls) /\ Repeat(n, Take) \in Seq(RingCalls)
      BY <2>2, SizesAreNumbers DEF Repeat
    <2>4. \A n \in Nat : \A s \in RingCalls : Times(n, s) \in Seq(RingCalls)
      BY DEF Times
    <2>5. \A s \in RingCalls : <<s>> \in Seq(RingCalls)
      OBVIOUS
    <2> QED
      BY <2>1, <2>3, <2>4, <2>5
  <1>2. /\ Refused("circbuf NULL", 0) \in RingCalls
        /\ Ok("circbuf_null_buffer", 0) \in RingCalls
        /\ Refused("circbuf_add_item", 1) \in RingCalls
        /\ Refused("circbuf_remove_item", 0) \in RingCalls
        /\ Refused("circbuf_peek", 1) \in RingCalls
        /\ Refused("circbuf_destroy", 0) \in RingCalls
        /\ Ok("free buf", 0) \in RingCalls
        /\ Expect("circbuf_add_item", 1, "FULL", Any) \in RingCalls
        /\ Expect("circbuf_remove_item", 0, "EMPTY", Any) \in RingCalls
        /\ Expect("circbuf_full", 0, "FAILURE", Any) \in RingCalls
        /\ Expect("circbuf_full", 0, "FULL", Any) \in RingCalls
        /\ Expect("circbuf_empty", 0, "EMPTY", Any) \in RingCalls
        /\ Expect("circbuf_empty", 0, "FAILURE", Any) \in RingCalls
        /\ Add(0) \in RingCalls /\ Add(1) \in RingCalls
    <2>1. 0 \in 0 .. BUF_SIZE /\ 1 \in 0 .. BUF_SIZE
      BY SizesAreNumbers
    <2> QED
      BY <2>1, Zenon DEF RingCalls, AskedOnce
  <1>3. /\ BUF_SIZE \in 0 .. BUF_SIZE /\ Half \in 0 .. BUF_SIZE /\ BUF_SIZE \in Nat
        /\ 7 \in Nat
    BY SizesAreNumbers, HalfIsANumber
  <1>4. \A s, t : s \in Seq(RingCalls) /\ t \in Seq(RingCalls) => s \o t \in Seq(RingCalls)
    OBVIOUS
  <1>5. test_circbuf_init_destroy \in Seq(RingCalls)
    BY <1>1, <1>4, Zenon DEF test_circbuf_init_destroy
  <1>6. test_circbuf_ops_null_ptr \in Seq(RingCalls)
    BY <1>1, <1>2, <1>3, Zenon DEF test_circbuf_ops_null_ptr
  <1>7. test_circbuf_null_buffer \in Seq(RingCalls)
    <2>1. \A a, b, c, d, e, f \in RingCalls : <<a, b, c, d, e, f>> \in Seq(RingCalls)
      OBVIOUS
    <2> QED
      BY <1>1, <1>2, <1>4, <2>1, Zenon DEF test_circbuf_null_buffer
  <1>8. test_circbuf_add_remove_full \in Seq(RingCalls)
    BY <1>1, <1>3, <1>4, Zenon DEF test_circbuf_add_remove_full
  <1>9. test_circbuf_add_full \in Seq(RingCalls)
    BY <1>1, <1>2, <1>3, <1>4, Zenon DEF test_circbuf_add_full
  <1>10. test_circbuf_remove_empty \in Seq(RingCalls)
    BY <1>1, <1>2, <1>4, Zenon DEF test_circbuf_remove_empty
  <1>11. test_circbuf_wrap_add \in Seq(RingCalls)
    BY <1>1, <1>3, <1>4, Zenon DEF test_circbuf_wrap_add, HalfWay
  <1>12. test_circbuf_wrap_remove \in Seq(RingCalls)
    BY <1>1, <1>3, <1>4, Zenon DEF test_circbuf_wrap_remove, HalfWay
  <1>13. test_circbuf_check_full \in Seq(RingCalls)
    BY <1>1, <1>2, <1>3, <1>4, Zenon DEF test_circbuf_check_full
  <1>14. test_circbuf_check_empty \in Seq(RingCalls)
    <2>1. \A a, b, c \in RingCalls : <<a, b, c>> \in Seq(RingCalls)
      OBVIOUS
    <2> QED
      BY <1>1, <1>2, <1>4, <2>1, Zenon DEF test_circbuf_check_empty
  <1>15. Script \in Seq(RingCalls)
    <2>1. \/ test = 1 \/ test = 2 \/ test = 3 \/ test = 4 \/ test = 5
          \/ test = 6 \/ test = 7 \/ test = 8 \/ test = 9 \/ test = 10
      BY DEF RingTest
    <2> QED
      BY <1>5, <1>6, <1>7, <1>8, <1>9, <1>10, <1>11, <1>12, <1>13, <1>14, <2>1,
         ScriptOf, Zenon
  <1>16. Now \in RingCalls
    BY <1>15 DEF Now
  <1> QED
    BY <1>16, RingCallsAskTheRing

(* A call of a test of the ring brings it to the next place of its script,  *)
(* or an allocation failed.                                                *)
LEMMA RingTurns ==
  ASSUME C!RingInv, RingTest, at \in 1 .. Len(Script), RingCall(Now), At(at, live),
         UNCHANGED <<test, at>>
  PROVE  RingStep(At(at + 1, live)')
  <1>1. live' = live /\ p_head' = p_head
    BY Zenon DEF RingCall, listVars
  <1>2. Apart /\ live = {}
    BY DEF At
  <1>3. Apart' /\ live' = {}
    BY <1>1, <1>2 DEF Apart
  <1>4. at' = at /\ test' = test
    OBVIOUS
  <1> DEFINE next_ == At(at + 1, live)'
  <1>5. CASE test = 1
    <2>1. At_init_destroy(at)
      BY <1>5, AtOf
    <2>2. RingStep(At_init_destroy(at + 1)')
      BY <1>4, <1>5, <2>1, Step_init_destroy
    <2>3. At_init_destroy(at + 1)' => next_
      BY <1>3, <1>4, <1>5, Suites DEF At, RingTest
    <2> QED
      BY <2>2, <2>3 DEF RingStep
  <1>6. CASE test = 2
    <2>1. Unused
      BY <1>6, AtOf
    <2>2. RingStep(Unused')
      BY <1>4, <1>6, <2>1, Step_ops_null_ptr
    <2>3. Unused' => next_
      BY <1>3, <1>4, <1>6, Suites DEF At, RingTest
    <2> QED
      BY <2>2, <2>3 DEF RingStep
  <1>7. CASE test = 3
    <2>1. At_null_buffer(at)
      BY <1>7, AtOf
    <2>2. RingStep(At_null_buffer(at + 1)')
      BY <1>4, <1>7, <2>1, Step_null_buffer
    <2>3. At_null_buffer(at + 1)' => next_
      BY <1>3, <1>4, <1>7, Suites DEF At, RingTest
    <2> QED
      BY <2>2, <2>3 DEF RingStep
  <1>8. CASE test = 4
    <2>1. At_add_remove_full(at)
      BY <1>8, AtOf
    <2>2. RingStep(At_add_remove_full(at + 1)')
      BY <1>4, <1>8, <2>1, Step_add_remove_full
    <2>3. At_add_remove_full(at + 1)' => next_
      BY <1>3, <1>4, <1>8, Suites DEF At, RingTest
    <2> QED
      BY <2>2, <2>3 DEF RingStep
  <1>9. CASE test = 5
    <2>1. At_add_full(at)
      BY <1>9, AtOf
    <2>2. RingStep(At_add_full(at + 1)')
      BY <1>4, <1>9, <2>1, Step_add_full
    <2>3. At_add_full(at + 1)' => next_
      BY <1>3, <1>4, <1>9, Suites DEF At, RingTest
    <2> QED
      BY <2>2, <2>3 DEF RingStep
  <1>10. CASE test = 6
    <2>1. At_remove_empty(at)
      BY <1>10, AtOf
    <2>2. RingStep(At_remove_empty(at + 1)')
      BY <1>4, <1>10, <2>1, Step_remove_empty
    <2>3. At_remove_empty(at + 1)' => next_
      BY <1>3, <1>4, <1>10, Suites DEF At, RingTest
    <2> QED
      BY <2>2, <2>3 DEF RingStep
  <1>11. CASE test = 7
    <2>1. At_wrap_add(at)
      BY <1>11, AtOf
    <2>2. RingStep(At_wrap_add(at + 1)')
      BY <1>4, <1>11, <2>1, Step_wrap_add
    <2>3. At_wrap_add(at + 1)' => next_
      BY <1>3, <1>4, <1>11, Suites DEF At, RingTest
    <2> QED
      BY <2>2, <2>3 DEF RingStep
  <1>12. CASE test = 8
    <2>1. At_wrap_remove(at)
      BY <1>12, AtOf
    <2>2. RingStep(At_wrap_remove(at + 1)')
      BY <1>4, <1>12, <2>1, Step_wrap_remove
    <2>3. At_wrap_remove(at + 1)' => next_
      BY <1>3, <1>4, <1>12, Suites DEF At, RingTest
    <2> QED
      BY <2>2, <2>3 DEF RingStep
  <1>13. CASE test = 9
    <2>1. At_check_full(at)
      BY <1>13, AtOf
    <2>2. RingStep(At_check_full(at + 1)')
      BY <1>4, <1>13, <2>1, Step_check_full
    <2>3. At_check_full(at + 1)' => next_
      BY <1>3, <1>4, <1>13, Suites DEF At, RingTest
    <2> QED
      BY <2>2, <2>3 DEF RingStep
  <1>14. CASE test = 10
    <2>1. At_check_empty(at)
      BY <1>14, AtOf
    <2>2. RingStep(At_check_empty(at + 1)')
      BY <1>4, <1>14, <2>1, Step_check_empty
    <2>3. At_check_empty(at + 1)' => next_
      BY <1>3, <1>4, <1>14, Suites DEF At, RingTest
    <2> QED
      BY <2>2, <2>3 DEF RingStep
  <1>15. \/ test = 1 \/ test = 2 \/ test = 3 \/ test = 4 \/ test = 5
         \/ test = 6 \/ test = 7 \/ test = 8 \/ test = 9 \/ test = 10
    BY DEF RingTest
  <1> QED
    BY <1>5, <1>6, <1>7, <1>8, <1>9, <1>10, <1>11, <1>12, <1>13, <1>14, <1>15, Zenon
----------------------------------------------------------------------------
(* What the list answers the calls of a test.                              *)

Items == P!ItemsOf
Payloads == [id : 1 .. MaxPayloads, val : Vals]
ListIndexes == -2 .. MaxPayloads + 1

(* A call no client may make: ll_remove of the last item of an empty list   *)
(* (it ends the program), an index no int holds here.                       *)
Legal(s) ==
  /\ s.call = "ll_init" <=> p_head = NULL
  /\ s.call = "ll_insert" =>
       Payload(s.arg[1]) \in Payloads \cup {NULL} /\ s.arg[2] \in ListIndexes
  /\ s.call \in {"ll_remove", "ll_remove to NULL"} => s.arg \in ListIndexes
  /\ s.call = "ll_remove" => s.arg # -1 \/ Items # <<>>
  /\ s.call = "ll_search" => Payload(s.arg) \in Payloads \cup {NULL}

Answers(code, given) ==
  /\ pc' = "idle" /\ ll_status' = code /\ ll_out' = given
  /\ code = "ALLOC_FAILURE" => short'
  /\ code # "ALLOC_FAILURE" => short' = short

Unmoved == p_head' = p_head /\ Items' = Items

Opened ==
  \/ Answers("NO_ERROR", <<>>) /\ p_head' # NULL /\ Items' = <<>>
  \/ Answers("ALLOC_FAILURE", <<>>)

Inserted(x, i) ==
  LET n == Len(Items)
  IN  \/ /\ i \in {-1} \cup 0 .. n /\ Answers("NO_ERROR", <<>>) /\ p_head' = p_head
         /\ Items' = P!WithAfter(Items, IF i \in 0 .. n - 1 THEN i + 1 ELSE n, x)
      \/ i \in {-1} \cup 0 .. n /\ Answers("ALLOC_FAILURE", <<>>)
      \/ i \notin {-1} \cup 0 .. n /\ Answers("INDEX_TOO_LARGE", <<>>) /\ Unmoved

Removes(i) ==
  LET n == Len(Items)
      p == IF i = -1 THEN n ELSE i + 1
  IN  \/ /\ Items # <<>> /\ i \in {-1} \cup 0 .. n - 1
         /\ Answers("NO_ERROR", <<Items[p]>>) /\ p_head' = p_head
         /\ Items' = P!Without(Items, p)
      \/ i \notin {-1} \cup 0 .. n - 1 /\ Answers("INDEX_TOO_LARGE", <<>>) /\ Unmoved

Searched(x) ==
  \E i \in 0 .. Len(Items) - 1 :
    /\ compare(x, Items[i + 1]) /\ \A j \in 1 .. i : ~compare(x, Items[j])
    /\ Answers("NO_ERROR", <<i>>) /\ Unmoved

NotServed == Answers("NULL_POINTER", <<>>) /\ Unmoved

(* What the call s did, once it has returned. *)
Outcome(s) ==
  \/ s.call = "ll_init" /\ Opened
  \/ s.call = "ll_insert" /\ Payload(s.arg[1]) = NULL /\ NotServed
  \/ s.call = "ll_insert" /\ Payload(s.arg[1]) # NULL /\ Inserted(Payload(s.arg[1]), s.arg[2])
  \/ s.call = "ll_remove" /\ Removes(s.arg)
  \/ s.call = "ll_search" /\ Payload(s.arg) = NULL /\ NotServed
  \/ s.call = "ll_search" /\ Payload(s.arg) # NULL /\ Searched(Payload(s.arg))
  \/ s.call = "ll_size" /\ Answers("NO_ERROR", <<Len(Items)>>) /\ Unmoved
  \/ s.call = "ll_destroy" /\ Answers("NO_ERROR", Items) /\ p_head' = NULL
  \/ /\ s.call \in {"ll_remove to NULL", "ll_search with NULL", "ll_size to NULL", "ll NULL"}
     /\ NotServed

(* Or it has not returned. *)
GoesOn(s) ==
  Underway(s)' /\ Unmoved /\ UNCHANGED <<ll_status, ll_out, short>>

LEMMA TheIndexes == P!Indexes = ListIndexes /\ 0 \in P!Indexes
  <1>1. MaxPayloads + 1 \in Nat /\ 1 <= MaxPayloads + 1
    BY SizesAreNumbers
  <1>2. Cardinality(Nodes) = MaxPayloads + 1
    <2> DEFINE b == MaxPayloads + 1
    <2>1. b \in Int /\ 1 \in Int /\ ~(1 > b) /\ b - 1 + 1 = b
      BY <1>1
    <2> HIDE DEF b
    <2>2. Cardinality(1 .. b) = IF 1 > b THEN 0 ELSE b - 1 + 1
      BY <2>1, FS_Interval
    <2>3. Cardinality(1 .. b) = b
      BY <2>1, <2>2
    <2> QED
      BY <2>3 DEF b, Nodes
  <1>3. P!Cardinality(Nodes) = Cardinality(Nodes)
    BY DEF P!Cardinality, Cardinality
  <1> QED
    BY <1>1, <1>2, <1>3 DEF P!Indexes, ListIndexes

LEMMA LocalIsAPayload == Local \in Payloads
  <1>1. Vals # {}
    BY UnitTestsAssumption
  <1>2. (CHOOSE v \in Vals : TRUE) \in Vals
    BY <1>1
  <1>3. 1 \in 1 .. MaxPayloads
    BY SizesAreNumbers
  <1> QED
    BY <1>2, <1>3 DEF Local, Payloads

LEMMA PayloadsAreNotNull == NULL \notin Payloads
  BY ListAssumption DEF P!LinkedListAssumption, Payloads

(* A call that loops, or is refused for what it is given. *)
LEMMA ACallSays ==
  ASSUME P!IInv, NEW op, NEW from \in {0, -1}, NEW i \in ListIndexes, NEW x,
         NEW args, P!Callable(op, from, i, x, args), P!Call(op, from, i, x, args)
  PROVE  /\ P!IInv'
         /\ \/ (p_head = NULL \/ ~args) /\ P!Answered("NULL_POINTER", <<>>) /\ Unmoved
            \/ p_head # NULL /\ args /\ P!Begins(op, i, x)
  <1>1. P!IInv'
    BY ListAssumption, P!CallKeepsInv
  <1>2. \/ (p_head = NULL \/ ~args) /\ P!Answered("NULL_POINTER", <<>>) /\ P!Same
        \/ p_head # NULL /\ args /\ P!Begins(op, i, x)
    BY ListAssumption, P!CallSays
  <1> QED
    BY <1>1, <1>2 DEF P!Same, Unmoved, Items

LEMMA AnswersGiven ==
  ASSUME NEW code, NEW given, P!Answered(code, given),
         Allocates(IF pc' = "idle" THEN ll_status' ELSE "NO_ERROR")
  PROVE  Answers(code, given)
  BY DEF P!Answered, Allocates, Answers

LEMMA NothingAllocated ==
  ASSUME pc' # "idle", Allocates(IF pc' = "idle" THEN ll_status' ELSE "NO_ERROR")
  PROVE  short' = short
  BY DEF Allocates

(* A call of the list returns at once, or starts its loop. *)
LEMMA ListAnswersCall ==
  ASSUME P!IInv, Idle, NEW s, Legal(s), UNCHANGED randoms, ListCall(s)
  PROVE  P!IInv' /\ (GoesOn(s) \/ Outcome(s))
  <1>1. Allocates(IF pc' = "idle" THEN ll_status' ELSE "NO_ERROR")
    BY Zenon DEF ListCall
  <1>2. \A j : Payload(j)' = Payload(j)
    BY DEF randoms, Payload
  <1>3. CASE s.call = "ll_init" /\ LL!ll_init(TRUE)
    <2>1. P!ll_init(TRUE) /\ TRUE \in BOOLEAN
      BY <1>3, ListCalls, Zenon
    <2>2. P!IInv'
      BY <2>1, ListAssumption, P!InitKeepsInv, Zenon
    <2>3. \/ P!Answered("NO_ERROR", <<>>) /\ p_head' # NULL /\ Items' = <<>>
          \/ P!Answered("ALLOC_FAILURE", <<>>)
      BY <2>1, <2>2, ListAssumption, P!InitSays DEF Items
    <2>4. Opened
      BY <1>1, <2>3, AnswersGiven DEF Opened
    <2> QED
      BY <1>3, <2>2, <2>4 DEF Outcome
  <1>4. CASE s.call = "ll_insert" /\ LL!ll_insert(Payload(s.arg[1]), s.arg[2])
    <2> DEFINE x == Payload(s.arg[1])
               i == s.arg[2]
    <2>1. x \in Payloads \cup {NULL} /\ i \in ListIndexes /\ p_head # NULL
      BY <1>4 DEF Legal
    <2>2. P!Call("insert", 0, i, x, x # NULL)
      BY <1>4, ListCalls DEF LL!ll_insert
    <2> HIDE DEF x, i
    <2>3. P!Callable("insert", 0, i, x, x # NULL)
      BY <2>1, TheIndexes DEF P!Callable, Payloads
    <2>4. /\ P!IInv'
          /\ \/ (p_head = NULL \/ ~(x # NULL)) /\ P!Answered("NULL_POINTER", <<>>) /\ Unmoved
             \/ p_head # NULL /\ x # NULL /\ P!Begins("insert", i, x)
      BY <2>1, <2>2, <2>3, ACallSays, Zenon
    <2>5. CASE x = NULL /\ P!Answered("NULL_POINTER", <<>>) /\ Unmoved
      BY <1>1, <1>4, <2>4, <2>5, AnswersGiven DEF Outcome, NotServed, x
    <2>6. CASE P!Begins("insert", i, x)
      <3>1. pc' = "insert" /\ short' = short
        BY <1>1, <2>6, NothingAllocated DEF P!Begins
      <3>2. Underway(s)'
        BY <1>2, <1>4, <2>6, <3>1 DEF Underway, P!Begins, x, i
      <3> QED
        BY <2>4, <2>6, <3>1, <3>2 DEF GoesOn, P!Begins, P!Same, Unmoved, Items
    <2> QED
      BY <2>1, <2>4, <2>5, <2>6
  <1>5. CASE s.call = "ll_remove" /\ LL!ll_remove(TRUE, s.arg)
    <2> DEFINE i == s.arg
               x == NULL
    <2>1. i \in ListIndexes /\ p_head # NULL
      BY <1>5, TheIndexes, LocalIsAPayload DEF Legal
    <2>2. P!Call("remove", -1, i, x, TRUE)
      BY <1>5, ListCalls, Zenon DEF LL!ll_remove
    <2> HIDE DEF i, x
    <2>3. P!Callable("remove", -1, i, x, TRUE)
      BY <2>1, TheIndexes DEF P!Callable, Payloads, x
    <2>4. /\ P!IInv'
          /\ \/ (p_head = NULL \/ ~(TRUE)) /\ P!Answered("NULL_POINTER", <<>>) /\ Unmoved
             \/ p_head # NULL /\ TRUE /\ P!Begins("remove", i, x)
      BY <2>1, <2>2, <2>3, ACallSays, Zenon
    <2>6. CASE P!Begins("remove", i, x)
      <3>1. pc' = "remove" /\ short' = short
        BY <1>1, <2>6, NothingAllocated DEF P!Begins
      <3>2. Underway(s)'
        BY <1>2, <1>5, <2>6, <3>1 DEF Underway, P!Begins, x, i
      <3> QED
        BY <2>4, <2>6, <3>1, <3>2 DEF GoesOn, P!Begins, P!Same, Unmoved, Items
    <2> QED
      BY <2>1, <2>4, <2>6
  <1>6. CASE s.call = "ll_remove to NULL" /\ LL!ll_remove(FALSE, s.arg)
    <2> DEFINE i == s.arg
               x == NULL
    <2>1. i \in ListIndexes /\ p_head # NULL
      BY <1>6, TheIndexes, LocalIsAPayload, Zenon DEF Legal
    <2>2. P!Call("remove", -1, i, x, FALSE)
      BY <1>6, ListCalls, Zenon DEF LL!ll_remove
    <2> HIDE DEF i, x
    <2>3. P!Callable("remove", -1, i, x, FALSE)
      BY <2>1, TheIndexes DEF P!Callable, Payloads, x
    <2>4. /\ P!IInv'
          /\ \/ (p_head = NULL \/ ~(FALSE)) /\ P!Answered("NULL_POINTER", <<>>) /\ Unmoved
             \/ p_head # NULL /\ FALSE /\ P!Begins("remove", i, x)
      BY <2>1, <2>2, <2>3, ACallSays, Zenon
    <2>5. CASE TRUE /\ P!Answered("NULL_POINTER", <<>>) /\ Unmoved
      BY <1>1, <1>6, <2>4, <2>5, AnswersGiven, Zenon DEF Outcome, NotServed, x
    <2> QED
      BY <2>1, <2>4, <2>5
  <1>7. CASE s.call = "ll_search" /\ LL!ll_search(Payload(s.arg), TRUE)
    <2> DEFINE i == 0
               x == Payload(s.arg)
    <2>1. i \in ListIndexes /\ p_head # NULL /\ x \in Payloads \cup {NULL}
      BY <1>7, TheIndexes, LocalIsAPayload DEF Legal
    <2>2. P!Call("search", 0, i, x, x # NULL /\ TRUE)
      BY <1>7, ListCalls DEF LL!ll_search
    <2> HIDE DEF i, x
    <2>3. P!Callable("search", 0, i, x, x # NULL /\ TRUE)
      BY <2>1, TheIndexes, PayloadsAreNotNull DEF P!Callable, Payloads, i
    <2>4. /\ P!IInv'
          /\ \/ (p_head = NULL \/ ~(x # NULL /\ TRUE)) /\ P!Answered("NULL_POINTER", <<>>) /\ Unmoved
             \/ p_head # NULL /\ x # NULL /\ TRUE /\ P!Begins("search", i, x)
      BY <2>1, <2>2, <2>3, ACallSays, Zenon
    <2>5. CASE x = NULL /\ P!Answered("NULL_POINTER", <<>>) /\ Unmoved
      BY <1>1, <1>7, <2>4, <2>5, AnswersGiven DEF Outcome, NotServed, x
    <2>6. CASE P!Begins("search", i, x)
      <3>1. pc' = "search" /\ short' = short
        BY <1>1, <2>6, NothingAllocated DEF P!Begins
      <3>2. Underway(s)'
        BY <1>2, <1>7, <2>6, <3>1 DEF Underway, P!Begins, x, i
      <3> QED
        BY <2>4, <2>6, <3>1, <3>2 DEF GoesOn, P!Begins, P!Same, Unmoved, Items
    <2> QED
      BY <2>1, <2>4, <2>5, <2>6
  <1>8. CASE s.call = "ll_search with NULL" /\ LL!ll_search(Local, FALSE)
    <2> DEFINE i == 0
               x == Local
    <2>1. i \in ListIndexes /\ p_head # NULL /\ x \in Payloads
      BY <1>8, TheIndexes, LocalIsAPayload, Zenon DEF Legal
    <2>2. P!Call("search", 0, i, x, x # NULL /\ FALSE)
      BY <1>8, ListCalls, Zenon DEF LL!ll_search
    <2> HIDE DEF i, x
    <2>3. P!Callable("search", 0, i, x, x # NULL /\ FALSE)
      BY <2>1, TheIndexes, PayloadsAreNotNull DEF P!Callable, Payloads, i
    <2>4. /\ P!IInv'
          /\ \/ (p_head = NULL \/ ~(x # NULL /\ FALSE)) /\ P!Answered("NULL_POINTER", <<>>) /\ Unmoved
             \/ p_head # NULL /\ x # NULL /\ FALSE /\ P!Begins("search", i, x)
      BY <2>1, <2>2, <2>3, ACallSays, Zenon
    <2>5. CASE TRUE /\ P!Answered("NULL_POINTER", <<>>) /\ Unmoved
      BY <1>1, <1>8, <2>4, <2>5, AnswersGiven, Zenon DEF Outcome, NotServed, x
    <2> QED
      BY <2>1, <2>4, <2>5
  <1>9. CASE s.call = "ll_size" /\ LL!ll_size(TRUE)
    <2> DEFINE i == 0
               x == NULL
    <2>1. i \in ListIndexes /\ p_head # NULL
      BY <1>9, TheIndexes, LocalIsAPayload DEF Legal
    <2>2. P!Call("size", 0, i, x, TRUE)
      BY <1>9, ListCalls, Zenon DEF LL!ll_size
    <2> HIDE DEF i, x
    <2>3. P!Callable("size", 0, i, x, TRUE)
      BY <2>1, TheIndexes DEF P!Callable, Payloads, i, x
    <2>4. /\ P!IInv'
          /\ \/ (p_head = NULL \/ ~(TRUE)) /\ P!Answered("NULL_POINTER", <<>>) /\ Unmoved
             \/ p_head # NULL /\ TRUE /\ P!Begins("size", i, x)
      BY <2>1, <2>2, <2>3, ACallSays, Zenon
    <2>6. CASE P!Begins("size", i, x)
      <3>1. pc' = "size" /\ short' = short
        BY <1>1, <2>6, NothingAllocated DEF P!Begins
      <3>2. Underway(s)'
        BY <1>2, <1>9, <2>6, <3>1 DEF Underway, P!Begins, x, i
      <3> QED
        BY <2>4, <2>6, <3>1, <3>2 DEF GoesOn, P!Begins, P!Same, Unmoved, Items
    <2> QED
      BY <2>1, <2>4, <2>6
  <1>10. CASE s.call = "ll_size to NULL" /\ LL!ll_size(FALSE)
    <2> DEFINE i == 0
               x == NULL
    <2>1. i \in ListIndexes /\ p_head # NULL
      BY <1>10, TheIndexes, LocalIsAPayload, Zenon DEF Legal
    <2>2. P!Call("size", 0, i, x, FALSE)
      BY <1>10, ListCalls, Zenon DEF LL!ll_size
    <2> HIDE DEF i, x
    <2>3. P!Callable("size", 0, i, x, FALSE)
      BY <2>1, TheIndexes DEF P!Callable, Payloads, i, x
    <2>4. /\ P!IInv'
          /\ \/ (p_head = NULL \/ ~(FALSE)) /\ P!Answered("NULL_POINTER", <<>>) /\ Unmoved
             \/ p_head # NULL /\ FALSE /\ P!Begins("size", i, x)
      BY <2>1, <2>2, <2>3, ACallSays, Zenon
    <2>5. CASE TRUE /\ P!Answered("NULL_POINTER", <<>>) /\ Unmoved
      BY <1>1, <1>10, <2>4, <2>5, AnswersGiven, Zenon DEF Outcome, NotServed, x
    <2> QED
      BY <2>1, <2>4, <2>5
  <1>11. CASE s.call = "ll_destroy" /\ LL!ll_destroy
    <2> DEFINE i == 0
               x == NULL
    <2>1. i \in ListIndexes /\ p_head # NULL
      BY <1>11, TheIndexes, LocalIsAPayload DEF Legal
    <2>2. P!Call("destroy", 0, i, x, TRUE)
      BY <1>11, ListCalls, Zenon DEF LL!ll_destroy
    <2> HIDE DEF i, x
    <2>3. P!Callable("destroy", 0, i, x, TRUE)
      BY <2>1, TheIndexes DEF P!Callable, Payloads, i, x
    <2>4. /\ P!IInv'
          /\ \/ (p_head = NULL \/ ~(TRUE)) /\ P!Answered("NULL_POINTER", <<>>) /\ Unmoved
             \/ p_head # NULL /\ TRUE /\ P!Begins("destroy", i, x)
      BY <2>1, <2>2, <2>3, ACallSays, Zenon
    <2>6. CASE P!Begins("destroy", i, x)
      <3>1. pc' = "destroy" /\ short' = short
        BY <1>1, <2>6, NothingAllocated DEF P!Begins
      <3>2. Underway(s)'
        BY <1>2, <1>11, <2>6, <3>1 DEF Underway, P!Begins, x, i
      <3> QED
        BY <2>4, <2>6, <3>1, <3>2 DEF GoesOn, P!Begins, P!Same, Unmoved, Items
    <2> QED
      BY <2>1, <2>4, <2>6
  <1>12. CASE s.call = "ll NULL" /\ LL!Refuse("init", "NULL_POINTER")
    <2>1. P!Refuse("init", "NULL_POINTER")
      BY <1>12, ListCalls, Zenon
    <2>2. /\ P!Reply("init", index, item, "NULL_POINTER", <<>>) /\ UNCHANGED P!links
          /\ pc # "destroy" /\ "NULL_POINTER" # "CRASHED"
      BY <2>1 DEF P!Refuse, P!Return, Idle
    <2>3. P!IInv'
      BY <2>2, ListAssumption, P!ReturnKeepsInv
    <2>4. P!Answered("NULL_POINTER", <<>>) /\ pc' # "destroy"
      BY <2>2 DEF P!Answered, P!Reply
    <2>5. Items' = Items /\ p_head' = p_head
      BY <2>2, <2>4, ListAssumption, P!ItemsKept DEF Items, P!links
    <2> QED
      BY <1>1, <1>12, <2>3, <2>4, <2>5, AnswersGiven, Zenon DEF Outcome, NotServed, Unmoved
  <1> QED
    BY <1>3, <1>4, <1>5, <1>6, <1>7, <1>8, <1>9, <1>10, <1>11, <1>12, Zenon DEF ListCall

(* Every turn of the loop, and the last one. *)
LEMMA ListAnswersWalk ==
  ASSUME P!IInv, NEW s, Underway(s), Legal(s), UNCHANGED randoms, Walk
  PROVE  P!IInv' /\ (GoesOn(s) \/ Outcome(s))
  <1>1. Allocates(IF pc' = "idle" THEN ll_status' ELSE "NO_ERROR")
    BY DEF Walk
  <1>2. \A j : Payload(j)' = Payload(j)
    BY DEF randoms, Payload
  <1>3. \/ P!InsertWalk \/ P!InsertBreak \/ P!InsertStop \/ P!InsertLink
        \/ P!RemoveWalk \/ P!RemoveUnlink
        \/ P!SearchHit \/ P!SearchWalk
        \/ P!SizeWalk \/ P!SizeEnd \/ P!DestroyWalk \/ P!DestroyEnd
    BY ListTurns DEF Walk
  <1>4. /\ pc \in {"insert", "link", "search"} => item \in Payloads /\ item # NULL
        /\ pc \notin {"insert", "link", "search"} => item = NULL
    BY PayloadsAreNotNull DEF P!IInv, P!LoopOK, P!Arguments, Payloads
  <1>5. CASE \/ P!InsertWalk \/ P!InsertBreak \/ P!InsertStop \/ P!RemoveWalk
             \/ P!SearchWalk \/ P!SizeWalk
    <2>1. P!IInv'
      BY <1>5, ListAssumption, P!WalkKeepsInv
    <2>2. P!Continues
      BY <1>5, ListAssumption, P!WalkSays
    <2>3. \/ pc = "insert" /\ pc' \in {"insert", "link"}
          \/ pc \in {"remove", "search", "size"} /\ pc' = pc
      BY <1>5 DEF P!InsertWalk, P!InsertBreak, P!InsertStop, P!RemoveWalk,
                  P!SearchWalk, P!SizeWalk, P!Visit, P!Turn, P!AtLast
    <2>4. short' = short
      BY <1>1, <2>3, NothingAllocated
    <2>5. Underway(s)'
      BY <1>2, <2>2, <2>3 DEF Underway, P!Continues
    <2> QED
      BY <2>1, <2>2, <2>4, <2>5 DEF GoesOn, P!Continues, P!Same, Unmoved, Items
  <1>6. CASE P!DestroyWalk
    <2>1. P!IInv'
      BY <1>6, ListAssumption, P!DestroyKeepsInv
    <2>2. P!Continues
      BY <1>6, ListAssumption, P!DestroyWalkSays
    <2>3. pc = "destroy" /\ pc' = pc
      BY <1>6 DEF P!DestroyWalk, P!Turn
    <2>4. short' = short
      BY <1>1, <2>3, NothingAllocated
    <2>5. Underway(s)'
      BY <1>2, <2>2, <2>3 DEF Underway, P!Continues
    <2> QED
      BY <2>1, <2>2, <2>4, <2>5 DEF GoesOn, P!Continues, P!Same, Unmoved, Items
  <1>7. CASE P!InsertLink
    <2>1. P!IInv'
      BY <1>7, ListAssumption, P!InsertKeepsInv
    <2>2. P!InsertAnswers(item, index)
      BY <1>7, <2>1, ListAssumption, P!InsertSays
    <2>3. /\ s.call = "ll_insert" /\ item = Payload(s.arg[1]) /\ index = s.arg[2]
          /\ item # NULL
      BY <1>4, <1>7 DEF Underway, P!InsertLink
    <2>4. Inserted(item, index)
      BY <1>1, <2>2, AnswersGiven DEF P!InsertAnswers, Inserted, Items, P!Same, Unmoved
    <2> QED
      BY <2>1, <2>3, <2>4 DEF Outcome
  <1>8. CASE P!RemoveUnlink
    <2>1. P!IInv'
      BY <1>8, ListAssumption, P!RemoveKeepsInv
    <2>2. P!RemoveAnswers(index)
      BY <1>8, <2>1, ListAssumption, P!RemoveSays
    <2>3. s.call = "ll_remove" /\ index = s.arg /\ (index # -1 \/ Items # <<>>)
      BY <1>8, Zenon DEF Underway, P!RemoveUnlink, Legal
    <2>4. Removes(index)
      BY <1>1, <2>2, <2>3, AnswersGiven DEF P!RemoveAnswers, Removes, Items, P!Same, Unmoved
    <2> QED
      BY <2>1, <2>3, <2>4 DEF Outcome
  <1>9. CASE P!SearchHit
    <2>1. P!IInv'
      BY <1>9, ListAssumption, P!AnswerKeepsInv
    <2>2. P!SearchAnswers(item)
      BY <1>9, ListAssumption, P!SearchSays
    <2>3. s.call = "ll_search" /\ item = Payload(s.arg) /\ item # NULL
      BY <1>4, <1>9 DEF Underway, P!SearchHit, P!Turn
    <2>4. Searched(item)
      BY <1>1, <2>2, AnswersGiven DEF P!SearchAnswers, Searched, Items, P!Same, Unmoved
    <2> QED
      BY <2>1, <2>3, <2>4 DEF Outcome
  <1>10. CASE P!SizeEnd
    <2>1. P!IInv'
      BY <1>10, ListAssumption, P!AnswerKeepsInv
    <2>2. P!Answered("NO_ERROR", <<Len(Items)>>) /\ P!Same
      BY <1>10, ListAssumption, P!SizeSays DEF Items
    <2>3. s.call = "ll_size"
      BY <1>10 DEF Underway, P!SizeEnd, P!AtLast
    <2>4. Answers("NO_ERROR", <<Len(Items)>>)
      BY <1>1, <2>2, AnswersGiven
    <2> QED
      BY <2>1, <2>2, <2>3, <2>4 DEF Outcome, P!Same, Unmoved, Items
  <1>11. CASE P!DestroyEnd
    <2>1. P!IInv'
      BY <1>11, ListAssumption, P!DestroyKeepsInv
    <2>2. P!Answered("NO_ERROR", Items) /\ p_head' = NULL
      BY <1>11, <2>1, ListAssumption, P!DestroySays DEF Items
    <2>3. s.call = "ll_destroy"
      BY <1>11 DEF Underway, P!DestroyEnd, P!AtLast
    <2>4. Answers("NO_ERROR", Items)
      BY <1>1, <2>2, AnswersGiven
    <2> QED
      BY <2>1, <2>2, <2>3, <2>4 DEF Outcome
  <1> QED
    BY <1>3, <1>5, <1>6, <1>7, <1>8, <1>9, <1>10, <1>11

(* The items are payloads, in every state of the list but while it is       *)
(* destroyed.                                                              *)
LEMMA ItemsArePayloads ==
  ASSUME P!IInv, Idle
  PROVE  Items \in Seq(Payloads) /\ Len(Items) \in Nat
  <1>1. P!LinksOK /\ pc # "destroy"
    BY DEF P!IInv, Idle
  <1>2. P!ItemsOf \in Seq(Payloads)
    BY <1>1, ListAssumption, P!ItemsAre DEF Payloads
  <1> QED
    BY <1>2 DEF Items
----------------------------------------------------------------------------
(* The items as numbers of payloads.                                       *)

LEMMA SameSequence ==
  ASSUME NEW S, NEW s \in Seq(S), NEW t \in Seq(S), Len(s) = Len(t),
         \A i \in 1 .. Len(s) : s[i] = t[i]
  PROVE  s = t
  OBVIOUS

LEMMA TheList ==
  ASSUME NEW s \in Seq(Nat), Lists(s)
  PROVE  /\ Items \in Seq({Payload(j) : j \in Nat}) /\ Len(Items) = Len(s)
         /\ \A i \in 1 .. Len(s) : Items[i] = Payload(s[i])
         /\ p_head # NULL
  <1> DEFINE l == Len(s)
  <1>1. Items = [i \in 1 .. l |-> Payload(s[i])] /\ l \in Nat /\ p_head # NULL
    BY DEF Lists, Items
  <1>2. \A i \in 1 .. l : s[i] \in Nat
    OBVIOUS
  <1> HIDE DEF l
  <1>3. /\ Items \in Seq({Payload(j) : j \in Nat}) /\ Len(Items) = l
        /\ \A i \in 1 .. l : Items[i] = Payload(s[i])
    BY <1>1, <1>2
  <1> QED
    BY <1>1, <1>3 DEF l

(* What makes a sequence of items the list of the numbers s. *)
LEMMA ListsNow ==
  ASSUME NEW s \in Seq(Nat), NEW r \in Seq({Payload(j) : j \in Nat}), Len(r) = Len(s),
         \A i \in 1 .. Len(s) : r[i] = Payload(s[i]),
         Items' = r, p_head' # NULL, UNCHANGED randoms
  PROVE  Lists(s)'
  <1> DEFINE S == {Payload(j) : j \in Nat}
             t == [i \in 1 .. Len(s) |-> Payload(s[i])]
  <1>1. Len(s) \in Nat /\ \A i \in 1 .. Len(s) : s[i] \in Nat
    OBVIOUS
  <1>2. t \in Seq(S) /\ Len(t) = Len(s) /\ \A i \in 1 .. Len(s) : t[i] = Payload(s[i])
    BY <1>1
  <1>3. r = t
    BY <1>2, SameSequence
  <1>4. \A j : Payload(j)' = Payload(j)
    BY DEF randoms, Payload
  <1>5. DOMAIN s = 1 .. Len(s)
    OBVIOUS
  <1> QED
    BY <1>3, <1>4, <1>5 DEF Lists, Items

LEMMA ListsInsert ==
  ASSUME NEW s \in Seq(Nat), Lists(s), NEW p \in 0 .. Len(s), NEW j \in Nat,
         Items' = P!WithAfter(Items, p, Payload(j)), p_head' = p_head, UNCHANGED randoms
  PROVE  /\ P!Widened(Nat, P!WithAfter(s, p, j), s, p, j)
         /\ Lists(P!WithAfter(s, p, j))'
  <1> DEFINE S == {Payload(k) : k \in Nat}
             q == P!WithAfter(s, p, j)
             r == P!WithAfter(Items, p, Payload(j))
             l == Len(s)
  <1>1. /\ Items \in Seq(S) /\ Len(Items) = l /\ \A i \in 1 .. l : Items[i] = Payload(s[i])
        /\ p_head # NULL /\ Payload(j) \in S /\ l \in Nat /\ p \in 0 .. l
    <2>1. Payload(j) \in S
      OBVIOUS
    <2>2. /\ Items \in Seq(S) /\ Len(Items) = l
          /\ \A i \in 1 .. l : Items[i] = Payload(s[i])
          /\ p_head # NULL
      BY TheList, Zenon
    <2>3. l \in Nat /\ p \in 0 .. l
      OBVIOUS
    <2> QED
      BY <2>1, <2>2, <2>3
  <1>2. P!Widened(Nat, q, s, p, j)
    BY ListAssumption, P!WithAfterProperties
  <1>3. P!Widened(S, r, Items, p, Payload(j))
    BY <1>1, ListAssumption, P!WithAfterProperties
  <1> HIDE DEF S, q, r
  <1>4. /\ q \in Seq(Nat) /\ Len(q) = l + 1
        /\ \A i \in 1 .. p : q[i] = s[i]
        /\ q[p + 1] = j
        /\ \A i \in p + 2 .. l + 1 : q[i] = s[i - 1]
    BY <1>2 DEF P!Widened
  <1>5. /\ r \in Seq(S) /\ Len(r) = l + 1
        /\ \A i \in 1 .. p : r[i] = Items[i]
        /\ r[p + 1] = Payload(j)
        /\ \A i \in p + 2 .. l + 1 : r[i] = Items[i - 1]
    BY <1>1, <1>3 DEF P!Widened
  <1> HIDE DEF l
  <1>6. \A i \in 1 .. l + 1 : r[i] = Payload(q[i])
    <2> TAKE i \in 1 .. l + 1
    <2>1. \/ i \in 1 .. p /\ i \in 1 .. l
          \/ i = p + 1
          \/ i \in p + 2 .. l + 1 /\ i - 1 \in 1 .. l
      BY <1>1
    <2> QED
      BY <1>1, <1>4, <1>5, <2>1
  <1>7. Lists(q)'
    BY <1>1, <1>4, <1>5, <1>6, ListsNow, Zenon DEF r, S
  <1> QED
    BY <1>2, <1>7 DEF q

(* r is s without its p-th element. *)
Narrowed(r, s, p) ==
  /\ r \in Seq(Nat) /\ Len(r) = Len(s) - 1
  /\ \A i \in 1 .. p - 1 : r[i] = s[i]
  /\ \A i \in p .. Len(s) - 1 : r[i] = s[i + 1]

LEMMA ListsRemove ==
  ASSUME NEW s \in Seq(Nat), Lists(s), NEW p \in 1 .. Len(s),
         Items' = P!Without(Items, p), p_head' = p_head, UNCHANGED randoms
  PROVE  Narrowed(P!Without(s, p), s, p) /\ Lists(P!Without(s, p))'
  <1> DEFINE S == {Payload(k) : k \in Nat}
             q == P!Without(s, p)
             r == P!Without(Items, p)
             l == Len(s)
  <1>1. /\ Items \in Seq(S) /\ Len(Items) = l /\ \A i \in 1 .. l : Items[i] = Payload(s[i])
        /\ p_head # NULL /\ l \in Nat /\ p \in 1 .. l
    BY TheList
  <1>2. /\ q \in Seq(Nat) /\ Len(q) = l - 1
        /\ \A i \in 1 .. p - 1 : q[i] = s[i]
        /\ \A i \in p .. l - 1 : q[i] = s[i + 1]
    BY ListAssumption, P!WithoutProperties
  <1>3. /\ r \in Seq(S) /\ Len(r) = Len(Items) - 1
        /\ \A i \in 1 .. p - 1 : r[i] = Items[i]
        /\ \A i \in p .. Len(Items) - 1 : r[i] = Items[i + 1]
    <2>1. p \in 1 .. Len(Items)
      BY <1>1
    <2> QED
      BY <1>1, <2>1, ListAssumption, P!WithoutProperties, Zenon
  <1> HIDE DEF S, q, r, l
  <1>4. \A i \in 1 .. l - 1 : r[i] = Payload(q[i])
    <2> TAKE i \in 1 .. l - 1
    <2>1. \/ i \in 1 .. p - 1 /\ i \in 1 .. l
          \/ i \in p .. l - 1 /\ i + 1 \in 1 .. l
      BY <1>1
    <2> QED
      BY <1>1, <1>2, <1>3, <2>1
  <1>5. Lists(q)'
    BY <1>1, <1>2, <1>3, <1>4, ListsNow, Zenon DEF r, S
  <1> QED
    BY <1>2, <1>5 DEF q, l, Narrowed

LEMMA ListsStay ==
  ASSUME NEW s, Lists(s), Unmoved, UNCHANGED randoms
  PROVE  Lists(s)'
  <1>1. \A j : Payload(j)' = Payload(j)
    BY DEF randoms, Payload
  <1> QED
    BY <1>1 DEF Lists, Unmoved, Items
----------------------------------------------------------------------------
(* What a test of the list makes of an answer.                             *)

LEMMA RandomNumbers ==
  ASSUME RandomsOK, test \in 1 .. 16
  PROVE  /\ num_inserts \in Nat /\ num_inserts <= HALF_LIST_SIZE - 1
         /\ num_removes \in Nat /\ num_removes <= num_inserts
         /\ test \in {13, 15, 16} => num_inserts > 0
         /\ test = 14 => num_inserts >= 3
         /\ test \notin 13 .. 16 => num_inserts = 0
         /\ test # 16 => num_removes = 0
         /\ Size_(num_inserts) = IF test = 13 THEN num_inserts + 2 ELSE num_inserts
         /\ Size_(num_inserts) <= MaxPayloads
         /\ \A j \in 1 .. Size_(num_inserts) :
              Payload(j) \in Payloads /\ Payload(j) # NULL /\ Payload(j).id = j
              /\ Payload(j).val = vals[j]
  <1>1. /\ num_inserts \in 0 .. HALF_LIST_SIZE - 1 /\ Enough(num_inserts)
        /\ num_removes \in {0} \cup 0 .. num_inserts - 1
        /\ Suite[test] # "ll_size" => num_removes = 0
        /\ vals \in [1 .. Size_(num_inserts) -> Vals]
    BY DEF RandomsOK, Drawn
  <1>2. num_inserts \in Nat /\ num_inserts <= HALF_LIST_SIZE - 1
        /\ num_removes \in Nat /\ num_removes <= num_inserts
    BY <1>1, SizesAreNumbers
  <1>3. Size_(num_inserts) = IF test = 13 THEN num_inserts + 2 ELSE num_inserts
    BY Suites, SuiteIsInjective DEF Size_
  <1>4. Size_(num_inserts) <= MaxPayloads /\ Size_(num_inserts) \in Nat
    BY <1>2, <1>3, SizesAreNumbers
  <1>5. /\ Suite[test] = "ll_insert" <=> test = 13
        /\ Suite[test] = "ll_remove" <=> test = 14
        /\ Suite[test] = "ll_search" <=> test = 15
        /\ Suite[test] = "ll_size" <=> test = 16
    BY Suites, SuiteIsInjective
  <1>6. /\ test \in {13, 15, 16} => num_inserts > 0
        /\ test = 14 => num_inserts >= 3
        /\ test \notin 13 .. 16 => num_inserts = 0
    <2>1. Suite[test] \in {"ll_insert", "ll_search", "ll_size"} <=> test \in {13, 15, 16}
      BY <1>5
    <2>2. CASE test \in {13, 15, 16}
      BY <1>1, <2>1, <2>2 DEF Enough
    <2>3. CASE test = 14
      BY <1>1, <1>5, <2>1, <2>3 DEF Enough
    <2>4. CASE test \notin 13 .. 16
      <3>1. test \notin {13, 15, 16} /\ test # 14
        BY <2>4
      <3>2. num_inserts = 0
        BY <1>1, <1>5, <2>1, <3>1 DEF Enough
      <3> QED
        BY <2>4, <3>2
    <2> QED
      BY <2>2, <2>3, <2>4
  <1>7. ASSUME NEW j \in 1 .. Size_(num_inserts)
        PROVE  /\ Payload(j) \in Payloads /\ Payload(j) # NULL /\ Payload(j).id = j
               /\ Payload(j).val = vals[j]
    <2>1. j # 0 /\ j \in 1 .. MaxPayloads /\ vals[j] \in Vals
      BY <1>1, <1>4, SizesAreNumbers
    <2>2. Payload(j) = [id |-> j, val |-> vals[j]]
      BY <2>1 DEF Payload
    <2> QED
      BY <2>1, <2>2, PayloadsAreNotNull DEF Payloads
  <1> QED
    BY <1>1, <1>2, <1>3, <1>4, <1>5, <1>6, <1>7

(* A call never changes the script it belongs to. *)
LEMMA SameScript ==
  ASSUME UNCHANGED <<test, randoms>>
  PROVE  Script' = Script
  <1>1. test' = test /\ num_inserts' = num_inserts
        /\ num_removes' = num_removes /\ vals' = vals
    BY DEF randoms
  <1>2. \A j : Payload(j)' = Payload(j)
    BY <1>1 DEF Payload
  <1>3. Middle' = Middle
    BY <1>1 DEF Middle
  <1>4. InsertAll' = InsertAll
    BY <1>1 DEF InsertAll
  <1>5. \A i, j : Remove(i, j)' = Remove(i, j)
    BY <1>2 DEF Remove
  <1>6. RemoveLast' = RemoveLast
    BY <1>1 DEF RemoveLast, RemovesMade
  <1>7. test_ll_insert' = test_ll_insert
    BY <1>1, <1>3, <1>4 DEF test_ll_insert
  <1>8. test_ll_remove' = test_ll_remove
    BY <1>1, <1>3, <1>4, <1>5, Zenon DEF test_ll_remove
  <1>9. test_ll_search' = test_ll_search
    BY <1>3, <1>4 DEF test_ll_search
  <1>10. test_ll_size' = test_ll_size
    BY <1>1, <1>4, <1>6 DEF test_ll_size
  <1> QED
    BY <1>1, <1>7, <1>8, <1>9, <1>10 DEF Script

LEMMA SameNow ==
  ASSUME UNCHANGED <<test, at, randoms>>
  PROVE  Now' = Now /\ Script' = Script
  BY SameScript DEF Now

ListGood(s) == ll_status' = s.code /\ (s.gives = Any \/ s.gives = ll_out')

(* The call has returned: what it answered is what the test asserts of it,  *)
(* and the test is at its next place; or it is not, for a reason.           *)
Settles(after) ==
  /\ pc' = "idle"
  /\ \/ ~short' /\ Asserted(Now)' /\ FreesOnce' /\ after
     \/ ~Asserted(Now)' /\ Released' = <<>> /\ (short' \/ SameContents')

Turn(after) ==
  /\ ~OfRing(Now.call) /\ Legal(Now)
  /\ Now.call = "malloc" => Now.arg \in 1 .. Size_(num_inserts)
  /\ Outcome(Now) /\ live' = live => Settles(after)
  /\ PayloadCall(Now) /\ Idle => Settles(after)

Plain == {"ll_init", "ll_insert", "ll_remove", "ll_remove to NULL", "ll_search",
          "ll_search with NULL", "ll_size", "ll_size to NULL", "ll NULL"}

LEMMA FreesNothing ==
  ASSUME Released' = <<>>
  PROVE  FreesOnce' /\ (live \ Range(Released))' = live'
  <1>1. IsInjective(<<>>) /\ Range(<<>>) = {}
    BY DEF IsInjective, Range
  <1> QED
    BY <1>1 DEF FreesOnce

LEMMA FreesNoPayload ==
  ASSUME Now' = Now, Now.call # "ll_destroy", Now.call # "free"
  PROVE  Released' = <<>>
  BY DEF Released

LEMMA PlainSettles ==
  ASSUME Now.call \in Plain, Now' = Now, pc' = "idle"
  PROVE  /\ ~OfRing(Now.call) /\ ~PayloadCall(Now)
         /\ Released' = <<>> /\ FreesOnce' /\ (live \ Range(Released))' = live'
         /\ Asserted(Now)' <=> ListGood(Now)
  <1>1. /\ ~OfRing(Now.call) /\ ~OfPayload(Now.call) /\ Now.call # "ll_destroy"
        /\ Now.call # "free"
    BY Zenon DEF Plain, OfRing, OfPayload
  <1>2. ~PayloadCall(Now)
    BY <1>1 DEF PayloadCall, OfPayload
  <1>3. Released' = <<>>
    BY <1>1, FreesNoPayload
  <1>4. Asserted(Now)' <=> ListGood(Now)
    BY <1>1, Zenon DEF Asserted, ListGood, OfRing, OfPayload
  <1> QED
    BY <1>1, <1>2, <1>3, <1>4, FreesNothing

(* What the answers and the random numbers decide stays while they do. *)
LEMMA SameReleased ==
  ASSUME Now' = Now, ll_status' = ll_status, ll_out' = ll_out
  PROVE  Released' = Released
  BY DEF Released, Removed

LEMMA ContentsStay ==
  ASSUME num_inserts' = num_inserts, vals' = vals, test' = test, phase' = phase
  PROVE  SameContents => SameContents'
  <1>1. Middle' = Middle
    BY DEF Middle
  <1> QED
    BY <1>1 DEF SameContents

LEMMA OnlyWhenChecked == SameContents => phase = "check"
  BY DEF SameContents
----------------------------------------------------------------------------
(* The calls of the list tests, one lemma for each kind of call.           *)

Left == live \ Range(Released)

(* What the list holds after the step. *)
Becomes(s) == Lists(s)'

(* A step of a call of a test nothing has gone wrong in. *)
Playing ==
  /\ RandomsOK /\ ~short /\ test \in 1 .. 16
  /\ UNCHANGED <<test, at, randoms>> /\ phase' = "check"

LEMMA PlainTurn ==
  ASSUME Now.call \in Plain, Playing, Legal(Now),
         NEW good, good \in BOOLEAN,
         Outcome(Now) /\ live' = live =>
           /\ pc' = "idle"
           /\ \/ short' = short /\ ListGood(Now) /\ good
              \/ ~ListGood(Now) /\ (short' \/ SameContents')
  PROVE  Turn(good /\ Left' = live)
  <1>1. Now' = Now
    BY SameNow DEF Playing
  <1>2. ~OfRing(Now.call) /\ ~PayloadCall(Now) /\ Now.call # "malloc"
    BY Zenon DEF Plain, OfRing, PayloadCall
  <1>3. ASSUME Outcome(Now), live' = live
        PROVE  Settles(good /\ Left' = live)
    <2>1. /\ pc' = "idle"
          /\ \/ short' = short /\ ListGood(Now) /\ good
             \/ ~ListGood(Now) /\ (short' \/ SameContents')
      BY <1>3
    <2>2. /\ Released' = <<>> /\ FreesOnce' /\ Left' = live'
          /\ Asserted(Now)' <=> ListGood(Now)
      BY <1>1, <2>1, PlainSettles DEF Left
    <2>3. ~short
      BY DEF Playing
    <2> QED
      BY <1>3, <2>1, <2>2, <2>3 DEF Settles
  <1> QED
    BY <1>2, <1>3 DEF Turn

LEMMA InitTurn ==
  ASSUME Playing, Now = Ok("ll_init", 0), Apart
  PROVE  Turn(Becomes(<<>>) /\ Left' = live)
  <1>1. /\ Now.call = "ll_init" /\ Now.code = "NO_ERROR" /\ Now.gives = Any
        /\ Now.call \in Plain
    BY DEF Ok, Expect, Plain
  <1>2. Legal(Now)
    BY <1>1, Zenon DEF Legal, Apart
  <1>3. ASSUME Outcome(Now)
        PROVE  /\ pc' = "idle"
               /\ \/ short' = short /\ ListGood(Now) /\ Becomes(<<>>)
                  \/ ~ListGood(Now) /\ (short' \/ SameContents')
    <2>1. Opened
      BY <1>1, <1>3, Zenon DEF Outcome
    <2>2. Items' = <<>> /\ p_head' # NULL => Becomes(<<>>)
      BY DEF Becomes, Lists, Items
    <2> QED
      BY <1>1, <2>1, <2>2 DEF Opened, Answers, ListGood
  <1>4. Becomes(<<>>) \in BOOLEAN
    BY DEF Becomes, Lists
  <1> QED
    BY <1>1, <1>2, <1>3, <1>4, PlainTurn

(* A call that answers and changes nothing. *)
LEMMA StayTurn ==
  ASSUME Playing, p_head # NULL, Now.call \in Plain, Legal(Now),
         Now.gives = Any, Now.code # "ALLOC_FAILURE",
         Outcome(Now) => Answers(Now.code, <<>>) /\ Unmoved
  PROVE  Turn(Unmoved /\ Left' = live)
  <1>1. Outcome(Now) /\ live' = live =>
           /\ pc' = "idle"
           /\ \/ short' = short /\ ListGood(Now) /\ Unmoved
              \/ ~ListGood(Now) /\ (short' \/ SameContents')
    BY DEF Answers, ListGood, Any
  <1>2. Unmoved \in BOOLEAN
    BY DEF Unmoved
  <1> QED
    BY <1>1, <1>2, PlainTurn

NotServedCalls == {"ll_remove to NULL", "ll_search with NULL", "ll_size to NULL", "ll NULL"}

LEMMA RefuseTurn ==
  ASSUME Playing, p_head # NULL, NEW call, NEW arg, Now = Refused(call, arg),
         \/ call \in NotServedCalls /\ arg \in {0, 1}
         \/ call = "ll_insert" /\ arg = <<0, 1>>
         \/ call = "ll_search" /\ arg = 0
  PROVE  Turn(Unmoved /\ Left' = live)
  <1>1. Now.call = call /\ Now.code = "NULL_POINTER" /\ Now.gives = Any /\ Now.arg = arg
    BY DEF Refused, Expect
  <1>2. Payload(0) = NULL
    BY DEF Payload
  <1>3. 0 \in ListIndexes /\ 1 \in ListIndexes
    BY SizesAreNumbers DEF ListIndexes
  <1>4. Now.call \in Plain
    BY <1>1, Zenon DEF Plain, NotServedCalls
  <1>5. CASE call \in NotServedCalls /\ arg \in {0, 1}
    <2>1. Legal(Now)
      BY <1>1, <1>3, <1>5, Zenon DEF Legal, NotServedCalls
    <2>2. Outcome(Now) => Answers(Now.code, <<>>) /\ Unmoved
      BY <1>1, <1>5, Zenon DEF Outcome, NotServedCalls, NotServed
    <2> QED
      BY <1>1, <1>4, <2>1, <2>2, StayTurn
  <1>6. CASE call = "ll_insert" /\ arg = <<0, 1>>
    <2>1. arg[1] = 0 /\ arg[2] = 1
      BY <1>6
    <2>2. Legal(Now)
      BY <1>1, <1>2, <1>3, <1>6, <2>1 DEF Legal
    <2>3. Outcome(Now) => Answers(Now.code, <<>>) /\ Unmoved
      BY <1>1, <1>2, <1>6, <2>1 DEF Outcome, NotServed
    <2> QED
      BY <1>1, <1>4, <2>2, <2>3, StayTurn
  <1>7. CASE call = "ll_search" /\ arg = 0
    <2>2. Legal(Now)
      BY <1>1, <1>2, <1>3, <1>7 DEF Legal
    <2>3. Outcome(Now) => Answers(Now.code, <<>>) /\ Unmoved
      BY <1>1, <1>2, <1>7 DEF Outcome, NotServed
    <2> QED
      BY <1>1, <1>4, <2>2, <2>3, StayTurn
  <1> QED
    BY <1>5, <1>6, <1>7

LEMMA InsertTooFarTurn ==
  ASSUME Playing, p_head # NULL, NEW j \in Nat, NEW i \in ListIndexes,
         Now = Expect("ll_insert", <<j, i>>, "INDEX_TOO_LARGE", Any),
         Payload(j) \in Payloads, Len(Items) \in Nat, i > Len(Items)
  PROVE  Turn(Unmoved /\ Left' = live)
  <1>1. /\ Now.call = "ll_insert" /\ Now.code = "INDEX_TOO_LARGE" /\ Now.gives = Any
        /\ Now.arg[1] = j /\ Now.arg[2] = i /\ Now.call \in Plain
    BY DEF Expect, Plain
  <1>2. Legal(Now)
    BY <1>1, Zenon DEF Legal
  <1>3. i \notin {-1} \cup 0 .. Len(Items)
    BY DEF ListIndexes
  <1>4. Payload(j) # NULL
    BY PayloadsAreNotNull
  <1>5. Outcome(Now) => Answers(Now.code, <<>>) /\ Unmoved
    BY <1>1, <1>3, <1>4, Zenon DEF Outcome, Inserted
  <1> QED
    BY <1>1, <1>2, <1>5, StayTurn

LEMMA RemoveTooFarTurn ==
  ASSUME Playing, p_head # NULL, NEW i \in ListIndexes,
         Now = Expect("ll_remove", i, "INDEX_TOO_LARGE", Any),
         Len(Items) \in Nat, i >= Len(Items)
  PROVE  Turn(Unmoved /\ Left' = live)
  <1>1. /\ Now.call = "ll_remove" /\ Now.code = "INDEX_TOO_LARGE" /\ Now.gives = Any
        /\ Now.arg = i /\ Now.call \in Plain
    BY DEF Expect, Plain
  <1>2. i # -1 /\ i \notin {-1} \cup 0 .. Len(Items) - 1
    BY DEF ListIndexes
  <1>3. Legal(Now)
    BY <1>1, <1>2, Zenon DEF Legal
  <1>4. Outcome(Now) => Answers(Now.code, <<>>) /\ Unmoved
    BY <1>1, <1>2, Zenon DEF Outcome, Removes
  <1> QED
    BY <1>1, <1>3, <1>4, StayTurn

LEMMA SizeTurn ==
  ASSUME Playing, NEW s \in Seq(Nat), Lists(s), NEW n, n = Len(s),
         Now = Expect("ll_size", 0, "NO_ERROR", <<n>>)
  PROVE  Turn(Unmoved /\ Left' = live)
  <1>1. /\ Now.call = "ll_size" /\ Now.code = "NO_ERROR" /\ Now.gives = <<n>>
        /\ Now.call \in Plain
    BY DEF Expect, Plain
  <1>2. Len(Items) = n /\ p_head # NULL
    BY TheList, Zenon
  <1>3. Legal(Now)
    BY <1>1, <1>2, Zenon DEF Legal
  <1>4. Outcome(Now) => Answers(Now.code, Now.gives) /\ Unmoved
    BY <1>1, <1>2, Zenon DEF Outcome
  <1>5. Outcome(Now) /\ live' = live =>
           /\ pc' = "idle"
           /\ \/ short' = short /\ ListGood(Now) /\ Unmoved
              \/ ~ListGood(Now) /\ (short' \/ SameContents')
    BY <1>1, <1>4 DEF Answers, ListGood
  <1>6. Unmoved \in BOOLEAN
    BY DEF Unmoved
  <1> QED
    BY <1>1, <1>3, <1>5, <1>6, PlainTurn

(* A call that changes the list. *)
LEMMA InsertTurn ==
  ASSUME Playing, NEW s \in Seq(Nat), Lists(s), NEW j \in Nat, Payload(j) \in Payloads,
         NEW i \in ListIndexes, i \in {-1} \cup 0 .. Len(s),
         Now = Ok("ll_insert", <<j, i>>),
         NEW p, p = IF i \in 0 .. Len(s) - 1 THEN i + 1 ELSE Len(s)
  PROVE  /\ P!Widened(Nat, P!WithAfter(s, p, j), s, p, j)
         /\ Turn(Becomes(P!WithAfter(s, p, j)) /\ Left' = live)
  <1> DEFINE q == P!WithAfter(s, p, j)
             good == Becomes(q)
  <1>1. /\ Now.call = "ll_insert" /\ Now.code = "NO_ERROR" /\ Now.gives = Any
        /\ Now.arg[1] = j /\ Now.arg[2] = i /\ Now.call \in Plain
    BY DEF Ok, Expect, Plain
  <1>2. Len(Items) = Len(s) /\ p_head # NULL
    BY TheList, Zenon
  <1>3. Legal(Now)
    BY <1>1, <1>2, Zenon DEF Legal
  <1>4. Payload(j) # NULL
    BY PayloadsAreNotNull
  <1>5. p \in 0 .. Len(s)
    OBVIOUS
  <1>6. ASSUME Outcome(Now)
        PROVE  /\ pc' = "idle"
               /\ \/ short' = short /\ ListGood(Now) /\ good
                  \/ ~ListGood(Now) /\ (short' \/ SameContents')
    <2>1. Inserted(Payload(j), i)
      BY <1>1, <1>4, <1>6, Zenon DEF Outcome
    <2>2. \/ /\ Answers("NO_ERROR", <<>>) /\ p_head' = p_head
             /\ Items' = P!WithAfter(Items, p, Payload(j))
          \/ Answers("ALLOC_FAILURE", <<>>)
      BY <1>2, <2>1 DEF Inserted
    <2>3. CASE /\ Answers("NO_ERROR", <<>>) /\ p_head' = p_head
               /\ Items' = P!WithAfter(Items, p, Payload(j))
      <3>1. good
        BY <1>5, <2>3, ListsInsert DEF Playing, Becomes
      <3> QED
        BY <1>1, <2>3, <3>1 DEF Answers, ListGood
    <2>4. CASE Answers("ALLOC_FAILURE", <<>>)
      BY <1>1, <2>4, Zenon DEF Answers, ListGood
    <2> QED
      BY <2>2, <2>3, <2>4
  <1>7. good \in BOOLEAN
    BY DEF Becomes, Lists
  <1>8. P!Widened(Nat, q, s, p, j)
    BY <1>5, ListAssumption, P!WithAfterProperties
  <1> QED
    BY <1>1, <1>3, <1>6, <1>7, <1>8, PlainTurn, Zenon

LEMMA RemoveTurn ==
  ASSUME Playing, NEW s \in Seq(Nat), Lists(s), NEW i \in ListIndexes,
         i \in {-1} \cup 0 .. Len(s) - 1, Len(s) > 0, NEW j,
         \/ Now = Expect("ll_remove", i, "NO_ERROR", <<Payload(j)>>)
         \/ Now = Ok("ll_remove", i),
         NEW p, p = IF i = -1 THEN Len(s) ELSE i + 1, s[p] = j
  PROVE  /\ Narrowed(P!Without(s, p), s, p)
         /\ Turn((Becomes(P!Without(s, p)) /\ ll_out' = <<Payload(j)>>) /\ Left' = live)
  <1> DEFINE q == P!Without(s, p)
             good == Becomes(q) /\ ll_out' = <<Payload(j)>>
  <1>1. /\ Now.call = "ll_remove" /\ Now.code = "NO_ERROR"
        /\ Now.gives = Any \/ Now.gives = <<Payload(j)>>
        /\ Now.arg = i /\ Now.call \in Plain
    <2>1. CASE Now = Expect("ll_remove", i, "NO_ERROR", <<Payload(j)>>)
      BY <2>1 DEF Expect, Plain
    <2>2. CASE Now = Expect("ll_remove", i, "NO_ERROR", Any)
      BY <2>2 DEF Expect, Plain
    <2> QED
      BY <2>1, <2>2 DEF Ok
  <1>2. p \in 1 .. Len(s)
    OBVIOUS
  <1>3. Len(Items) = Len(s) /\ p_head # NULL /\ Items[p] = Payload(j)
    BY <1>2, TheList, Zenon
  <1>4. Items # <<>>
    BY <1>3
  <1>5. Legal(Now)
    BY <1>1, <1>3, <1>4, Zenon DEF Legal
  <1>6. ASSUME Outcome(Now)
        PROVE  /\ pc' = "idle"
               /\ \/ short' = short /\ ListGood(Now) /\ good
                  \/ ~ListGood(Now) /\ (short' \/ SameContents')
    <2>1. Removes(i)
      BY <1>1, <1>6, Zenon DEF Outcome
    <2>2. /\ Answers("NO_ERROR", <<Payload(j)>>) /\ p_head' = p_head
          /\ Items' = P!Without(Items, p)
      BY <1>3, <2>1 DEF Removes
    <2>3. Becomes(q)
      BY <1>2, <2>2, ListsRemove DEF Playing, Becomes
    <2> QED
      BY <1>1, <2>2, <2>3 DEF Answers, ListGood
  <1>7. good \in BOOLEAN
    BY DEF Becomes, Lists
  <1>8. Narrowed(q, s, p)
    BY <1>2, ListAssumption, P!WithoutProperties, Zenon DEF Narrowed
  <1> QED
    BY <1>1, <1>5, <1>6, <1>7, <1>8, PlainTurn, Zenon

(* The first item that compares equal: the one asked for, or an earlier one. *)
LEMMA SearchTurn ==
  ASSUME Playing, Lists(Upto(num_inserts)), test = 15,
         NEW i \in 0 .. num_inserts - 1, i \in {0, Middle},
         Now = Expect("ll_search", i + 1, "NO_ERROR", <<i>>)
  PROVE  Turn(Unmoved /\ Left' = live)
  <1> DEFINE n == num_inserts
             x == Payload(i + 1)
  <1>1. /\ Now.call = "ll_search" /\ Now.code = "NO_ERROR" /\ Now.gives = <<i>>
        /\ Now.arg = i + 1 /\ Now.call \in Plain
    BY DEF Expect, Plain
  <1>2. /\ n \in Nat
        /\ \A j \in 1 .. n : Payload(j) \in Payloads /\ Payload(j) # NULL /\ Payload(j).val = vals[j]
    BY RandomNumbers DEF Playing
  <1>3. Upto(n) \in Seq(Nat) /\ Len(Upto(n)) = n /\ \A j \in 1 .. n : Upto(n)[j] = j
    BY <1>2 DEF Upto
  <1>4. Len(Items) = n /\ p_head # NULL /\ \A j \in 1 .. n : Items[j] = Payload(j)
    <2>1. /\ Len(Items) = Len(Upto(n)) /\ p_head # NULL
          /\ \A j \in 1 .. Len(Upto(n)) : Items[j] = Payload(Upto(n)[j])
      BY <1>3, TheList, Zenon
    <2> QED
      BY <1>3, <2>1
  <1>5. i + 1 \in 1 .. n
    BY <1>2
  <1>6. x \in Payloads /\ x # NULL /\ x.val = vals[i + 1]
    BY <1>2, <1>5
  <1>7. Legal(Now)
    BY <1>1, <1>4, <1>6, Zenon DEF Legal
  <1>8. ASSUME Outcome(Now)
        PROVE  /\ pc' = "idle"
               /\ \/ short' = short /\ ListGood(Now) /\ Unmoved
                  \/ ~ListGood(Now) /\ (short' \/ SameContents')
    <2>1. Searched(x)
      BY <1>1, <1>6, <1>8, Zenon DEF Outcome
    <2>2. PICK k \in 0 .. n - 1 :
            /\ compare(x, Items[k + 1]) /\ \A j \in 1 .. k : ~compare(x, Items[j])
            /\ Answers("NO_ERROR", <<k>>) /\ Unmoved
      BY <1>4, <2>1 DEF Searched
    <2>3. CASE k = i
      BY <1>1, <2>2, <2>3 DEF Answers, ListGood
    <2>4. CASE k # i
      <3>1. k < i
        <4>1. ASSUME i < k PROVE FALSE
          <5>1. i + 1 \in 1 .. k
            BY <4>1, <2>2
          <5>2. ~compare(x, Items[i + 1])
            BY <2>2, <5>1
          <5>3. Items[i + 1] = x
            BY <1>4, <1>5
          <5> QED
            BY <5>2, <5>3 DEF compare
        <4> QED
          BY <4>1, <2>4
      <3>2. i = Middle /\ k + 1 \in 1 .. Middle /\ k + 1 \in 1 .. n
        BY <1>2, <2>2, <3>1
      <3>3. vals[k + 1] = vals[Middle + 1]
        BY <1>2, <1>4, <1>6, <2>2, <3>2 DEF compare
      <3>4. SameContents'
        BY <3>2, <3>3, Suites DEF SameContents, Playing, randoms, Middle
      <3>5. ~ListGood(Now)
        BY <1>1, <2>2, <2>4 DEF ListGood, Answers, Any
      <3> QED
        BY <2>2, <3>4, <3>5 DEF Answers
    <2> QED
      BY <2>3, <2>4
  <1>9. Unmoved \in BOOLEAN
    BY DEF Unmoved
  <1> QED
    BY <1>1, <1>7, <1>8, <1>9, PlainTurn

(* The payloads the list returns are the ones it was given: each is freed.  *)
LEMMA DestroyTurn ==
  ASSUME Playing, NEW s \in Seq(Nat), Lists(s), IsInjective(s), Range(s) = live,
         live \subseteq 1 .. Size_(num_inserts), Now = Ok("ll_destroy", 0)
  PROVE  Turn(Apart' /\ Left' = {})
  <1>1. /\ Now.call = "ll_destroy" /\ Now.code = "NO_ERROR" /\ Now.gives = Any
    BY DEF Ok, Expect
  <1>2. Items = [i \in DOMAIN s |-> Payload(s[i])] /\ p_head # NULL
    BY DEF Lists, Items
  <1>3. Legal(Now) /\ ~OfRing(Now.call) /\ ~PayloadCall(Now)
    BY <1>1, <1>2, Zenon DEF Legal, OfRing, PayloadCall
  <1>4. ASSUME Outcome(Now), live' = live
        PROVE  Settles(Apart' /\ Left' = {})
    <2>1. Answers("NO_ERROR", Items) /\ p_head' = NULL
      BY <1>1, <1>4, Zenon DEF Outcome
    <2>2. pc' = "idle" /\ ll_status' = "NO_ERROR" /\ ll_out' = Items /\ ~short'
      BY <2>1 DEF Answers, Playing
    <2>3. Now' = Now
      BY SameNow DEF Playing
    <2>4. Released' = [k \in DOMAIN Items |-> Items[k].id]
      BY <1>1, <2>2, <2>3 DEF Released
    <2>5. \A i \in DOMAIN s : Payload(s[i]).id = s[i]
      <3> SUFFICES ASSUME NEW i \in DOMAIN s PROVE Payload(s[i]).id = s[i]
        OBVIOUS
      <3>1. s[i] \in Range(s)
        BY DEF Range
      <3>2. s[i] \in 1 .. Size_(num_inserts)
        BY <3>1
      <3> QED
        BY <3>2, RandomNumbers DEF Playing
    <2>6. Released' = [i \in DOMAIN s |-> s[i]]
      BY <1>2, <2>4, <2>5
    <2>7. Released' = s
      BY <2>6
    <2>8. FreesOnce' /\ Left' = {}
      BY <1>4, <2>7 DEF FreesOnce, Left
    <2>9. Asserted(Now)'
      BY <1>1, <2>2, <2>3, Zenon DEF Asserted, OfRing, OfPayload
    <2> QED
      BY <2>1, <2>2, <2>8, <2>9 DEF Settles, Apart
  <1> QED
    BY <1>1, <1>3, <1>4 DEF Turn

(* A call of malloc or free leaves the list alone. *)
LEMMA PayloadCallStays ==
  ASSUME UNCHANGED listVars
  PROVE  Unmoved /\ ll_out' = ll_out /\ pc' = pc
  BY DEF listVars, Unmoved, Items, P!ItemsOf

LEMMA MallocTurn ==
  ASSUME Playing, p_head # NULL, NEW j \in 1 .. Size_(num_inserts), Now = Ok("malloc", j)
  PROVE  Turn(Unmoved /\ Left' = live \cup {j})
  <1>1. Now.call = "malloc" /\ Now.arg = j
    BY DEF Ok, Expect
  <1>2. Legal(Now) /\ ~OfRing(Now.call) /\ ~Outcome(Now)
    BY <1>1, Zenon DEF Legal, OfRing, Outcome
  <1>3. ASSUME PayloadCall(Now), Idle
        PROVE  Settles(Unmoved /\ Left' = live \cup {j})
    <2>1. /\ UNCHANGED listVars
          /\ \/ live' = live \cup {j} /\ short' = short
             \/ short' = TRUE
      BY <1>1, <1>3 DEF PayloadCall, Allocates
    <2>2. Unmoved /\ pc' = "idle"
      BY <1>3, <2>1, PayloadCallStays DEF Idle
    <2>3. Now' = Now /\ ~short
      BY SameNow DEF Playing
    <2>4. Released' = <<>>
      BY <1>1, <2>3 DEF Released
    <2>5. FreesOnce' /\ Left' = live'
      BY <2>4, FreesNothing DEF Left
    <2>6. Asserted(Now)' <=> ~short'
      BY <1>1, <2>3, Zenon DEF Asserted, OfRing, OfPayload
    <2> QED
      BY <2>1, <2>2, <2>3, <2>4, <2>5, <2>6 DEF Settles
  <1> QED
    BY <1>1, <1>2, <1>3 DEF Turn

LEMMA FreeTurn ==
  ASSUME Playing, p_head # NULL, NEW j \in live, j \in 1 .. Size_(num_inserts),
         ll_out = <<Payload(j)>>, Now = Ok("free", j)
  PROVE  Turn(Unmoved /\ Left' = live \ {j})
  <1>1. Now.call = "free"
    BY DEF Ok, Expect
  <1>2. Legal(Now) /\ ~OfRing(Now.call) /\ ~Outcome(Now)
    BY <1>1, Zenon DEF Legal, OfRing, Outcome
  <1>3. ASSUME PayloadCall(Now), Idle
        PROVE  Settles(Unmoved /\ Left' = live \ {j})
    <2>1. UNCHANGED listVars /\ live' = live /\ short' = short
      BY <1>1, <1>3 DEF PayloadCall
    <2>2. Unmoved /\ pc' = "idle" /\ ll_out' = <<Payload(j)>>
      BY <1>3, <2>1, PayloadCallStays DEF Idle
    <2>3. Now' = Now /\ ~short
      BY SameNow DEF Playing
    <2>4. Payload(j).id = j
      BY RandomNumbers DEF Playing
    <2>5. Released' = <<j>>
      BY <1>1, <2>2, <2>3, <2>4 DEF Released, Removed
    <2>6. IsInjective(<<j>>) /\ Range(<<j>>) = {j}
      BY DEF IsInjective, Range
    <2>7. FreesOnce' /\ Left' = live \ {j}
      BY <2>1, <2>5, <2>6 DEF FreesOnce, Left
    <2>8. Asserted(Now)'
      BY <1>1, <2>1, <2>3, Zenon DEF Asserted, OfRing, OfPayload
    <2> QED
      BY <2>1, <2>2, <2>3, <2>7, <2>8 DEF Settles
  <1> QED
    BY <1>1, <1>2, <1>3 DEF Turn
----------------------------------------------------------------------------
(* Where a test of the list is after a call.                               *)

There == At(at + 1, Left)'
AtNext == handle' = handle => There

LEMMA AtNextOf ==
  ASSUME Playing, Unused
  PROVE  /\ test = 11 => (At_ll_init_destroy(at + 1)' /\ Left' = {} => AtNext)
         /\ test = 12 => (At_ll_ops_null_ptr(at + 1)' /\ Left' = {} => AtNext)
         /\ test = 13 => (At_ll_insert(at + 1, Left)' => AtNext)
         /\ test = 14 => (At_ll_remove(at + 1, Left)' => AtNext)
         /\ test = 15 => (At_ll_search(at + 1, Left)' => AtNext)
         /\ test = 16 => (At_ll_size(at + 1, Left)' => AtNext)
  <1>1. test' = test /\ (handle' = handle => Unused')
    BY DEF Playing, Unused
  <1>2. ASSUME test = 11 PROVE At_ll_init_destroy(at + 1)' /\ Left' = {} => AtNext
    BY <1>1, <1>2, Suites DEF AtNext, There, At, RingTest
  <1>3. ASSUME test = 12 PROVE At_ll_ops_null_ptr(at + 1)' /\ Left' = {} => AtNext
    BY <1>1, <1>3, Suites DEF AtNext, There, At, RingTest
  <1>4. ASSUME test = 13 PROVE At_ll_insert(at + 1, Left)' => AtNext
    BY <1>1, <1>4, Suites DEF AtNext, There, At, RingTest
  <1>5. ASSUME test = 14 PROVE At_ll_remove(at + 1, Left)' => AtNext
    BY <1>1, <1>5, Suites DEF AtNext, There, At, RingTest
  <1>6. ASSUME test = 15 PROVE At_ll_search(at + 1, Left)' => AtNext
    BY <1>1, <1>6, Suites DEF AtNext, There, At, RingTest
  <1>7. ASSUME test = 16 PROVE At_ll_size(at + 1, Left)' => AtNext
    BY <1>1, <1>7, Suites DEF AtNext, There, At, RingTest
  <1> QED
    BY <1>2, <1>3, <1>4, <1>5, <1>6, <1>7

(* The same, with the place and the live payloads given. *)
LEMMA AtNextIs ==
  ASSUME Playing, Unused, NEW k, k = at + 1, NEW M
  PROVE  /\ test = 13 => (Left' = M /\ At_ll_insert(k, M)' => AtNext)
         /\ test = 14 => (Left' = M /\ At_ll_remove(k, M)' => AtNext)
         /\ test = 15 => (Left' = M /\ At_ll_search(k, M)' => AtNext)
         /\ test = 16 => (Left' = M /\ At_ll_size(k, M)' => AtNext)
  <1>1. at' + 1 = k
    BY DEF Playing
  <1> QED
    BY <1>1, AtNextOf

LEMMA StaysThere ==
  ASSUME Playing, Unmoved
  PROVE  /\ \A s : Lists(s) => Becomes(s)
         /\ \A m : Keeps(m) => Keeps(m)'
  <1>1. UNCHANGED randoms
    BY DEF Playing, randoms
  <1>2. \A s : Lists(s) => Becomes(s)
    BY <1>1, ListsStay DEF Becomes
  <1> QED
    BY <1>2 DEF Keeps, Becomes

LEMMA NothingListed ==
  /\ <<>> \in Seq(Nat) /\ Len(<<>>) = 0 /\ IsInjective(<<>>) /\ Range(<<>>) = {}
  /\ Upto(0) = <<>> /\ 1 .. 0 = {}
  BY DEF IsInjective, Range, Upto

LEMMA Turn_ll_init_destroy ==
  ASSUME Playing, Unused, test = 11, at \in 1 .. Len(Script),
         At_ll_init_destroy(at), live = {}
  PROVE  Turn(AtNext)
  <1>1. at \in 1 .. 2 /\ Script[1] = Ok("ll_init", 0) /\ Script[2] = Ok("ll_destroy", 0)
    BY ScriptOf, Script_ll_init_destroy, Zenon DEF Calls
  <1>2. at' = at
    BY DEF Playing
  <1>3. CASE at = 1
    <2>1. Turn(Becomes(<<>>) /\ Left' = live)
      BY <1>1, <1>3, InitTurn DEF At_ll_init_destroy, Now
    <2>2. Becomes(<<>>) => At_ll_init_destroy(at + 1)'
      BY <1>2, <1>3 DEF At_ll_init_destroy, Becomes
    <2> QED
      BY <2>1, <2>2, AtNextOf DEF Turn, Settles
  <1>4. CASE at = 2
    <2>1. Turn(Apart' /\ Left' = {})
      BY <1>1, <1>4, NothingListed, DestroyTurn, Zenon DEF At_ll_init_destroy, Now
    <2>2. Apart' => At_ll_init_destroy(at + 1)'
      BY <1>2, <1>4 DEF At_ll_init_destroy
    <2> QED
      BY <2>1, <2>2, AtNextOf DEF Turn, Settles
  <1> QED
    BY <1>1, <1>3, <1>4

LEMMA Turn_ll_ops_null_ptr ==
  ASSUME Playing, Unused, test = 12, at \in 1 .. Len(Script),
         At_ll_ops_null_ptr(at), live = {}
  PROVE  Turn(AtNext)
  <1>1. at \in 1 .. 14 /\ Script[1] = Ok("ll_init", 0) /\ Script[14] = Ok("ll_destroy", 0)
    BY ScriptOf, Script_ll_ops_null_ptr, Zenon DEF Calls
  <1>7. \A k \in 2 .. 13 : Script[k] \in
             {Refused("ll NULL", 0), Refused("ll_insert", <<0, 1>>),
              Refused("ll_remove to NULL", 1), Refused("ll_search", 0),
              Refused("ll_search with NULL", 1), Refused("ll_size to NULL", 0)}
    BY ScriptOf, Script_ll_ops_null_ptr, Zenon
  <1>2. at' = at
    BY DEF Playing
  <1>3. CASE at = 1
    <2>1. Turn(Becomes(<<>>) /\ Left' = live)
      BY <1>1, <1>3, InitTurn DEF At_ll_ops_null_ptr, Now
    <2>2. Becomes(<<>>) => At_ll_ops_null_ptr(at + 1)'
      BY <1>2, <1>3 DEF At_ll_ops_null_ptr, Becomes
    <2> QED
      BY <2>1, <2>2, AtNextOf DEF Turn, Settles
  <1>4. CASE at \in 2 .. 13
    <2>1. Lists(<<>>)
      BY <1>4 DEF At_ll_ops_null_ptr
    <2>2. Turn(Unmoved /\ Left' = live)
      <3>1. p_head # NULL
        BY <2>1 DEF Lists
      <3>2. Now \in
             {Refused("ll NULL", 0), Refused("ll_insert", <<0, 1>>),
              Refused("ll_remove to NULL", 1), Refused("ll_search", 0),
              Refused("ll_search with NULL", 1), Refused("ll_size to NULL", 0)}
        BY <1>4, <1>7, Zenon DEF Now
      <3>3. PICK call, arg :
              /\ Now = Refused(call, arg)
              /\ \/ call \in NotServedCalls /\ arg \in {0, 1}
                 \/ call = "ll_insert" /\ arg = <<0, 1>>
                 \/ call = "ll_search" /\ arg = 0
        <4>1. CASE Now = Refused("ll NULL", 0)
          BY <4>1, Zenon DEF NotServedCalls
        <4>2. CASE Now = Refused("ll_insert", <<0, 1>>)
          BY <4>2
        <4>3. CASE Now = Refused("ll_remove to NULL", 1)
          BY <4>3, Zenon DEF NotServedCalls
        <4>4. CASE Now = Refused("ll_search", 0)
          BY <4>4
        <4>5. CASE Now = Refused("ll_search with NULL", 1)
          BY <4>5, Zenon DEF NotServedCalls
        <4>6. CASE Now = Refused("ll_size to NULL", 0)
          BY <4>6, Zenon DEF NotServedCalls
        <4> QED
          BY <3>2, <4>1, <4>2, <4>3, <4>4, <4>5, <4>6, Zenon
      <3> QED
        BY <3>1, <3>3, RefuseTurn
    <2>3. Unmoved => At_ll_ops_null_ptr(at + 1)'
      BY <1>2, <1>4, <2>1, StaysThere DEF At_ll_ops_null_ptr, Becomes
    <2> QED
      BY <2>2, <2>3, AtNextOf DEF Turn, Settles
  <1>5. CASE at = 14
    <2>0. Now = Ok("ll_destroy", 0) /\ Lists(<<>>) /\ live \subseteq 1 .. Size_(num_inserts)
      BY <1>1, <1>5 DEF At_ll_ops_null_ptr, Now
    <2>1. Turn(Apart' /\ Left' = {})
      BY <2>0, NothingListed, DestroyTurn, Zenon
    <2>2. Apart' => At_ll_ops_null_ptr(at + 1)'
      BY <1>2, <1>5 DEF At_ll_ops_null_ptr
    <2> QED
      BY <2>1, <2>2, AtNextOf DEF Turn, Settles
  <1>6. at = 1 \/ at \in 2 .. 13 \/ at = 14
    <2>1. at \in 1 .. 14
      BY <1>1
    <2> QED
      BY <2>1
  <1> QED
    BY <1>3, <1>4, <1>5, <1>6
----------------------------------------------------------------------------
(* InsertAll: payload j is malloc'ed, then inserted at the end.            *)

LEMMA UptoIs ==
  ASSUME NEW m \in Nat
  PROVE  /\ Upto(m) \in Seq(Nat) /\ Len(Upto(m)) = m /\ \A i \in 1 .. m : Upto(m)[i] = i
         /\ Upto(m) \in [1 .. m -> 1 .. m] /\ IsInjective(Upto(m)) /\ Range(Upto(m)) = 1 .. m
  <1>1. /\ Upto(m) \in Seq(Nat) /\ Len(Upto(m)) = m /\ \A i \in 1 .. m : Upto(m)[i] = i
        /\ Upto(m) \in [1 .. m -> 1 .. m] /\ DOMAIN Upto(m) = 1 .. m
    BY DEF Upto
  <1> QED
    BY <1>1 DEF IsInjective, Range

LEMMA UptoGrows ==
  ASSUME NEW m \in Nat, NEW q, P!Widened(Nat, q, Upto(m), m, m + 1)
  PROVE  q = Upto(m + 1)
  <1>1. /\ Upto(m) \in Seq(Nat) /\ Len(Upto(m)) = m
        /\ \A i \in 1 .. m : Upto(m)[i] = i
    BY UptoIs
  <1>2. /\ Upto(m + 1) \in Seq(Nat) /\ Len(Upto(m + 1)) = m + 1
        /\ \A i \in 1 .. m + 1 : Upto(m + 1)[i] = i
    BY UptoIs
  <1>3. /\ q \in Seq(Nat) /\ Len(q) = m + 1
        /\ \A i \in 1 .. m : q[i] = Upto(m)[i]
        /\ q[m + 1] = m + 1
    BY <1>1 DEF P!Widened
  <1>4. \A i \in 1 .. m + 1 : q[i] = Upto(m + 1)[i]
    BY <1>1, <1>2, <1>3
  <1> QED
    BY <1>2, <1>3, <1>4, SameSequence

LEMMA InsertingTurns ==
  ASSUME Playing, test \in 13 .. 16, NEW f \in {2, 3}, Inserting(at, f, live),
         NEW j \in 0 .. num_inserts - 1
  PROVE  /\ at = f + 2 * j /\ Now = Ok("malloc", j + 1)
              => Turn(Becomes(Upto(j)) /\ Left' = 1 .. j + 1)
         /\ at = f + 1 + 2 * j /\ Now = Ok("ll_insert", <<j + 1, -1>>)
              => Turn(Becomes(Upto(j + 1)) /\ Left' = 1 .. j + 1)
  <1>1. num_inserts \in Nat /\ j \in Nat /\ j + 1 \in Nat /\ j \in 0 .. num_inserts
    BY RandomNumbers DEF Playing
  <1>2. Payload(j + 1) \in Payloads
    <2>1. j + 1 \in 1 .. Size_(num_inserts)
      BY <1>1, RandomNumbers DEF Playing
    <2> QED
      BY <2>1, RandomNumbers DEF Playing
  <1>3. Upto(j) \in Seq(Nat) /\ Len(Upto(j)) = j
    BY <1>1, UptoIs, Zenon
  <1>4. ASSUME at = f + 2 * j, Now = Ok("malloc", j + 1)
        PROVE  Turn(Becomes(Upto(j)) /\ Left' = 1 .. j + 1)
    <2>1. Lists(Upto(j)) /\ live = 1 .. j
      BY <1>1, <1>4 DEF Inserting
    <2>2. Turn(Unmoved /\ Left' = live \cup {j + 1})
      <3>1. p_head # NULL
        BY <2>1 DEF Lists
      <3> DEFINE n == j + 1
      <3>2. n \in 1 .. Size_(num_inserts) /\ Now = Ok("malloc", n)
        BY <1>1, <1>4, RandomNumbers DEF Playing
      <3> HIDE DEF n
      <3>3. Turn(Unmoved /\ Left' = live \cup {n})
        BY <3>1, <3>2, MallocTurn
      <3> QED
        BY <3>3 DEF n
    <2>3. live \cup {j + 1} = 1 .. j + 1
      BY <1>1, <2>1
    <2>4. Unmoved => Becomes(Upto(j))
      BY <2>1, StaysThere
    <2> QED
      BY <2>2, <2>3, <2>4, Zenon DEF Turn, Settles
  <1>5. ASSUME at = f + 1 + 2 * j, Now = Ok("ll_insert", <<j + 1, -1>>)
        PROVE  Turn(Becomes(Upto(j + 1)) /\ Left' = 1 .. j + 1)
    <2>1. Lists(Upto(j)) /\ live = 1 .. j + 1
      BY <1>1, <1>5 DEF Inserting
    <2> DEFINE q == P!WithAfter(Upto(j), j, j + 1)
    <2>2. -1 \in ListIndexes /\ -1 \in {-1} \cup 0 .. Len(Upto(j))
          /\ j = IF -1 \in 0 .. Len(Upto(j)) - 1 THEN -1 + 1 ELSE Len(Upto(j))
      BY <1>1, <1>3, SizesAreNumbers DEF ListIndexes
    <2>3. P!Widened(Nat, q, Upto(j), j, j + 1) /\ Turn(Becomes(q) /\ Left' = live)
      BY <1>1, <1>2, <1>3, <1>5, <2>1, <2>2, InsertTurn, Zenon
    <2>4. q = Upto(j + 1)
      BY <1>1, <2>3, UptoGrows
    <2> QED
      BY <2>1, <2>3, <2>4
  <1> QED
    BY <1>4, <1>5

(* Where the loop is next. *)
LEMMA InsertingNext ==
  ASSUME num_inserts \in Nat, num_inserts' = num_inserts, NEW f \in {2, 3}, NEW k \in Int,
         NEW M
  PROVE  /\ k \notin f .. f + 2 * num_inserts => Inserting(k, f, M)'
         /\ k = f /\ Becomes(<<>>) /\ M = {} => Inserting(k, f, M)'
         /\ \A j \in 0 .. num_inserts - 1 :
              k = f + 1 + 2 * j /\ Becomes(Upto(j)) /\ M = 1 .. j + 1 => Inserting(k, f, M)'
         /\ \A j \in 0 .. num_inserts - 1 :
              k = f + 2 + 2 * j /\ Becomes(Upto(j + 1)) /\ M = 1 .. j + 1
                => Inserting(k, f, M)'
  <1>1. ASSUME k \notin f .. f + 2 * num_inserts
        PROVE  Inserting(k, f, M)'
    BY <1>1 DEF Inserting
  <1>2. ASSUME k = f, Becomes(<<>>), M = {}
        PROVE  Inserting(k, f, M)'
    <2>1. /\ \A i \in 0 .. num_inserts : k = f + 2 * i => i = 0
          /\ \A i \in 0 .. num_inserts - 1 : k # f + 1 + 2 * i
      BY <1>2
    <2> QED
      BY <1>2, <2>1, NothingListed DEF Inserting, Becomes
  <1>3. ASSUME NEW j \in 0 .. num_inserts - 1,
               k = f + 1 + 2 * j, Becomes(Upto(j)), M = 1 .. j + 1
        PROVE  Inserting(k, f, M)'
    <2>1. /\ \A i \in 0 .. num_inserts : k # f + 2 * i
          /\ \A i \in 0 .. num_inserts - 1 : k = f + 1 + 2 * i => i = j
      BY <1>3
    <2> QED
      BY <1>3, <2>1 DEF Inserting, Becomes
  <1>4. ASSUME NEW j \in 0 .. num_inserts - 1,
               k = f + 2 + 2 * j, Becomes(Upto(j + 1)), M = 1 .. j + 1
        PROVE  Inserting(k, f, M)'
    <2>1. /\ \A i \in 0 .. num_inserts : k = f + 2 * i => i = j + 1
          /\ \A i \in 0 .. num_inserts - 1 : k # f + 1 + 2 * i
      BY <1>4
    <2> QED
      BY <1>4, <2>1 DEF Inserting, Becomes
  <1> QED
    BY <1>1, <1>2, <1>3, <1>4

LEMMA LoopPlace ==
  ASSUME NEW n \in Nat, NEW k \in Nat
  PROVE  /\ k \in 2 .. 2 * n + 1 =>
              \E j \in 0 .. n - 1 : k = 2 + 2 * j \/ k = 2 + 1 + 2 * j
         /\ k \in 3 .. 2 * n + 2 =>
              \E j \in 0 .. n - 1 : k = 3 + 2 * j \/ k = 3 + 1 + 2 * j
  <1> DEFINE i == (k - 2) \div 2
             j == (k - 3) \div 2
  <1>1. k \in 2 .. 2 * n + 1 => i \in 0 .. n - 1 /\ (k = 2 + 2 * i \/ k = 2 + 1 + 2 * i)
    OBVIOUS
  <1>2. k \in 3 .. 2 * n + 2 => j \in 0 .. n - 1 /\ (k = 3 + 2 * j \/ k = 3 + 1 + 2 * j)
    OBVIOUS
  <1> QED
    BY <1>1, <1>2

(* A payload inserted anywhere: the list keeps the first m + 1, in some order. *)
LEMMA KeepsMore ==
  ASSUME NEW m \in Nat, NEW s \in [1 .. m -> 1 .. m], IsInjective(s), Range(s) = 1 .. m,
         NEW p \in 0 .. m, NEW q, P!Widened(Nat, q, s, p, m + 1)
  PROVE  /\ q \in [1 .. m + 1 -> 1 .. m + 1] /\ IsInjective(q) /\ Range(q) = 1 .. m + 1
  <1>1. s \in Seq(Nat) /\ Len(s) = m /\ DOMAIN s = 1 .. m
    OBVIOUS
  <1>2. /\ q \in Seq(Nat) /\ Len(q) = m + 1
        /\ \A i \in 1 .. p : q[i] = s[i]
        /\ q[p + 1] = m + 1
        /\ \A i \in p + 2 .. m + 1 : q[i] = s[i - 1]
    BY <1>1 DEF P!Widened
  <1>3. DOMAIN q = 1 .. m + 1
    BY <1>2
  <1>4. \A i \in 1 .. m + 1 : \/ i \in 1 .. p /\ i \in 1 .. m
                              \/ i = p + 1
                              \/ i \in p + 2 .. m + 1 /\ i - 1 \in 1 .. m
    OBVIOUS
  <1>12. \A i \in 1 .. m : s[i] \in 1 .. m /\ s[i] \in 1 .. m + 1 /\ s[i] # m + 1
    <2> TAKE i \in 1 .. m
    <2>1. s[i] \in 1 .. m
      OBVIOUS
    <2> QED
      BY <2>1
  <1>5. \A i \in 1 .. m + 1 : q[i] \in 1 .. m + 1
    <2> TAKE i \in 1 .. m + 1
    <2>1. m + 1 \in 1 .. m + 1
      OBVIOUS
    <2> QED
      BY <1>2, <1>4, <1>12, <2>1, Zenon
  <1>6. q \in [1 .. m + 1 -> 1 .. m + 1]
    BY <1>2, <1>3, <1>5
  <1>7. \A a, b \in 1 .. m : s[a] = s[b] => a = b
    BY <1>1 DEF IsInjective
  <1>8. ASSUME NEW a \in 1 .. m + 1, NEW b \in 1 .. m + 1, q[a] = q[b]
        PROVE  a = b
    <2>1. CASE a \in 1 .. p /\ a \in 1 .. m
      <3>1. q[a] = s[a]
        BY <1>2, <2>1
      <3>2. CASE b \in p + 2 .. m + 1 /\ b - 1 \in 1 .. m
        <4>1. s[a] = s[b - 1]
          BY <1>2, <1>8, <3>1, <3>2, Zenon
        <4>2. a = b - 1
          BY <1>7, <2>1, <3>2, <4>1
        <4> QED
          BY <2>1, <3>2, <4>2
      <3>3. CASE b \in 1 .. p /\ b \in 1 .. m
        <4>1. s[a] = s[b]
          BY <1>2, <1>8, <3>1, <3>3, Zenon
        <4> QED
          BY <1>7, <2>1, <3>3, <4>1
      <3>4. CASE b = p + 1
        BY <1>2, <1>8, <1>12, <2>1, <3>1, <3>4, Zenon
      <3> QED
        BY <1>4, <3>2, <3>3, <3>4
    <2>2. CASE a = p + 1
      BY <1>2, <1>4, <1>8, <1>12, <2>2
    <2>3. CASE a \in p + 2 .. m + 1 /\ a - 1 \in 1 .. m
      <3>1. q[a] = s[a - 1]
        BY <1>2, <2>3
      <3>2. CASE b \in p + 2 .. m + 1 /\ b - 1 \in 1 .. m
        <4>1. q[b] = s[b - 1]
          BY <1>2, <3>2
        <4>2. a - 1 = b - 1
          BY <1>7, <1>8, <2>3, <3>1, <3>2, <4>1, Zenon
        <4> QED
          BY <4>2
      <3>3. CASE b \in 1 .. p /\ b \in 1 .. m
        <4>1. s[a - 1] = s[b]
          BY <1>2, <1>8, <3>1, <3>3, Zenon
        <4>2. a - 1 = b
          BY <1>7, <2>3, <3>3, <4>1
        <4> QED
          BY <2>3, <3>3, <4>2
      <3>4. CASE b = p + 1
        BY <1>2, <1>8, <1>12, <2>3, <3>1, <3>4, Zenon
      <3> QED
        BY <1>4, <3>2, <3>3, <3>4
    <2> QED
      BY <1>4, <2>1, <2>2, <2>3
  <1>9. IsInjective(q)
    BY <1>3, <1>8 DEF IsInjective
  <1>10. ASSUME NEW v \in 1 .. m + 1
         PROVE  \E i \in 1 .. m + 1 : q[i] = v
    <2>1. CASE v = m + 1
      BY <1>2, <2>1
    <2>2. CASE v \in 1 .. m
      <3>1. PICK a \in 1 .. m : s[a] = v
        BY <1>1, <2>2, Zenon DEF Range
      <3>2. CASE a <= p
        BY <1>2, <3>1, <3>2
      <3>3. CASE a > p
        <4>1. a + 1 \in p + 2 .. m + 1 /\ (a + 1) - 1 = a /\ a + 1 \in 1 .. m + 1
          BY <3>3
        <4> QED
          BY <1>2, <3>1, <4>1, Zenon
      <3> QED
        BY <3>2, <3>3
    <2> QED
      BY <2>1, <2>2
  <1>11. Range(q) = 1 .. m + 1
    BY <1>3, <1>5, <1>10, Zenon DEF Range
  <1> QED
    BY <1>6, <1>9, <1>11

LEMMA KeepsInsert ==
  ASSUME Playing, NEW m \in Nat, Keeps(m), Payload(m + 1) \in Payloads,
         NEW i \in 0 .. m, i \in ListIndexes, Now = Ok("ll_insert", <<m + 1, i>>)
  PROVE  Turn(Keeps(m + 1)' /\ Left' = live)
  <1>1. PICK s \in [1 .. m -> 1 .. m] : Lists(s) /\ IsInjective(s) /\ Range(s) = 1 .. m
    BY Zenon DEF Keeps
  <1>2. s \in Seq(Nat) /\ Len(s) = m
    OBVIOUS
  <1> DEFINE p == IF i \in 0 .. Len(s) - 1 THEN i + 1 ELSE Len(s)
             q == P!WithAfter(s, p, m + 1)
  <1>3. i \in {-1} \cup 0 .. Len(s) /\ m + 1 \in Nat /\ p \in 0 .. m
    BY <1>2
  <1>4. P!Widened(Nat, q, s, p, m + 1) /\ Turn(Becomes(q) /\ Left' = live)
    BY <1>1, <1>2, <1>3, InsertTurn, Zenon
  <1> HIDE DEF p, q
  <1>5. q \in [1 .. m + 1 -> 1 .. m + 1] /\ IsInjective(q) /\ Range(q) = 1 .. m + 1
    BY <1>1, <1>3, <1>4, KeepsMore, Zenon
  <1>6. Becomes(q) => Keeps(m + 1)'
    BY <1>5 DEF Becomes, Keeps
  <1> QED
    BY <1>4, <1>6 DEF Turn, Settles
----------------------------------------------------------------------------
(* test_ll_insert and test_ll_search.                                      *)

LEMMA Numbers ==
  ASSUME Playing
  PROVE  /\ at' = at /\ num_inserts' = num_inserts /\ num_removes' = num_removes
         /\ num_inserts \in Nat /\ num_removes \in Nat /\ num_removes <= num_inserts
         /\ test \in {13, 15, 16} => num_inserts > 0
         /\ test = 14 => num_inserts >= 3
         /\ num_inserts <= HALF_LIST_SIZE - 1
         /\ test' = test
  BY RandomNumbers DEF Playing, randoms

LEMMA APayload ==
  ASSUME Playing, NEW j \in Nat, j > 0, j <= num_inserts \/ (test = 13 /\ j <= num_inserts + 2)
  PROVE  Payload(j) \in Payloads /\ j \in 1 .. Size_(num_inserts) /\ Payload(j).id = j
  <1>1. j \in 1 .. Size_(num_inserts)
    BY RandomNumbers DEF Playing
  <1> QED
    BY <1>1, RandomNumbers DEF Playing

LEMMA TheMiddle ==
  ASSUME num_inserts \in Nat
  PROVE  /\ Middle \in 0 .. num_inserts
         /\ num_inserts > 0 => Middle \in 0 .. num_inserts - 1
         /\ num_inserts >= 3 => Middle > 0 /\ Middle + 1 < num_inserts
  BY DEF Middle

LEMMA Turn_ll_insert ==
  ASSUME Playing, Unused, test = 13, at \in 1 .. Len(Script), At_ll_insert(at, live)
  PROVE  Turn(AtNext)
  <1> DEFINE n == num_inserts
  <1>1. /\ n \in Nat /\ n > 0 /\ n' = n /\ n <= HALF_LIST_SIZE - 1 /\ at \in Nat
        /\ HALF_LIST_SIZE \in Nat
    BY Numbers, SizesAreNumbers
  <1>2. PICK k : k = at + 1
    OBVIOUS
  <1>3. \A M : Left' = M /\ At_ll_insert(k, M)' => AtNext
    BY <1>2, AtNextIs
  <1>4. Script = test_ll_insert
    BY ScriptOf
  <1>5. /\ at \in 1 .. 2 * n + 7
        /\ at = 1 => Now = Ok("ll_init", 0)
        /\ at = 2 * n + 2 => Now = Expect("ll_insert", <<n, n + 1>>, "INDEX_TOO_LARGE", Any)
        /\ at = 2 * n + 3 => Now = Ok("malloc", n + 1)
        /\ at = 2 * n + 4 => Now = Ok("ll_insert", <<n + 1, Middle>>)
        /\ at = 2 * n + 5 => Now = Ok("malloc", n + 2)
        /\ at = 2 * n + 6 => Now = Ok("ll_insert", <<n + 2, 0>>)
        /\ at = 2 * n + 7 => Now = Ok("ll_destroy", 0)
    BY <1>1, <1>4, Script_ll_insert, Zenon DEF Now, Calls
  <1>20. ASSUME NEW j \in 0 .. n - 1
         PROVE  /\ at = 2 + 2 * j => Now = Ok("malloc", j + 1)
                /\ at = 2 + 1 + 2 * j => Now = Ok("ll_insert", <<j + 1, -1>>)
    <2>1. /\ Script[2 * j + 2] = Ok("malloc", j + 1)
          /\ Script[2 * j + 3] = Ok("ll_insert", <<j + 1, -1>>)
      BY <1>1, <1>4, Script_ll_insert, Zenon
    <2>2. 2 + 2 * j = 2 * j + 2 /\ 2 + 1 + 2 * j = 2 * j + 3
      OBVIOUS
    <2> QED
      BY <2>1, <2>2 DEF Now
  <1>6. /\ at = 1 => Apart /\ live = {}
        /\ Inserting(at, 2, live)
        /\ at \in 2 * n + 3 .. 2 * n + 4 => Lists(Upto(n)) /\ live = 1 .. at - n - 3
        /\ at \in 2 * n + 5 .. 2 * n + 6 => Keeps(n + 1) /\ live = 1 .. at - n - 4
        /\ at = 2 * n + 7 => Keeps(n + 2) /\ live = 1 .. n + 2
    BY DEF At_ll_insert
  (* The parts of the next place. *)
  <1>7. ASSUME NEW M, Inserting(k, 2, M)',
               k = 2 * n + 8 => Apart' /\ M = {},
               k \in 2 * n + 3 .. 2 * n + 4 => Becomes(Upto(n)) /\ M = 1 .. k - n - 3,
               k \in 2 * n + 5 .. 2 * n + 6 => Keeps(n + 1)' /\ M = 1 .. k - n - 4,
               k = 2 * n + 7 => Keeps(n + 2)' /\ M = 1 .. n + 2
        PROVE  At_ll_insert(k, M)'
    BY <1>1, <1>2, <1>7 DEF At_ll_insert, Becomes
  <1>8. Upto(n) \in Seq(Nat) /\ Len(Upto(n)) = n
    BY <1>1, UptoIs, Zenon
  <1>9. CASE at = 1
    <2>1. Turn(Becomes(<<>>) /\ Left' = live)
      BY <1>5, <1>6, <1>9, InitTurn
    <2>2. ASSUME Becomes(<<>>) PROVE At_ll_insert(k, {})'
      <3>1. Inserting(k, 2, {})'
        BY <1>1, <1>2, <1>9, <2>2, InsertingNext
      <3> QED
        BY <1>1, <1>2, <1>7, <1>9, <3>1
    <2> QED
      BY <1>3, <1>6, <1>9, <2>1, <2>2, Zenon DEF Turn, Settles
  <1>21. test \in 13 .. 16
    OBVIOUS
  <1>10. ASSUME NEW j \in 0 .. n - 1, at = 2 + 2 * j
         PROVE  Turn(AtNext)
    <2>0. Now = Ok("malloc", j + 1)
      BY <1>10, <1>20, Zenon
    <2> DEFINE f == 2
    <2> HIDE DEF f
    <2>3. f \in {2, 3} /\ Inserting(at, f, live) /\ at = f + 2 * j
      BY <1>6, <1>10 DEF f
    <2>1. Turn(Becomes(Upto(j)) /\ Left' = 1 .. j + 1)
      BY <1>21, <2>0, <2>3, InsertingTurns, Zenon
    <2>2. ASSUME Becomes(Upto(j)) PROVE At_ll_insert(k, 1 .. j + 1)'
      <3>1. Inserting(k, 2, 1 .. j + 1)'
        BY <1>1, <1>2, <1>10, <2>2, InsertingNext
      <3> QED
        BY <1>1, <1>2, <1>7, <1>10, <3>1
    <2> QED
      BY <1>3, <2>1, <2>2 DEF Turn, Settles
  <1>11. ASSUME NEW j \in 0 .. n - 1, at = 2 + 1 + 2 * j
         PROVE  Turn(AtNext)
    <2>0. Now = Ok("ll_insert", <<j + 1, -1>>)
      BY <1>11, <1>20, Zenon
    <2> DEFINE f == 2
    <2> HIDE DEF f
    <2>3. f \in {2, 3} /\ Inserting(at, f, live) /\ at = f + 1 + 2 * j
      BY <1>6, <1>11 DEF f
    <2>1. Turn(Becomes(Upto(j + 1)) /\ Left' = 1 .. j + 1)
      BY <1>21, <2>0, <2>3, InsertingTurns, Zenon
    <2>2. ASSUME Becomes(Upto(j + 1)) PROVE At_ll_insert(k, 1 .. j + 1)'
      <3>1. Inserting(k, 2, 1 .. j + 1)'
        BY <1>1, <1>2, <1>11, <2>2, InsertingNext
      <3> QED
        BY <1>1, <1>2, <1>7, <1>11, <3>1
    <2> QED
      BY <1>3, <2>1, <2>2 DEF Turn, Settles
  <1>12. CASE at = 2 * n + 2
    <2>1. Lists(Upto(n)) /\ live = 1 .. n
      BY <1>1, <1>6, <1>12 DEF Inserting
    <2>2. Len(Items) = n /\ p_head # NULL
      BY <1>8, <2>1, TheList, Zenon
    <2>3. n + 1 \in ListIndexes /\ n + 1 > Len(Items)
      BY <1>1, <2>2, SizesAreNumbers DEF ListIndexes
    <2>4. Payload(n) \in Payloads
      BY <1>1, APayload
    <2>5. Turn(Unmoved /\ Left' = live)
      BY <1>1, <1>5, <1>12, <2>2, <2>3, <2>4, InsertTooFarTurn
    <2>6. PICK M : M = live
      OBVIOUS
    <2>7. ASSUME Unmoved PROVE At_ll_insert(k, M)'
      <3>1. Inserting(k, 2, M)'
        BY <1>1, <1>2, <1>12, InsertingNext
      <3>2. Becomes(Upto(n))
        BY <2>1, <2>7, StaysThere
      <3>3. M = 1 .. k - n - 3
        BY <1>1, <1>2, <1>12, <2>1, <2>6
      <3> QED
        BY <1>1, <1>2, <1>7, <1>12, <3>1, <3>2, <3>3
    <2> QED
      BY <1>3, <2>5, <2>6, <2>7 DEF Turn, Settles
  <1>13. CASE at = 2 * n + 3
    <2>1. Lists(Upto(n)) /\ live = 1 .. n
      BY <1>1, <1>6, <1>13
    <2>2. Turn(Unmoved /\ Left' = live \cup {n + 1})
      <3>1. p_head # NULL
        BY <2>1 DEF Lists
      <3> DEFINE j == n + 1
      <3>2. j \in 1 .. Size_(n) /\ Now = Ok("malloc", j)
        BY <1>1, <1>5, <1>13, RandomNumbers DEF Playing
      <3> HIDE DEF j
      <3>3. Turn(Unmoved /\ Left' = live \cup {j})
        BY <3>1, <3>2, MallocTurn
      <3> QED
        BY <3>3 DEF j
    <2>3. PICK M : M = live \cup {n + 1} /\ M = 1 .. k - n - 3
      BY <1>1, <1>2, <1>13, <2>1
    <2>4. ASSUME Unmoved PROVE At_ll_insert(k, M)'
      <3>1. Inserting(k, 2, M)'
        BY <1>1, <1>2, <1>13, InsertingNext
      <3>2. Becomes(Upto(n))
        BY <2>1, <2>4, StaysThere
      <3>3. M = 1 .. k - n - 3 /\ k = 2 * n + 4
        BY <1>1, <1>2, <1>13, <2>3
      <3> QED
        BY <1>1, <1>7, <3>1, <3>2, <3>3
    <2> QED
      BY <1>3, <2>2, <2>3, <2>4, Zenon DEF Turn, Settles
  <1>14. CASE at = 2 * n + 4
    <2>1. Lists(Upto(n)) /\ live = 1 .. n + 1
      BY <1>1, <1>6, <1>14
    <2>2. Keeps(n)
      BY <1>1, <2>1, UptoIs, Zenon DEF Keeps
    <2>3. Middle \in 0 .. n /\ Middle \in ListIndexes
      BY <1>1, TheMiddle, SizesAreNumbers DEF ListIndexes
    <2>4. Payload(n + 1) \in Payloads
      BY <1>1, APayload
    <2>5. Turn(Keeps(n + 1)' /\ Left' = live)
      BY <1>1, <1>5, <1>14, <2>2, <2>3, <2>4, KeepsInsert
    <2>6. PICK M : M = live /\ M = 1 .. k - n - 4
      BY <1>1, <1>2, <1>14, <2>1
    <2>7. ASSUME Keeps(n + 1)' PROVE At_ll_insert(k, M)'
      <3>1. Inserting(k, 2, M)'
        BY <1>1, <1>2, <1>14, InsertingNext
      <3> QED
        BY <1>1, <1>2, <1>7, <1>14, <2>6, <2>7, <3>1
    <2> QED
      BY <1>3, <2>5, <2>6, <2>7 DEF Turn, Settles
  <1>15. CASE at = 2 * n + 5
    <2>1. Keeps(n + 1) /\ live = 1 .. n + 1
      BY <1>1, <1>6, <1>15
    <2>2. Turn(Unmoved /\ Left' = live \cup {n + 2})
      <3>1. p_head # NULL
        BY <2>1 DEF Keeps, Lists
      <3> DEFINE j == n + 2
      <3>2. j \in 1 .. Size_(n) /\ Now = Ok("malloc", j)
        BY <1>1, <1>5, <1>15, RandomNumbers DEF Playing
      <3> HIDE DEF j
      <3>3. Turn(Unmoved /\ Left' = live \cup {j})
        BY <3>1, <3>2, MallocTurn
      <3> QED
        BY <3>3 DEF j
    <2>3. PICK M : M = live \cup {n + 2} /\ M = 1 .. k - n - 4
      BY <1>1, <1>2, <1>15, <2>1
    <2>4. ASSUME Unmoved PROVE At_ll_insert(k, M)'
      <3>1. Inserting(k, 2, M)'
        BY <1>1, <1>2, <1>15, InsertingNext
      <3>2. Keeps(n + 1)'
        BY <1>1, <2>1, <2>4, StaysThere
      <3>3. M = 1 .. k - n - 4 /\ k = 2 * n + 6
        BY <1>1, <1>2, <1>15, <2>3
      <3> QED
        BY <1>1, <1>7, <3>1, <3>2, <3>3
    <2> QED
      BY <1>3, <2>2, <2>3, <2>4, Zenon DEF Turn, Settles
  <1>16. CASE at = 2 * n + 6
    <2>1. Keeps(n + 1) /\ live = 1 .. n + 2
      BY <1>1, <1>6, <1>16
    <2>2. /\ 0 \in 0 .. n + 1 /\ 0 \in ListIndexes /\ n + 1 \in Nat /\ (n + 1) + 1 = n + 2
          /\ Payload(n + 2) \in Payloads
      <3>1. Payload(n + 2) \in Payloads
        BY <1>1, APayload
      <3> QED
        BY <1>1, <3>1, SizesAreNumbers DEF ListIndexes
    <2>3. Turn(Keeps(n + 2)' /\ Left' = live)
      <3>1. PICK m \in Nat : m = n + 1 /\ m + 1 = n + 2
        BY <1>1
      <3>2. /\ Now = Ok("ll_insert", <<m + 1, 0>>) /\ Keeps(m) /\ 0 \in 0 .. m
            /\ Payload(m + 1) \in Payloads /\ 0 \in ListIndexes
        BY <1>5, <1>16, <2>1, <2>2, <3>1, Zenon
      <3>3. Turn(Keeps(m + 1)' /\ Left' = live)
        BY <3>2, KeepsInsert
      <3>4. Keeps(m + 1)' => Keeps(n + 2)'
        BY <1>1, <3>1
      <3> QED
        BY <3>3, <3>4 DEF Turn, Settles
    <2>4. PICK M : M = live /\ M = 1 .. n + 2
      BY <2>1
    <2>5. ASSUME Keeps(n + 2)' PROVE At_ll_insert(k, M)'
      <3>1. Inserting(k, 2, M)'
        BY <1>1, <1>2, <1>16, InsertingNext
      <3> QED
        BY <1>1, <1>2, <1>7, <1>16, <2>4, <2>5, <3>1
    <2> QED
      BY <1>3, <2>3, <2>4, <2>5 DEF Turn, Settles
  <1>17. CASE at = 2 * n + 7
    <2>1. Keeps(n + 2) /\ live = 1 .. n + 2
      BY <1>6, <1>17
    <2>2. PICK s \in [1 .. n + 2 -> 1 .. n + 2] :
            Lists(s) /\ IsInjective(s) /\ Range(s) = 1 .. n + 2
      BY <2>1 DEF Keeps
    <2>3. s \in Seq(Nat)
      BY <1>1
    <2>4. live \subseteq 1 .. Size_(num_inserts)
      BY <1>1, <2>1, RandomNumbers DEF Playing
    <2>5. Turn(Apart' /\ Left' = {})
      BY <1>5, <1>17, <2>1, <2>2, <2>3, <2>4, DestroyTurn, Zenon
    <2>6. ASSUME Apart' PROVE At_ll_insert(k, {})'
      <3>1. Inserting(k, 2, {})'
        BY <1>1, <1>2, <1>17, InsertingNext
      <3> QED
        BY <1>1, <1>2, <1>7, <1>17, <2>6, <3>1
    <2> QED
      BY <1>3, <2>5, <2>6, Zenon DEF Turn, Settles
  <1>18. \/ at = 1 \/ at \in 2 .. 2 * n + 1 \/ at = 2 * n + 2 \/ at = 2 * n + 3
         \/ at = 2 * n + 4 \/ at = 2 * n + 5 \/ at = 2 * n + 6 \/ at = 2 * n + 7
    <2>1. at \in 1 .. 2 * n + 7
      BY <1>5
    <2> QED
      BY <1>1, <2>1
  <1>19. CASE at \in 2 .. 2 * n + 1
    <2>1. PICK j \in 0 .. n - 1 : at = 2 + 2 * j \/ at = 2 + 1 + 2 * j
      BY <1>1, <1>19, LoopPlace, Zenon
    <2> QED
      BY <1>10, <1>11, <2>1
  <1> QED
    BY <1>9, <1>12, <1>13, <1>14, <1>15, <1>16, <1>17, <1>18, <1>19

LEMMA Turn_ll_search ==
  ASSUME Playing, Unused, test = 15, at \in 1 .. Len(Script), At_ll_search(at, live)
  PROVE  Turn(AtNext)
  <1> DEFINE n == num_inserts
  <1>1. /\ n \in Nat /\ n > 0 /\ n' = n /\ n <= HALF_LIST_SIZE - 1 /\ at \in Nat
        /\ HALF_LIST_SIZE \in Nat
    BY Numbers, SizesAreNumbers
  <1>2. PICK k : k = at + 1
    OBVIOUS
  <1>3. \A M : Left' = M /\ At_ll_search(k, M)' => AtNext
    BY <1>2, AtNextIs
  <1>4. /\ at \in 1 .. 2 * n + 5
        /\ at = 1 => Now = Ok("ll_init", 0)
        /\ at = 2 => Now = Expect("ll_remove", 0, "INDEX_TOO_LARGE", Any)
        /\ at = 2 * n + 3 => Now = Expect("ll_search", Middle + 1, "NO_ERROR", <<Middle>>)
        /\ at = 2 * n + 4 => Now = Expect("ll_search", 1, "NO_ERROR", <<0>>)
        /\ at = 2 * n + 5 => Now = Ok("ll_destroy", 0)
    BY <1>1, ScriptOf, Script_ll_search, Zenon DEF Now, Calls
  <1>5. ASSUME NEW j \in 0 .. n - 1
        PROVE  /\ at = 3 + 2 * j => Now = Ok("malloc", j + 1)
               /\ at = 3 + 1 + 2 * j => Now = Ok("ll_insert", <<j + 1, -1>>)
    <2>1. /\ Script[2 * j + 3] = Ok("malloc", j + 1)
          /\ Script[2 * j + 4] = Ok("ll_insert", <<j + 1, -1>>)
      BY <1>1, ScriptOf, Script_ll_search, Zenon
    <2>2. 3 + 2 * j = 2 * j + 3 /\ 3 + 1 + 2 * j = 2 * j + 4
      OBVIOUS
    <2> QED
      BY <2>1, <2>2 DEF Now
  <1>6. /\ at = 1 => Apart /\ live = {}
        /\ at = 2 => Lists(<<>>) /\ live = {}
        /\ Inserting(at, 3, live)
        /\ at \in 2 * n + 3 .. 2 * n + 5 => Lists(Upto(n)) /\ live = 1 .. n
    BY DEF At_ll_search
  <1>7. ASSUME NEW M, Inserting(k, 3, M)',
               k = 2 * n + 6 => Apart' /\ M = {},
               k = 2 => Becomes(<<>>) /\ M = {},
               k \in 2 * n + 3 .. 2 * n + 5 => Becomes(Upto(n)) /\ M = 1 .. n
        PROVE  At_ll_search(k, M)'
    BY <1>1, <1>2, <1>7 DEF At_ll_search, Becomes
  <1>8. Upto(n) \in Seq(Nat) /\ Len(Upto(n)) = n
    BY <1>1, UptoIs, Zenon
  <1>9. test \in 13 .. 16
    OBVIOUS
  <1>10. ASSUME NEW j \in 0 .. n - 1, at = 3 + 2 * j
         PROVE  Turn(AtNext)
    <2> DEFINE f == 3
    <2> HIDE DEF f
    <2>1. Now = Ok("malloc", j + 1)
      BY <1>10, <1>5, Zenon
    <2>2. f \in {2, 3} /\ Inserting(at, f, live) /\ at = f + 2 * j
      BY <1>6, <1>10 DEF f
    <2>3. Turn(Becomes(Upto(j)) /\ Left' = 1 .. j + 1)
      BY <1>9, <2>1, <2>2, InsertingTurns, Zenon
    <2>4. ASSUME Becomes(Upto(j)) PROVE At_ll_search(k, 1 .. j + 1)'
      <3>1. Inserting(k, 3, 1 .. j + 1)'
        BY <1>1, <1>2, <1>10, <2>4, InsertingNext
      <3> QED
        BY <1>1, <1>2, <1>7, <1>10, <2>4, <3>1
    <2> QED
      BY <1>3, <2>3, <2>4 DEF Turn, Settles
  <1>11. ASSUME NEW j \in 0 .. n - 1, at = 3 + 1 + 2 * j
         PROVE  Turn(AtNext)
    <2> DEFINE f == 3
    <2> HIDE DEF f
    <2>1. Now = Ok("ll_insert", <<j + 1, -1>>)
      BY <1>11, <1>5, Zenon
    <2>2. f \in {2, 3} /\ Inserting(at, f, live) /\ at = f + 1 + 2 * j
      BY <1>6, <1>11 DEF f
    <2>3. Turn(Becomes(Upto(j + 1)) /\ Left' = 1 .. j + 1)
      BY <1>9, <2>1, <2>2, InsertingTurns, Zenon
    <2>4. ASSUME Becomes(Upto(j + 1)) PROVE At_ll_search(k, 1 .. j + 1)'
      <3>1. Inserting(k, 3, 1 .. j + 1)'
        BY <1>1, <1>2, <1>11, <2>4, InsertingNext
      <3> QED
        BY <1>1, <1>2, <1>7, <1>11, <2>4, <3>1
    <2> QED
      BY <1>3, <2>3, <2>4 DEF Turn, Settles
  <1>12. CASE at = 1
    <2>1. Turn(Becomes(<<>>) /\ Left' = live)
      BY <1>4, <1>6, <1>12, InitTurn
    <2>2. ASSUME Becomes(<<>>) PROVE At_ll_search(k, {})'
      <3>1. Inserting(k, 3, {})'
        BY <1>1, <1>2, <1>12, InsertingNext
      <3> QED
        BY <1>1, <1>2, <1>7, <1>12, <2>2, <3>1
    <2> QED
      BY <1>3, <1>6, <1>12, <2>1, <2>2, Zenon DEF Turn, Settles
  <1>13. CASE at = 2
    <2>1. Lists(<<>>) /\ live = {}
      BY <1>6, <1>13
    <2>2. Len(Items) = 0 /\ p_head # NULL
      BY <2>1, NothingListed, TheList, Zenon
    <2>3. 0 \in ListIndexes
      BY SizesAreNumbers DEF ListIndexes
    <2>4. Turn(Unmoved /\ Left' = live)
      BY <1>4, <1>13, <2>2, <2>3, RemoveTooFarTurn
    <2>5. ASSUME Unmoved PROVE At_ll_search(k, {})'
      <3>1. Becomes(<<>>)
        BY <2>1, <2>5, StaysThere
      <3>2. Inserting(k, 3, {})'
        BY <1>1, <1>2, <1>13, <3>1, InsertingNext
      <3> QED
        BY <1>1, <1>2, <1>7, <1>13, <3>1, <3>2
    <2> QED
      BY <1>3, <2>1, <2>4, <2>5, Zenon DEF Turn, Settles
  <1>14. CASE at \in 2 * n + 3 .. 2 * n + 4
    <2>1. Lists(Upto(n)) /\ live = 1 .. n
      BY <1>1, <1>6, <1>14
    <2>2. Middle \in 0 .. n - 1 /\ 0 \in 0 .. n - 1 /\ 0 + 1 = 1
      BY <1>1, TheMiddle
    <2>3. Turn(Unmoved /\ Left' = live)
      <3>1. CASE at = 2 * n + 3
        BY <1>4, <2>1, <2>2, <3>1, SearchTurn
      <3>2. CASE at = 2 * n + 4
        BY <1>4, <2>1, <2>2, <3>2, SearchTurn
      <3> QED
        BY <1>1, <1>14, <3>1, <3>2
    <2>4. ASSUME Unmoved PROVE At_ll_search(k, 1 .. n)'
      <3>1. Becomes(Upto(n))
        BY <2>1, <2>4, StaysThere
      <3>2. PICK M : M = 1 .. n
        OBVIOUS
      <3>3. Inserting(k, 3, M)'
        <4>1. CASE at = 2 * n + 3
          BY <1>1, <1>2, <4>1, InsertingNext
        <4>2. CASE at = 2 * n + 4
          BY <1>1, <1>2, <4>2, InsertingNext
        <4> QED
          BY <1>1, <1>14, <4>1, <4>2
      <3>4. At_ll_search(k, M)'
        BY <1>1, <1>2, <1>7, <1>14, <3>1, <3>2, <3>3
      <3> QED
        BY <1>1, <3>2, <3>4
    <2> QED
      BY <1>1, <1>3, <2>1, <2>3, <2>4 DEF Turn, Settles
  <1>15. CASE at = 2 * n + 5
    <2>1. Lists(Upto(n)) /\ live = 1 .. n
      BY <1>1, <1>6, <1>15
    <2>2. live \subseteq 1 .. Size_(num_inserts) /\ IsInjective(Upto(n)) /\ Range(Upto(n)) = live
      BY <1>1, <2>1, UptoIs, RandomNumbers DEF Playing
    <2>3. Turn(Apart' /\ Left' = {})
      BY <1>4, <1>8, <1>15, <2>1, <2>2, DestroyTurn
    <2>4. ASSUME Apart' PROVE At_ll_search(k, {})'
      <3>1. Inserting(k, 3, {})'
        BY <1>1, <1>2, <1>15, InsertingNext
      <3> QED
        BY <1>1, <1>2, <1>7, <1>15, <2>4, <3>1
    <2> QED
      BY <1>3, <2>3, <2>4, Zenon DEF Turn, Settles
  <1>16. \/ at = 1 \/ at = 2 \/ at \in 3 .. 2 * n + 2
         \/ at \in 2 * n + 3 .. 2 * n + 4 \/ at = 2 * n + 5
    <2>1. at \in 1 .. 2 * n + 5
      BY <1>4
    <2> QED
      BY <1>1, <2>1
  <1>17. CASE at \in 3 .. 2 * n + 2
    <2>1. PICK j \in 0 .. n - 1 : at = 3 + 2 * j \/ at = 3 + 1 + 2 * j
      BY <1>1, <1>17, LoopPlace, Zenon
    <2> QED
      BY <1>10, <1>11, <2>1
  <1> QED
    BY <1>12, <1>13, <1>14, <1>15, <1>16, <1>17
----------------------------------------------------------------------------
(* What is left when an item is removed.                                   *)

LEMMA UptoShrinks ==
  ASSUME NEW m \in Nat, m > 0, NEW q, Narrowed(q, Upto(m), m)
  PROVE  q = Upto(m - 1)
  <1>1. m - 1 \in Nat /\ Upto(m) \in Seq(Nat) /\ Len(Upto(m)) = m
    BY UptoIs
  <1>2. q \in Seq(Nat) /\ Len(q) = m - 1 /\ \A i \in 1 .. m - 1 : q[i] = Upto(m)[i]
    BY <1>1 DEF Narrowed
  <1> DEFINE l == m - 1
  <1>3. Upto(l) \in Seq(Nat) /\ Len(Upto(l)) = l /\ \A i \in 1 .. l : Upto(l)[i] = i
    <2> HIDE DEF l
    <2> QED
      BY <1>1, UptoIs, Zenon DEF l
  <1>4. \A i \in 1 .. m - 1 : q[i] = Upto(l)[i]
    <2> TAKE i \in 1 .. m - 1
    <2>1. i \in 1 .. m /\ i \in 1 .. l
      OBVIOUS
    <2>2. Upto(m)[i] = i
      BY <2>1, UptoIs
    <2> QED
      BY <1>2, <1>3, <2>1, <2>2, Zenon
  <1> QED
    BY <1>1, <1>2, <1>3, <1>4, SameSequence

LEMMA SkippingIs ==
  ASSUME num_inserts \in Nat, NEW c \in Nat, NEW m \in Nat
  PROVE  /\ Skipping(c, m) \in Seq(Nat) /\ Len(Skipping(c, m)) = m
         /\ \A i \in 1 .. m : /\ c + i <= Middle => Skipping(c, m)[i] = c + i
                              /\ c + i > Middle => Skipping(c, m)[i] = c + i + 1
  <1>1. Middle \in Nat
    BY DEF Middle
  <1>2. \A i \in 1 .. m : (IF c + i <= Middle THEN c + i ELSE c + i + 1) \in Nat
    BY <1>1
  <1>3. /\ Skipping(c, m) \in Seq(Nat) /\ Len(Skipping(c, m)) = m
        /\ \A i \in 1 .. m : Skipping(c, m)[i] = IF c + i <= Middle THEN c + i ELSE c + i + 1
    BY <1>2 DEF Skipping
  <1> QED
    BY <1>1, <1>3

LEMMA SkipMiddle ==
  ASSUME num_inserts \in Nat, num_inserts >= 3, NEW q,
         Narrowed(q, Upto(num_inserts), Middle + 1)
  PROVE  q = Skipping(0, num_inserts - 1)
  <1> DEFINE n == num_inserts
             l == n - 1
             r == Skipping(0, l)
  <1>1. Middle \in Nat /\ Middle > 0 /\ Middle + 1 < n /\ l \in Nat
    BY TheMiddle
  <1>2. Upto(n) \in Seq(Nat) /\ Len(Upto(n)) = n /\ \A i \in 1 .. n : Upto(n)[i] = i
    BY UptoIs
  <1>3. /\ q \in Seq(Nat) /\ Len(q) = l
        /\ \A i \in 1 .. Middle : q[i] = Upto(n)[i]
        /\ \A i \in Middle + 1 .. l : q[i] = Upto(n)[i + 1]
    BY <1>1, <1>2 DEF Narrowed
  <1>4. /\ r \in Seq(Nat) /\ Len(r) = l
        /\ \A i \in 1 .. l : /\ 0 + i <= Middle => r[i] = 0 + i
                             /\ 0 + i > Middle => r[i] = 0 + i + 1
    <2> HIDE DEF l
    <2> QED
      BY <1>1, SkippingIs, Zenon
  <1>5. \A i \in 1 .. l : q[i] = r[i]
    <2> TAKE i \in 1 .. l
    <2> HIDE DEF r
    <2>1. CASE i <= Middle
      <3>1. i \in 1 .. Middle /\ i \in 1 .. n /\ 0 + i = i
        BY <1>1, <2>1
      <3> QED
        BY <1>2, <1>3, <1>4, <2>1, <3>1
    <2>2. CASE i > Middle
      <3>1. i \in Middle + 1 .. l /\ i + 1 \in 1 .. n /\ 0 + i = i
        BY <1>1, <2>2
      <3> QED
        BY <1>2, <1>3, <1>4, <2>2, <3>1
    <2> QED
      BY <1>1, <2>1, <2>2
  <1> QED
    BY <1>3, <1>4, <1>5, SameSequence

LEMMA SkipFirst ==
  ASSUME num_inserts \in Nat, num_inserts >= 3, NEW q,
         Narrowed(q, Skipping(0, num_inserts - 1), 1)
  PROVE  q = Skipping(1, num_inserts - 2)
  <1> DEFINE n == num_inserts
             l == n - 1
             m == n - 2
             s == Skipping(0, l)
             r == Skipping(1, m)
  <1>1. Middle \in Nat /\ l \in Nat /\ m \in Nat /\ m = l - 1
    BY TheMiddle
  <1>2. /\ s \in Seq(Nat) /\ Len(s) = l
        /\ \A i \in 1 .. l : /\ 0 + i <= Middle => s[i] = 0 + i
                             /\ 0 + i > Middle => s[i] = 0 + i + 1
    <2> HIDE DEF l
    <2> QED
      BY <1>1, SkippingIs, Zenon
  <1>3. q \in Seq(Nat) /\ Len(q) = m /\ \A i \in 1 .. m : q[i] = s[i + 1]
    <2> HIDE DEF s
    <2>1. Narrowed(q, s, 1)
      BY DEF s
    <2> QED
      BY <1>1, <1>2, <2>1 DEF Narrowed
  <1>4. /\ r \in Seq(Nat) /\ Len(r) = m
        /\ \A i \in 1 .. m : /\ 1 + i <= Middle => r[i] = 1 + i
                             /\ 1 + i > Middle => r[i] = 1 + i + 1
    <2> HIDE DEF m
    <2> QED
      BY <1>1, SkippingIs, Zenon
  <1>5. \A i \in 1 .. m : q[i] = r[i]
    <2> TAKE i \in 1 .. m
    <2> HIDE DEF r, s
    <2>1. i + 1 \in 1 .. l /\ 0 + (i + 1) = 1 + i
      BY <1>1
    <2>2. /\ 1 + i <= Middle => s[i + 1] = 1 + i
          /\ 1 + i > Middle => s[i + 1] = 1 + i + 1
      BY <1>2, <2>1
    <2> QED
      BY <1>1, <1>3, <1>4, <2>2
  <1> QED
    BY <1>3, <1>4, <1>5, SameSequence

LEMMA SkipLast ==
  ASSUME num_inserts \in Nat, num_inserts >= 3, NEW q,
         Narrowed(q, Skipping(1, num_inserts - 2), num_inserts - 2)
  PROVE  q = Skipping(1, num_inserts - 3)
  <1> DEFINE n == num_inserts
             l == n - 2
             m == n - 3
             s == Skipping(1, l)
             r == Skipping(1, m)
  <1>1. Middle \in Nat /\ l \in Nat /\ m \in Nat /\ m = l - 1
    BY TheMiddle
  <1>2. /\ s \in Seq(Nat) /\ Len(s) = l
        /\ \A i \in 1 .. l : /\ 1 + i <= Middle => s[i] = 1 + i
                             /\ 1 + i > Middle => s[i] = 1 + i + 1
    <2> HIDE DEF l
    <2> QED
      BY <1>1, SkippingIs
  <1>3. q \in Seq(Nat) /\ Len(q) = m /\ \A i \in 1 .. m : q[i] = s[i]
    <2> HIDE DEF s
    <2>1. Narrowed(q, s, l)
      BY DEF s
    <2> QED
      BY <1>1, <1>2, <2>1 DEF Narrowed
  <1>4. /\ r \in Seq(Nat) /\ Len(r) = m
        /\ \A i \in 1 .. m : /\ 1 + i <= Middle => r[i] = 1 + i
                             /\ 1 + i > Middle => r[i] = 1 + i + 1
    <2> HIDE DEF m
    <2> QED
      BY <1>1, SkippingIs, Zenon
  <1>5. \A i \in 1 .. m : q[i] = r[i]
    <2> TAKE i \in 1 .. m
    <2> HIDE DEF r, s
    <2>1. i \in 1 .. l
      BY <1>1
    <2>2. /\ 1 + i <= Middle => s[i] = 1 + i
          /\ 1 + i > Middle => s[i] = 1 + i + 1
      BY <1>2, <2>1
    <2> QED
      BY <1>1, <1>3, <1>4, <2>2
  <1> QED
    BY <1>3, <1>4, <1>5, SameSequence

(* The items test_ll_remove leaves for ll_destroy. *)
LEMMA SkippingLeft ==
  ASSUME num_inserts \in Nat, num_inserts >= 3
  PROVE  LET s == Skipping(1, num_inserts - 3)
         IN  /\ s \in Seq(Nat) /\ Len(s) = num_inserts - 3 /\ IsInjective(s)
             /\ Range(s) = (2 .. num_inserts - 1) \ {Middle + 1}
  <1> DEFINE m == num_inserts - 3
             s == Skipping(1, m)
  <1>1. Middle \in Nat /\ m \in Nat /\ Middle > 0 /\ Middle + 1 < num_inserts
    BY TheMiddle
  <1>2. /\ s \in Seq(Nat) /\ Len(s) = m
        /\ \A i \in 1 .. m : /\ 1 + i <= Middle => s[i] = 1 + i
                             /\ 1 + i > Middle => s[i] = 1 + i + 1
    <2> HIDE DEF m
    <2> QED
      BY <1>1, SkippingIs
  <1> HIDE DEF s
  <1>3. DOMAIN s = 1 .. m
    BY <1>2
  <1>4. \A a, b \in 1 .. m : s[a] = s[b] => a = b
    <2> SUFFICES ASSUME NEW a \in 1 .. m, NEW b \in 1 .. m, s[a] = s[b]
                 PROVE  a = b
      OBVIOUS
    <2>1. /\ 1 + a <= Middle => s[a] = 1 + a
          /\ 1 + a > Middle => s[a] = 1 + a + 1
          /\ 1 + b <= Middle => s[b] = 1 + b
          /\ 1 + b > Middle => s[b] = 1 + b + 1
      BY <1>2
    <2> QED
      BY <1>1, <2>1
  <1>5. \A i \in 1 .. m : s[i] \in (2 .. num_inserts - 1) \ {Middle + 1}
    <2> SUFFICES ASSUME NEW i \in 1 .. m
                 PROVE  s[i] \in (2 .. num_inserts - 1) \ {Middle + 1}
      OBVIOUS
    <2>1. /\ 1 + i <= Middle => s[i] = 1 + i
          /\ 1 + i > Middle => s[i] = 1 + i + 1
      BY <1>2
    <2> QED
      BY <1>1, <2>1
  <1>6. ASSUME NEW v \in (2 .. num_inserts - 1) \ {Middle + 1}
        PROVE  \E i \in 1 .. m : s[i] = v
    <2>1. CASE v <= Middle
      <3>1. v - 1 \in 1 .. m /\ 1 + (v - 1) = v /\ v <= Middle
        BY <1>1, <2>1
      <3> QED
        BY <1>2, <3>1, Zenon
    <2>2. CASE v > Middle + 1
      <3>1. v - 2 \in 1 .. m /\ 1 + (v - 2) > Middle /\ 1 + (v - 2) + 1 = v
        BY <1>1, <2>2
      <3> QED
        BY <1>2, <3>1, Zenon
    <2> QED
      BY <1>1, <2>1, <2>2
  <1>7. IsInjective(s)
    BY <1>3, <1>4 DEF IsInjective
  <1>8. Range(s) = {s[i] : i \in 1 .. m}
    BY <1>3 DEF Range
  <1>9. Range(s) = (2 .. num_inserts - 1) \ {Middle + 1}
    <2>1. Range(s) \subseteq (2 .. num_inserts - 1) \ {Middle + 1}
      BY <1>5, <1>8
    <2>2. (2 .. num_inserts - 1) \ {Middle + 1} \subseteq Range(s)
      BY <1>6, <1>8
    <2> QED
      BY <2>1, <2>2
  <1> QED
    BY <1>2, <1>7, <1>9 DEF s
----------------------------------------------------------------------------
(* test_ll_remove.                                                         *)

LEMMA SameRandoms ==
  ASSUME UNCHANGED randoms
  PROVE  /\ \A j : Payload(j)' = Payload(j)
         /\ \A c, m : Skipping(c, m)' = Skipping(c, m)
         /\ Middle' = Middle
  BY DEF randoms, Payload, Skipping, Middle

(* A removal: the list without the item, asserted or not to be the payload. *)
LEMMA RemovingTurn ==
  ASSUME Playing, NEW s \in Seq(Nat), Lists(s), NEW i \in {-1, 0, Middle}, num_inserts > 0,
         i \in {-1} \cup 0 .. Len(s) - 1, Len(s) > 0, NEW j,
         \/ Now = Expect("ll_remove", i, "NO_ERROR", <<Payload(j)>>)
         \/ Now = Ok("ll_remove", i),
         NEW p, p = IF i = -1 THEN Len(s) ELSE i + 1, s[p] = j,
         NEW r, \A q : Narrowed(q, s, p) => q = r
  PROVE  Turn((Becomes(r) /\ ll_out' = <<Payload(j)>>) /\ Left' = live)
  <1>1. i \in ListIndexes
    BY Numbers, TheMiddle, SizesAreNumbers DEF ListIndexes
  <1>2. /\ Narrowed(P!Without(s, p), s, p)
        /\ Turn((Becomes(P!Without(s, p)) /\ ll_out' = <<Payload(j)>>) /\ Left' = live)
    BY <1>1, RemoveTurn
  <1>3. P!Without(s, p) = r
    BY <1>2
  <1>4. Becomes(P!Without(s, p)) => Becomes(r)
    BY <1>3
  <1> QED
    BY <1>2, <1>4 DEF Turn, Settles

LEMMA Turn_ll_remove ==
  ASSUME Playing, Unused, test = 14, at \in 1 .. Len(Script), At_ll_remove(at, live)
  PROVE  Turn(AtNext)
  <1> DEFINE n == num_inserts
  <1>1. /\ n \in Nat /\ n > 0 /\ n >= 3 /\ n' = n /\ n <= HALF_LIST_SIZE - 1 /\ at \in Nat
        /\ HALF_LIST_SIZE \in Nat
    BY Numbers, SizesAreNumbers
  <1>2. PICK k : k = at + 1
    OBVIOUS
  <1>3. \A M : Left' = M /\ At_ll_remove(k, M)' => AtNext
    BY <1>2, AtNextIs
  <1>4. /\ at \in 1 .. 2 * n + 10
        /\ at = 1 => Now = Ok("ll_init", 0)
        /\ at = 2 => Now = Expect("ll_remove", 0, "INDEX_TOO_LARGE", Any)
        /\ at = 2 * n + 3 =>
             Now = Expect("ll_remove", Middle, "NO_ERROR", <<Payload(Middle + 1)>>)
        /\ at = 2 * n + 4 => Now = Ok("free", Middle + 1)
        /\ at = 2 * n + 5 => Now = Expect("ll_remove", 0, "NO_ERROR", <<Payload(1)>>)
        /\ at = 2 * n + 6 => Now = Ok("free", 1)
        /\ at = 2 * n + 7 => Now = Expect("ll_remove", -1, "NO_ERROR", <<Payload(n)>>)
        /\ at = 2 * n + 8 => Now = Ok("free", n)
        /\ at = 2 * n + 9 => Now = Expect("ll_remove", n, "INDEX_TOO_LARGE", Any)
        /\ at = 2 * n + 10 => Now = Ok("ll_destroy", 0)
    BY <1>1, ScriptOf, Script_ll_remove, Zenon DEF Now, Calls
  <1>5. ASSUME NEW j \in 0 .. n - 1
        PROVE  /\ at = 3 + 2 * j => Now = Ok("malloc", j + 1)
               /\ at = 3 + 1 + 2 * j => Now = Ok("ll_insert", <<j + 1, -1>>)
    <2>1. /\ Script[2 * j + 3] = Ok("malloc", j + 1)
          /\ Script[2 * j + 4] = Ok("ll_insert", <<j + 1, -1>>)
      BY <1>1, ScriptOf, Script_ll_remove, Zenon
    <2>2. 3 + 2 * j = 2 * j + 3 /\ 3 + 1 + 2 * j = 2 * j + 4
      OBVIOUS
    <2> QED
      BY <2>1, <2>2 DEF Now
  <1>20. PICK a, b, c, x : /\ a = Skipping(0, n - 1) /\ b = Skipping(1, n - 2)
                           /\ c = Skipping(1, n - 3) /\ x = Middle + 1
    OBVIOUS
  <1>6. /\ at = 1 => Apart /\ live = {}
        /\ at = 2 => Lists(<<>>) /\ live = {}
        /\ Inserting(at, 3, live)
        /\ at \in 2 * n + 4 .. 2 * n + 5 => Lists(a)
        /\ at \in 2 * n + 6 .. 2 * n + 7 => Lists(b)
        /\ at \in 2 * n + 8 .. 2 * n + 10 => Lists(c)
        /\ at = 2 * n + 4 => live = 1 .. n /\ ll_out = <<Payload(x)>>
        /\ at = 2 * n + 5 => live = (1 .. n) \ {x}
        /\ at = 2 * n + 6 => live = (1 .. n) \ {x} /\ ll_out = <<Payload(1)>>
        /\ at = 2 * n + 7 => live = (2 .. n) \ {x}
        /\ at = 2 * n + 8 => live = (2 .. n) \ {x} /\ ll_out = <<Payload(n)>>
        /\ at \in 2 * n + 9 .. 2 * n + 10 => live = (2 .. n - 1) \ {x}
    BY <1>20 DEF At_ll_remove
  <1>21. /\ \A j : Payload(j)' = Payload(j)
         /\ Skipping(0, n - 1)' = a /\ Skipping(1, n - 2)' = b /\ Skipping(1, n - 3)' = c
         /\ (Middle + 1)' = x
    BY <1>1, <1>20, SameRandoms DEF Playing
  <1>7. ASSUME NEW M, Inserting(k, 3, M)',
               k = 2 * n + 11 => Apart' /\ M = {},
               k = 2 => Becomes(<<>>) /\ M = {},
               k \in 2 * n + 4 .. 2 * n + 5 => Becomes(a),
               k \in 2 * n + 6 .. 2 * n + 7 => Becomes(b),
               k \in 2 * n + 8 .. 2 * n + 10 => Becomes(c),
               k = 2 * n + 4 => M = 1 .. n /\ ll_out' = <<Payload(x)>>,
               k = 2 * n + 5 => M = (1 .. n) \ {x},
               k = 2 * n + 6 => M = (1 .. n) \ {x} /\ ll_out' = <<Payload(1)>>,
               k = 2 * n + 7 => M = (2 .. n) \ {x},
               k = 2 * n + 8 => M = (2 .. n) \ {x} /\ ll_out' = <<Payload(n)>>,
               k \in 2 * n + 9 .. 2 * n + 10 => M = (2 .. n - 1) \ {x}
        PROVE  At_ll_remove(k, M)'
    BY <1>1, <1>2, <1>7, <1>21 DEF At_ll_remove, Becomes
  <1>8. Upto(n) \in Seq(Nat) /\ Len(Upto(n)) = n /\ \A i \in 1 .. n : Upto(n)[i] = i
    BY <1>1, UptoIs, Zenon
  <1>9. test \in 13 .. 16
    OBVIOUS
  <1>22. /\ x \in Nat /\ x > 1 /\ x < n /\ x = Middle + 1 /\ Middle \in 1 .. n - 1
    BY <1>1, <1>20, TheMiddle
  <1>10. ASSUME NEW j \in 0 .. n - 1, at = 3 + 2 * j
         PROVE  Turn(AtNext)
    <2> DEFINE f == 3
    <2> HIDE DEF f
    <2>1. Now = Ok("malloc", j + 1)
      BY <1>10, <1>5, Zenon
    <2>2. f \in {2, 3} /\ Inserting(at, f, live) /\ at = f + 2 * j
      BY <1>6, <1>10 DEF f
    <2>3. Turn(Becomes(Upto(j)) /\ Left' = 1 .. j + 1)
      BY <1>9, <2>1, <2>2, InsertingTurns, Zenon
    <2>4. ASSUME Becomes(Upto(j)) PROVE At_ll_remove(k, 1 .. j + 1)'
      <3>1. Inserting(k, 3, 1 .. j + 1)'
        BY <1>1, <1>2, <1>10, <2>4, InsertingNext
      <3> QED
        BY <1>1, <1>2, <1>7, <1>10, <2>4, <3>1
    <2> QED
      BY <1>3, <2>3, <2>4 DEF Turn, Settles
  <1>11. ASSUME NEW j \in 0 .. n - 1, at = 3 + 1 + 2 * j
         PROVE  Turn(AtNext)
    <2> DEFINE f == 3
    <2> HIDE DEF f
    <2>1. Now = Ok("ll_insert", <<j + 1, -1>>)
      BY <1>11, <1>5, Zenon
    <2>2. f \in {2, 3} /\ Inserting(at, f, live) /\ at = f + 1 + 2 * j
      BY <1>6, <1>11 DEF f
    <2>3. Turn(Becomes(Upto(j + 1)) /\ Left' = 1 .. j + 1)
      BY <1>9, <2>1, <2>2, InsertingTurns, Zenon
    <2>4. ASSUME Becomes(Upto(j + 1)) PROVE At_ll_remove(k, 1 .. j + 1)'
      <3>1. Inserting(k, 3, 1 .. j + 1)'
        BY <1>1, <1>2, <1>11, <2>4, InsertingNext
      <3> QED
        BY <1>1, <1>2, <1>7, <1>11, <2>4, <3>1
    <2> QED
      BY <1>3, <2>3, <2>4 DEF Turn, Settles
  <1>12. CASE at = 1
    <2>1. Turn(Becomes(<<>>) /\ Left' = live)
      BY <1>4, <1>6, <1>12, InitTurn
    <2>2. ASSUME Becomes(<<>>) PROVE At_ll_remove(k, {})'
      <3>1. Inserting(k, 3, {})'
        BY <1>1, <1>2, <1>12, InsertingNext
      <3> QED
        BY <1>1, <1>2, <1>7, <1>12, <2>2, <3>1
    <2> QED
      BY <1>3, <1>6, <1>12, <2>1, <2>2, Zenon DEF Turn, Settles
  <1>13. CASE at = 2
    <2>1. Lists(<<>>) /\ live = {}
      BY <1>6, <1>13
    <2>2. Len(Items) = 0 /\ p_head # NULL
      BY <2>1, NothingListed, TheList, Zenon
    <2>3. 0 \in ListIndexes
      BY SizesAreNumbers DEF ListIndexes
    <2>4. Turn(Unmoved /\ Left' = live)
      BY <1>4, <1>13, <2>2, <2>3, RemoveTooFarTurn
    <2>5. ASSUME Unmoved PROVE At_ll_remove(k, {})'
      <3>1. Becomes(<<>>)
        BY <2>1, <2>5, StaysThere
      <3>2. Inserting(k, 3, {})'
        BY <1>1, <1>2, <1>13, <3>1, InsertingNext
      <3> QED
        BY <1>1, <1>2, <1>7, <1>13, <3>1, <3>2
    <2> QED
      BY <1>3, <2>1, <2>4, <2>5, Zenon DEF Turn, Settles
  <1>14. CASE at = 2 * n + 3
    <2>1. Lists(Upto(n)) /\ live = 1 .. n
      BY <1>1, <1>6, <1>14 DEF Inserting
    <2>2. Turn((Becomes(a) /\ ll_out' = <<Payload(x)>>) /\ Left' = live)
      <3>1. \A q : Narrowed(q, Upto(n), x) => q = a
        BY <1>1, <1>20, SkipMiddle
      <3>2. Now = Expect("ll_remove", Middle, "NO_ERROR", <<Payload(x)>>)
        BY <1>4, <1>14, <1>20
      <3>3. /\ Middle \in {-1} \cup 0 .. Len(Upto(n)) - 1 /\ Len(Upto(n)) > 0
            /\ Middle \in {-1, 0, Middle}
            /\ x = IF Middle = -1 THEN Len(Upto(n)) ELSE Middle + 1
            /\ Upto(n)[x] = x
        BY <1>1, <1>8, <1>22
      <3> QED
        BY <1>1, <1>8, <2>1, <3>1, <3>2, <3>3, RemovingTurn, Zenon
    <2>3. PICK M : M = live /\ M = 1 .. n
      BY <2>1
    <2>4. ASSUME Becomes(a), ll_out' = <<Payload(x)>> PROVE At_ll_remove(k, M)'
      <3>1. Inserting(k, 3, M)'
        BY <1>1, <1>2, <1>14, InsertingNext
      <3> QED
        BY <1>1, <1>2, <1>7, <1>14, <2>3, <2>4, <3>1
    <2> QED
      BY <1>3, <2>2, <2>3, <2>4 DEF Turn, Settles
  <1>15. CASE at = 2 * n + 4
    <2>1. Lists(a) /\ live = 1 .. n /\ ll_out = <<Payload(x)>>
      BY <1>1, <1>6, <1>15
    <2>2. Turn(Unmoved /\ Left' = live \ {x})
      <3>1. x \in live /\ x \in 1 .. Size_(num_inserts)
        BY <1>1, <1>22, <2>1, APayload
      <3> QED
        BY <1>4, <1>15, <1>20, <2>1, <3>1, FreeTurn DEF Lists
    <2>3. PICK M : M = live \ {x} /\ M = (1 .. n) \ {x}
      BY <2>1, Zenon
    <2>4. ASSUME Unmoved PROVE At_ll_remove(k, M)'
      <3>1. Inserting(k, 3, M)'
        BY <1>1, <1>2, <1>15, InsertingNext
      <3>2. Becomes(a)
        BY <2>1, <2>4, StaysThere
      <3> QED
        BY <1>1, <1>2, <1>7, <1>15, <2>3, <3>1, <3>2
    <2> QED
      BY <1>3, <2>2, <2>3, <2>4, Zenon DEF Turn, Settles
  <1>16. CASE at = 2 * n + 5
    <2>1. Lists(a) /\ live = (1 .. n) \ {x}
      BY <1>1, <1>6, <1>16
    <2>2. Turn((Becomes(b) /\ ll_out' = <<Payload(1)>>) /\ Left' = live)
      <3>1. \A q : Narrowed(q, a, 1) => q = b
        BY <1>1, <1>20, SkipFirst
      <3>2. Now = Expect("ll_remove", 0, "NO_ERROR", <<Payload(1)>>)
        BY <1>4, <1>16
      <3>3. a \in Seq(Nat) /\ Len(a) = n - 1 /\ a[1] = 1
        <4> DEFINE l == n - 1
        <4>1. l \in Nat /\ 1 \in 1 .. l /\ 0 \in Nat /\ 0 + 1 <= Middle /\ 0 + 1 = 1
          BY <1>1, <1>22
        <4>2. a = Skipping(0, l)
          BY <1>20
        <4> HIDE DEF l
        <4>3. a \in Seq(Nat) /\ Len(a) = l /\ a[1] = 1
          BY <1>1, <4>1, <4>2, SkippingIs, Zenon
        <4> QED
          BY <4>3 DEF l
      <3>4. /\ 0 \in {-1} \cup 0 .. Len(a) - 1 /\ Len(a) > 0
            /\ 0 \in {-1, 0, Middle}
            /\ 1 = IF 0 = -1 THEN Len(a) ELSE 0 + 1
        BY <1>1, <3>3
      <3> QED
        BY <1>1, <2>1, <3>1, <3>2, <3>3, <3>4, RemovingTurn, Zenon
    <2>3. PICK M : M = live /\ M = (1 .. n) \ {x}
      BY <2>1
    <2>4. ASSUME Becomes(b), ll_out' = <<Payload(1)>> PROVE At_ll_remove(k, M)'
      <3>1. Inserting(k, 3, M)'
        BY <1>1, <1>2, <1>16, InsertingNext
      <3> QED
        BY <1>1, <1>2, <1>7, <1>16, <2>3, <2>4, <3>1
    <2> QED
      BY <1>3, <2>2, <2>3, <2>4, Zenon DEF Turn, Settles
  <1>17. CASE at = 2 * n + 6
    <2>1. Lists(b) /\ live = (1 .. n) \ {x} /\ ll_out = <<Payload(1)>>
      BY <1>1, <1>6, <1>17
    <2>2. Turn(Unmoved /\ Left' = live \ {1})
      <3>1. 1 \in live /\ 1 \in 1 .. Size_(num_inserts)
        BY <1>1, <1>22, <2>1, APayload
      <3> QED
        BY <1>4, <1>17, <2>1, <3>1, FreeTurn DEF Lists
    <2>3. PICK M : M = live \ {1} /\ M = (2 .. n) \ {x}
      <3>1. (1 .. n) \ {1} = 2 .. n
        BY <1>1
      <3>2. live \ {1} = (2 .. n) \ {x}
        BY <2>1, <3>1
      <3> QED
        BY <3>2, Zenon
    <2>4. ASSUME Unmoved PROVE At_ll_remove(k, M)'
      <3>1. Inserting(k, 3, M)'
        BY <1>1, <1>2, <1>17, InsertingNext
      <3>2. Becomes(b)
        BY <2>1, <2>4, StaysThere
      <3> QED
        BY <1>1, <1>2, <1>7, <1>17, <2>3, <3>1, <3>2
    <2> QED
      BY <1>3, <2>2, <2>3, <2>4, Zenon DEF Turn, Settles
  <1>18. CASE at = 2 * n + 7
    <2>1. Lists(b) /\ live = (2 .. n) \ {x}
      BY <1>1, <1>6, <1>18
    <2>2. Turn((Becomes(c) /\ ll_out' = <<Payload(n)>>) /\ Left' = live)
      <3>1. \A q : Narrowed(q, b, n - 2) => q = c
        BY <1>1, <1>20, SkipLast
      <3>2. Now = Expect("ll_remove", -1, "NO_ERROR", <<Payload(n)>>)
        BY <1>4, <1>18
      <3>3. b \in Seq(Nat) /\ Len(b) = n - 2 /\ b[n - 2] = n
        <4> DEFINE l == n - 2
        <4>1. l \in Nat /\ l \in 1 .. l /\ 1 \in Nat /\ 1 + l > Middle /\ 1 + l + 1 = n
          BY <1>1, <1>22
        <4>2. b = Skipping(1, l)
          BY <1>20
        <4> HIDE DEF l
        <4>3. b \in Seq(Nat) /\ Len(b) = l /\ b[l] = 1 + l + 1
          BY <1>1, <4>1, <4>2, SkippingIs, Zenon
        <4>4. b \in Seq(Nat) /\ Len(b) = l /\ b[l] = n
          BY <4>1, <4>3
        <4> QED
          BY <4>4 DEF l
      <3>4. /\ -1 \in {-1} \cup 0 .. Len(b) - 1 /\ Len(b) > 0
            /\ -1 \in {-1, 0, Middle}
            /\ n - 2 = IF -1 = -1 THEN Len(b) ELSE -1 + 1
        BY <1>1, <3>3
      <3> QED
        BY <1>1, <2>1, <3>1, <3>2, <3>3, <3>4, RemovingTurn, Zenon
    <2>3. PICK M : M = live /\ M = (2 .. n) \ {x}
      BY <2>1
    <2>4. ASSUME Becomes(c), ll_out' = <<Payload(n)>> PROVE At_ll_remove(k, M)'
      <3>1. Inserting(k, 3, M)'
        BY <1>1, <1>2, <1>18, InsertingNext
      <3> QED
        BY <1>1, <1>2, <1>7, <1>18, <2>3, <2>4, <3>1
    <2> QED
      BY <1>3, <2>2, <2>3, <2>4, Zenon DEF Turn, Settles
  <1>19. CASE at = 2 * n + 8
    <2>1. Lists(c) /\ live = (2 .. n) \ {x} /\ ll_out = <<Payload(n)>>
      BY <1>1, <1>6, <1>19
    <2>2. Turn(Unmoved /\ Left' = live \ {n})
      <3>1. n \in live /\ n \in 1 .. Size_(num_inserts)
        BY <1>1, <1>22, <2>1, APayload
      <3> QED
        BY <1>4, <1>19, <2>1, <3>1, FreeTurn DEF Lists
    <2>3. PICK M : M = live \ {n} /\ M = (2 .. n - 1) \ {x}
      <3>1. (2 .. n) \ {n} = 2 .. n - 1
        BY <1>1
      <3>2. live \ {n} = (2 .. n - 1) \ {x}
        BY <2>1, <3>1
      <3> QED
        BY <3>2, Zenon
    <2>4. ASSUME Unmoved PROVE At_ll_remove(k, M)'
      <3>1. Inserting(k, 3, M)'
        BY <1>1, <1>2, <1>19, InsertingNext
      <3>2. Becomes(c)
        BY <2>1, <2>4, StaysThere
      <3> QED
        BY <1>1, <1>2, <1>7, <1>19, <2>3, <3>1, <3>2
    <2> QED
      BY <1>3, <2>2, <2>3, <2>4, Zenon DEF Turn, Settles
  <1>23. /\ c \in Seq(Nat) /\ Len(c) = n - 3 /\ IsInjective(c)
         /\ Range(c) = (2 .. n - 1) \ {x}
    BY <1>1, <1>20, SkippingLeft
  <1>24. CASE at = 2 * n + 9
    <2>1. Lists(c) /\ live = (2 .. n - 1) \ {x}
      BY <1>1, <1>6, <1>24
    <2>2. Len(Items) = n - 3 /\ p_head # NULL
      BY <1>23, <2>1, TheList, Zenon
    <2>3. n \in ListIndexes /\ Len(Items) \in Nat /\ n >= Len(Items)
      BY <1>1, <2>2, SizesAreNumbers DEF ListIndexes
    <2>4. Turn(Unmoved /\ Left' = live)
      BY <1>4, <1>24, <2>2, <2>3, RemoveTooFarTurn
    <2>5. PICK M : M = live /\ M = (2 .. n - 1) \ {x}
      BY <2>1, Zenon
    <2>6. ASSUME Unmoved PROVE At_ll_remove(k, M)'
      <3>1. Becomes(c)
        BY <2>1, <2>6, StaysThere
      <3>2. Inserting(k, 3, M)'
        BY <1>1, <1>2, <1>24, InsertingNext
      <3> QED
        BY <1>1, <1>2, <1>7, <1>24, <2>5, <3>1, <3>2
    <2> QED
      BY <1>3, <2>4, <2>5, <2>6, Zenon DEF Turn, Settles
  <1>25. CASE at = 2 * n + 10
    <2>1. Lists(c) /\ live = (2 .. n - 1) \ {x}
      BY <1>1, <1>6, <1>25
    <2>2. live \subseteq 1 .. Size_(num_inserts)
      BY <1>1, <2>1, RandomNumbers DEF Playing
    <2>3. Turn(Apart' /\ Left' = {})
      BY <1>4, <1>23, <1>25, <2>1, <2>2, DestroyTurn, Zenon
    <2>4. ASSUME Apart' PROVE At_ll_remove(k, {})'
      <3>1. Inserting(k, 3, {})'
        BY <1>1, <1>2, <1>25, InsertingNext
      <3> QED
        BY <1>1, <1>2, <1>7, <1>25, <2>4, <3>1
    <2> QED
      BY <1>3, <2>3, <2>4, Zenon DEF Turn, Settles
  <1>26. \/ at = 1 \/ at = 2 \/ at \in 3 .. 2 * n + 2
         \/ at = 2 * n + 3 \/ at = 2 * n + 4 \/ at = 2 * n + 5 \/ at = 2 * n + 6
         \/ at = 2 * n + 7 \/ at = 2 * n + 8 \/ at = 2 * n + 9 \/ at = 2 * n + 10
    <2>1. at \in 1 .. 2 * n + 10
      BY <1>4
    <2> QED
      BY <1>1, <2>1
  <1>27. CASE at \in 3 .. 2 * n + 2
    <2>1. PICK j \in 0 .. n - 1 : at = 3 + 2 * j \/ at = 3 + 1 + 2 * j
      BY <1>1, <1>27, LoopPlace, Zenon
    <2> QED
      BY <1>10, <1>11, <2>1
  <1> QED
    BY <1>12, <1>13, <1>14, <1>15, <1>16, <1>17, <1>18, <1>19, <1>24, <1>25, <1>26, <1>27
----------------------------------------------------------------------------
(* test_ll_size.                                                           *)

LEMMA RemovePlace ==
  ASSUME NEW n \in Nat, NEW r \in Nat, NEW k \in Nat, k \in 2 * n + 4 .. 2 * n + 2 * r + 3
  PROVE  \E j \in 0 .. r - 1 : k = 2 * n + 4 + 2 * j \/ k = 2 * n + 5 + 2 * j
  <1> DEFINE i == k - 2 * n - 4
             j == i \div 2
  <1>1. i \in Nat /\ i <= 2 * r - 1 /\ k = 2 * n + 4 + i
    OBVIOUS
  <1>2. j \in 0 .. r - 1 /\ (i = 2 * j \/ i = 2 * j + 1)
    <2> HIDE DEF i
    <2> QED
      BY <1>1
  <1> HIDE DEF j
  <1>3. k = 2 * n + 4 + 2 * j \/ k = 2 * n + 5 + 2 * j
    BY <1>1, <1>2
  <1> QED
    BY <1>2, <1>3

LEMMA Turn_ll_size ==
  ASSUME Playing, Unused, test = 16, at \in 1 .. Len(Script), At_ll_size(at, live)
  PROVE  Turn(AtNext)
  <1> DEFINE n == num_inserts
             r == num_removes
  <1>1. /\ n \in Nat /\ n > 0 /\ n' = n /\ n <= HALF_LIST_SIZE - 1 /\ at \in Nat
        /\ HALF_LIST_SIZE \in Nat /\ r \in Nat /\ r <= n /\ r' = r
    BY Numbers, SizesAreNumbers
  <1>2. PICK k : k = at + 1
    OBVIOUS
  <1>3. \A M : Left' = M /\ At_ll_size(k, M)' => AtNext
    BY <1>2, AtNextIs
  <1>4. /\ at \in 1 .. 2 * n + 2 * r + 5
        /\ at = 1 => Now = Ok("ll_init", 0)
        /\ at = 2 => Now = Expect("ll_size", 0, "NO_ERROR", <<0>>)
        /\ at = 2 * n + 3 => Now = Expect("ll_size", 0, "NO_ERROR", <<n>>)
        /\ at = 2 * n + 2 * r + 4 => Now = Expect("ll_size", 0, "NO_ERROR", <<n - r>>)
        /\ at = 2 * n + 2 * r + 5 => Now = Ok("ll_destroy", 0)
    BY <1>1, ScriptOf, Script_ll_size, Zenon DEF Now, Calls
  <1>5. ASSUME NEW j \in 0 .. n - 1
        PROVE  /\ at = 3 + 2 * j => Now = Ok("malloc", j + 1)
               /\ at = 3 + 1 + 2 * j => Now = Ok("ll_insert", <<j + 1, -1>>)
    <2>1. /\ Script[2 * j + 3] = Ok("malloc", j + 1)
          /\ Script[2 * j + 4] = Ok("ll_insert", <<j + 1, -1>>)
      BY <1>1, ScriptOf, Script_ll_size, Zenon
    <2>2. 3 + 2 * j = 2 * j + 3 /\ 3 + 1 + 2 * j = 2 * j + 4
      OBVIOUS
    <2> QED
      BY <2>1, <2>2, Zenon DEF Now
  <1>20. ASSUME NEW j \in 0 .. r - 1
         PROVE  /\ at = 2 * n + 4 + 2 * j =>
                     Now = Ok("ll_remove", -1)
                /\ at = 2 * n + 5 + 2 * j => Now = Ok("free", n - j)
    <2>1. /\ Script[2 * n + 2 * j + 4] = Ok("ll_remove", -1)
          /\ Script[2 * n + 2 * j + 5] = Ok("free", n - j)
      BY <1>1, ScriptOf, Script_ll_size, Zenon
    <2>2. /\ 2 * n + 4 + 2 * j = 2 * n + 2 * j + 4
          /\ 2 * n + 5 + 2 * j = 2 * n + 2 * j + 5
      BY <1>1
    <2> QED
      BY <2>1, <2>2 DEF Now
  <1>6. /\ at = 1 => Apart /\ live = {}
        /\ at = 2 => Lists(<<>>) /\ live = {}
        /\ Inserting(at, 3, live)
        /\ \A j \in 0 .. r : at = 2 * n + 4 + 2 * j => Lists(Upto(n - j)) /\ live = 1 .. n - j
        /\ \A j \in 0 .. r - 1 : at = 2 * n + 5 + 2 * j =>
             /\ Lists(Upto(n - j - 1)) /\ live = 1 .. n - j
             /\ ll_out = <<Payload(n - j)>>
        /\ at = 2 * n + 2 * r + 5 => Lists(Upto(n - r)) /\ live = 1 .. n - r
    BY DEF At_ll_size
  <1>21. \A j : Payload(j)' = Payload(j)
    BY SameRandoms DEF Playing
  <1>7. ASSUME NEW M, Inserting(k, 3, M)',
               k = 2 * n + 2 * r + 6 => Apart' /\ M = {},
               k = 2 => Becomes(<<>>) /\ M = {},
               \A j \in 0 .. r : k = 2 * n + 4 + 2 * j => Becomes(Upto(n - j)) /\ M = 1 .. n - j,
               \A j \in 0 .. r - 1 : k = 2 * n + 5 + 2 * j =>
                 Becomes(Upto(n - j - 1)) /\ M = 1 .. n - j /\ ll_out' = <<Payload(n - j)>>,
               k = 2 * n + 2 * r + 5 => Becomes(Upto(n - r)) /\ M = 1 .. n - r
        PROVE  At_ll_size(k, M)'
    BY <1>1, <1>2, <1>7, <1>21 DEF At_ll_size, Becomes
  <1>8. Upto(n) \in Seq(Nat) /\ Len(Upto(n)) = n
    BY <1>1, UptoIs, Zenon
  <1>9. test \in 13 .. 16
    OBVIOUS
  <1>10. ASSUME NEW j \in 0 .. n - 1, at = 3 + 2 * j
         PROVE  Turn(AtNext)
    <2> DEFINE f == 3
    <2> HIDE DEF f
    <2>1. Now = Ok("malloc", j + 1)
      BY <1>10, <1>5, Zenon
    <2>2. f \in {2, 3} /\ Inserting(at, f, live) /\ at = f + 2 * j
      BY <1>6, <1>10 DEF f
    <2>3. Turn(Becomes(Upto(j)) /\ Left' = 1 .. j + 1)
      BY <1>9, <2>1, <2>2, InsertingTurns, Zenon
    <2>4. ASSUME Becomes(Upto(j)) PROVE At_ll_size(k, 1 .. j + 1)'
      <3>1. Inserting(k, 3, 1 .. j + 1)'
        BY <1>1, <1>2, <1>10, <2>4, InsertingNext
      <3> QED
        BY <1>1, <1>2, <1>7, <1>10, <2>4, <3>1
    <2> QED
      BY <1>3, <2>3, <2>4 DEF Turn, Settles
  <1>11. ASSUME NEW j \in 0 .. n - 1, at = 3 + 1 + 2 * j
         PROVE  Turn(AtNext)
    <2> DEFINE f == 3
    <2> HIDE DEF f
    <2>1. Now = Ok("ll_insert", <<j + 1, -1>>)
      BY <1>11, <1>5, Zenon
    <2>2. f \in {2, 3} /\ Inserting(at, f, live) /\ at = f + 1 + 2 * j
      BY <1>6, <1>11 DEF f
    <2>3. Turn(Becomes(Upto(j + 1)) /\ Left' = 1 .. j + 1)
      BY <1>9, <2>1, <2>2, InsertingTurns, Zenon
    <2>4. ASSUME Becomes(Upto(j + 1)) PROVE At_ll_size(k, 1 .. j + 1)'
      <3>1. Inserting(k, 3, 1 .. j + 1)'
        BY <1>1, <1>2, <1>11, <2>4, InsertingNext
      <3> QED
        BY <1>1, <1>2, <1>7, <1>11, <2>4, <3>1
    <2> QED
      BY <1>3, <2>3, <2>4 DEF Turn, Settles
  <1>12. CASE at = 1
    <2>1. Turn(Becomes(<<>>) /\ Left' = live)
      BY <1>4, <1>6, <1>12, InitTurn
    <2>2. ASSUME Becomes(<<>>) PROVE At_ll_size(k, {})'
      <3>1. Inserting(k, 3, {})'
        BY <1>1, <1>2, <1>12, InsertingNext
      <3> QED
        BY <1>1, <1>2, <1>7, <1>12, <2>2, <3>1
    <2> QED
      BY <1>3, <1>6, <1>12, <2>1, <2>2, Zenon DEF Turn, Settles
  <1>13. CASE at = 2
    <2>1. Lists(<<>>) /\ live = {}
      BY <1>6, <1>13
    <2>2. Turn(Unmoved /\ Left' = live)
      BY <1>4, <1>13, <2>1, NothingListed, SizeTurn, Zenon
    <2>3. ASSUME Unmoved PROVE At_ll_size(k, {})'
      <3>1. Becomes(<<>>)
        BY <2>1, <2>3, StaysThere
      <3>2. Inserting(k, 3, {})'
        BY <1>1, <1>2, <1>13, <3>1, InsertingNext
      <3> QED
        BY <1>1, <1>2, <1>7, <1>13, <3>1, <3>2
    <2> QED
      BY <1>3, <2>1, <2>2, <2>3 DEF Turn, Settles
  <1>14. CASE at = 2 * n + 3
    <2>1. Lists(Upto(n)) /\ live = 1 .. n
      BY <1>1, <1>6, <1>14 DEF Inserting
    <2>2. Turn(Unmoved /\ Left' = live)
      BY <1>4, <1>8, <1>14, <2>1, SizeTurn
    <2>3. PICK M : M = live /\ M = 1 .. n
      BY <2>1
    <2>4. ASSUME Unmoved PROVE At_ll_size(k, M)'
      <3>1. Inserting(k, 3, M)'
        BY <1>1, <1>2, <1>14, InsertingNext
      <3>2. Becomes(Upto(n))
        BY <2>1, <2>4, StaysThere
      <3>3. ASSUME NEW j \in 0 .. r, k = 2 * n + 4 + 2 * j
            PROVE  Becomes(Upto(n - j)) /\ M = 1 .. n - j
        <4>1. n - j = n
          BY <1>1, <1>2, <1>14, <3>3
        <4> QED
          BY <2>3, <3>2, <4>1
      <3>4. k = 2 * n + 4 /\ \A j \in 0 .. r - 1 : k # 2 * n + 5 + 2 * j
        BY <1>1, <1>2, <1>14
      <3>5. k # 2 * n + 2 * r + 5 /\ k # 2 * n + 2 * r + 6 /\ k # 2
        BY <1>1, <3>4
      <3> QED
        BY <1>7, <3>1, <3>3, <3>4, <3>5
    <2> QED
      BY <1>3, <2>2, <2>3, <2>4 DEF Turn, Settles
  <1>15. ASSUME NEW j \in 0 .. r - 1, at = 2 * n + 4 + 2 * j
         PROVE  Turn(AtNext)
    <2>1. PICK m \in Nat : m = n - j /\ m > 0 /\ m <= n
      BY <1>1
    <2>2. Lists(Upto(m)) /\ live = 1 .. m
      <3>1. j \in 0 .. r
        BY <1>1
      <3> QED
        BY <1>6, <1>15, <2>1, <3>1
    <2>3. Turn((Becomes(Upto(m - 1)) /\ ll_out' = <<Payload(m)>>) /\ Left' = live)
      <3>1. \A q : Narrowed(q, Upto(m), m) => q = Upto(m - 1)
        BY <2>1, UptoShrinks
      <3>2. Now = Ok("ll_remove", -1)
        BY <1>15, <1>20, <2>1
      <3>3. Upto(m) \in Seq(Nat) /\ Len(Upto(m)) = m /\ Upto(m)[m] = m
        <4>1. m \in 1 .. m
          BY <2>1
        <4> QED
          BY <4>1, UptoIs, Zenon
      <3>4. /\ -1 \in {-1} \cup 0 .. Len(Upto(m)) - 1 /\ Len(Upto(m)) > 0
            /\ -1 \in {-1, 0, Middle}
            /\ m = IF -1 = -1 THEN Len(Upto(m)) ELSE -1 + 1
        BY <2>1, <3>3
      <3> QED
        BY <1>1, <2>2, <3>1, <3>2, <3>3, <3>4, RemovingTurn, Zenon
    <2>4. PICK M : M = live /\ M = 1 .. m
      BY <2>2
    <2>5. ASSUME Becomes(Upto(m - 1)), ll_out' = <<Payload(m)>> PROVE At_ll_size(k, M)'
      <3>1. Inserting(k, 3, M)'
        BY <1>1, <1>2, <1>15, InsertingNext
      <3>2. k = 2 * n + 5 + 2 * j
        BY <1>1, <1>2, <1>15
      <3>3. ASSUME NEW i \in 0 .. r - 1, k = 2 * n + 5 + 2 * i
            PROVE  Becomes(Upto(n - i - 1)) /\ M = 1 .. n - i /\ ll_out' = <<Payload(n - i)>>
        <4>1. n - i = m /\ n - i - 1 = m - 1
          BY <1>1, <2>1, <3>2, <3>3
        <4> QED
          BY <2>4, <2>5, <4>1
      <3>4. \A i \in 0 .. r : k # 2 * n + 4 + 2 * i
        BY <1>1, <3>2
      <3>5. k # 2 * n + 2 * r + 5 /\ k # 2 * n + 2 * r + 6 /\ k # 2
        BY <1>1, <3>2
      <3> QED
        BY <1>7, <3>1, <3>3, <3>4, <3>5
    <2> QED
      BY <1>3, <2>3, <2>4, <2>5 DEF Turn, Settles
  <1>16. ASSUME NEW j \in 0 .. r - 1, at = 2 * n + 5 + 2 * j
         PROVE  Turn(AtNext)
    <2>1. PICK m \in Nat : m = n - j /\ m > 0 /\ m <= n
      BY <1>1
    <2>2. Lists(Upto(m - 1)) /\ live = 1 .. m /\ ll_out = <<Payload(m)>>
      BY <1>6, <1>16, <2>1
    <2>3. Turn(Unmoved /\ Left' = live \ {m})
      <3>1. Now = Ok("free", m)
        BY <1>16, <1>20, <2>1, Zenon
      <3>2. m \in 1 .. Size_(num_inserts)
        BY <1>1, <2>1, RandomNumbers DEF Playing
      <3>3. m \in live
        BY <2>1, <2>2
      <3> QED
        BY <2>2, <3>1, <3>2, <3>3, FreeTurn DEF Lists
    <2>4. PICK M : M = live \ {m} /\ M = 1 .. m - 1
      <3>1. (1 .. m) \ {m} = 1 .. m - 1
        BY <2>1
      <3> QED
        BY <2>2, <3>1
    <2>5. ASSUME Unmoved PROVE At_ll_size(k, M)'
      <3>1. Inserting(k, 3, M)'
        BY <1>1, <1>2, <1>16, InsertingNext
      <3>2. Becomes(Upto(m - 1))
        BY <2>2, <2>5, StaysThere
      <3>3. k = 2 * n + 6 + 2 * j
        BY <1>1, <1>2, <1>16
      <3>4. ASSUME NEW i \in 0 .. r, k = 2 * n + 4 + 2 * i
            PROVE  Becomes(Upto(n - i)) /\ M = 1 .. n - i
        <4>1. n - i = m - 1
          BY <1>1, <2>1, <3>3, <3>4
        <4> QED
          BY <2>4, <3>2, <4>1
      <3>5. \A i \in 0 .. r - 1 : k # 2 * n + 5 + 2 * i
        BY <1>1, <3>3
      <3>6. k # 2 * n + 2 * r + 5 /\ k # 2 * n + 2 * r + 6 /\ k # 2
        BY <1>1, <3>3
      <3> QED
        BY <1>7, <3>1, <3>4, <3>5, <3>6
    <2> QED
      BY <1>3, <2>3, <2>4, <2>5, Zenon DEF Turn, Settles
  <1>22. PICK m \in Nat : m = n - r /\ m <= n
    BY <1>1
  <1>23. /\ Upto(m) \in Seq(Nat) /\ Len(Upto(m)) = m /\ IsInjective(Upto(m))
         /\ Range(Upto(m)) = 1 .. m
    BY UptoIs, Zenon
  <1>17. CASE at = 2 * n + 2 * r + 4
    <2>1. Lists(Upto(m)) /\ live = 1 .. m
      <3>1. r \in 0 .. r /\ at = 2 * n + 4 + 2 * r
        BY <1>1, <1>17
      <3> QED
        BY <1>6, <1>22, <3>1
    <2>2. Turn(Unmoved /\ Left' = live)
      BY <1>4, <1>17, <1>22, <1>23, <2>1, SizeTurn
    <2>3. PICK M : M = live /\ M = 1 .. m
      BY <2>1
    <2>4. ASSUME Unmoved PROVE At_ll_size(k, M)'
      <3>1. Inserting(k, 3, M)'
        BY <1>1, <1>2, <1>17, InsertingNext
      <3>2. Becomes(Upto(n - r)) /\ M = 1 .. n - r
        BY <1>22, <2>1, <2>3, <2>4, StaysThere
      <3>3. k = 2 * n + 2 * r + 5
        BY <1>1, <1>2, <1>17
      <3>4. /\ \A i \in 0 .. r : k # 2 * n + 4 + 2 * i
            /\ \A i \in 0 .. r - 1 : k # 2 * n + 5 + 2 * i
            /\ k # 2 * n + 2 * r + 6 /\ k # 2
        BY <1>1, <3>3
      <3> QED
        BY <1>7, <3>1, <3>2, <3>4
    <2> QED
      BY <1>3, <2>2, <2>3, <2>4 DEF Turn, Settles
  <1>18. CASE at = 2 * n + 2 * r + 5
    <2>1. Lists(Upto(m)) /\ live = 1 .. m
      BY <1>6, <1>18, <1>22
    <2>2. live \subseteq 1 .. Size_(num_inserts)
      BY <1>1, <1>22, <2>1, RandomNumbers DEF Playing
    <2>3. Turn(Apart' /\ Left' = {})
      BY <1>4, <1>18, <1>23, <2>1, <2>2, DestroyTurn, Zenon
    <2>4. ASSUME Apart' PROVE At_ll_size(k, {})'
      <3>1. Inserting(k, 3, {})'
        BY <1>1, <1>2, <1>18, InsertingNext
      <3>2. k = 2 * n + 2 * r + 6
        BY <1>1, <1>2, <1>18
      <3>3. /\ \A i \in 0 .. r : k # 2 * n + 4 + 2 * i
            /\ \A i \in 0 .. r - 1 : k # 2 * n + 5 + 2 * i
            /\ k # 2 * n + 2 * r + 5 /\ k # 2
        BY <1>1, <3>2
      <3> QED
        BY <1>7, <2>4, <3>1, <3>3
    <2> QED
      BY <1>3, <2>3, <2>4, Zenon DEF Turn, Settles
  <1>24. \/ at = 1 \/ at = 2 \/ at \in 3 .. 2 * n + 2 \/ at = 2 * n + 3
         \/ at \in 2 * n + 4 .. 2 * n + 2 * r + 3
         \/ at = 2 * n + 2 * r + 4 \/ at = 2 * n + 2 * r + 5
    <2>1. at \in 1 .. 2 * n + 2 * r + 5
      BY <1>4
    <2> QED
      BY <1>1, <2>1
  <1>25. CASE at \in 3 .. 2 * n + 2
    <2>1. PICK j \in 0 .. n - 1 : at = 3 + 2 * j \/ at = 3 + 1 + 2 * j
      BY <1>1, <1>25, LoopPlace, Zenon
    <2> QED
      BY <1>10, <1>11, <2>1
  <1>26. CASE at \in 2 * n + 4 .. 2 * n + 2 * r + 3
    <2>1. PICK j \in 0 .. r - 1 : at = 2 * n + 4 + 2 * j \/ at = 2 * n + 5 + 2 * j
      BY <1>1, <1>26, RemovePlace, Zenon
    <2> QED
      BY <1>15, <1>16, <2>1
  <1> QED
    BY <1>12, <1>13, <1>14, <1>17, <1>18, <1>24, <1>25, <1>26
----------------------------------------------------------------------------
(* Any call of a test of the list, and the two ends of a script.           *)

LEMMA ListTurn ==
  ASSUME Playing, ~RingTest, at \in 1 .. Len(Script), At(at, live)
  PROVE  Turn(AtNext)
  <1>1. test \in 11 .. 16
    BY DEF Playing, RingTest
  <1>2. Unused
    BY DEF At
  <1>11. CASE test = 11
    <2>1. At_ll_init_destroy(at) /\ live = {}
      BY <1>11, AtOf
    <2> QED
      BY <1>2, <1>11, <2>1, Turn_ll_init_destroy
  <1>12. CASE test = 12
    <2>1. At_ll_ops_null_ptr(at) /\ live = {}
      BY <1>12, AtOf
    <2> QED
      BY <1>2, <1>12, <2>1, Turn_ll_ops_null_ptr
  <1>13. CASE test = 13
    <2>1. At_ll_insert(at, live)
      BY <1>13, AtOf
    <2> QED
      BY <1>2, <1>13, <2>1, Turn_ll_insert
  <1>14. CASE test = 14
    <2>1. At_ll_remove(at, live)
      BY <1>14, AtOf
    <2> QED
      BY <1>2, <1>14, <2>1, Turn_ll_remove
  <1>15. CASE test = 15
    <2>1. At_ll_search(at, live)
      BY <1>15, AtOf
    <2> QED
      BY <1>2, <1>15, <2>1, Turn_ll_search
  <1>16. CASE test = 16
    <2>1. At_ll_size(at, live)
      BY <1>16, AtOf
    <2> QED
      BY <1>2, <1>16, <2>1, Turn_ll_size
  <1> QED
    BY <1>1, <1>11, <1>12, <1>13, <1>14, <1>15, <1>16

LEMMA ScriptLengths ==
  ASSUME num_inserts \in Nat, num_removes \in Nat
  PROVE  /\ test = 1 => Len(Script) = 2
         /\ test = 2 => Len(Script) = 7
         /\ test = 3 => Len(Script) = 7
         /\ test = 4 => Len(Script) = 2 * BUF_SIZE + 2
         /\ test = 5 => Len(Script) = BUF_SIZE + 3
         /\ test = 6 => Len(Script) = 3
         /\ test = 7 => Len(Script) = 2 * Half + BUF_SIZE + 2
         /\ test = 8 => Len(Script) = 2 * Half + 2 * BUF_SIZE + 2
         /\ test = 9 => Len(Script) = BUF_SIZE + 4
         /\ test = 10 => Len(Script) = 5
         /\ test = 11 => Len(Script) = 2
         /\ test = 12 => Len(Script) = 14
         /\ test = 13 => Len(Script) = 2 * num_inserts + 7
         /\ test = 14 => Len(Script) = 2 * num_inserts + 10
         /\ test = 15 => Len(Script) = 2 * num_inserts + 5
         /\ test = 16 => Len(Script) = 2 * num_inserts + 2 * num_removes + 5
  <1>1. test = 1 => Len(Script) = 2
    BY ScriptOf, Script_init_destroy DEF Calls
  <1>2. test = 2 => Len(Script) = 7
    BY ScriptOf, Script_ops_null_ptr, Zenon DEF Calls
  <1>3. test = 3 => Len(Script) = 7
    BY ScriptOf, Script_null_buffer, Zenon DEF Calls
  <1>4. test = 4 => Len(Script) = 2 * BUF_SIZE + 2
    BY ScriptOf, Script_add_remove_full DEF Calls
  <1>5. test = 5 => Len(Script) = BUF_SIZE + 3
    BY ScriptOf, Script_add_full DEF Calls
  <1>6. test = 6 => Len(Script) = 3
    BY ScriptOf, Script_remove_empty DEF Calls
  <1>7. test = 7 => Len(Script) = 2 * Half + BUF_SIZE + 2
    BY ScriptOf, Script_wrap_add DEF Calls
  <1>8. test = 8 => Len(Script) = 2 * Half + 2 * BUF_SIZE + 2
    BY ScriptOf, Script_wrap_remove DEF Calls
  <1>9. test = 9 => Len(Script) = BUF_SIZE + 4
    BY ScriptOf, Script_check_full DEF Calls
  <1>10. test = 10 => Len(Script) = 5
    BY ScriptOf, Script_check_empty DEF Calls
  <1>11. test = 11 => Len(Script) = 2
    BY ScriptOf, Script_ll_init_destroy DEF Calls
  <1>12. test = 12 => Len(Script) = 14
    BY ScriptOf, Script_ll_ops_null_ptr, Zenon DEF Calls
  <1>13. test = 13 => Len(Script) = 2 * num_inserts + 7
    BY ScriptOf, Script_ll_insert DEF Calls
  <1>14. test = 14 => Len(Script) = 2 * num_inserts + 10
    BY ScriptOf, Script_ll_remove DEF Calls
  <1>15. test = 15 => Len(Script) = 2 * num_inserts + 5
    BY ScriptOf, Script_ll_search DEF Calls
  <1>16. test = 16 => Len(Script) = 2 * num_inserts + 2 * num_removes + 5
    BY ScriptOf, Script_ll_size DEF Calls
  <1> QED
    BY <1>1, <1>2, <1>3, <1>4, <1>5, <1>6, <1>7, <1>8, <1>9, <1>10, <1>11, <1>12, <1>13, <1>14, <1>15, <1>16

LEMMA ScriptEnds ==
  num_inserts \in Nat /\ num_removes \in Nat /\ test \in 1 .. 16 => Len(Script) \in Nat
  <1> SUFFICES ASSUME num_inserts \in Nat, num_removes \in Nat, test \in 1 .. 16
               PROVE  Len(Script) \in Nat
    OBVIOUS
  <1>1. CASE test = 1
    BY <1>1, ScriptLengths, SizesAreNumbers, HalfIsANumber
  <1>2. CASE test = 2
    BY <1>2, ScriptLengths, SizesAreNumbers, HalfIsANumber
  <1>3. CASE test = 3
    BY <1>3, ScriptLengths, SizesAreNumbers, HalfIsANumber
  <1>4. CASE test = 4
    BY <1>4, ScriptLengths, SizesAreNumbers, HalfIsANumber
  <1>5. CASE test = 5
    BY <1>5, ScriptLengths, SizesAreNumbers, HalfIsANumber
  <1>6. CASE test = 6
    BY <1>6, ScriptLengths, SizesAreNumbers, HalfIsANumber
  <1>7. CASE test = 7
    BY <1>7, ScriptLengths, SizesAreNumbers, HalfIsANumber
  <1>8. CASE test = 8
    BY <1>8, ScriptLengths, SizesAreNumbers, HalfIsANumber
  <1>9. CASE test = 9
    BY <1>9, ScriptLengths, SizesAreNumbers, HalfIsANumber
  <1>10. CASE test = 10
    BY <1>10, ScriptLengths, SizesAreNumbers, HalfIsANumber
  <1>11. CASE test = 11
    BY <1>11, ScriptLengths, SizesAreNumbers, HalfIsANumber
  <1>12. CASE test = 12
    BY <1>12, ScriptLengths, SizesAreNumbers, HalfIsANumber
  <1>13. CASE test = 13
    BY <1>13, ScriptLengths, SizesAreNumbers, HalfIsANumber
  <1>14. CASE test = 14
    BY <1>14, ScriptLengths, SizesAreNumbers, HalfIsANumber
  <1>15. CASE test = 15
    BY <1>15, ScriptLengths, SizesAreNumbers, HalfIsANumber
  <1>16. CASE test = 16
    BY <1>16, ScriptLengths, SizesAreNumbers, HalfIsANumber
  <1> QED
    BY <1>1, <1>2, <1>3, <1>4, <1>5, <1>6, <1>7, <1>8, <1>9, <1>10, <1>11, <1>12, <1>13, <1>14, <1>15, <1>16

(* What setup leaves is what the first call of any test finds. *)
LEMMA FirstPlace ==
  num_inserts \in Nat /\ num_removes \in Nat /\ test \in 1 .. 16 /\ Clean => At(1, {})
  <1> SUFFICES ASSUME num_inserts \in Nat, num_removes \in Nat, test \in 1 .. 16, Clean
               PROVE  At(1, {})
    OBVIOUS
  <1>0. Unused /\ Apart
    BY DEF Clean
  <1>20. /\ Inserting(1, 2, {}) /\ Inserting(1, 3, {})
    BY DEF Inserting
  <1>1. CASE test = 1
    <2>1. At_init_destroy(1)
      BY <1>0, SizesAreNumbers, HalfIsANumber DEF At_init_destroy
    <2> QED
      BY <1>0, <1>1, <2>1, AtOf
  <1>2. CASE test = 2
    BY <1>0, <1>2, AtOf
  <1>3. CASE test = 3
    <2>1. At_null_buffer(1)
      BY <1>0, SizesAreNumbers, HalfIsANumber DEF At_null_buffer
    <2> QED
      BY <1>0, <1>3, <2>1, AtOf
  <1>4. CASE test = 4
    <2>1. At_add_remove_full(1)
      BY <1>0, SizesAreNumbers, HalfIsANumber DEF At_add_remove_full
    <2> QED
      BY <1>0, <1>4, <2>1, AtOf
  <1>5. CASE test = 5
    <2>1. At_add_full(1)
      BY <1>0, SizesAreNumbers, HalfIsANumber DEF At_add_full
    <2> QED
      BY <1>0, <1>5, <2>1, AtOf
  <1>6. CASE test = 6
    <2>1. At_remove_empty(1)
      BY <1>0, SizesAreNumbers, HalfIsANumber DEF At_remove_empty
    <2> QED
      BY <1>0, <1>6, <2>1, AtOf
  <1>7. CASE test = 7
    <2>1. At_wrap_add(1)
      BY <1>0, SizesAreNumbers, HalfIsANumber DEF At_wrap_add, At_half_way
    <2> QED
      BY <1>0, <1>7, <2>1, AtOf
  <1>8. CASE test = 8
    <2>1. At_wrap_remove(1)
      BY <1>0, SizesAreNumbers, HalfIsANumber DEF At_wrap_remove, At_half_way
    <2> QED
      BY <1>0, <1>8, <2>1, AtOf
  <1>9. CASE test = 9
    <2>1. At_check_full(1)
      BY <1>0, SizesAreNumbers, HalfIsANumber DEF At_check_full
    <2> QED
      BY <1>0, <1>9, <2>1, AtOf
  <1>10. CASE test = 10
    <2>1. At_check_empty(1)
      BY <1>0, SizesAreNumbers, HalfIsANumber DEF At_check_empty
    <2> QED
      BY <1>0, <1>10, <2>1, AtOf
  <1>11. CASE test = 11
    <2>1. At_ll_init_destroy(1)
      BY <1>0, SizesAreNumbers, HalfIsANumber DEF At_ll_init_destroy
    <2> QED
      BY <1>0, <1>11, <2>1, AtOf
  <1>12. CASE test = 12
    <2>1. At_ll_ops_null_ptr(1)
      BY <1>0, SizesAreNumbers, HalfIsANumber DEF At_ll_ops_null_ptr
    <2> QED
      BY <1>0, <1>12, <2>1, AtOf
  <1>13. CASE test = 13
    <2>1. At_ll_insert(1, {})
      BY <1>0, <1>20, SizesAreNumbers, HalfIsANumber DEF At_ll_insert
    <2> QED
      BY <1>0, <1>13, <2>1, AtOf
  <1>14. CASE test = 14
    <2>1. At_ll_remove(1, {})
      BY <1>0, <1>20, SizesAreNumbers, HalfIsANumber DEF At_ll_remove
    <2> QED
      BY <1>0, <1>14, <2>1, AtOf
  <1>15. CASE test = 15
    <2>1. At_ll_search(1, {})
      BY <1>0, <1>20, SizesAreNumbers, HalfIsANumber DEF At_ll_search
    <2> QED
      BY <1>0, <1>15, <2>1, AtOf
  <1>16. CASE test = 16
    <2>1. At_ll_size(1, {})
      BY <1>0, <1>20, SizesAreNumbers, HalfIsANumber DEF At_ll_size
    <2> QED
      BY <1>0, <1>16, <2>1, AtOf
  <1> QED
    BY <1>1, <1>2, <1>3, <1>4, <1>5, <1>6, <1>7, <1>8, <1>9, <1>10, <1>11, <1>12, <1>13, <1>14, <1>15, <1>16

(* After the last one nothing is left. *)
LEMMA LastPlace ==
  ASSUME num_inserts \in Nat, num_removes \in Nat, test \in 1 .. 16,
         at = Len(Script) + 1, At(at, live)
  PROVE  Unused /\ Apart /\ live = {}
  <1>1. CASE test = 1
    <2>1. At_init_destroy(at) /\ at = 2 + 1
      BY <1>1, AtOf, ScriptLengths, Zenon
    <2>2. Unused
      BY <2>1, SizesAreNumbers, HalfIsANumber DEF At_init_destroy
    <2> QED
      BY <1>1, <2>2, AtOf
  <1>2. CASE test = 2
    BY <1>2, AtOf
  <1>3. CASE test = 3
    <2>1. At_null_buffer(at) /\ at = 7 + 1
      BY <1>3, AtOf, ScriptLengths, Zenon
    <2>2. Unused
      BY <2>1, SizesAreNumbers, HalfIsANumber DEF At_null_buffer
    <2> QED
      BY <1>3, <2>2, AtOf
  <1>4. CASE test = 4
    <2>1. At_add_remove_full(at) /\ at = 2 * BUF_SIZE + 2 + 1
      BY <1>4, AtOf, ScriptLengths
    <2>2. Unused
      BY <2>1, SizesAreNumbers, HalfIsANumber DEF At_add_remove_full
    <2> QED
      BY <1>4, <2>2, AtOf
  <1>5. CASE test = 5
    <2>1. At_add_full(at) /\ at = BUF_SIZE + 3 + 1
      BY <1>5, AtOf, ScriptLengths
    <2>2. Unused
      BY <2>1, SizesAreNumbers, HalfIsANumber DEF At_add_full
    <2> QED
      BY <1>5, <2>2, AtOf
  <1>6. CASE test = 6
    <2>1. At_remove_empty(at) /\ at = 3 + 1
      BY <1>6, AtOf, ScriptLengths, Zenon
    <2>2. Unused
      BY <2>1, SizesAreNumbers, HalfIsANumber DEF At_remove_empty
    <2> QED
      BY <1>6, <2>2, AtOf
  <1>7. CASE test = 7
    <2>1. At_wrap_add(at) /\ at = 2 * Half + BUF_SIZE + 2 + 1
      BY <1>7, AtOf, ScriptLengths
    <2>2. Unused
      BY <2>1, SizesAreNumbers, HalfIsANumber DEF At_wrap_add
    <2> QED
      BY <1>7, <2>2, AtOf
  <1>8. CASE test = 8
    <2>1. At_wrap_remove(at) /\ at = 2 * Half + 2 * BUF_SIZE + 2 + 1
      BY <1>8, AtOf, ScriptLengths
    <2>2. Unused
      BY <2>1, SizesAreNumbers, HalfIsANumber DEF At_wrap_remove
    <2> QED
      BY <1>8, <2>2, AtOf
  <1>9. CASE test = 9
    <2>1. At_check_full(at) /\ at = BUF_SIZE + 4 + 1
      BY <1>9, AtOf, ScriptLengths
    <2>2. Unused
      BY <2>1, SizesAreNumbers, HalfIsANumber DEF At_check_full
    <2> QED
      BY <1>9, <2>2, AtOf
  <1>10. CASE test = 10
    <2>1. At_check_empty(at) /\ at = 5 + 1
      BY <1>10, AtOf, ScriptLengths, Zenon
    <2>2. Unused
      BY <2>1, SizesAreNumbers, HalfIsANumber DEF At_check_empty
    <2> QED
      BY <1>10, <2>2, AtOf
  <1>11. CASE test = 11
    <2>1. At_ll_init_destroy(at) /\ at = 2 + 1
      BY <1>11, AtOf, ScriptLengths, Zenon
    <2>2. Apart
      BY <2>1, SizesAreNumbers, HalfIsANumber DEF At_ll_init_destroy
    <2> QED
      BY <1>11, <2>2, AtOf
  <1>12. CASE test = 12
    <2>1. At_ll_ops_null_ptr(at) /\ at = 14 + 1
      BY <1>12, AtOf, ScriptLengths, Zenon
    <2>2. Apart
      BY <2>1, SizesAreNumbers, HalfIsANumber DEF At_ll_ops_null_ptr
    <2> QED
      BY <1>12, <2>2, AtOf
  <1>13. CASE test = 13
    <2>1. At_ll_insert(at, live) /\ at = 2 * num_inserts + 7 + 1
      BY <1>13, AtOf, ScriptLengths
    <2>2. Apart /\ live = {}
      BY <2>1, SizesAreNumbers, HalfIsANumber DEF At_ll_insert
    <2> QED
      BY <1>13, <2>2, AtOf
  <1>14. CASE test = 14
    <2>1. At_ll_remove(at, live) /\ at = 2 * num_inserts + 10 + 1
      BY <1>14, AtOf, ScriptLengths
    <2>2. Apart /\ live = {}
      BY <2>1, SizesAreNumbers, HalfIsANumber DEF At_ll_remove
    <2> QED
      BY <1>14, <2>2, AtOf
  <1>15. CASE test = 15
    <2>1. At_ll_search(at, live) /\ at = 2 * num_inserts + 5 + 1
      BY <1>15, AtOf, ScriptLengths
    <2>2. Apart /\ live = {}
      BY <2>1, SizesAreNumbers, HalfIsANumber DEF At_ll_search
    <2> QED
      BY <1>15, <2>2, AtOf
  <1>16. CASE test = 16
    <2>1. At_ll_size(at, live) /\ at = 2 * num_inserts + 2 * num_removes + 5 + 1
      BY <1>16, AtOf, ScriptLengths
    <2>2. Apart /\ live = {}
      BY <2>1, SizesAreNumbers, HalfIsANumber DEF At_ll_size
    <2> QED
      BY <1>16, <2>2, AtOf
  <1> QED
    BY <1>1, <1>2, <1>3, <1>4, <1>5, <1>6, <1>7, <1>8, <1>9, <1>10, <1>11, <1>12, <1>13, <1>14, <1>15, <1>16
----------------------------------------------------------------------------
(* A step that moves neither container nor the test: the place is the same. *)

LEMMA AtSame ==
  ASSUME NEW k, NEW L, At(k, L), test \in 1 .. 16, Unmoved,
         UNCHANGED <<test, randoms, ringVars, ll_out>>
  PROVE  At(k, L)'
  <1>1. /\ test' = test /\ num_inserts' = num_inserts /\ num_removes' = num_removes
        /\ ll_out' = ll_out /\ p_head' = p_head /\ UNCHANGED randoms
        /\ handle' = handle /\ length' = length /\ count' = count
        /\ C!Items' = C!Items
    BY DEF randoms, ringVars, Unmoved, C!Items, C!PeekSlot
  <1>2. /\ \A j : Payload(j)' = Payload(j)
        /\ Middle' = Middle
        /\ \A c, m : Skipping(c, m)' = Skipping(c, m)
    BY DEF randoms, Payload, Middle, Skipping
  <1>3. /\ Apart => Apart'
        /\ Unused => Unused'
        /\ \A n : Holds(n) => Holds(n)'
        /\ \A a, n : Stores(a, n) => Stores(a, n)'
    BY <1>1 DEF Apart, Unused, Holds, Stores
  <1>4. \A s : Lists(s) => Lists(s)'
    BY <1>1, ListsStay
  <1>5. \A m : Keeps(m) => Keeps(m)'
    BY <1>4 DEF Keeps
  <1>6. \A f : Inserting(k, f, L) => Inserting(k, f, L)'
    BY <1>1, <1>4 DEF Inserting, Upto
  <1>7. RingTest' = RingTest
    BY <1>1 DEF RingTest
  <1>8. \A a : At_half_way(a) => At_half_way(a)'
    BY <1>3 DEF At_half_way
  <1>11. CASE test = 1
    <2>1. At_init_destroy(k)
      BY <1>11, AtOf
    <2>2. At_init_destroy(k)'
      BY <1>3, <2>1 DEF At_init_destroy
    <2> QED
      BY <1>1, <1>3, <1>7, <1>11, <2>2, Suites, AtOf DEF At, RingTest
  <1>12. CASE test = 2
    BY <1>1, <1>3, <1>7, <1>12, Suites, AtOf DEF At
  <1>13. CASE test = 3
    <2>1. At_null_buffer(k)
      BY <1>13, AtOf
    <2>2. At_null_buffer(k)'
      BY <1>1, <1>3, <2>1 DEF At_null_buffer
    <2> QED
      BY <1>1, <1>3, <1>7, <1>13, <2>2, Suites, AtOf DEF At, RingTest
  <1>14. CASE test = 4
    <2>1. At_add_remove_full(k)
      BY <1>14, AtOf
    <2>2. At_add_remove_full(k)'
      BY <1>3, <2>1 DEF At_add_remove_full
    <2> QED
      BY <1>1, <1>3, <1>7, <1>14, <2>2, Suites, AtOf DEF At, RingTest
  <1>15. CASE test = 5
    <2>1. At_add_full(k)
      BY <1>15, AtOf
    <2>2. At_add_full(k)'
      BY <1>3, <2>1 DEF At_add_full
    <2> QED
      BY <1>1, <1>3, <1>7, <1>15, <2>2, Suites, AtOf DEF At, RingTest
  <1>16. CASE test = 6
    <2>1. At_remove_empty(k)
      BY <1>16, AtOf
    <2>2. At_remove_empty(k)'
      BY <1>3, <2>1 DEF At_remove_empty
    <2> QED
      BY <1>1, <1>3, <1>7, <1>16, <2>2, Suites, AtOf DEF At, RingTest
  <1>17. CASE test = 7
    <2>1. At_wrap_add(k)
      BY <1>17, AtOf
    <2>2. At_wrap_add(k)'
      BY <1>3, <1>8, <2>1 DEF At_wrap_add
    <2> QED
      BY <1>1, <1>3, <1>7, <1>17, <2>2, Suites, AtOf DEF At, RingTest
  <1>18. CASE test = 8
    <2>1. At_wrap_remove(k)
      BY <1>18, AtOf
    <2>2. At_wrap_remove(k)'
      BY <1>3, <1>8, <2>1 DEF At_wrap_remove
    <2> QED
      BY <1>1, <1>3, <1>7, <1>18, <2>2, Suites, AtOf DEF At, RingTest
  <1>19. CASE test = 9
    <2>1. At_check_full(k)
      BY <1>19, AtOf
    <2>2. At_check_full(k)'
      BY <1>3, <2>1 DEF At_check_full
    <2> QED
      BY <1>1, <1>3, <1>7, <1>19, <2>2, Suites, AtOf DEF At, RingTest
  <1>20. CASE test = 10
    <2>1. At_check_empty(k)
      BY <1>20, AtOf
    <2>2. At_check_empty(k)'
      BY <1>3, <2>1 DEF At_check_empty
    <2> QED
      BY <1>1, <1>3, <1>7, <1>20, <2>2, Suites, AtOf DEF At, RingTest
  <1>21. CASE test = 11
    <2>1. At_ll_init_destroy(k)
      BY <1>21, AtOf
    <2>2. At_ll_init_destroy(k)'
      BY <1>3, <1>4, <2>1 DEF At_ll_init_destroy
    <2> QED
      BY <1>1, <1>3, <1>7, <1>21, <2>2, Suites, AtOf DEF At, RingTest
  <1>22. CASE test = 12
    <2>1. At_ll_ops_null_ptr(k)
      BY <1>22, AtOf
    <2>2. At_ll_ops_null_ptr(k)'
      BY <1>3, <1>4, <2>1 DEF At_ll_ops_null_ptr
    <2> QED
      BY <1>1, <1>3, <1>7, <1>22, <2>2, Suites, AtOf DEF At, RingTest
  <1>23. CASE test = 13
    <2>1. At_ll_insert(k, L)
      BY <1>23, AtOf
    <2>2. At_ll_insert(k, L)'
      BY <1>1, <1>2, <1>3, <1>4, <1>5, <1>6, <2>1 DEF At_ll_insert, Upto
    <2> QED
      BY <1>1, <1>3, <1>7, <1>23, <2>2, Suites, AtOf DEF At, RingTest
  <1>24. CASE test = 14
    <2>1. At_ll_remove(k, L)
      BY <1>24, AtOf
    <2>2. At_ll_remove(k, L)'
      BY <1>1, <1>2, <1>3, <1>4, <1>5, <1>6, <2>1 DEF At_ll_remove, Upto
    <2> QED
      BY <1>1, <1>3, <1>7, <1>24, <2>2, Suites, AtOf DEF At, RingTest
  <1>25. CASE test = 15
    <2>1. At_ll_search(k, L)
      BY <1>25, AtOf
    <2>2. At_ll_search(k, L)'
      BY <1>1, <1>2, <1>3, <1>4, <1>5, <1>6, <2>1 DEF At_ll_search, Upto
    <2> QED
      BY <1>1, <1>3, <1>7, <1>25, <2>2, Suites, AtOf DEF At, RingTest
  <1>26. CASE test = 16
    <2>1. At_ll_size(k, L)
      BY <1>26, AtOf
    <2>2. At_ll_size(k, L)'
      BY <1>1, <1>2, <1>3, <1>4, <1>5, <1>6, <2>1 DEF At_ll_size, Upto
    <2> QED
      BY <1>1, <1>3, <1>7, <1>26, <2>2, Suites, AtOf DEF At, RingTest
  <1> QED
    BY <1>11, <1>12, <1>13, <1>14, <1>15, <1>16, <1>17, <1>18, <1>19, <1>20, <1>21, <1>22, <1>23, <1>24, <1>25, <1>26
----------------------------------------------------------------------------
(* The containers, where a step is not one of theirs.                      *)

LEMMA ListStutter ==
  ASSUME P!IInv, UNCHANGED listVars
  PROVE  P!IInv'
  BY ListAssumption, P!IInvNext DEF listVars, P!vars, P!links, P!loop, P!answer

(* A program that crashed does not come back, so an idle one has not. *)
LEMMA AbandonsList ==
  ASSUME P!IInv, Idle, Abandon
  PROVE  P!IInv' /\ Idle' /\ Apart'
  <1>1. <<>> \in Seq(Nodes) /\ <<>> \in Seq(Payloads) /\ Len(<<>>) = 0
    OBVIOUS
  <1>2. /\ p_head' = NULL /\ heap' = {} /\ chain' = <<>> /\ pc' = "idle"
        /\ next' = [n \in Nodes |-> NULL] /\ prev' = [n \in Nodes |-> NULL]
        /\ data' = [n \in Nodes |-> NULL] /\ current' = NULL /\ walked' = 0
        /\ index' = 0 /\ item' = NULL /\ seen' = <<>> /\ ll_status' = ll_status
    BY DEF Abandon
  <1>3. ll_status # "CRASHED"
    BY DEF P!IInv, P!LoopOK, P!Arguments, Idle
  <1>4. P!LinksOK'
    BY <1>1, <1>2 DEF P!LinksOK, P!Linked, P!Elements
  <1>5. P!HeadOK'
    BY <1>2 DEF P!HeadOK
  <1>6. P!WalksCount'
    BY <1>2 DEF P!WalksCount
  <1>7. P!Arguments'
    BY <1>2, <1>3, TheIndexes DEF P!Arguments, P!Indexes
  <1>8. P!LoopOK'
    BY <1>1, <1>2, <1>6, <1>7 DEF P!LoopOK, Payloads
  <1> QED
    BY <1>2, <1>4, <1>5, <1>8 DEF P!IInv, Idle, Apart

LEMMA AbandonsRing ==
  ASSUME C!RingInv, Abandon
  PROVE  C!RingInv' /\ Unused'
  <1>1. /\ handle' = "null"
        /\ UNCHANGED <<buffer, head, tail, count, length, freed, ring_asked, status, out>>
    BY DEF Abandon
  <1>2. ~C!InUse'
    BY <1>1 DEF C!InUse
  <1>3. C!TypeOK'
    BY <1>1, <1>2 DEF C!RingInv, C!TypeOK, C!Handles
  <1>4. C!HeadFollowsTail' /\ C!ItemsAreStored'
    BY <1>2 DEF C!HeadFollowsTail, C!ItemsAreStored
  <1>5. Unused'
    BY <1>1 DEF Unused
  <1> QED
    BY <1>3, <1>4, <1>5 DEF C!RingInv

(* The types, where the test goes on. *)
LEMMA TypesStay ==
  ASSUME ClientOK, NEW code, Allocates(code) \/ UNCHANGED <<fails, short>>,
         UNCHANGED <<test, at, randoms, failed>>, phase' \in {"setup", "call", "check"},
         live' \subseteq 1 .. MaxPayloads
  PROVE  ClientOK'
  <1>1. /\ test' = test /\ at' = at /\ failed' = failed
        /\ num_inserts' = num_inserts /\ num_removes' = num_removes
    BY DEF randoms
  <1>2. short' \in BOOLEAN /\ fails' \in 0 .. MaxFails
    <2>1. fails \in 0 .. MaxFails /\ short \in BOOLEAN
      BY DEF ClientOK, TypeOK
    <2>2. \/ fails < MaxFails /\ fails' = fails + 1 /\ short' = TRUE
          \/ fails' = fails /\ short' = short
      BY DEF Allocates
    <2>3. fails' \in 0 .. MaxFails
      <3>1. \/ fails' = fails
            \/ fails < MaxFails /\ fails' = fails + 1
        BY <2>2
      <3> QED
        BY <2>1, <3>1, SizesAreNumbers
    <2> QED
      BY <2>1, <2>2, <2>3, Zenon
  <1>3. TypeOK'
    BY <1>1, <1>2 DEF ClientOK, TypeOK, MaxPayloads
  <1> QED
    BY <1>1, <1>3 DEF ClientOK

(* The types, where the next test begins. *)
LEMMA TypesAfter ==
  ASSUME ClientOK, Running, NextTest, failed' \subseteq failed \cup {Suite[test]},
         num_inserts' \in Drawn, num_removes' \in 0 .. HALF_LIST_SIZE,
         live' \subseteq live, short' \in BOOLEAN, fails' = fails
  PROVE  ClientOK'
  <1>1. /\ test \in 1 .. 16 /\ test' = test + 1 /\ at' = 1 /\ phase' = "setup"
        /\ test' \in 1 .. Len(Suite) + 1
    BY Suites DEF ClientOK, TypeOK, Running, NextTest
  <1>2. failed \subseteq {Suite[i] : i \in 1 .. test - 1}
    BY DEF ClientOK
  <1>3. \A i \in 1 .. test - 1 : i \in 1 .. test' - 1
    BY <1>1
  <1>4. test \in 1 .. test' - 1
    BY <1>1
  <1>5. failed' \subseteq {Suite[i] : i \in 1 .. test' - 1}
    BY <1>2, <1>3, <1>4
  <1>6. \A i \in 1 .. test' - 1 : Suite[i] \in Range(Suite)
    <2>1. \A i \in 1 .. test' - 1 : i \in DOMAIN Suite
      BY <1>1, Suites DEF Suite
    <2> QED
      BY <2>1 DEF Range
  <1>7. failed' \subseteq Range(Suite)
    BY <1>5, <1>6
  <1>8. /\ at' \in Nat \ {0} /\ phase' \in {"setup", "call", "check"}
        /\ live' \subseteq 1 .. MaxPayloads /\ fails' \in 0 .. MaxFails
        /\ num_inserts' \in 0 .. HALF_LIST_SIZE - 1
    BY <1>1 DEF ClientOK, TypeOK, Drawn
  <1>9. TypeOK'
    BY <1>1, <1>7, <1>8 DEF TypeOK
  <1> QED
    BY <1>5, <1>9 DEF ClientOK
----------------------------------------------------------------------------
(* Every step keeps the invariant.                                         *)

Inv == C!RingInv /\ P!IInv /\ ClientInv

(* What every test finds. *)
LEMMA TestOf ==
  ASSUME Inv, Running
  PROVE  /\ test \in 1 .. 16 /\ C!RingInv /\ P!IInv /\ ClientOK
         /\ phase = "setup" => Clean /\ at = 1
         /\ phase = "call" => Calling
         /\ phase = "check" => Checking
  BY Suites DEF Inv, ClientInv, ClientOK, TypeOK, Running

(* The containers as the last test left them are those the next one finds. *)
LEMMA CleanStays ==
  ASSUME Clean, UNCHANGED <<ringVars, listVars, live>>
  PROVE  Clean'
  BY DEF Clean, Unused, Apart, Idle, ringVars, listVars

(* The next test begins. *)
LEMMA Begins ==
  ASSUME ClientOK', NextTest, Clean', C!RingInv', P!IInv'
  PROVE  Inv'
  BY DEF Inv, ClientInv, NextTest

LEMMA DrawsRandoms ==
  ASSUME test \in 1 .. 16, test' = test, NEW n \in Drawn, Enough(n),
         NEW r \in {0} \cup 0 .. n - 1, Suite[test] # "ll_size" => r = 0, Draw(n, r)
  PROVE  /\ RandomsOK' /\ num_inserts' \in Nat /\ num_removes' \in Nat
         /\ num_inserts' \in 0 .. HALF_LIST_SIZE - 1
         /\ num_removes' \in 0 .. HALF_LIST_SIZE
  <1>1. /\ num_inserts' = n /\ num_removes' = r
        /\ vals' \in [1 .. IF Suite[test] = "ll_insert" THEN n + 2 ELSE n -> Vals]
    BY DEF Draw
  <1>2. n \in 0 .. HALF_LIST_SIZE - 1 /\ n \in Nat /\ r \in Nat /\ r \in 0 .. HALF_LIST_SIZE
    BY SizesAreNumbers DEF Drawn
  <1>3. Enough(num_inserts)'
    BY <1>1 DEF Enough
  <1>4. vals' \in [1 .. Size_(num_inserts)' -> Vals]
    BY <1>1 DEF Size_
  <1> QED
    BY <1>1, <1>2, <1>3, <1>4 DEF RandomsOK, Drawn

LEMMA SetupKeeps ==
  ASSUME Inv, Setup
  PROVE  Inv'
  <1>1. Running /\ phase = "setup" /\ short' = FALSE
        /\ UNCHANGED <<ringVars, listVars, live, fails>>
    BY DEF Setup
  <1>2. /\ test \in 1 .. 16 /\ C!RingInv /\ P!IInv /\ ClientOK /\ Clean /\ at = 1
    BY <1>1, TestOf
  <1>3. C!RingInv' /\ P!IInv'
    BY <1>1, <1>2, RingStutter, ListStutter
  <1>4. Clean'
    BY <1>1, <1>2, CleanStays
  <1>5. ASSUME NEW n \in Drawn, Enough(n), NEW r \in {0} \cup 0 .. n - 1,
               Suite[test] # "ll_size" => r = 0, Draw(n, r),
               phase' = "call", UNCHANGED <<test, at, failed>>
        PROVE  Inv'
    <2>1. /\ test' = test /\ at' = 1 /\ failed' = failed /\ fails' = fails /\ live' = {}
          /\ live = {}
      BY <1>1, <1>2, <1>5 DEF Clean
    <2>2. /\ RandomsOK' /\ num_inserts' \in Nat /\ num_removes' \in Nat
          /\ num_inserts' \in 0 .. HALF_LIST_SIZE - 1
          /\ num_removes' \in 0 .. HALF_LIST_SIZE
      BY <1>2, <1>5, <2>1, DrawsRandoms
    <2>3. At(1, {})'
      <3>1. (num_inserts \in Nat /\ num_removes \in Nat /\ test \in 1 .. 16 /\ Clean
               => At(1, {}))'
        BY FirstPlace, PTL
      <3> QED
        BY <1>2, <1>4, <2>1, <2>2, <3>1
    <2>4. Len(Script)' \in Nat
      <3>1. (num_inserts \in Nat /\ num_removes \in Nat /\ test \in 1 .. 16
               => Len(Script) \in Nat)'
        BY ScriptEnds, PTL
      <3> QED
        BY <1>2, <2>1, <2>2, <3>1
    <2>5. At(at, live)' /\ at' \in 1 .. Len(Script)' + 1 /\ Idle'
      BY <1>4, <2>1, <2>3, <2>4 DEF Clean
    <2>6. Calling'
      BY <1>1, <2>2, <2>5 DEF Calling
    <2>7. TypeOK'
      BY <1>1, <1>2, <1>5, <2>1, <2>2, Zenon DEF ClientOK, TypeOK
    <2>8. ClientOK'
      BY <1>2, <2>1, <2>7 DEF ClientOK
    <2>9. Running'
      BY <1>1, <2>1 DEF Running
    <2> QED
      BY <1>3, <1>5, <2>6, <2>8, <2>9 DEF Inv, ClientInv
  <1>6. ASSUME Draw(0, 0), Fail
        PROVE  Inv'
    <2>1. num_inserts' = 0 /\ num_removes' = 0
      BY <1>6 DEF Draw
    <2>2. num_inserts' \in Drawn /\ num_removes' \in 0 .. HALF_LIST_SIZE
      BY <2>1, SizesAreNumbers DEF Drawn
    <2>3. NextTest /\ failed' \subseteq failed \cup {Suite[test]}
      BY <1>6 DEF Fail
    <2>4. ClientOK'
      <3>1. live' \subseteq live /\ short' \in BOOLEAN /\ fails' = fails
        BY <1>1, Zenon
      <3> QED
        BY <1>1, <1>2, <2>2, <2>3, <3>1, TypesAfter
    <2> QED
      BY <1>3, <1>4, <2>3, <2>4, Begins
  <1> QED
    BY <1>5, <1>6 DEF Setup

LEMMA EndTestKeeps ==
  ASSUME Inv, EndTest
  PROVE  Inv'
  <1>1. /\ Running /\ phase = "call" /\ at > Len(Script) /\ NextTest
        /\ UNCHANGED <<ringVars, listVars, randoms, live, short, fails, failed>>
    BY DEF EndTest
  <1>2. test \in 1 .. 16 /\ C!RingInv /\ P!IInv /\ ClientOK /\ Calling
    BY <1>1, TestOf
  <1>3. C!RingInv' /\ P!IInv'
    BY <1>1, <1>2, RingStutter, ListStutter
  <1>4. num_inserts \in Nat /\ num_removes \in Nat
    BY <1>2, RandomNumbers DEF Calling
  <1>5. Len(Script) \in Nat
    BY <1>2, <1>4, ScriptEnds
  <1>6. at = Len(Script) + 1
    BY <1>1, <1>2, <1>5 DEF Calling
  <1>7. Clean
    BY <1>2, <1>4, <1>6, LastPlace DEF Calling, Clean
  <1>8. Clean'
    BY <1>1, <1>7, CleanStays
  <1>9. ClientOK'
    <2>1. /\ num_inserts' = num_inserts /\ num_removes' = num_removes
          /\ num_inserts \in Drawn /\ num_removes \in 0 .. HALF_LIST_SIZE
          /\ short \in BOOLEAN
      BY <1>1, <1>2 DEF randoms, ClientOK, TypeOK, Drawn
    <2>2. failed' \subseteq failed \cup {Suite[test]}
      BY <1>1
    <2> QED
      BY <1>1, <1>2, <2>1, <2>2, TypesAfter
  <1> QED
    BY <1>1, <1>3, <1>8, <1>9, Begins
(* What a test that calls knows. *)
LEMMA CallOf ==
  ASSUME Inv, Call
  PROVE  /\ Running /\ test \in 1 .. 16 /\ C!RingInv /\ P!IInv /\ ClientOK
         /\ RandomsOK /\ ~short /\ Idle /\ at \in 1 .. Len(Script) /\ At(at, live)
         /\ RingCall(Now) \/ ListCall(Now) \/ PayloadCall(Now)
         /\ UNCHANGED <<test, at, randoms, failed>> /\ phase' = "check"
  <1>1. /\ Running /\ phase = "call" /\ at <= Len(Script)
        /\ RingCall(Now) \/ ListCall(Now) \/ PayloadCall(Now)
        /\ UNCHANGED <<test, at, randoms, failed>> /\ phase' = "check"
    BY DEF Call
  <1>2. test \in 1 .. 16 /\ C!RingInv /\ P!IInv /\ ClientOK /\ Calling
    BY <1>1, TestOf
  <1>3. num_inserts \in Nat /\ num_removes \in Nat
    BY <1>2, RandomNumbers DEF Calling
  <1>4. Len(Script) \in Nat
    BY <1>2, <1>3, ScriptEnds
  <1>5. at \in 1 .. Len(Script)
    BY <1>1, <1>2, <1>4 DEF Calling
  <1> QED
    BY <1>1, <1>2, <1>5 DEF Calling

(* A call is of the container it names. *)
LEMMA CallsOfEach ==
  ASSUME NEW s
  PROVE  /\ RingCall(s) => OfRing(s.call)
         /\ ListCall(s) => ~OfRing(s.call)
         /\ PayloadCall(s) => ~OfRing(s.call)
  <1>1. RingCall(s) => OfRing(s.call)
    BY Zenon DEF RingCall, OfRing
  <1>2. ListCall(s) => ~OfRing(s.call)
    BY Zenon DEF ListCall, OfRing
  <1>3. PayloadCall(s) => ~OfRing(s.call)
    BY Zenon DEF PayloadCall, OfRing
  <1> QED
    BY <1>1, <1>2, <1>3

(* The test is in the middle of a call, or has its answer. *)
LEMMA Checks ==
  ASSUME ClientOK', Running, UNCHANGED <<test, at, randoms>>, phase' = "check",
         RandomsOK, at \in 1 .. Len(Script), C!RingInv', P!IInv',
         \/ ~short' /\ Underway(Now)' /\ At(at, live)'
         \/ ~short' /\ Idle' /\ Asserted(Now)' /\ FreesOnce' /\ There
         \/ Idle' /\ ~Asserted(Now)' /\ Released' = <<>> /\ (short' \/ SameContents')
  PROVE  Inv'
  <1>1. test' = test /\ at' = at /\ Script' = Script /\ UNCHANGED randoms
    BY SameNow
  <1>2. RandomsOK'
    BY <1>1 DEF RandomsOK, randoms, Enough, Size_
  <1>3. Running'
    BY <1>1 DEF Running
  <1>4. There => At(at + 1, live \ Range(Released))'
    BY DEF There, Left
  <1>5. Checking'
    BY <1>1, <1>2, <1>4 DEF Checking
  <1> QED
    BY <1>3, <1>5 DEF Inv, ClientInv

LEMMA RingCallKeeps ==
  ASSUME Inv, Call, RingTest
  PROVE  Inv'
  <1>1. /\ Running /\ test \in 1 .. 16 /\ C!RingInv /\ P!IInv /\ ClientOK
        /\ RandomsOK /\ ~short /\ Idle /\ at \in 1 .. Len(Script) /\ At(at, live)
        /\ RingCall(Now) \/ ListCall(Now) \/ PayloadCall(Now)
        /\ UNCHANGED <<test, at, randoms, failed>> /\ phase' = "check"
    BY CallOf
  <1>2. OfRing(Now.call) /\ Now.code # "ALLOC_FAILURE"
    BY <1>1, RingTestsCallTheRing DEF AsksRing
  <1>3. RingCall(Now)
    <2>1. PICK s : s = Now
      OBVIOUS
    <2> QED
      BY <1>1, <1>2, <2>1, CallsOfEach
  <1>4. /\ UNCHANGED listVars /\ live' = live /\ Allocates(status')
    BY <1>3, Zenon DEF RingCall
  <1>5. /\ C!RingInv'
        /\ (RingGood(Now) /\ At(at + 1, live)') \/ RingFailed(Now)
    BY <1>1, <1>3, RingTurns DEF RingStep
  <1>6. P!IInv' /\ Idle'
    BY <1>1, <1>4, ListStutter DEF Idle, listVars
  <1>7. Now' = Now
    BY <1>1, SameNow
  <1>8. Released' = <<>>
    <2>1. Now.call # "ll_destroy" /\ Now.call # "free"
      BY <1>2, Zenon DEF OfRing
    <2> QED
      BY <1>7, <2>1, FreesNoPayload
  <1>9. FreesOnce' /\ Left' = live'
    BY <1>8, FreesNothing DEF Left
  <1>10. Asserted(Now)' <=> RingGood(Now)
    <2>1. OfRing(Now.call) /\ ~OfPayload(Now.call)
      BY <1>2, Zenon DEF OfRing, OfPayload
    <2> QED
      BY <1>7, <2>1 DEF Asserted, RingGood
  <1>11. ClientOK'
    <2>1. PICK code : code = status'
      OBVIOUS
    <2>2. Allocates(code)
      BY <1>4, <2>1
    <2>3. live' \subseteq 1 .. MaxPayloads
      BY <1>1, <1>4 DEF ClientOK, TypeOK
    <2> QED
      BY <1>1, <2>2, <2>3, TypesStay
  <1>12. RingGood(Now) => ~short'
    BY <1>1, <1>2, <1>4 DEF RingGood, Allocates
  <1>13. At(at + 1, live)' => There
    BY <1>9 DEF There
  <1>14. \/ ~short' /\ Idle' /\ Asserted(Now)' /\ FreesOnce' /\ There
         \/ Idle' /\ ~Asserted(Now)' /\ Released' = <<>> /\ (short' \/ SameContents')
    BY <1>5, <1>6, <1>8, <1>9, <1>10, <1>12, <1>13 DEF RingFailed
  <1> QED
    BY <1>1, <1>5, <1>6, <1>11, <1>14, Checks
(* A step of a call of the list: the call goes on, or it has its answer. *)
LEMMA ListMoves ==
  ASSUME ClientOK', Running, Playing, ~RingTest, at \in 1 .. Len(Script), At(at, live),
         C!RingInv, P!IInv', UNCHANGED <<ringVars, live>>,
         NEW s, s = Now, GoesOn(s) \/ Outcome(s)
  PROVE  Inv'
  <1>1. C!RingInv'
    BY RingStutter
  <1>2. /\ UNCHANGED <<test, at, randoms>> /\ phase' = "check" /\ RandomsOK /\ ~short
        /\ test \in 1 .. 16 /\ Now' = Now /\ live' = live
    BY SameNow DEF Playing
  <1>3. CASE GoesOn(s)
    <2>1. Underway(s)' /\ Unmoved /\ ll_out' = ll_out /\ short' = short
      BY <1>3 DEF GoesOn
    <2>2. PICK k : k = at
      OBVIOUS
    <2>3. PICK L : L = live
      OBVIOUS
    <2>4. At(k, L)'
      <3>1. At(k, L)
        BY <2>2, <2>3
      <3>2. UNCHANGED <<test, randoms, ringVars, ll_out>>
        BY <1>2, <2>1
      <3> QED
        BY <1>2, <2>1, <3>1, <3>2, AtSame
    <2>5. at' = k /\ live' = L
      BY <1>2, <2>2, <2>3
    <2>6. At(at, live)'
      BY <2>4, <2>5
    <2>7. Underway(Now)'
      BY <1>2, <2>1
    <2> QED
      BY <1>1, <1>2, <2>1, <2>6, <2>7, Checks
  <1>4. CASE Outcome(s)
    <2>1. Outcome(Now)
      BY <1>4
    <2>2. Settles(AtNext)
      BY <1>2, <2>1, ListTurn DEF Turn
    <2>3. AtNext => There
      BY DEF AtNext, ringVars
    <2> QED
      BY <1>1, <1>2, <2>2, <2>3, Checks DEF Settles, Idle
  <1> QED
    BY <1>3, <1>4

LEMMA ListCallKeeps ==
  ASSUME Inv, Call, ~RingTest
  PROVE  Inv'
  <1>1. /\ Running /\ test \in 1 .. 16 /\ C!RingInv /\ P!IInv /\ ClientOK
        /\ RandomsOK /\ ~short /\ Idle /\ at \in 1 .. Len(Script) /\ At(at, live)
        /\ RingCall(Now) \/ ListCall(Now) \/ PayloadCall(Now)
        /\ UNCHANGED <<test, at, randoms, failed>> /\ phase' = "check"
    BY CallOf
  <1>2. PICK s : s = Now
    OBVIOUS
  <1>3. ListCall(s) \/ PayloadCall(s) => UNCHANGED ringVars /\ handle' = handle
    BY Zenon DEF ListCall, PayloadCall, ringVars
  <1>4. Playing
    BY <1>1 DEF Playing
  <1>5. Turn(AtNext)
    BY <1>1, <1>4, ListTurn
  <1>6. CASE ListCall(s)
    <2>1. Playing /\ Legal(s)
      BY <1>2, <1>4, <1>5 DEF Turn
    <2>2. UNCHANGED randoms
      BY <1>1
    <2>3. P!IInv' /\ (GoesOn(s) \/ Outcome(s))
      BY <1>1, <1>6, <2>1, <2>2, ListAnswersCall
    <2>4. live' = live
      BY <1>6, Zenon DEF ListCall
    <2>5. ClientOK'
      <3>1. PICK code : code = IF pc' = "idle" THEN ll_status' ELSE "NO_ERROR"
        OBVIOUS
      <3>2. Allocates(code)
        BY <1>6, <3>1, Zenon DEF ListCall
      <3>3. live' \subseteq 1 .. MaxPayloads
        BY <1>1, <2>4 DEF ClientOK, TypeOK
      <3> QED
        BY <1>1, <3>2, <3>3, TypesStay
    <2>6. UNCHANGED <<ringVars, live>>
      BY <1>3, <1>6, <2>4
    <2> QED
      BY <1>1, <1>2, <2>1, <2>3, <2>5, <2>6, ListMoves
  <1>7. CASE PayloadCall(s)
    <2>1. UNCHANGED ringVars /\ UNCHANGED listVars /\ Turn(AtNext)
      BY <1>3, <1>5, <1>7 DEF PayloadCall
    <2>2. Settles(AtNext)
      BY <1>1, <1>2, <1>7, <2>1 DEF Turn
    <2>3. C!RingInv' /\ P!IInv'
      BY <1>1, <2>1, RingStutter, ListStutter
    <2>4. live' \subseteq 1 .. MaxPayloads
      <3>1. live \subseteq 1 .. MaxPayloads
        BY <1>1 DEF ClientOK, TypeOK
      <3>2. s.call = "malloc" => s.arg \in 1 .. MaxPayloads
        <4>1. s.call = "malloc" => s.arg \in 1 .. Size_(num_inserts)
          BY <1>2, <2>1 DEF Turn
        <4>2. /\ Size_(num_inserts) <= MaxPayloads /\ num_inserts \in Nat
              /\ Size_(num_inserts) = IF test = 13 THEN num_inserts + 2 ELSE num_inserts
          BY <1>1, RandomNumbers
        <4>3. Size_(num_inserts) \in Nat
          BY <4>2
        <4> QED
          BY <4>1, <4>2, <4>3, SizesAreNumbers
      <3>3. live' = live \/ (s.call = "malloc" /\ live' = live \cup {s.arg})
        BY <1>7 DEF PayloadCall
      <3> QED
        BY <3>1, <3>2, <3>3, Zenon
    <2>5. ClientOK'
      <3>1. Allocates("ALLOC_FAILURE") \/ UNCHANGED <<fails, short>>
        BY <1>7 DEF PayloadCall
      <3> QED
        BY <1>1, <2>4, <3>1, TypesStay
    <2>6. AtNext => There
      BY <1>2, <1>3, <1>7 DEF AtNext
    <2> QED
      BY <1>1, <2>2, <2>3, <2>5, <2>6, Checks DEF Settles, Idle
  <1>8. CASE RingCall(s)
    <2>1. OfRing(Now.call)
      BY <1>2, <1>8, CallsOfEach
    <2> QED
      BY <1>5, <2>1 DEF Turn
  <1> QED
    BY <1>1, <1>2, <1>6, <1>7, <1>8
LEMMA CallKeeps ==
  ASSUME Inv, Call
  PROVE  Inv'
  BY RingCallKeeps, ListCallKeeps

(* The list goes on with a call that is underway. *)
LEMMA WalkIsUnderway == Walk => ~Idle
  <1>1. LL!InsertWalk => ~Idle
    BY DEF Idle, LL!InsertWalk, LL!Visit, LL!Turn, LL!AtLast
  <1>2. LL!InsertBreak => ~Idle
    BY DEF Idle, LL!InsertBreak, LL!Visit, LL!Turn, LL!AtLast
  <1>3. LL!InsertStop => ~Idle
    BY DEF Idle, LL!InsertStop, LL!Visit, LL!Turn, LL!AtLast
  <1>4. LL!InsertLink => ~Idle
    BY DEF Idle, LL!InsertLink, LL!Visit, LL!Turn, LL!AtLast
  <1>5. LL!RemoveWalk => ~Idle
    BY DEF Idle, LL!RemoveWalk, LL!Visit, LL!Turn, LL!AtLast
  <1>6. LL!RemoveUnlink => ~Idle
    BY DEF Idle, LL!RemoveUnlink, LL!Visit, LL!Turn, LL!AtLast
  <1>7. LL!SearchHit => ~Idle
    BY DEF Idle, LL!SearchHit, LL!Visit, LL!Turn, LL!AtLast
  <1>8. LL!SearchWalk => ~Idle
    BY DEF Idle, LL!SearchWalk, LL!Visit, LL!Turn, LL!AtLast
  <1>9. LL!SizeWalk => ~Idle
    BY DEF Idle, LL!SizeWalk, LL!Visit, LL!Turn, LL!AtLast
  <1>10. LL!SizeEnd => ~Idle
    BY DEF Idle, LL!SizeEnd, LL!Visit, LL!Turn, LL!AtLast
  <1>11. LL!DestroyWalk => ~Idle
    BY DEF Idle, LL!DestroyWalk, LL!Visit, LL!Turn, LL!AtLast
  <1>12. LL!DestroyEnd => ~Idle
    BY DEF Idle, LL!DestroyEnd, LL!Visit, LL!Turn, LL!AtLast
  <1> QED
    BY <1>1, <1>2, <1>3, <1>4, <1>5, <1>6, <1>7, <1>8, <1>9, <1>10, <1>11, <1>12 DEF Walk

LEMMA WalkKeeps ==
  ASSUME Inv, Walk
  PROVE  Inv'
  <1>1. /\ Running /\ phase = "check" /\ phase' = "check"
        /\ UNCHANGED <<ringVars, test, at, randoms, live, failed>>
        /\ Allocates(IF pc' = "idle" THEN ll_status' ELSE "NO_ERROR")
    BY DEF Walk
  <1>2. test \in 1 .. 16 /\ C!RingInv /\ P!IInv /\ ClientOK /\ Checking
    BY <1>1, TestOf
  <1>3. ~Idle
    BY WalkIsUnderway
  <1>4. /\ RandomsOK /\ at \in 1 .. Len(Script) /\ ~short /\ Underway(Now) /\ At(at, live)
    BY <1>2, <1>3 DEF Checking
  <1>5. ~RingTest
    <2>1. ~OfRing(Now.call)
      BY <1>4, Zenon DEF Underway, OfRing
    <2> QED
      BY <1>4, <2>1, RingTestsCallTheRing DEF AsksRing
  <1>6. Playing
    BY <1>1, <1>2, <1>4 DEF Playing
  <1>7. PICK s : s = Now
    OBVIOUS
  <1>8. Legal(s) /\ Underway(s)
    BY <1>4, <1>5, <1>6, <1>7, ListTurn DEF Turn
  <1>9. UNCHANGED randoms /\ UNCHANGED <<ringVars, live>>
    BY <1>1
  <1>10. P!IInv' /\ (GoesOn(s) \/ Outcome(s))
    BY <1>2, <1>8, <1>9, ListAnswersWalk
  <1>11. ClientOK'
    <2>1. PICK code : code = IF pc' = "idle" THEN ll_status' ELSE "NO_ERROR"
      OBVIOUS
    <2>2. Allocates(code)
      BY <1>1, <2>1
    <2>3. live' \subseteq 1 .. MaxPayloads
      BY <1>1, <1>2 DEF ClientOK, TypeOK
    <2> QED
      BY <1>1, <1>2, <2>2, <2>3, TypesStay
  <1> QED
    BY <1>1, <1>2, <1>4, <1>5, <1>6, <1>7, <1>9, <1>10, <1>11, ListMoves

(* A call that has returned was answered as the test asserts, or the test   *)
(* has a reason to fail.                                                   *)
LEMMA ReturnedOf ==
  ASSUME Inv, Returned
  PROVE  /\ test \in 1 .. 16 /\ C!RingInv /\ P!IInv /\ ClientOK /\ RandomsOK
         /\ at \in 1 .. Len(Script) /\ Idle
         /\ \/ ~short /\ Asserted(Now) /\ FreesOnce /\ At(at + 1, live \ Range(Released))
            \/ ~Asserted(Now) /\ Released = <<>> /\ (short \/ SameContents)
  <1>1. Running /\ phase = "check" /\ pc \in {"idle", "crashed"}
    BY DEF Returned
  <1>2. test \in 1 .. 16 /\ C!RingInv /\ P!IInv /\ ClientOK /\ Checking
    BY <1>1, TestOf
  <1>3. ~Underway(Now)
    BY <1>1 DEF Underway
  <1> QED
    BY <1>2, <1>3 DEF Checking

LEMMA AssertKeeps ==
  ASSUME Inv, assert_int_equal
  PROVE  Inv'
  <1>1. Returned /\ Running /\ UNCHANGED <<randoms, short, fails>>
    BY DEF assert_int_equal, Returned
  <1>2. /\ test \in 1 .. 16 /\ C!RingInv /\ P!IInv /\ ClientOK /\ RandomsOK
        /\ at \in 1 .. Len(Script) /\ Idle
        /\ \/ ~short /\ Asserted(Now) /\ FreesOnce /\ At(at + 1, live \ Range(Released))
           \/ ~Asserted(Now) /\ Released = <<>> /\ (short \/ SameContents)
    BY <1>1, ReturnedOf
  <1>3. ASSUME Asserted(Now), at' = at + 1, phase' = "call",
               live' = live \ Range(Released), UNCHANGED <<ringVars, listVars, test, failed>>
        PROVE  Inv'
    <2>1. ~short /\ At(at + 1, live \ Range(Released))
      BY <1>2, <1>3
    <2>2. PICK k : k = at + 1
      OBVIOUS
    <2>3. PICK L : L = live \ Range(Released)
      BY Zenon
    <2>4. At(k, L)'
      <3>1. At(k, L)
        BY <2>1, <2>2, <2>3
      <3>2. Unmoved /\ ll_out' = ll_out
        BY <1>3, PayloadCallStays
      <3>3. UNCHANGED <<test, randoms, ringVars, ll_out>>
        BY <1>1, <1>3, <3>2
      <3> QED
        BY <1>2, <3>1, <3>2, <3>3, AtSame
    <2>5. at' = k /\ live' = L
      BY <1>3, <2>2, <2>3
    <2>6. At(at, live)'
      BY <2>4, <2>5
    <2>7. C!RingInv' /\ P!IInv' /\ Idle'
      BY <1>2, <1>3, RingStutter, ListStutter DEF Idle, listVars
    <2>8. test' = test /\ UNCHANGED randoms /\ short' = short /\ fails' = fails
          /\ failed' = failed
      BY <1>1, <1>3
    <2>9. Script' = Script
      BY <2>8, SameScript
    <2>10. at' \in 1 .. Len(Script)' + 1
      <3>1. num_inserts \in Nat /\ num_removes \in Nat
        BY <1>2, RandomNumbers
      <3>2. Len(Script) \in Nat
        BY <1>2, <3>1, ScriptEnds
      <3>3. at' \in 1 .. Len(Script) + 1
        BY <1>2, <1>3, <3>2
      <3> QED
        BY <2>9, <3>3
    <2>11. RandomsOK'
      BY <1>2, <2>8 DEF RandomsOK, randoms, Enough, Size_
    <2>12. Calling'
      BY <2>1, <2>6, <2>7, <2>8, <2>10, <2>11 DEF Calling
    <2>13. TypeOK'
      <3>1. live \subseteq 1 .. MaxPayloads /\ at \in Nat \ {0}
        BY <1>2 DEF ClientOK, TypeOK
      <3>2. live' \subseteq 1 .. MaxPayloads
        BY <1>3, <3>1, Zenon
      <3>4. at' \in Nat \ {0}
        BY <1>3, <3>1
      <3>3. num_inserts' = num_inserts /\ num_removes' = num_removes
        BY <2>8 DEF randoms
      <3> QED
        BY <1>2, <1>3, <2>8, <3>2, <3>3, <3>4 DEF ClientOK, TypeOK, MaxPayloads
    <2>14. ClientOK'
      BY <1>2, <2>8, <2>13 DEF ClientOK
    <2>15. Running'
      BY <1>1, <2>8 DEF Running
    <2> QED
      BY <1>3, <2>7, <2>12, <2>14, <2>15 DEF Inv, ClientInv
  <1>4. ASSUME Fail, Abandon, live' = {}
        PROVE  Inv'
    <2>1. C!RingInv' /\ Unused'
      BY <1>2, <1>4, AbandonsRing
    <2>2. P!IInv' /\ Idle' /\ Apart'
      BY <1>2, <1>4, AbandonsList
    <2>3. Clean'
      BY <1>4, <2>1, <2>2 DEF Clean
    <2>4. NextTest /\ failed' \subseteq failed \cup {Suite[test]}
      BY <1>4 DEF Fail
    <2>5. ClientOK'
      <3>1. /\ num_inserts' = num_inserts /\ num_removes' = num_removes
            /\ num_inserts \in Drawn /\ num_removes \in 0 .. HALF_LIST_SIZE
            /\ short \in BOOLEAN
        BY <1>1, <1>2 DEF randoms, ClientOK, TypeOK, Drawn
      <3>2. live' \subseteq live
        BY <1>4
      <3> QED
        BY <1>1, <1>2, <2>4, <3>1, <3>2, TypesAfter
    <2> QED
      BY <2>1, <2>2, <2>3, <2>4, <2>5, Begins
  <1> QED
    BY <1>3, <1>4 DEF assert_int_equal

LEMMA InvInit == Init => Inv
  <1> SUFFICES ASSUME Init PROVE Inv
    OBVIOUS
  <1>1. /\ C!Init /\ P!Init
    BY RingSteps, ListCalls DEF Init
  <1>2. C!RingInv /\ P!IInv
    BY <1>1, RingAssumption, ListAssumption, C!RingInvInit, P!IInvInit
  <1>3. /\ test = 1 /\ at = 1 /\ phase = "setup" /\ num_inserts = 0 /\ num_removes = 0
        /\ live = {} /\ short = FALSE /\ fails = 0 /\ failed = {}
    BY DEF Init
  <1>4. Clean
    BY <1>1, <1>3 DEF C!Init, P!Init, Clean, Unused, Apart, Idle
  <1>5. TypeOK
    <2>1. test \in 1 .. Len(Suite) + 1 /\ at \in Nat \ {0}
      BY <1>3, Suites
    <2>2. num_inserts \in 0 .. HALF_LIST_SIZE - 1 /\ num_removes \in 0 .. HALF_LIST_SIZE
          /\ fails \in 0 .. MaxFails
      BY <1>3, SizesAreNumbers, UnitTestsAssumption
    <2>3. live \subseteq 1 .. MaxPayloads /\ failed \subseteq Range(Suite)
          /\ short \in BOOLEAN /\ phase \in {"setup", "call", "check"}
      BY <1>3, Zenon
    <2> QED
      BY <2>1, <2>2, <2>3 DEF TypeOK
  <1>6. ClientInv
    BY <1>3, <1>4, <1>5 DEF ClientInv, ClientOK
  <1> QED
    BY <1>2, <1>6 DEF Inv

LEMMA StutterKeeps ==
  ASSUME Inv, UNCHANGED vars
  PROVE  Inv'
  <1>1. /\ UNCHANGED ringVars /\ UNCHANGED listVars
        /\ UNCHANGED <<test, at, phase, randoms, live, short, fails, failed>>
    BY DEF vars, testVars
  <1>2. C!RingInv' /\ P!IInv'
    BY <1>1, RingStutter, ListStutter DEF Inv
  <1>3. Unmoved /\ ll_out' = ll_out /\ pc' = pc
    BY <1>1, PayloadCallStays
  <1>4. /\ test' = test /\ at' = at /\ phase' = phase /\ live' = live /\ short' = short
        /\ fails' = fails /\ failed' = failed
        /\ num_inserts' = num_inserts /\ num_removes' = num_removes
    BY <1>1 DEF randoms
  <1>5. ClientOK'
    BY <1>4 DEF Inv, ClientInv, ClientOK, TypeOK, MaxPayloads
  <1>6. CASE phase = "setup"
    <2>1. Clean /\ at = 1
      BY <1>6 DEF Inv, ClientInv
    <2>2. Clean'
      BY <1>1, <2>1, CleanStays
    <2> QED
      BY <1>2, <1>4, <1>5, <1>6, <2>1, <2>2 DEF Inv, ClientInv
  <1>7. CASE phase # "setup"
    <2>1. Running /\ test \in 1 .. 16
      BY <1>7, Suites DEF Inv, ClientInv, ClientOK, TypeOK, Running
    <2>2. /\ UNCHANGED <<test, at, randoms>> /\ UNCHANGED <<test, randoms, ringVars, ll_out>>
      BY <1>1, <1>3
    <2>3. Running' /\ Now' = Now /\ Script' = Script /\ Idle' = Idle
      BY <1>3, <1>4, <2>1, <2>2, SameNow DEF Running, Idle
    <2>4. RandomsOK => RandomsOK'
      BY <1>1, <1>4 DEF RandomsOK, randoms, Enough, Size_
    <2>5. \A k, L : At(k, L) => At(k, L)'
      BY <1>3, <2>1, <2>2, AtSame
    <2>6. ASSUME phase = "call" PROVE Calling'
      <3>1. Calling
        BY <2>6 DEF Inv, ClientInv
      <3>2. At(at, live)'
        BY <1>4, <2>5, <3>1 DEF Calling
      <3> QED
        BY <1>4, <2>3, <2>4, <3>1, <3>2 DEF Calling
    <2>7. ASSUME phase = "check" PROVE Checking'
      <3>1. Checking
        BY <2>7 DEF Inv, ClientInv
      <3>2. /\ ll_status' = ll_status /\ status' = status /\ out' = out
            /\ item' = item /\ index' = index /\ vals' = vals
        BY <1>1 DEF listVars, ringVars, randoms
      <3>3. Underway(Now) => Underway(Now)'
        BY <1>1, <1>3, <2>3, <3>2 DEF Underway, Payload
      <3>4. Asserted(Now)' <=> Asserted(Now)
        BY <1>3, <1>4, <2>3, <3>2 DEF Asserted
      <3>5. Released' = Released
        BY <1>3, <2>3, <3>2, SameReleased
      <3>6. FreesOnce => FreesOnce'
        BY <1>4, <3>5 DEF FreesOnce
      <3>7. At(at, live) => At(at, live)'
        BY <1>4, <2>5
      <3>8. At(at + 1, live \ Range(Released)) => At(at + 1, live \ Range(Released))'
        BY <1>4, <2>5, <3>5
      <3>9. SameContents => SameContents'
        BY <1>4, <3>2, ContentsStay
      <3> QED
        BY <1>4, <2>3, <2>4, <3>1, <3>3, <3>4, <3>5, <3>6, <3>7, <3>8, <3>9 DEF Checking
    <2> QED
      BY <1>2, <1>4, <1>5, <1>7, <2>3, <2>6, <2>7 DEF Inv, ClientInv
  <1> QED
    BY <1>6, <1>7

LEMMA InvNext ==
  ASSUME Inv, [Next]_vars
  PROVE  Inv'
  <1>1. CASE Setup
    BY <1>1, SetupKeeps
  <1>2. CASE Call
    BY <1>2, CallKeeps
  <1>3. CASE Walk
    BY <1>3, WalkKeeps
  <1>4. CASE assert_int_equal
    BY <1>4, AssertKeeps
  <1>5. CASE EndTest
    BY <1>5, EndTestKeeps
  <1>6. CASE Returns
    BY <1>6, StutterKeeps DEF Returns
  <1>7. CASE UNCHANGED vars
    BY <1>7, StutterKeeps
  <1> QED
    BY <1>1, <1>2, <1>3, <1>4, <1>5, <1>6, <1>7 DEF Next

(* Before and after every call of every test, the ring and the list hold    *)
(* what the script has made of them.                                       *)
THEOREM Invariance == Spec => []Inv
  <1>1. Inv /\ [Next]_vars => Inv'
    BY InvNext
  <1> QED
    BY <1>1, InvInit, PTL DEF Spec
----------------------------------------------------------------------------
(* The properties.                                                         *)

(* A test that is abandoned had not failed before: its name is new.        *)
LEMMA NameIsNew ==
  ASSUME test \in 1 .. 16, ClientOK
  PROVE  Suite[test] \notin failed
  <1>1. failed \subseteq {Suite[i] : i \in 1 .. test - 1}
    BY DEF ClientOK
  <1>2. \A i \in 1 .. test - 1 : i \in 1 .. 16 /\ i # test
    OBVIOUS
  <1>3. \A i \in 1 .. test - 1 : Suite[i] # Suite[test]
    BY <1>2, SuiteIsInjective
  <1> QED
    BY <1>1, <1>3

(* What a test that ends found and left. *)
LEMMA EndOf ==
  ASSUME Inv, EndTest
  PROVE  /\ live = {} /\ heap = {} /\ handle # "live" /\ failed' = failed
         /\ ~short /\ ~SameContents
         /\ ~(Suite[test] = "ll_size" /\ num_inserts' = 0)
  <1>1. /\ Running /\ phase = "call" /\ at > Len(Script) /\ NextTest
        /\ UNCHANGED <<ringVars, listVars, randoms, live, short, fails, failed>>
    BY DEF EndTest
  <1>2. test \in 1 .. 16 /\ P!IInv /\ Calling
    BY <1>1, TestOf
  <1>3. RandomsOK /\ ~short /\ Idle /\ at \in 1 .. Len(Script) + 1 /\ At(at, live)
    BY <1>2 DEF Calling
  <1>4. /\ num_inserts \in Nat /\ num_removes \in Nat
        /\ test \in {13, 15, 16} => num_inserts > 0
    BY <1>2, <1>3, RandomNumbers
  <1>5. Len(Script) \in Nat
    BY <1>2, <1>4, ScriptEnds
  <1>6. at = Len(Script) + 1
    BY <1>1, <1>3, <1>5
  <1>7. Unused /\ Apart /\ live = {}
    BY <1>2, <1>3, <1>4, <1>6, LastPlace
  <1>8. heap = {}
    <2>1. chain = <<>>
      BY <1>2, <1>3, <1>7 DEF P!IInv, P!HeadOK, Idle, Apart
    <2>2. heap = {chain[p] : p \in 1 .. Len(chain)}
      BY <1>2 DEF P!IInv, P!LinksOK, P!Elements
    <2>3. 1 .. Len(<<>>) = {}
      OBVIOUS
    <2> QED
      BY <2>1, <2>2, <2>3
  <1>9. ~SameContents
    BY <1>1, OnlyWhenChecked
  <1>10. ~(Suite[test] = "ll_size" /\ num_inserts' = 0)
    <2>1. Suite[test] = "ll_size" => test = 16
      BY <1>2, Suites, SuiteIsInjective
    <2>2. num_inserts' = num_inserts
      BY <1>1 DEF randoms
    <2> QED
      BY <1>4, <2>1, <2>2
  <1> QED
    BY <1>1, <1>3, <1>7, <1>8, <1>9, <1>10 DEF Unused

(* Only three steps end a test. *)
LEMMA EndsOfATest ==
  ASSUME Inv, [Next]_vars, test' # test
  PROVE  \/ EndTest
         \/ /\ Running /\ Suite[test] = "ll_size" /\ num_inserts' = 0 /\ Fail
         \/ /\ Returned /\ ~Asserted(Now) /\ Fail /\ UNCHANGED <<randoms, short>>
  <1>1. CASE Setup
    BY <1>1 DEF Setup, Draw
  <1>2. CASE assert_int_equal
    BY <1>2 DEF assert_int_equal
  <1> QED
    BY <1>1, <1>2 DEF Next, Call, Walk, Returns, vars, testVars

LEMMA TestsPassStep ==
  ASSUME Inv, [Next]_vars, test' # test
  PROVE  failed' # failed
           <=> short \/ SameContents \/ (Suite[test] = "ll_size" /\ num_inserts' = 0)
  <1>1. CASE EndTest
    BY <1>1, EndOf
  <1>2. CASE Running /\ Fail
    <2>1. test \in 1 .. 16 /\ ClientOK
      BY <1>2, TestOf
    <2>2. failed' # failed
      BY <1>2, <2>1, NameIsNew DEF Fail
    <2>3. CASE Suite[test] = "ll_size" /\ num_inserts' = 0
      BY <2>2, <2>3
    <2>4. CASE Returned /\ ~Asserted(Now)
      <3>1. short \/ SameContents
        BY <2>4, ReturnedOf
      <3> QED
        BY <2>2, <3>1
    <2>5. CASE EndTest
      BY <2>5, <1>1
    <2> QED
      BY <2>3, <2>4, <2>5, EndsOfATest
  <1> QED
    BY <1>1, <1>2, EndsOfATest DEF Returned

LEMMA LeavesNothingStep ==
  ASSUME Inv, [Next]_vars, test' # test, failed' = failed
  PROVE  live = {} /\ heap = {} /\ handle # "live"
  <1>1. CASE EndTest
    BY <1>1, EndOf
  <1>2. CASE Running /\ Fail
    <2>1. test \in 1 .. 16 /\ ClientOK
      BY <1>2, TestOf
    <2>2. failed' # failed
      BY <1>2, <2>1, NameIsNew DEF Fail
    <2> QED
      BY <2>2
  <1> QED
    BY <1>1, <1>2, EndsOfATest DEF Returned

LEMMA InvFreesOnce ==
  ASSUME Inv
  PROVE  FreedOnce
  <1>1. SUFFICES ASSUME Returned
                 PROVE  IsInjective(Released) /\ Range(Released) \subseteq live
    BY DEF FreedOnce
  <1>2. FreesOnce \/ Released = <<>>
    BY <1>1, ReturnedOf
  <1>3. CASE FreesOnce
    BY <1>3 DEF FreesOnce
  <1>4. CASE Released = <<>>
    BY <1>4 DEF IsInjective, Range
  <1> QED
    BY <1>2, <1>3, <1>4

LEMMA InvIsSafe ==
  ASSUME Inv
  PROVE  pc # "crashed"
  <1>1. CASE phase = "setup"
    BY <1>1 DEF Inv, ClientInv, Clean, Idle
  <1>2. CASE phase = "call"
    BY <1>2 DEF Inv, ClientInv, Calling, Idle
  <1>3. CASE phase = "check"
    BY <1>3 DEF Inv, ClientInv, Checking, Underway, Idle
  <1> QED
    BY <1>1, <1>2, <1>3 DEF Inv, ClientInv, ClientOK, TypeOK

(* The client's own state is well typed: the running test and its place,    *)
(* the numbers drawn, and the payloads malloc'ed and not yet freed.         *)
THEOREM TypeCorrect == Spec => []TypeOK
  <1>1. Inv => TypeOK
    BY DEF Inv, ClientInv, ClientOK
  <1> QED
    BY <1>1, Invariance, PTL

(* What ll_destroy or a test passes to free() was malloc'ed, is not freed   *)
(* yet, and is passed once, whatever was removed before and in which order. *)
THEOREM FreedOnceEach == Spec => []FreedOnce
  <1>1. Inv => FreedOnce
    BY InvFreesOnce
  <1> QED
    BY <1>1, Invariance, PTL

(* A test fails because an allocation failed, because two payloads of       *)
(* test_ll_search are alike, or because test_ll_size divides by 0, and for  *)
(* no other reason: circbuf.c and linkedlist.c answer every call of every   *)
(* test as it asserts, for every length of the ring and of the list and     *)
(* whatever the tests draw.                                                *)
THEOREM TestsDoPass == Spec => TestsPass
  <1>1. Inv /\ [Next]_vars
          => [test' # test =>
                (failed' # failed
                   <=> short \/ SameContents
                         \/ (Suite[test] = "ll_size" /\ num_inserts' = 0))]_vars
    BY TestsPassStep
  <1> QED
    BY <1>1, Invariance, PTL DEF Spec, TestsPass

(* A test that passes has freed its payloads, its nodes and its ring.       *)
THEOREM NothingLeft == Spec => PassedTestsLeaveNothing
  <1>1. Inv /\ [Next]_vars
          => [test' # test /\ failed' = failed
                => live = {} /\ heap = {} /\ handle # "live"]_vars
    BY LeavesNothingStep
  <1> QED
    BY <1>1, Invariance, PTL DEF Spec, PassedTestsLeaveNothing

(* The tests are legal clients: at every step, also of a call, the ring and *)
(* the list are as their own invariants say, though a test takes them away  *)
(* from the one before, and no call dereferences a NULL head.               *)
THEOREM ContainersStaySound ==
  Spec => [](/\ CB!HeadFollowsTail /\ CB!ItemsAreStored
             /\ LL!ListIsLinked /\ LL!NothingLeaksOrDangles /\ pc # "crashed")
  <1>1. Inv => /\ CB!HeadFollowsTail /\ CB!ItemsAreStored
               /\ LL!ListIsLinked /\ LL!NothingLeaksOrDangles /\ pc # "crashed"
    <2> SUFFICES ASSUME Inv
                 PROVE  /\ CB!HeadFollowsTail /\ CB!ItemsAreStored
                        /\ LL!ListIsLinked /\ LL!NothingLeaksOrDangles
                        /\ pc # "crashed"
      OBVIOUS
    <2>1. C!RingInv /\ P!IInv
      BY DEF Inv
    <2>2. C!HeadFollowsTail /\ C!ItemsAreStored
      BY <2>1 DEF C!RingInv
    <2>3. P!ListIsLinked /\ P!NothingLeaksOrDangles
      BY <2>1, ListAssumption, P!InvImplies
    <2>4. CB!HeadFollowsTail /\ CB!ItemsAreStored
      BY <2>2 DEF C!HeadFollowsTail, CB!HeadFollowsTail, C!ItemsAreStored, CB!ItemsAreStored,
           C!InUse, CB!InUse, C!PeekSlot, CB!PeekSlot
    <2>5. LL!ListIsLinked /\ LL!NothingLeaksOrDangles
      BY <2>3 DEF P!ListIsLinked, LL!ListIsLinked, P!NothingLeaksOrDangles,
           LL!NothingLeaksOrDangles, P!Walks, LL!Walks
    <2> QED
      BY <2>4, <2>5, InvIsSafe
  <1> QED
    BY <1>1, Invariance, PTL
=============================================================================
