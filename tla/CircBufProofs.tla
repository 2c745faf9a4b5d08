---------------------------- MODULE CircBufProofs ----------------------------
(***************************************************************************)
(* Proofs about circbuf.c, for rings of every length and every payload: the *)
(* pointers stay inside the buffer, head and tail stay in step, only stored *)
(* payloads are handed out, and the ring implements the queue of Fifo.      *)
(***************************************************************************)
EXTENDS CircBuf, SequenceTheorems, TLAPS

(* The inductive invariant.  No conjunct is inductive alone: that the next  *)
(* slot written is inside the buffer and is the one after the newest item   *)
(* needs to know where head is with respect to tail.                        *)
RingInv == TypeOK /\ HeadFollowsTail /\ ItemsAreStored

USE CircBufAssumption
----------------------------------------------------------------------------
(* Slots.                                                                   *)

(* circbuf_peek's slot for the index of an item is inside the buffer. *)
LEMMA PeekSlotInside ==
  ASSUME TypeOK, InUse, NEW i \in 0 .. length - 1
  PROVE  PeekSlot(i) \in 0 .. length - 1
  BY DEF TypeOK, PeekSlot, InUse

(* Two items never share a slot. *)
LEMMA PeekSlotInjective ==
  ASSUME TypeOK, InUse,
         NEW i \in 0 .. length - 1, NEW j \in 0 .. length - 1, i # j
  PROVE  PeekSlot(i) # PeekSlot(j)
  BY DEF TypeOK, PeekSlot, InUse

(* circbuf_add_item writes in the slot after the newest item. *)
LEMMA NextHeadIsFree ==
  ASSUME TypeOK, HeadFollowsTail, InUse, ~IsFull
  PROVE  NextHead = PeekSlot(count)
  BY DEF TypeOK, HeadFollowsTail, PeekSlot, NextHead, IsFull, InUse

(* The items form a sequence of stored payloads. *)
LEMMA ItemsType ==
  ASSUME RingInv, InUse
  PROVE  Items \in Seq(Payloads) /\ Len(Items) = count
  <1>1. count \in Nat
    BY DEF RingInv, TypeOK
  <1>2. \A i \in 1 .. count : buffer[PeekSlot(i - 1)] \in Payloads
    BY <1>1 DEF RingInv, ItemsAreStored
  <1> QED
    BY <1>1, <1>2 DEF Items

(* The memset leaves a buffer of cells, whatever the size of a pointer. *)
LEMMA FreshBufferType ==
  ASSUME NEW n \in Nat \ {0}
  PROVE  FreshBuffer(n) \in [0 .. n - 1 -> Cells]
  <1> DEFINE c(k) == IF k < n \div PtrBytes THEN NULL ELSE Garbage
  <1>1. \A k \in 0 .. n - 1 : c(k) \in Cells
    BY DEF Cells
  <1> HIDE DEF c
  <1>2. [k \in 0 .. n - 1 |-> c(k)] \in [0 .. n - 1 -> Cells]
    BY <1>1
  <1> QED
    BY <1>2 DEF FreshBuffer, c
----------------------------------------------------------------------------
(* The inductive invariant.                                                *)

LEMMA RingInvInit == Init => RingInv
  BY DEF Init, RingInv, TypeOK, HeadFollowsTail, ItemsAreStored, InUse,
         Handles, Codes

(* Replies are codes and sequences of cells. *)
LEMMA ReplyType ==
  ASSUME NEW code \in Codes, NEW given \in Seq(Cells), Reply(code, given)
  PROVE  status' \in Codes /\ out' \in Seq(Cells)
  BY DEF Reply

LEMMA ReplyCodes ==
  /\ {"NO_ERROR", "FULL", "EMPTY", "NULL_POINTER"} \subseteq Codes
  /\ {"NO_LENGTH", "ALLOC_FAILURE", "FAILURE", "BAD_INDEX"} \subseteq Codes
  BY DEF Codes

LEMMA RefuseKeepsInv ==
  ASSUME RingInv, NEW code \in Codes, Refuse(code)
  PROVE  RingInv'
  BY DEF Refuse, Reply, ring, RingInv, TypeOK, HeadFollowsTail,
         ItemsAreStored, InUse, PeekSlot

LEMMA InitKeepsInv ==
  ASSUME RingInv, NEW n \in 0 .. MaxLength, circbuf_init(n)
  PROVE  RingInv'
  <1>1. CASE InitNull \/ InitNoLength(n)
    BY <1>1, RefuseKeepsInv DEF InitNull, InitNoLength, Codes
  <1>2. CASE InitNoStruct(n) \/ InitNoBuffer(n)
    <2>1. ~InUse' /\ handle' \in Handles
      BY <1>2 DEF InitNoStruct, InitNoBuffer, InUse, Handles
    <2>2. head' \in Nat /\ tail' \in Nat /\ freed' \in Seq(Cells)
      BY <1>2 DEF InitNoStruct, InitNoBuffer, RingInv, TypeOK
    <2>3. status' \in Codes /\ out' \in Seq(Cells)
      <3>1. Reply("ALLOC_FAILURE", <<>>)
        BY <1>2 DEF InitNoStruct, InitNoBuffer
      <3>2. "ALLOC_FAILURE" \in Codes /\ <<>> \in Seq(Cells)
        BY ReplyCodes
      <3> QED
        BY <3>1, <3>2, ReplyType
    <2>4. count' \in Nat /\ length' \in 0 .. MaxLength
      BY <1>2 DEF InitNoStruct, InitNoBuffer, RingInv, TypeOK
    <2>5. TypeOK'
      BY <2>1, <2>2, <2>3, <2>4 DEF TypeOK
    <2> QED
      BY <2>1, <2>5 DEF RingInv, HeadFollowsTail, ItemsAreStored
  <1>3. CASE InitOk(n)
    <2>1. FreshBuffer(n) \in [0 .. n - 1 -> Cells]
      BY <1>3, FreshBufferType DEF InitOk
    <2> QED
      BY <1>3, <2>1 DEF InitOk, Reply, RingInv, TypeOK, HeadFollowsTail,
                        ItemsAreStored, InUse, Handles, Codes, PeekSlot
  <1> QED
    BY <1>1, <1>2, <1>3 DEF circbuf_init

(* The slots of the items already there are read unchanged after a store. *)
LEMMA StoreKeepsInv ==
  ASSUME RingInv, NEW x \in Payloads, handle = "live", ~IsFull, Store(x),
         Reply("NO_ERROR", <<>>), UNCHANGED <<handle, tail, length, freed>>
  PROVE  RingInv'
  <1> USE DEF RingInv
  <1>1. InUse /\ InUse'
    BY DEF InUse
  <1>2. count < length /\ count \in Nat /\ length \in Nat /\ count' = count + 1
    BY <1>1 DEF IsFull, Store, TypeOK
  <1>3. NextHead = PeekSlot(count) /\ PeekSlot(count) \in 0 .. length - 1
    BY <1>1, <1>2, NextHeadIsFree, PeekSlotInside
  <1>4. \A i \in 0 .. count : PeekSlot(i)' = PeekSlot(i)
    BY DEF PeekSlot
  <1>5. TypeOK'
    BY <1>1, <1>2, <1>3 DEF TypeOK, Store, Reply, Cells, Codes
  <1>6. HeadFollowsTail'
    BY <1>2, <1>3, <1>4 DEF HeadFollowsTail, Store, PeekSlot
  <1>7. ItemsAreStored'
    <2>1. \A i \in 0 .. count : buffer'[PeekSlot(i)] \in Payloads
      <3> TAKE i \in 0 .. count
      <3>1. CASE i = count
        BY <3>1, <1>1, <1>3 DEF Store, TypeOK
      <3>2. CASE i # count
        <4>1. PeekSlot(i) # PeekSlot(count) /\ PeekSlot(i) \in 0 .. length - 1
          BY <3>2, <1>1, <1>2, PeekSlotInjective, PeekSlotInside
        <4>2. buffer[PeekSlot(i)] \in Payloads
          BY <3>2, <1>1, <1>2 DEF ItemsAreStored
        <4> QED
          BY <4>1, <4>2, <1>1, <1>3 DEF Store, TypeOK
      <3> QED
        BY <3>1, <3>2
    <2> QED
      BY <2>1, <1>1, <1>2, <1>4 DEF ItemsAreStored
  <1> QED
    BY <1>5, <1>6, <1>7

(* Taking the front moves every remaining item one place up. *)
LEMMA TakeFrontShifts ==
  ASSUME RingInv, InUse, count # 0, TakeFront, UNCHANGED <<buffer, head, length>>
  PROVE  /\ Front \in Payloads /\ Front = buffer[PeekSlot(0)]
         /\ count \in Nat \ {0} /\ count' = count - 1
         /\ tail' \in 0 .. length - 1
         /\ \A i \in 0 .. count - 2 : PeekSlot(i)' = PeekSlot(i + 1)
         /\ HeadFollowsTail'
  <1> USE DEF RingInv
  <1>1. count \in Nat \ {0} /\ count' = count - 1
    BY DEF TypeOK, TakeFront
  <1>2. PeekSlot(0) = tail
    BY DEF PeekSlot, TypeOK
  <1>3. Front \in Payloads /\ Front = buffer[PeekSlot(0)]
    BY <1>1, <1>2 DEF Front, ItemsAreStored
  <1>4. tail' \in 0 .. length - 1
    BY <1>1 DEF TakeFront, NextTail, TypeOK
  <1>5. \A i \in 0 .. count - 2 : PeekSlot(i)' = PeekSlot(i + 1)
    BY <1>1 DEF TakeFront, NextTail, PeekSlot, TypeOK
  <1>6. HeadFollowsTail'
    BY <1>1 DEF TakeFront, NextTail, PeekSlot, TypeOK, HeadFollowsTail
  <1> QED
    BY <1>1, <1>3, <1>4, <1>5, <1>6

LEMMA RemoveKeepsInv ==
  ASSUME RingInv, NEW dst \in BOOLEAN, circbuf_remove_item(dst)
  PROVE  RingInv'
  <1>1. CASE Refuse("NULL_POINTER") \/ Refuse("EMPTY")
    BY <1>1, RefuseKeepsInv DEF Codes
  <1>2. CASE /\ handle = "live" /\ dst /\ count # 0
             /\ TakeFront
             /\ Reply("NO_ERROR", <<Front>>)
             /\ UNCHANGED <<handle, buffer, head, length, freed>>
    <2>1. InUse /\ InUse'
      BY <1>2 DEF InUse
    <2>2. /\ Front \in Payloads
          /\ count \in Nat \ {0} /\ count' = count - 1
          /\ tail' \in 0 .. length - 1
          /\ \A i \in 0 .. count - 2 : PeekSlot(i)' = PeekSlot(i + 1)
          /\ HeadFollowsTail'
      BY <1>2, <2>1, TakeFrontShifts
    <2>3. status' \in Codes /\ out' \in Seq(Cells)
      BY <1>2, <2>2, ReplyType, ReplyCodes DEF Cells
    <2>4. TypeOK'
      BY <1>2, <2>1, <2>2, <2>3 DEF RingInv, TypeOK
    <2>5. ItemsAreStored'
      BY <1>2, <2>1, <2>2 DEF RingInv, ItemsAreStored
    <2> QED
      BY <2>2, <2>4, <2>5 DEF RingInv
  <1> QED
    BY <1>1, <1>2 DEF circbuf_remove_item

LEMMA PeekKeepsInv ==
  ASSUME RingInv, NEW i \in Indexes, circbuf_peek(i)
  PROVE  RingInv'
  <1>1. CASE NoBuffer \/ ~PeekInRange(i)
    BY <1>1, RefuseKeepsInv DEF circbuf_peek, Refuse, NoBuffer, Codes
  <1>2. CASE handle = "live" /\ PeekInRange(i)
    <2>1. InUse /\ ~NoBuffer
      BY <1>2 DEF InUse, NoBuffer
    <2>2. PeekSlot(i) \in 0 .. length - 1
      BY <1>2, <2>1 DEF RingInv, TypeOK, PeekSlot, PeekInRange, Indexes
    <2>3. buffer[PeekSlot(i)] \in Cells
      BY <2>1, <2>2 DEF RingInv, TypeOK
    <2>4. status' \in Codes /\ out' \in Seq(Cells)
      <3>1. Reply("NO_ERROR", <<buffer[PeekSlot(i)]>>)
        BY <1>2, <2>1 DEF circbuf_peek
      <3>2. "NO_ERROR" \in Codes /\ <<buffer[PeekSlot(i)]>> \in Seq(Cells)
        BY <2>3, ReplyCodes
      <3> QED
        BY <3>1, <3>2, ReplyType
    <2>5. UNCHANGED ring
      BY DEF circbuf_peek
    <2> QED
      BY <2>4, <2>5 DEF ring, RingInv, TypeOK, HeadFollowsTail,
                        ItemsAreStored, InUse, PeekSlot
  <1> QED
    BY <1>1, <1>2 DEF circbuf_peek

LEMMA QueryKeepsInv ==
  ASSUME RingInv, circbuf_dump \/ circbuf_full \/ circbuf_empty
  PROVE  RingInv'
  <1>1. CASE circbuf_full \/ circbuf_empty
    BY <1>1, RefuseKeepsInv DEF circbuf_full, circbuf_empty, Codes
  <1>2. CASE circbuf_dump
    <2>1. CASE NoBuffer
      BY <1>2, <2>1, RefuseKeepsInv DEF circbuf_dump, Refuse, NoBuffer, Codes
    <2>2. CASE handle = "live"
      <3>1. InUse /\ ~NoBuffer
        BY <2>2 DEF InUse, NoBuffer
      <3>2. Items \in Seq(Cells)
        BY <3>1, ItemsType DEF Cells
      <3>3. status' \in Codes /\ out' \in Seq(Cells)
        BY <1>2, <3>1, <3>2, ReplyType, ReplyCodes DEF circbuf_dump
      <3>4. UNCHANGED ring
        BY <1>2 DEF circbuf_dump
      <3> QED
        BY <3>3, <3>4 DEF ring, RingInv, TypeOK, HeadFollowsTail,
                          ItemsAreStored, InUse, PeekSlot
    <2> QED
      BY <1>2, <2>1, <2>2 DEF circbuf_dump
  <1> QED
    BY <1>1, <1>2

LEMMA ReleaseKeepsInv ==
  ASSUME RingInv, Release, NEW given \in Seq(Cells), Reply("NO_ERROR", given)
  PROVE  RingInv'
  <1>1. ~InUse' /\ handle' \in Handles
    BY DEF Release, InUse, Handles
  <1>2. status' \in Codes /\ out' \in Seq(Cells)
    BY ReplyType, ReplyCodes
  <1>3. /\ head' \in Nat /\ tail' \in Nat /\ count' \in Nat
        /\ length' \in 0 .. MaxLength /\ freed' \in Seq(Cells)
    BY DEF Release
  <1>4. TypeOK'
    BY <1>1, <1>2, <1>3 DEF TypeOK
  <1> QED
    BY <1>1, <1>4 DEF RingInv, HeadFollowsTail, ItemsAreStored

LEMMA DestroyKeepsInv ==
  ASSUME RingInv, circbuf_destroy
  PROVE  RingInv'
  <1>1. CASE Refuse("NULL_POINTER")
    BY <1>1, RefuseKeepsInv, ReplyCodes
  <1>2. CASE Release /\ Reply("NO_ERROR", <<>>)
    <2>1. <<>> \in Seq(Cells)
      OBVIOUS
    <2> QED
      BY <1>2, <2>1, ReleaseKeepsInv
  <1> QED
    BY <1>1, <1>2 DEF circbuf_destroy

LEMMA DestroyFreeKeepsInv ==
  ASSUME RingInv, circbuf_destroy_free
  PROVE  RingInv'
  <1>1. CASE DestroyFreeStart
    <2>1. CASE Refuse("NULL_POINTER")
      BY <2>1, RefuseKeepsInv, ReplyCodes
    <2>2. CASE /\ handle = "live"
               /\ handle' = "draining"
               /\ freed' = <<>>
               /\ UNCHANGED <<buffer, head, tail, count, length, asked, status, out>>
      <3>1. InUse /\ InUse' /\ handle' \in Handles
        BY <2>2 DEF InUse, Handles
      <3> QED
        BY <2>2, <3>1 DEF RingInv, TypeOK, HeadFollowsTail, ItemsAreStored,
                          PeekSlot
    <2> QED
      BY <1>1, <2>1, <2>2 DEF DestroyFreeStart
  <1>2. CASE DestroyFreeItem
    <2>1. InUse /\ InUse'
      BY <1>2 DEF DestroyFreeItem, InUse
    <2>2. /\ Front \in Payloads
          /\ count \in Nat \ {0} /\ count' = count - 1
          /\ tail' \in 0 .. length - 1
          /\ \A i \in 0 .. count - 2 : PeekSlot(i)' = PeekSlot(i + 1)
          /\ HeadFollowsTail'
      BY <1>2, <2>1, TakeFrontShifts DEF DestroyFreeItem
    <2>3. freed \in Seq(Cells) /\ Front \in Cells /\ freed' = Append(freed, Front)
      BY <1>2, <2>2 DEF DestroyFreeItem, RingInv, TypeOK, Cells
    <2>4. freed' \in Seq(Cells)
      BY <2>3
    <2>5. TypeOK'
      BY <1>2, <2>1, <2>2, <2>4 DEF DestroyFreeItem, RingInv, TypeOK
    <2>6. \A i \in 1 .. Len(freed') : freed'[i] \in Payloads
      BY <2>1, <2>2, <2>3 DEF RingInv, ItemsAreStored
    <2>7. ItemsAreStored'
      BY <1>2, <2>1, <2>2, <2>6 DEF DestroyFreeItem, RingInv, ItemsAreStored
    <2> QED
      BY <2>2, <2>5, <2>7 DEF RingInv
  <1>3. CASE DestroyFreeEnd
    BY <1>3, ReleaseKeepsInv DEF DestroyFreeEnd, RingInv, TypeOK
  <1> QED
    BY <1>1, <1>2, <1>3 DEF circbuf_destroy_free

LEMMA NullBufferKeepsInv ==
  ASSUME RingInv, circbuf_null_buffer
  PROVE  RingInv'
  <1>1. CASE Refuse("NULL_POINTER")
    BY <1>1, RefuseKeepsInv, ReplyCodes
  <1>2. CASE /\ handle \in {"nobuf", "live"}
             /\ handle' = "nobuf" /\ buffer' = <<>>
             /\ Reply("NO_ERROR", <<>>)
             /\ UNCHANGED <<head, tail, count, length, freed>>
    <2>1. ~InUse' /\ handle' \in Handles
      BY <1>2 DEF InUse, Handles
    <2>2. status' \in Codes /\ out' \in Seq(Cells)
      <3>1. <<>> \in Seq(Cells) /\ "NO_ERROR" \in Codes
        BY ReplyCodes
      <3> QED
        BY <1>2, <3>1, ReplyType
    <2>3. TypeOK'
      BY <1>2, <2>1, <2>2 DEF RingInv, TypeOK
    <2> QED
      BY <2>1, <2>3 DEF RingInv, HeadFollowsTail, ItemsAreStored
  <1> QED
    BY <1>1, <1>2 DEF circbuf_null_buffer

LEMMA StutterKeepsInv ==
  ASSUME RingInv, UNCHANGED vars
  PROVE  RingInv'
  BY DEF vars, RingInv, TypeOK, HeadFollowsTail, ItemsAreStored, InUse, PeekSlot

LEMMA AddKeepsInv ==
  ASSUME RingInv, NEW x \in Payloads, circbuf_add_item(x)
  PROVE  RingInv'
  BY RefuseKeepsInv, StoreKeepsInv, ReplyCodes DEF circbuf_add_item

LEMMA RingInvNext ==
  ASSUME RingInv, [Next]_vars
  PROVE  RingInv'
  <1>1. ASSUME NEW n \in 0 .. MaxLength, circbuf_init(n) PROVE RingInv'
    BY <1>1, InitKeepsInv
  <1>2. ASSUME NEW x \in Payloads, circbuf_add_item(x) PROVE RingInv'
    BY <1>2, AddKeepsInv
  <1>3. ASSUME NEW dst \in BOOLEAN, circbuf_remove_item(dst) PROVE RingInv'
    BY <1>3, RemoveKeepsInv
  <1>4. ASSUME NEW i \in Indexes, circbuf_peek(i) PROVE RingInv'
    BY <1>4, PeekKeepsInv
  <1>5. CASE circbuf_dump \/ circbuf_full \/ circbuf_empty
    BY <1>5, QueryKeepsInv
  <1>6. CASE circbuf_destroy
    BY <1>6, DestroyKeepsInv
  <1>7. CASE circbuf_destroy_free
    BY <1>7, DestroyFreeKeepsInv
  <1>8. CASE circbuf_null_buffer
    BY <1>8, NullBufferKeepsInv
  <1>9. CASE UNCHANGED vars
    BY <1>9, StutterKeepsInv
  <1> QED
    BY <1>1, <1>2, <1>3, <1>4, <1>5, <1>6, <1>7, <1>8, <1>9 DEF Next

(* The inductive invariant holds in every reachable state. *)
THEOREM RingInvariant == Spec => []RingInv
  <1>1. Init => RingInv
    BY RingInvInit
  <1>2. RingInv /\ [Next]_vars => RingInv'
    BY RingInvNext
  <1> QED
    BY <1>1, <1>2, PTL DEF Spec

(* No call follows a pointer out of the internal buffer of circbuf.c, for   *)
(* any length.                                                              *)
THEOREM TypeCorrect == Spec => []TypeOK
  <1>1. RingInv => TypeOK
    BY DEF RingInv
  <1> QED
    BY <1>1, RingInvariant, PTL

(* The conditional increments of circbuf_add_item and circbuf_remove_item   *)
(* keep head on the newest item whatever the order of the calls.            *)
THEOREM HeadTailAgree == Spec => []HeadFollowsTail
  <1>1. RingInv => HeadFollowsTail
    BY DEF RingInv
  <1> QED
    BY <1>1, RingInvariant, PTL

(* Only pointers the caller stored are handed out by circbuf_remove_item or *)
(* freed by circbuf_destroy_free.                                           *)
THEOREM OnlyStoredItems == Spec => []ItemsAreStored
  <1>1. RingInv => ItemsAreStored
    BY DEF RingInv
  <1> QED
    BY <1>1, RingInvariant, PTL
----------------------------------------------------------------------------
(* The ring implements the queue.                                          *)

(* What Items holds, as a fact rather than as its definition. *)
LEMMA ItemAt ==
  ASSUME RingInv, InUse
  PROVE  /\ Items \in Seq(Payloads) /\ Len(Items) = count
         /\ \A i \in 1 .. count : Items[i] = buffer[PeekSlot(i - 1)]
  BY ItemsType DEF Items

LEMMA StoreAppends ==
  ASSUME RingInv, RingInv', NEW x \in Payloads, handle = "live", ~IsFull,
         Store(x), UNCHANGED <<handle, tail, length, freed>>
  PROVE  Items' = Append(Items, x) /\ count < length
  <1>1. InUse /\ InUse'
    BY DEF InUse
  <1>2. /\ count < length /\ count \in Nat /\ length \in Nat
        /\ count' = count + 1
    BY <1>1 DEF IsFull, Store, RingInv, TypeOK
  <1>3. /\ Items \in Seq(Payloads) /\ Len(Items) = count
        /\ \A i \in 1 .. count : Items[i] = buffer[PeekSlot(i - 1)]
    BY <1>1, ItemAt
  <1>4. /\ Items' \in Seq(Payloads) /\ Len(Items') = count + 1
        /\ \A i \in 1 .. count + 1 : Items'[i] = buffer'[PeekSlot(i - 1)]
    <2>1. \A i \in Nat : PeekSlot(i)' = PeekSlot(i)
      BY DEF PeekSlot
    <2>2. \A i \in 1 .. count + 1 : buffer'[PeekSlot(i - 1)] \in Payloads
      <3>1. \A i \in 0 .. count : buffer'[PeekSlot(i)] \in Payloads
        BY <1>1, <1>2, <2>1 DEF RingInv, ItemsAreStored
      <3>2. \A i \in 1 .. count + 1 : i - 1 \in 0 .. count
        BY <1>2
      <3> QED
        BY <3>1, <3>2
    <2>3. Items' = [i \in 1 .. count + 1 |-> buffer'[PeekSlot(i - 1)]]
      BY <1>2 DEF Items, PeekSlot
    <2> QED
      BY <1>2, <2>2, <2>3
  <1>5. NextHead = PeekSlot(count) /\ PeekSlot(count) \in 0 .. length - 1
    BY <1>1, <1>2, NextHeadIsFree, PeekSlotInside DEF RingInv
  <1>6. Items'[count + 1] = x
    BY <1>1, <1>2, <1>4, <1>5 DEF Store, RingInv, TypeOK
  <1>7. \A i \in 1 .. count : Items'[i] = Items[i]
    <2> TAKE i \in 1 .. count
    <2>1. /\ PeekSlot(i - 1) # PeekSlot(count)
          /\ PeekSlot(i - 1) \in 0 .. length - 1
      BY <1>1, <1>2, PeekSlotInjective, PeekSlotInside DEF RingInv
    <2>2. buffer'[PeekSlot(i - 1)] = buffer[PeekSlot(i - 1)]
      BY <1>1, <1>5, <2>1 DEF Store, RingInv, TypeOK
    <2> QED
      BY <1>2, <1>3, <1>4, <2>2
  <1>8. /\ Append(Items, x) \in Seq(Payloads)
        /\ Len(Append(Items, x)) = count + 1
        /\ \A i \in 1 .. count : Append(Items, x)[i] = Items[i]
        /\ Append(Items, x)[count + 1] = x
    BY <1>2, <1>3, AppendProperties
  <1>9. \A i \in 1 .. count + 1 : Items'[i] = Append(Items, x)[i]
    BY <1>2, <1>6, <1>7, <1>8
  <1>10. Items' = Append(Items, x)
    BY <1>2, <1>4, <1>8, <1>9, SeqEqual
  <1> QED
    BY <1>2, <1>10

(* Taking the front leaves the rest of the items, in order. *)
LEMMA TakeFrontIsTail ==
  ASSUME RingInv, InUse, count # 0, TakeFront, UNCHANGED <<buffer, head, length>>
  PROVE  /\ Items # <<>> /\ Items[1] = Front
         /\ Items' \in Seq(Payloads) /\ Len(Items') = count - 1
         /\ \A i \in 1 .. count - 1 : Items'[i] = Items[i + 1]
         /\ count \in Nat \ {0}
  <1>1. /\ Front \in Payloads /\ Front = buffer[PeekSlot(0)]
        /\ count \in Nat \ {0} /\ count' = count - 1
        /\ \A i \in 0 .. count - 2 : PeekSlot(i)' = PeekSlot(i + 1)
    BY TakeFrontShifts
  <1>2. /\ Items \in Seq(Payloads) /\ Len(Items) = count
        /\ \A i \in 1 .. count : Items[i] = buffer[PeekSlot(i - 1)]
    BY ItemAt
  <1>3. Items # <<>> /\ Items[1] = Front
    BY <1>1, <1>2
  <1>4. Items' = [i \in 1 .. count - 1 |-> buffer[PeekSlot(i)]]
    <2>1. Items' = [i \in 1 .. count - 1 |-> buffer[PeekSlot(i - 1)']]
      BY <1>1 DEF Items, PeekSlot
    <2>2. \A i \in 1 .. count - 1 : PeekSlot(i - 1)' = PeekSlot(i)
      <3> TAKE i \in 1 .. count - 1
      <3>1. i - 1 \in 0 .. count - 2 /\ (i - 1) + 1 = i
        BY <1>1
      <3> QED
        BY <1>1, <3>1
    <2> QED
      BY <2>1, <2>2
  <1>5. \A i \in 1 .. count - 1 : buffer[PeekSlot(i)] = Items[i + 1]
    <2> TAKE i \in 1 .. count - 1
    <2>1. i + 1 \in 1 .. count /\ (i + 1) - 1 = i
      BY <1>1
    <2> QED
      BY <1>2, <2>1
  <1>6. \A i \in 1 .. count - 1 : Items[i + 1] \in Payloads
    BY <1>1, <1>2
  <1> QED
    BY <1>1, <1>3, <1>4, <1>5, <1>6

LEMMA RemoveIsTail ==
  ASSUME RingInv, InUse, count # 0, TakeFront, UNCHANGED <<buffer, head, length>>
  PROVE  Items # <<>> /\ Head(Items) = Front /\ Items' = Tail(Items)
  <1>1. /\ Items # <<>> /\ Items[1] = Front
        /\ Items' \in Seq(Payloads) /\ Len(Items') = count - 1
        /\ \A i \in 1 .. count - 1 : Items'[i] = Items[i + 1]
        /\ count \in Nat \ {0}
    BY TakeFrontIsTail
  <1>2. Items \in Seq(Payloads) /\ Len(Items) = count
    BY ItemAt
  <1>3. /\ Tail(Items) \in Seq(Payloads) /\ Len(Tail(Items)) = count - 1
        /\ \A i \in 1 .. count - 1 : Tail(Items)[i] = Items[i + 1]
    BY <1>1, <1>2, HeadTailProperties
  <1>4. Items' = Tail(Items)
    BY <1>1, <1>3, SeqEqual
  <1> QED
    BY <1>1, <1>2, <1>4

(* A turn of circbuf_destroy_free moves the front to what was freed: the    *)
(* two together do not change.                                              *)
LEMMA DrainKeepsQueue ==
  ASSUME RingInv, DestroyFreeItem
  PROVE  (freed \o Items)' = freed \o Items
  <1>1. InUse /\ count # 0 /\ TakeFront /\ UNCHANGED <<buffer, head, length>>
    BY DEF DestroyFreeItem, InUse
  <1>2. /\ Items # <<>> /\ Items[1] = Front
        /\ Items' \in Seq(Payloads) /\ Len(Items') = count - 1
        /\ \A i \in 1 .. count - 1 : Items'[i] = Items[i + 1]
        /\ count \in Nat \ {0}
    BY <1>1, TakeFrontIsTail
  <1>3. Items \in Seq(Payloads) /\ Len(Items) = count
    BY <1>1, ItemAt
  <1>4. /\ Items \in Seq(Cells) /\ Items' \in Seq(Cells)
        /\ freed \in Seq(Cells) /\ Front \in Cells
    BY <1>1, <1>2, <1>3, TakeFrontShifts DEF RingInv, TypeOK, Cells
  <1> DEFINE old == freed \o Items
             more == Append(freed, Front)
             rest == Items'
             new == more \o rest
  <1>5. /\ more \in Seq(Cells) /\ Len(more) = Len(freed) + 1
        /\ \A i \in 1 .. Len(freed) : more[i] = freed[i]
        /\ more[Len(freed) + 1] = Front
    BY <1>4, AppendProperties
  <1>6. /\ old \in Seq(Cells) /\ Len(old) = Len(freed) + count
        /\ \A i \in 1 .. Len(freed) + count :
             old[i] = IF i <= Len(freed) THEN freed[i] ELSE Items[i - Len(freed)]
    BY <1>3, <1>4, ConcatProperties
  <1> HIDE DEF old, more
  <1>7. /\ new \in Seq(Cells) /\ Len(new) = Len(more) + (count - 1)
        /\ \A i \in 1 .. Len(more) + (count - 1) :
             new[i] = IF i <= Len(more) THEN more[i] ELSE rest[i - Len(more)]
    <2>1. rest \in Seq(Cells) /\ Len(rest) = count - 1
      BY <1>2, <1>4
    <2> HIDE DEF rest
    <2>2. more \in Seq(Cells)
      BY <1>5
    <2>3. /\ new \in Seq(Cells) /\ Len(new) = Len(more) + Len(rest)
          /\ \A i \in 1 .. Len(more) + Len(rest) :
               new[i] = IF i <= Len(more) THEN more[i] ELSE rest[i - Len(more)]
      BY <2>1, <2>2, ConcatProperties
    <2> QED
      BY <2>1, <2>3
  <1> HIDE DEF new
  <1>8. Len(freed) \in Nat
    BY <1>4
  <1>9. Len(new) = Len(old)
    BY <1>2, <1>5, <1>6, <1>7, <1>8
  <1>10. \A i \in 1 .. Len(old) : new[i] = old[i]
    <2> TAKE i \in 1 .. Len(old)
    <2>0. /\ i \in 1 .. Len(freed) + count
          /\ i \in 1 .. Len(more) + (count - 1)
      BY <1>2, <1>5, <1>6, <1>8
    <2>1. CASE i <= Len(freed)
      <3>1. i \in 1 .. Len(freed) /\ i <= Len(more)
        BY <2>0, <2>1, <1>5, <1>8
      <3>2. new[i] = more[i] /\ old[i] = freed[i]
        BY <2>0, <2>1, <3>1, <1>6, <1>7
      <3> QED
        BY <3>1, <3>2, <1>5
    <2>2. CASE i = Len(freed) + 1
      <3>1. i <= Len(more) /\ i - Len(freed) = 1 /\ ~(i <= Len(freed))
        BY <2>2, <1>5, <1>8
      <3>2. new[i] = more[i] /\ old[i] = Items[i - Len(freed)]
        BY <2>0, <3>1, <1>6, <1>7
      <3> QED
        BY <2>2, <3>1, <3>2, <1>2, <1>5
    <2>3. CASE i > Len(freed) + 1
      <3>1. i - Len(more) \in 1 .. count - 1
        BY <2>3, <1>2, <1>5, <1>6, <1>8
      <3>2. new[i] = rest[i - Len(more)]
        <4>1. ~(i <= Len(more))
          BY <2>0, <2>3, <1>5, <1>8
        <4> QED
          BY <2>0, <4>1, <1>7
      <3>3. Items'[i - Len(more)] = Items[(i - Len(more)) + 1]
        BY <3>1, <1>2
      <3>4. (i - Len(more)) + 1 = i - Len(freed)
        BY <2>3, <1>5, <1>6, <1>8
      <3>5. old[i] = Items[i - Len(freed)]
        BY <2>3, <1>2, <1>6, <1>8
      <3> QED
        BY <3>2, <3>3, <3>4, <3>5
    <2> QED
      BY <2>1, <2>2, <2>3, <1>2, <1>6, <1>8
  <1>11. new = old
    BY <1>6, <1>7, <1>9, <1>10, SeqEqual
  <1> QED
    BY <1>11 DEF DestroyFreeItem, new, old, more, rest

(* A call that leaves the ring alone leaves the queue alone. *)
LEMMA RingKept ==
  ASSUME UNCHANGED ring
  PROVE  F!Keep
  BY DEF ring, F!Keep, InUse, QueuedItems, Items, PeekSlot

(* A call that finds no buffer is refused as the queue refuses it. *)
LEMMA RefuseRefines ==
  ASSUME ~InUse, Refuse("NULL_POINTER")
  PROVE  F!NoQueue
  BY RingKept DEF Refuse, Reply, F!NoQueue, F!Reply

LEMMA AskedRefines ==
  ASSUME NEW call, NEW arg, Asked(call, arg)
  PROVE  F!Asked(call, arg)
  BY DEF Asked, F!Asked

(* On a live handle the queue is the items in the ring. *)
LEMMA LiveQueue ==
  ASSUME RingInv, handle = "live"
  PROVE  /\ InUse /\ ~NoBuffer /\ handle # "null"
         /\ QueuedItems = Items /\ Items \in Seq(Payloads)
         /\ Len(QueuedItems) = count /\ count \in Nat
  BY ItemsType DEF InUse, NoBuffer, QueuedItems, RingInv, TypeOK

LEMMA NoBufferNotOpen ==
  ASSUME NoBuffer \/ handle = "null" \/ handle = "nobuf" \/ MayInit
  PROVE  ~InUse /\ QueuedItems = <<>>
  BY DEF NoBuffer, MayInit, InUse, QueuedItems

(* A handle that stops being used closes the queue. *)
LEMMA Closed ==
  ASSUME handle' \in {"null", "nobuf", "freed"}
  PROVE  ~InUse' /\ QueuedItems' = <<>>
  BY DEF InUse, QueuedItems

LEMMA InitRefines ==
  ASSUME RingInv, NEW n \in 0 .. MaxLength, circbuf_init(n)
  PROVE  F!Next
  <1>1. CASE Asked("init to NULL", n) /\ InitNull
    <2>1. ~InUse /\ Refuse("NULL_POINTER")
      BY <1>1, NoBufferNotOpen DEF InitNull
    <2>2. F!OpenNowhere(n)
      BY <1>1, <2>1, RefuseRefines, AskedRefines DEF F!OpenNowhere
    <2> QED
      BY <2>2 DEF F!Next
  <1>2. CASE Asked("init", n) /\ InitNoLength(n)
    <2>1. ~InUse /\ n = 0 /\ F!Keep /\ F!Reply("NO_LENGTH", <<>>)
      BY <1>2, NoBufferNotOpen, RingKept DEF InitNoLength, Refuse, Reply, F!Reply
    <2>2. F!Open(n)
      BY <1>2, <2>1, AskedRefines DEF F!Open
    <2> QED
      BY <2>2 DEF F!Next
  <1>3. CASE Asked("init", n) /\ (InitNoStruct(n) \/ InitNoBuffer(n))
    <2>1. ~InUse /\ QueuedItems = <<>> /\ ~InUse' /\ QueuedItems' = <<>>
      BY <1>3, NoBufferNotOpen, Closed DEF InitNoStruct, InitNoBuffer
    <2>2. n > 0 /\ F!Reply("ALLOC_FAILURE", <<>>)
      BY <1>3 DEF InitNoStruct, InitNoBuffer, Reply, F!Reply
    <2>3. F!Keep
      BY <2>1 DEF F!Keep, InUse
    <2>4. F!Open(n)
      BY <1>3, <2>1, <2>2, <2>3, AskedRefines DEF F!Open
    <2> QED
      BY <2>4 DEF F!Next
  <1>4. CASE Asked("init", n) /\ InitOk(n)
    <2>1. ~InUse /\ InUse' /\ n > 0
      BY <1>4, NoBufferNotOpen DEF InitOk, InUse
    <2>2. QueuedItems' = <<>>
      BY <1>4 DEF InitOk, QueuedItems, Items
    <2>3. F!Open(n)
      BY <1>4, <2>1, <2>2, AskedRefines DEF InitOk, Reply, F!Open, F!Reply
    <2> QED
      BY <2>3 DEF F!Next
  <1> QED
    BY <1>1, <1>2, <1>3, <1>4 DEF circbuf_init

LEMMA AddRefines ==
  ASSUME RingInv, RingInv', NEW x \in Payloads, circbuf_add_item(x)
  PROVE  F!Next
  <1>1. F!Asked("add_item", x)
    BY AskedRefines DEF circbuf_add_item
  <1>2. CASE NoBuffer /\ Refuse("NULL_POINTER")
    <2>1. F!NoQueue
      BY <1>2, RefuseRefines, NoBufferNotOpen
    <2>2. F!Put(x)
      BY <1>1, <2>1 DEF F!Put
    <2> QED
      BY <2>2 DEF F!Next
  <1>3. CASE handle = "live" /\ IsFull /\ Refuse("FULL")
    <2>1. InUse /\ Len(QueuedItems) = count /\ F!Keep
      BY <1>3, LiveQueue, RingKept DEF Refuse
    <2>2. F!Put(x)
      BY <1>1, <1>3, <2>1 DEF IsFull, Refuse, Reply, F!Put, F!Reply
    <2> QED
      BY <2>2 DEF F!Next
  <1>4. CASE /\ handle = "live" /\ ~IsFull
             /\ Store(x)
             /\ Reply("NO_ERROR", <<>>)
             /\ UNCHANGED <<handle, tail, length, freed>>
    <2>1. /\ InUse /\ InUse' /\ QueuedItems = Items /\ QueuedItems' = Items'
          /\ Len(QueuedItems) = count
      BY <1>4, LiveQueue DEF InUse, QueuedItems
    <2>2. Items' = Append(Items, x) /\ count < length
      BY <1>4, StoreAppends
    <2>3. F!Put(x)
      BY <1>1, <1>4, <2>1, <2>2 DEF Reply, F!Put, F!Reply
    <2> QED
      BY <2>3 DEF F!Next
  <1> QED
    BY <1>2, <1>3, <1>4 DEF circbuf_add_item

LEMMA RemoveRefines ==
  ASSUME RingInv, NEW dst \in BOOLEAN, circbuf_remove_item(dst)
  PROVE  F!Next
  <1>1. F!Asked("remove_item", dst)
    BY AskedRefines DEF circbuf_remove_item
  <1>2. CASE NoBuffer /\ Refuse("NULL_POINTER")
    <2>1. F!NoQueue
      BY <1>2, RefuseRefines, NoBufferNotOpen
    <2>2. F!Get(dst)
      BY <1>1, <2>1 DEF F!Get
    <2> QED
      BY <2>2 DEF F!Next
  <1>3. CASE handle = "live" /\ ~dst /\ Refuse("NULL_POINTER")
    <2>1. InUse /\ F!Keep /\ F!Reply("NULL_POINTER", <<>>)
      BY <1>3, LiveQueue, RingKept DEF Refuse, Reply, F!Reply
    <2>2. F!Get(dst)
      BY <1>1, <1>3, <2>1 DEF F!Get
    <2> QED
      BY <2>2 DEF F!Next
  <1>4. CASE handle = "live" /\ dst /\ count = 0 /\ Refuse("EMPTY")
    <2>1. InUse /\ QueuedItems = <<>> /\ F!Keep
      BY <1>4, LiveQueue, RingKept DEF Refuse, Items, QueuedItems
    <2>2. F!Get(dst)
      BY <1>1, <1>4, <2>1 DEF Refuse, Reply, F!Get, F!Reply
    <2> QED
      BY <2>2 DEF F!Next
  <1>5. CASE /\ handle = "live" /\ dst /\ count # 0
             /\ TakeFront
             /\ Reply("NO_ERROR", <<Front>>)
             /\ UNCHANGED <<handle, buffer, head, length, freed>>
    <2>1. InUse /\ InUse' /\ QueuedItems = Items /\ QueuedItems' = Items'
      BY <1>5, LiveQueue DEF InUse, QueuedItems
    <2>2. Items # <<>> /\ Head(Items) = Front /\ Items' = Tail(Items)
      BY <1>5, <2>1, RemoveIsTail
    <2>3. F!Get(dst)
      BY <1>1, <1>5, <2>1, <2>2 DEF Reply, F!Get, F!Reply
    <2> QED
      BY <2>3 DEF F!Next
  <1> QED
    BY <1>2, <1>3, <1>4, <1>5 DEF circbuf_remove_item

(* The index one past the newest item is where circbuf_peek answers with a  *)
(* cell the queue says nothing about, unless the ring is full: there it     *)
(* comes round to the oldest item.                                          *)
LEMMA PeekRefines ==
  ASSUME RingInv, RingInv', NEW i \in Indexes, circbuf_peek(i)
  PROVE  F!Next
  <1>1. F!Asked("peek", i) /\ F!Keep
    BY AskedRefines, RingKept DEF circbuf_peek
  <1>2. F!Look(i)
    <2>1. CASE NoBuffer
      <3>1. Refuse("NULL_POINTER")
        BY <2>1 DEF circbuf_peek, Refuse, NoBuffer
      <3>2. F!NoQueue
        BY <2>1, <3>1, RefuseRefines, NoBufferNotOpen
      <3> QED
        BY <1>1, <3>2 DEF F!Look
    <2>2. CASE handle = "live"
      <3>1. /\ InUse /\ ~NoBuffer
            /\ QueuedItems = Items /\ Len(QueuedItems) = count /\ count \in Nat
        BY <2>2, LiveQueue
      <3>2. i \in Nat
        BY DEF Indexes
      <3>3. CASE i > count
        <4>1. Reply("BAD_INDEX", <<>>)
          BY <2>2, <3>1, <3>3 DEF circbuf_peek, PeekInRange
        <4> QED
          BY <1>1, <3>1, <3>3, <4>1 DEF F!Look, F!Reply, Reply
      <3>4. CASE i <= count
        <4>1. Reply("NO_ERROR", <<buffer[PeekSlot(i)]>>)
          BY <2>2, <3>1, <3>2, <3>4 DEF circbuf_peek, PeekInRange
        <4>2. CASE i = count
          <5>1. PeekSlot(i) \in 0 .. length - 1
            BY <3>1, <4>2 DEF RingInv, TypeOK, PeekSlot
          <5>2. buffer[PeekSlot(i)] \in Cells
            BY <3>1, <5>1 DEF RingInv, TypeOK
          <5>3. ASSUME count = length
                PROVE  buffer[PeekSlot(i)] = Head(QueuedItems)
            <6>1. PeekSlot(i) = PeekSlot(0) /\ count > 0
              BY <3>1, <4>2, <5>3 DEF RingInv, TypeOK, PeekSlot
            <6>2. 1 \in 1 .. count /\ 1 - 1 = 0
              BY <3>1, <6>1
            <6>3. Items[1] = buffer[PeekSlot(0)]
              BY <3>1, <6>2, ItemAt
            <6> QED
              BY <3>1, <6>1, <6>3
          <5>4. F!Reply("NO_ERROR", <<buffer[PeekSlot(i)]>>)
            BY <4>1 DEF F!Reply, Reply
          <5> QED
            BY <1>1, <3>1, <4>2, <5>2, <5>3, <5>4 DEF F!Look
        <4>3. CASE i < count
          <5>1. i + 1 \in 1 .. count /\ (i + 1) - 1 = i
            BY <3>1, <3>2, <4>3
          <5>2. Items[i + 1] = buffer[PeekSlot(i)]
            BY <3>1, <5>1, ItemAt
          <5> QED
            BY <1>1, <3>1, <4>1, <4>3, <5>2 DEF F!Look, F!Reply, Reply
        <4> QED
          BY <3>1, <3>2, <3>4, <4>2, <4>3
      <3> QED
        BY <3>1, <3>2, <3>3, <3>4
    <2> QED
      BY <2>1, <2>2 DEF circbuf_peek
  <1>3. i \in 0 .. MaxLength + 1
    BY DEF Indexes
  <1> QED
    BY <1>2, <1>3 DEF F!Next

LEMMA QueryRefines ==
  ASSUME RingInv, circbuf_dump \/ circbuf_full \/ circbuf_empty
  PROVE  F!Next
  <1>1. CASE circbuf_dump
    <2>1. F!Asked("dump", 0) /\ F!Keep
      BY <1>1, AskedRefines, RingKept DEF circbuf_dump
    <2>2. F!Dump
      <3>1. CASE NoBuffer
        <4>1. Refuse("NULL_POINTER")
          BY <1>1, <3>1 DEF circbuf_dump, Refuse, NoBuffer
        <4> QED
          BY <2>1, <3>1, <4>1, RefuseRefines, NoBufferNotOpen DEF F!Dump
      <3>2. CASE handle = "live"
        <4>1. InUse /\ ~NoBuffer /\ QueuedItems = Items
          BY <3>2, LiveQueue
        <4> QED
          BY <1>1, <2>1, <4>1 DEF circbuf_dump, Reply, F!Dump, F!Reply
      <3> QED
        BY <1>1, <3>1, <3>2 DEF circbuf_dump
    <2> QED
      BY <2>2 DEF F!Next
  <1>2. CASE circbuf_full
    <2>1. F!Asked("full", 0)
      BY <1>2, AskedRefines DEF circbuf_full
    <2>2. F!AskFull
      <3>1. CASE handle = "null"
        <4>1. ~InUse /\ Refuse("NULL_POINTER")
          BY <1>2, <3>1 DEF circbuf_full, InUse
        <4> QED
          BY <2>1, <4>1, RefuseRefines DEF F!AskFull, F!NoQueue
      <3>2. CASE handle = "nobuf"
        <4>1. ~InUse /\ \E code \in {"FULL", "FAILURE"} : Refuse(code)
          BY <1>2, <3>2 DEF circbuf_full, InUse
        <4> QED
          BY <2>1, <4>1, RingKept DEF Refuse, Reply, F!AskFull, F!Reply
      <3>3. CASE handle = "live"
        <4>1. InUse /\ Len(QueuedItems) = count /\ handle # "null"
          BY <3>3, LiveQueue
        <4>2. Refuse(IF IsFull THEN "FULL" ELSE "FAILURE") /\ F!Keep
          BY <1>2, <4>1, RingKept DEF circbuf_full, Refuse
        <4> QED
          BY <2>1, <4>1, <4>2 DEF IsFull, Refuse, Reply, F!AskFull, F!Reply
      <3> QED
        BY <1>2, <3>1, <3>2, <3>3 DEF circbuf_full
    <2> QED
      BY <2>2 DEF F!Next
  <1>3. CASE circbuf_empty
    <2>1. F!Asked("empty", 0)
      BY <1>3, AskedRefines DEF circbuf_empty
    <2>2. F!AskEmpty
      <3>1. CASE handle = "null"
        <4>1. ~InUse /\ Refuse("NULL_POINTER")
          BY <1>3, <3>1 DEF circbuf_empty, InUse
        <4> QED
          BY <2>1, <4>1, RefuseRefines DEF F!AskEmpty, F!NoQueue
      <3>2. CASE handle = "nobuf"
        <4>1. ~InUse /\ \E code \in {"EMPTY", "FAILURE"} : Refuse(code)
          BY <1>3, <3>2 DEF circbuf_empty, InUse
        <4> QED
          BY <2>1, <4>1, RingKept DEF Refuse, Reply, F!AskEmpty, F!Reply
      <3>3. CASE handle = "live"
        <4>1. /\ InUse /\ Len(QueuedItems) = count /\ handle # "null"
              /\ QueuedItems \in Seq(Payloads)
          BY <3>3, LiveQueue
        <4>2. Refuse(IF count = 0 THEN "EMPTY" ELSE "FAILURE") /\ F!Keep
          BY <1>3, <4>1, RingKept DEF circbuf_empty, Refuse
        <4>3. (count = 0) <=> (QueuedItems = <<>>)
          BY <4>1
        <4> QED
          BY <2>1, <4>1, <4>2, <4>3 DEF Refuse, Reply, F!AskEmpty, F!Reply
      <3> QED
        BY <1>3, <3>1, <3>2, <3>3 DEF circbuf_empty
    <2> QED
      BY <2>2 DEF F!Next
  <1> QED
    BY <1>1, <1>2, <1>3

LEMMA DestroyRefines ==
  ASSUME RingInv, circbuf_destroy \/ circbuf_null_buffer
  PROVE  F!Next
  <1>1. CASE circbuf_destroy
    <2>1. F!Asked("destroy", 0)
      BY <1>1, AskedRefines DEF circbuf_destroy
    <2>2. F!Close
      <3>1. CASE NoBuffer /\ Refuse("NULL_POINTER")
        BY <2>1, <3>1, RefuseRefines, NoBufferNotOpen DEF F!Close
      <3>2. CASE handle = "live" /\ Release /\ Reply("NO_ERROR", <<>>)
        <4>1. InUse /\ ~InUse' /\ QueuedItems' = <<>>
          BY <3>2, Closed DEF Release, InUse
        <4> QED
          BY <2>1, <3>2, <4>1 DEF Reply, F!Close, F!Shut, F!Reply
      <3> QED
        BY <1>1, <3>1, <3>2 DEF circbuf_destroy
    <2> QED
      BY <2>2 DEF F!Next
  <1>2. CASE circbuf_null_buffer
    <2>1. F!Asked("null_buffer", 0)
      BY <1>2, AskedRefines DEF circbuf_null_buffer
    <2>2. F!Break
      <3>1. CASE handle = "null" /\ Refuse("NULL_POINTER")
        BY <2>1, <3>1, RefuseRefines, NoBufferNotOpen DEF F!Break
      <3>2. CASE handle' = "nobuf" /\ Reply("NO_ERROR", <<>>)
        BY <2>1, <3>2, Closed DEF Reply, F!Break, F!Shut, F!Reply
      <3> QED
        BY <1>2, <3>1, <3>2 DEF circbuf_null_buffer
    <2> QED
      BY <2>2 DEF F!Next
  <1> QED
    BY <1>1, <1>2

LEMMA DestroyFreeRefines ==
  ASSUME RingInv, RingInv', circbuf_destroy_free
  PROVE  F!Next \/ UNCHANGED F!fifoVars
  <1>1. CASE Asked("destroy_free", 0) /\ NoBuffer /\ Refuse("NULL_POINTER")
    <2>1. F!Asked("destroy_free", 0) /\ F!NoQueue
      BY <1>1, AskedRefines, RefuseRefines, NoBufferNotOpen
    <2>2. F!CloseAndFree
      BY <2>1 DEF F!CloseAndFree
    <2> QED
      BY <2>2 DEF F!Next
  <1>2. CASE /\ handle = "live"
             /\ handle' = "draining"
             /\ freed' = <<>>
             /\ UNCHANGED <<buffer, head, tail, count, length, asked, status, out>>
    <2>1. InUse /\ InUse'
      BY <1>2 DEF InUse
    <2>2. QueuedItems' = QueuedItems
      <3>1. QueuedItems = Items /\ Items \in Seq(Payloads)
        BY <1>2, LiveQueue
      <3>2. QueuedItems' = <<>> \o Items
        BY <1>2 DEF QueuedItems, Items, PeekSlot
      <3> QED
        BY <1>2, <3>1, <3>2
    <2> QED
      BY <1>2, <2>1, <2>2 DEF F!fifoVars
  <1>3. CASE DestroyFreeItem
    <2>1. InUse /\ InUse' /\ QueuedItems' = QueuedItems
      BY <1>3, DrainKeepsQueue DEF DestroyFreeItem, InUse, QueuedItems
    <2> QED
      BY <1>3, <2>1 DEF DestroyFreeItem, F!fifoVars
  <1>4. CASE DestroyFreeEnd
    <2>1. InUse /\ ~InUse' /\ QueuedItems' = <<>>
      BY <1>4, Closed DEF DestroyFreeEnd, Release, InUse
    <2>2. QueuedItems = freed
      <3>1. freed \in Seq(Cells) /\ Items = <<>>
        BY <1>4, <2>1, ItemsType DEF DestroyFreeEnd, RingInv, TypeOK
      <3> QED
        BY <1>4, <3>1 DEF DestroyFreeEnd, QueuedItems
    <2>3. F!CloseAndFree
      BY <1>4, <2>1, <2>2, AskedRefines
         DEF DestroyFreeEnd, Reply, F!CloseAndFree, F!Shut, F!Reply
    <2> QED
      BY <2>3 DEF F!Next
  <1> QED
    BY <1>1, <1>2, <1>3, <1>4 DEF circbuf_destroy_free, DestroyFreeStart

LEMMA NextRefines ==
  ASSUME RingInv, RingInv', [Next]_vars
  PROVE  [F!Next]_(F!fifoVars)
  <1>1. ASSUME NEW n \in 0 .. MaxLength, circbuf_init(n) PROVE F!Next
    BY <1>1, InitRefines
  <1>2. ASSUME NEW x \in Payloads, circbuf_add_item(x) PROVE F!Next
    BY <1>2, AddRefines
  <1>3. ASSUME NEW dst \in BOOLEAN, circbuf_remove_item(dst) PROVE F!Next
    BY <1>3, RemoveRefines
  <1>4. ASSUME NEW i \in Indexes, circbuf_peek(i) PROVE F!Next
    BY <1>4, PeekRefines
  <1>5. CASE circbuf_dump \/ circbuf_full \/ circbuf_empty
    BY <1>5, QueryRefines
  <1>6. CASE circbuf_destroy \/ circbuf_null_buffer
    BY <1>6, DestroyRefines
  <1>7. CASE circbuf_destroy_free
    BY <1>7, DestroyFreeRefines
  <1>8. CASE UNCHANGED vars
    BY <1>8 DEF vars, F!fifoVars, InUse, QueuedItems, Items, PeekSlot
  <1> QED
    BY <1>1, <1>2, <1>3, <1>4, <1>5, <1>6, <1>7, <1>8 DEF Next

(* circbuf.c behaves as a bounded first-in first-out queue, for rings of     *)
(* every length: each call, with its argument, answers as the queue answers  *)
(* that call, so circbuf_peek gives the item at the index asked for,         *)
(* circbuf_full and circbuf_empty tell the truth, circbuf_dump shows the     *)
(* queue, and circbuf_destroy_free frees exactly what is queued.             *)
THEOREM RingImplementsFifo == Spec => ImplementsFifo
  <1>1. Init => F!Init
    BY DEF Init, F!Init, InUse, QueuedItems
  <1>2. RingInv /\ RingInv' /\ [Next]_vars => [F!Next]_(F!fifoVars)
    BY NextRefines
  <1> QED
    BY <1>1, <1>2, RingInvariant, PTL DEF Spec, ImplementsFifo, F!Spec
=============================================================================
