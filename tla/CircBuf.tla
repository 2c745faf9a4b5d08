------------------------------- MODULE CircBuf -------------------------------
(***************************************************************************)
(* circbuf.c: a circular buffer of payload pointers on the heap.           *)
(*                                                                         *)
(* Pointers into the internal buffer (head, tail) are slot numbers from 0. *)
(* One handle is followed through its life:                                *)
(*   "null"     the caller holds NULL;                                     *)
(*   "nobuf"    the structure exists and its internal buffer is NULL;      *)
(*   "live"     both are allocated;                                        *)
(*   "draining" circbuf_destroy_free is in its loop;                       *)
(*   "freed"    both are freed and the caller's pointer dangles: a correct *)
(*              caller only calls circbuf_init on it.                      *)
(***************************************************************************)
EXTENDS Integers, Sequences

CONSTANTS
  MaxLength,  \* largest length passed to circbuf_init (65535 for uint16_t)
  PtrBytes,   \* sizeof(void *)
  Payloads,   \* payload pointers the caller stores
  NULL,       \* a cell of zero bytes
  Garbage     \* a cell malloc returned and nobody wrote since

ASSUME CircBufAssumption ==
  /\ MaxLength \in Nat \ {0}
  /\ PtrBytes \in Nat \ {0}
  /\ NULL \notin Payloads /\ Garbage \notin Payloads

VARIABLES
  handle, buffer, head, tail, count, length,
  freed,   \* what the running circbuf_destroy_free passed to free() so far
  asked,   \* the call answered last, with its argument
  status,  \* what it returned
  out      \* the payloads it handed over, in order

ring == <<handle, buffer, head, tail, count, length, freed>>
vars == <<handle, buffer, head, tail, count, length, freed, asked, status, out>>

Cells == Payloads \cup {NULL, Garbage}
Handles == {"null", "nobuf", "live", "draining", "freed"}
Codes == {"NO_ERROR", "FULL", "EMPTY", "NULL_POINTER", "NO_LENGTH",
          "ALLOC_FAILURE", "FAILURE", "BAD_INDEX"}

Asked(call, arg) == asked' = <<call, arg>>
Reply(code, handedOver) == status' = code /\ out' = handedOver

(* CB_CHECK_NULL on the handle and on its buffer. *)
NoBuffer == handle \in {"null", "nobuf"}

Refuse(code) == Reply(code, <<>>) /\ UNCHANGED ring
----------------------------------------------------------------------------
(* Slot arithmetic.                                                        *)

(* A mutant: the branch on the count is forgotten. *)
NextHeadAlways == IF head = length - 1 THEN 0 ELSE head + 1

(* Where circbuf_add_item writes.  An empty ring reuses the slot head is    *)
(* on, unless that is the last one.                                         *)
NextHead ==
  IF head = length - 1 THEN 0 ELSE IF count # 0 THEN head + 1 ELSE head

(* Mutants: tail left alone when it should wrap, or moved when the ring     *)
(* became empty.                                                            *)
NextTailNoWrap(left) == IF left # 0 THEN tail + 1 ELSE tail
NextTailAlways(left) == IF tail = length - 1 THEN 0 ELSE tail + 1

(* Where circbuf_remove_item leaves tail; `left' is the count after the     *)
(* removal.                                                                 *)
NextTail(left) ==
  IF tail = length - 1 THEN 0 ELSE IF left # 0 THEN tail + 1 ELSE tail

(* The slot circbuf_peek reads for index i. *)
PeekSlot(i) ==
  LET diff == (tail + i) - length IN IF diff >= 0 THEN diff ELSE tail + i

(* The items in the ring as circbuf_dump prints them, oldest first. *)
Items == [i \in 1 .. count |-> buffer[PeekSlot(i - 1)]]
----------------------------------------------------------------------------
(* memset clears `length' bytes of the buffer, not `length' cells. *)
FreshBuffer(n) ==
  [k \in 0 .. n - 1 |-> IF k < n \div PtrBytes THEN NULL ELSE Garbage]

(* The caller does not call circbuf_init on a handle it still uses. *)
MayInit == handle \in {"null", "nobuf", "freed"}

(* The caller passed no place for the handle. *)
InitNull == MayInit /\ Refuse("NULL_POINTER")

InitNoLength(n) == MayInit /\ n = 0 /\ Refuse("NO_LENGTH")

InitNoStruct(n) ==
  /\ MayInit /\ n > 0
  /\ handle' = "null"
  /\ Reply("ALLOC_FAILURE", <<>>)
  /\ UNCHANGED <<buffer, head, tail, count, length, freed>>

(* The second malloc fails: the structure stays, its other fields are what  *)
(* malloc returned.                                                         *)
InitNoBuffer(n) ==
  /\ MayInit /\ n > 0
  /\ handle' = "nobuf"
  /\ count' \in 0 .. MaxLength /\ length' \in 0 .. MaxLength
  /\ Reply("ALLOC_FAILURE", <<>>)
  /\ UNCHANGED <<buffer, head, tail, freed>>

InitOk(n) ==
  /\ MayInit /\ n > 0
  /\ handle' = "live"
  /\ buffer' = FreshBuffer(n)
  /\ head' = 0 /\ tail' = 0 /\ count' = 0 /\ length' = n
  /\ Reply("NO_ERROR", <<>>)
  /\ UNCHANGED freed

circbuf_init(n) ==
  \/ Asked("init to NULL", n) /\ InitNull
  \/ /\ Asked("init", n)
     /\ \/ InitNoLength(n) \/ InitNoStruct(n)
        \/ InitNoBuffer(n) \/ InitOk(n)
----------------------------------------------------------------------------
IsFull == count = length

Store(x) ==
  /\ head' = NextHead
  /\ buffer' = [buffer EXCEPT ![NextHead] = x]
  /\ count' = count + 1

circbuf_add_item(x) ==
  /\ Asked("add_item", x)
  /\ \/ NoBuffer /\ Refuse("NULL_POINTER")
     \/ handle = "live" /\ IsFull /\ Refuse("FULL")
     \/ /\ handle = "live" /\ ~IsFull
        /\ Store(x)
        /\ Reply("NO_ERROR", <<>>)
        /\ UNCHANGED <<handle, tail, length, freed>>

Front == buffer[tail]

TakeFront == count' = count - 1 /\ tail' = NextTail(count - 1)

(* `dst': whether the caller passed a non-NULL place for the payload. *)
circbuf_remove_item(dst) ==
  /\ Asked("remove_item", dst)
  /\ \/ NoBuffer /\ Refuse("NULL_POINTER")
     \/ handle = "live" /\ ~dst /\ Refuse("NULL_POINTER")
     \/ handle = "live" /\ dst /\ count = 0 /\ Refuse("EMPTY")
     \/ /\ handle = "live" /\ dst /\ count # 0
        /\ TakeFront
        /\ Reply("NO_ERROR", <<Front>>)
        /\ UNCHANGED <<handle, buffer, head, length, freed>>

(* A mutant: the bound is the length of the ring, so that circbuf_peek      *)
(* answers with leftovers behind the newest item.                           *)
PeekInLength(i) == ~(i > length)

(* circbuf_peek's own bound: it lets index = count through. *)
PeekInRange(i) == ~(i > count)

circbuf_peek(i) ==
  /\ Asked("peek", i) /\ UNCHANGED ring
  /\ \/ NoBuffer /\ Reply("NULL_POINTER", <<>>)
     \/ handle = "live" /\ ~PeekInRange(i) /\ Reply("BAD_INDEX", <<>>)
     \/ /\ handle = "live" /\ PeekInRange(i)
        /\ Reply("NO_ERROR", <<buffer[PeekSlot(i)]>>)

circbuf_dump ==
  /\ Asked("dump", 0) /\ UNCHANGED ring
  /\ \/ NoBuffer /\ Reply("NULL_POINTER", <<>>)
     \/ handle = "live" /\ Reply("NO_ERROR", Items)

(* These two look at the handle only, and on "nobuf" read its fields. *)
circbuf_full ==
  /\ Asked("full", 0)
  /\ \/ handle = "null" /\ Refuse("NULL_POINTER")
     \/ /\ handle \in {"nobuf", "live"}
        /\ Refuse(IF IsFull THEN "FULL" ELSE "FAILURE")

circbuf_empty ==
  /\ Asked("empty", 0)
  /\ \/ handle = "null" /\ Refuse("NULL_POINTER")
     \/ /\ handle \in {"nobuf", "live"}
        /\ Refuse(IF count = 0 THEN "EMPTY" ELSE "FAILURE")
----------------------------------------------------------------------------
Release ==
  /\ handle' = "freed" /\ buffer' = <<>>
  /\ head' = 0 /\ tail' = 0 /\ count' = 0 /\ length' = 0 /\ freed' = <<>>

circbuf_destroy ==
  /\ Asked("destroy", 0)
  /\ \/ NoBuffer /\ Refuse("NULL_POINTER")
     \/ handle = "live" /\ Release /\ Reply("NO_ERROR", <<>>)

(* circbuf_destroy_free, one step for each turn of its loop. *)
DestroyFreeStart ==
  \/ Asked("destroy_free", 0) /\ NoBuffer /\ Refuse("NULL_POINTER")
  \/ /\ handle = "live"
     /\ handle' = "draining" /\ freed' = <<>>
     /\ UNCHANGED <<buffer, head, tail, count, length, asked, status, out>>

DestroyFreeItem ==
  /\ handle = "draining" /\ count # 0
  /\ TakeFront
  /\ freed' = Append(freed, Front)
  /\ UNCHANGED <<handle, buffer, head, length, asked, status, out>>

DestroyFreeEnd ==
  /\ Asked("destroy_free", 0)
  /\ handle = "draining" /\ count = 0
  /\ Release
  /\ Reply("NO_ERROR", freed)

circbuf_destroy_free == DestroyFreeStart \/ DestroyFreeItem \/ DestroyFreeEnd

(* Built for the unit tests only: frees the buffer and keeps the rest. *)
circbuf_null_buffer ==
  /\ Asked("null_buffer", 0)
  /\ \/ handle = "null" /\ Refuse("NULL_POINTER")
     \/ /\ handle \in {"nobuf", "live"}
        /\ handle' = "nobuf" /\ buffer' = <<>>
        /\ Reply("NO_ERROR", <<>>)
        /\ UNCHANGED <<head, tail, count, length, freed>>
----------------------------------------------------------------------------
Init ==
  /\ handle = "null" /\ buffer = <<>>
  /\ head = 0 /\ tail = 0 /\ count = 0 /\ length = 0
  /\ freed = <<>>
  /\ asked = <<"none", 0>> /\ status = "NO_ERROR" /\ out = <<>>

Indexes == 0 .. MaxLength + 1

Next ==
  \/ \E n \in 0 .. MaxLength : circbuf_init(n)
  \/ \E x \in Payloads : circbuf_add_item(x)
  \/ \E dst \in BOOLEAN : circbuf_remove_item(dst)
  \/ \E i \in Indexes : circbuf_peek(i)
  \/ circbuf_dump \/ circbuf_full \/ circbuf_empty
  \/ circbuf_destroy \/ circbuf_destroy_free \/ circbuf_null_buffer

Spec == Init /\ [][Next]_vars
----------------------------------------------------------------------------
(* Properties.                                                             *)

InUse == handle \in {"live", "draining"}

(* The state has its types, and the pointers into the internal buffer stay  *)
(* inside it, so no call reads or writes outside what circbuf_init          *)
(* allocated.                                                               *)
TypeOK ==
  /\ handle \in Handles
  /\ head \in Nat /\ tail \in Nat /\ count \in Nat /\ length \in 0 .. MaxLength
  /\ freed \in Seq(Cells) /\ out \in Seq(Cells) /\ status \in Codes
  /\ InUse => /\ length > 0
              /\ head < length /\ tail < length /\ count <= length
              /\ buffer \in [0 .. length - 1 -> Cells]

(* Head is always on the slot of the newest item; with no items it is       *)
(* either on tail or on the last slot with tail already wrapped to slot 0:  *)
(* the two positions from which circbuf_add_item writes at tail.            *)
HeadFollowsTail ==
  InUse =>
    \/ count > 0 /\ head = PeekSlot(count - 1)
    \/ count = 0 /\ tail = head /\ (length = 1 \/ head # length - 1)
    \/ count = 0 /\ tail = 0 /\ head = length - 1

(* Every slot the counters call an item holds a pointer the caller stored:  *)
(* neither the zero cells of the memset nor bytes nobody wrote are ever     *)
(* handed out, or passed to free() by circbuf_destroy_free.                 *)
ItemsAreStored ==
  InUse => /\ \A i \in 0 .. count - 1 : buffer[PeekSlot(i)] \in Payloads
           /\ \A i \in 1 .. Len(freed) : freed[i] \in Payloads

(* The ring implements the bounded queue of Fifo.  While circbuf_destroy_free *)
(* runs, the queue is what it freed followed by what it has left to free.   *)
QueuedItems ==
  CASE handle = "live"     -> Items
    [] handle = "draining" -> freed \o Items
    [] OTHER               -> <<>>

F == INSTANCE Fifo WITH open  <- InUse,
                        cap   <- IF InUse THEN length ELSE 0,
                        items <- QueuedItems

(* For every order of calls, each call answers with the code, and hands     *)
(* over the payloads, with which a first-in first-out queue of the length   *)
(* asked for answers that call with that argument: circbuf_peek at every    *)
(* index, circbuf_full and circbuf_empty included.  Two answers are only    *)
(* bounded: circbuf_peek at index = count of a ring that is not full, and   *)
(* circbuf_full and circbuf_empty on a handle whose buffer is missing.      *)
ImplementsFifo == F!Spec
=============================================================================
