-------------------------------- MODULE Fifo --------------------------------
(***************************************************************************)
(* What circbuf.h promises its client, with no ring, no head and no tail:  *)
(* a bounded queue of payload pointers that hands items out in the order   *)
(* they were stored.  A step is a whole call: `asked' is the call with its *)
(* argument, `status' the code it returned, `out' the payloads it handed   *)
(* over (to the caller or to free()).                                      *)
(***************************************************************************)
EXTENDS Integers, Sequences

CONSTANTS
  MaxLength,  \* largest length a client asks circbuf_init for
  Payloads,   \* payload pointers a client stores
  Cells       \* everything a memory cell can hold: payloads and leftovers

VARIABLES open, cap, items, asked, status, out

fifoVars == <<open, cap, items, asked, status, out>>

Asked(call, arg) == asked' = <<call, arg>>
Reply(code, handedOver) == status' = code /\ out' = handedOver

Keep == UNCHANGED <<open, cap, items>>

(* What every call but circbuf_init answers when no queue is open. *)
NoQueue == ~open /\ Reply("NULL_POINTER", <<>>) /\ Keep

Init ==
  /\ open = FALSE /\ cap = 0 /\ items = <<>>
  /\ asked = <<"none", 0>> /\ status = "NO_ERROR" /\ out = <<>>

(* A queue of the length asked for, or none. *)
Open(n) ==
  /\ ~open /\ Asked("init", n)
  /\ \/ n = 0 /\ Reply("NO_LENGTH", <<>>) /\ Keep
     \/ n > 0 /\ Reply("ALLOC_FAILURE", <<>>) /\ Keep
     \/ /\ n > 0 /\ Reply("NO_ERROR", <<>>)
        /\ open' = TRUE /\ cap' = n /\ items' = <<>>

(* Asked to open a queue with no place to put it. *)
OpenNowhere(n) == Asked("init to NULL", n) /\ NoQueue

Put(x) ==
  /\ Asked("add_item", x)
  /\ \/ NoQueue
     \/ /\ open /\ Len(items) < cap
        /\ items' = Append(items, x)
        /\ Reply("NO_ERROR", <<>>)
        /\ UNCHANGED <<open, cap>>
     \/ open /\ Len(items) = cap /\ Reply("FULL", <<>>) /\ Keep

(* `dst': whether there is a place to put the item. *)
Get(dst) ==
  /\ Asked("remove_item", dst)
  /\ \/ NoQueue
     \/ open /\ ~dst /\ Reply("NULL_POINTER", <<>>) /\ Keep
     \/ /\ open /\ dst /\ items # <<>>
        /\ items' = Tail(items)
        /\ Reply("NO_ERROR", <<Head(items)>>)
        /\ UNCHANGED <<open, cap>>
     \/ open /\ dst /\ items = <<>> /\ Reply("EMPTY", <<>>) /\ Keep

(* Looking at item i, counted from the oldest.  The code accepts one index  *)
(* too many (circbuf.c:147 tests for > count): in a full queue that is the  *)
(* oldest item again, otherwise whatever some memory cell holds.            *)
Look(i) ==
  /\ Asked("peek", i)
  /\ \/ NoQueue
     \/ open /\ Keep /\ i < Len(items) /\ Reply("NO_ERROR", <<items[i + 1]>>)
     \/ /\ open /\ Keep /\ i = Len(items)
        /\ \E c \in Cells :
             /\ Len(items) = cap => c = Head(items)
             /\ Reply("NO_ERROR", <<c>>)
     \/ open /\ Keep /\ i > Len(items) /\ Reply("BAD_INDEX", <<>>)

Dump ==
  /\ Asked("dump", 0)
  /\ NoQueue \/ (open /\ Keep /\ Reply("NO_ERROR", items))

(* What these two answer when no queue is open is not promised: when only   *)
(* half of it could be allocated they look at fields nobody wrote.          *)
AskFull ==
  /\ Asked("full", 0) /\ Keep
  /\ \/ NoQueue
     \/ ~open /\ \E code \in {"FULL", "FAILURE"} : Reply(code, <<>>)
     \/ open /\ Reply(IF Len(items) = cap THEN "FULL" ELSE "FAILURE", <<>>)

AskEmpty ==
  /\ Asked("empty", 0) /\ Keep
  /\ \/ NoQueue
     \/ ~open /\ \E code \in {"EMPTY", "FAILURE"} : Reply(code, <<>>)
     \/ open /\ Reply(IF items = <<>> THEN "EMPTY" ELSE "FAILURE", <<>>)

Shut == open' = FALSE /\ cap' = 0 /\ items' = <<>>

(* Closing hands over nothing, or everything still queued, oldest first. *)
Close ==
  /\ Asked("destroy", 0)
  /\ NoQueue \/ (open /\ Shut /\ Reply("NO_ERROR", <<>>))

CloseAndFree ==
  /\ Asked("destroy_free", 0)
  /\ NoQueue \/ (open /\ Shut /\ Reply("NO_ERROR", items))

(* The unit tests take an open queue's memory away, or that of half a queue. *)
Break ==
  /\ Asked("null_buffer", 0)
  /\ NoQueue \/ (Shut /\ Reply("NO_ERROR", <<>>))

Next ==
  \/ \E n \in 0 .. MaxLength : Open(n) \/ OpenNowhere(n)
  \/ \E x \in Payloads : Put(x)
  \/ \E dst \in BOOLEAN : Get(dst)
  \/ \E i \in 0 .. MaxLength + 1 : Look(i)
  \/ Dump \/ AskFull \/ AskEmpty \/ Close \/ CloseAndFree \/ Break

Spec == Init /\ [][Next]_fifoVars
=============================================================================
