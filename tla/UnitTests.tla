------------------------------ MODULE UnitTests ------------------------------
(***************************************************************************)
(* unit_tests.c, unit_circbuf.c and unit_linkedlist.c: a program that       *)
(* drives both containers.  The containers are CircBuf and LinkedList, step *)
(* by step; this module is their client.                                    *)
(*                                                                         *)
(* A test is a script: the calls it makes, in order, and the code and       *)
(* result it asserts of each.  cmocka runs the tests one after the other: a *)
(* test whose assertion fails, or that dies of SIGSEGV or SIGFPE, is        *)
(* abandoned there, and what it had allocated is lost.                      *)
(***************************************************************************)
EXTENDS Integers, Sequences, FiniteSets, Functions

CONSTANTS
  BUF_SIZE, HALF_LIST_SIZE,
  Vals,      \* what insert_data may fill a structure with
  MaxFails,  \* how many allocations may fail: bounds the environment
  NULL, Garbage

ASSUME UnitTestsAssumption ==
  /\ BUF_SIZE \in Nat \ {0, 1} /\ HALF_LIST_SIZE \in Nat \ (0 .. 3)
  /\ MaxFails \in Nat
  /\ Vals # {} /\ NULL \notin Nat /\ Garbage \notin Nat
  /\ NULL \notin [id : Nat, val : Vals]

VARIABLES
  handle, buffer, head, tail, count, length, freed, ring_asked, status, out,  \* CircBuf
  p_head, heap, next, prev, data, chain, pc, current, walked, index, item,
  seen, asked, ll_status, ll_out,                                 \* LinkedList
  test, at,     \* the running test and its place in its script
  phase,        \* "setup", "call", or "check" (the call was made)
  num_inserts, num_removes, vals,  \* the random numbers of the test
  live,         \* payloads malloc'ed and not yet freed, by number
  short,        \* an allocation of this test failed
  fails,        \* how many did, in all tests
  failed        \* the tests that failed

ringVars ==
  <<handle, buffer, head, tail, count, length, freed, ring_asked, status, out>>
listVars == <<p_head, heap, next, prev, data, chain, pc, current, walked, index,
              item, seen, asked, ll_status, ll_out>>
randoms == <<num_inserts, num_removes, vals>>
testVars == <<test, at, phase, randoms, live, short, fails, failed>>
vars == <<ringVars, listVars, testVars>>

MaxPayloads == HALF_LIST_SIZE + 1
Nodes == 1 .. MaxPayloads + 1
compare(data1, data2) == data1.val = data2.val

(* Number i is a pointer to a byte that holds i. *)
CB == INSTANCE CircBuf WITH
  asked <- ring_asked, MaxLength <- BUF_SIZE, PtrBytes <- 2, Payloads <- 0 .. BUF_SIZE

LL == INSTANCE LinkedList WITH
  head <- p_head, count <- walked, status <- ll_status, out <- ll_out,
  Data <- [id : 1 .. MaxPayloads, val : Vals], Compare <- compare
----------------------------------------------------------------------------
(* Scripts: what is called, and what is asserted of the answer.            *)

Any == <<>>  \* the test does not look at what the call handed over
Expect(call, arg, code, gives) ==
  [call |-> call, arg |-> arg, code |-> code, gives |-> gives]
Ok(call, arg) == Expect(call, arg, "NO_ERROR", Any)
Refused(call, arg) == Expect(call, arg, "NULL_POINTER", Any)
Repeat(n, step(_)) == [i \in 1 .. n |-> step(i)]
Times(n, step) == [i \in 1 .. n |-> step]

Half == BUF_SIZE \div 2
New == <<Ok("circbuf_init", BUF_SIZE)>>
Destroy == <<Ok("circbuf_destroy", 0)>>
Add(i) == Ok("circbuf_add_item", i)
Take(i) == Expect("circbuf_remove_item", 0, "NO_ERROR", <<i>>)

test_circbuf_init_destroy == New \o Destroy
test_circbuf_ops_null_ptr == Times(7, Refused("circbuf NULL", 0))
test_circbuf_null_buffer ==
  New \o <<Ok("circbuf_null_buffer", 0), Refused("circbuf_add_item", 1),
           Refused("circbuf_remove_item", 0), Refused("circbuf_peek", 1),
           Refused("circbuf_destroy", 0), Ok("free buf", 0)>>
test_circbuf_add_remove_full ==
  New \o Repeat(BUF_SIZE, Add) \o Repeat(BUF_SIZE, Take) \o Destroy
test_circbuf_add_full ==
  New \o Times(BUF_SIZE, Add(0))
      \o <<Expect("circbuf_add_item", 1, "FULL", Any)>> \o Destroy
test_circbuf_remove_empty ==
  New \o <<Expect("circbuf_remove_item", 0, "EMPTY", Any)>> \o Destroy
HalfWay == New \o Repeat(Half, Add) \o Repeat(Half, Take)
test_circbuf_wrap_add == HalfWay \o Repeat(BUF_SIZE, Add) \o Destroy
test_circbuf_wrap_remove ==
  HalfWay \o Repeat(BUF_SIZE, Add) \o Repeat(BUF_SIZE, Take) \o Destroy
test_circbuf_check_full ==
  New \o <<Expect("circbuf_full", 0, "FAILURE", Any)>> \o Times(BUF_SIZE, Add(0))
      \o <<Expect("circbuf_full", 0, "FULL", Any)>> \o Destroy
test_circbuf_check_empty ==
  New \o <<Expect("circbuf_empty", 0, "EMPTY", Any), Add(1),
           Expect("circbuf_empty", 0, "FAILURE", Any)>> \o Destroy

AtEnd == -1
Payload(j) == IF j = 0 THEN NULL ELSE [id |-> j, val |-> vals[j]]
Local == [id |-> 1, val |-> CHOOSE v \in Vals : TRUE]  \* data of test_ll_ops_null_ptr
Middle == num_inserts \div 2
ListNew == <<Ok("ll_init", 0)>>
ListDestroy == <<Ok("ll_destroy", 0)>>
Insert(j, i) == <<Ok("malloc", j), Ok("ll_insert", <<j, i>>)>>
InsertAll ==
  [k \in 1 .. 2 * num_inserts |-> Insert((k + 1) \div 2, AtEnd)[2 - (k % 2)]]
Remove(i, j) ==
  <<Expect("ll_remove", i, "NO_ERROR", <<Payload(j)>>), Ok("free", j)>>
Drop(i, j) == <<Ok("ll_remove", i), Ok("free", j)>>  \* whatever was removed
NoSuchIndex(call, arg) == <<Expect(call, arg, "INDEX_TOO_LARGE", Any)>>
Search(j, i) == <<Expect("ll_search", j, "NO_ERROR", <<i>>)>>
Size(n) == <<Expect("ll_size", 0, "NO_ERROR", <<n>>)>>

test_ll_init_destroy == ListNew \o ListDestroy
test_ll_ops_null_ptr ==
  ListNew
    \o <<Refused("ll NULL", 0), Refused("ll NULL", 0),
         Refused("ll NULL", 0), Refused("ll_insert", <<0, 1>>),
         Refused("ll NULL", 0), Refused("ll_remove to NULL", 1),
         Refused("ll NULL", 0), Refused("ll_search", 0),
         Refused("ll_search with NULL", 1), Refused("ll_search with NULL", 1),
         Refused("ll NULL", 0), Refused("ll_size to NULL", 0)>>
    \o ListDestroy
test_ll_insert ==
  ListNew \o InsertAll
    \o NoSuchIndex("ll_insert", <<num_inserts, num_inserts + 1>>)
    \o Insert(num_inserts + 1, Middle) \o Insert(num_inserts + 2, 0) \o ListDestroy
test_ll_remove ==
  ListNew \o NoSuchIndex("ll_remove", 0) \o InsertAll
    \o Remove(Middle, Middle + 1) \o Remove(0, 1) \o Remove(AtEnd, num_inserts)
    \o NoSuchIndex("ll_remove", num_inserts) \o ListDestroy
test_ll_search ==
  ListNew \o NoSuchIndex("ll_remove", 0) \o InsertAll
    \o Search(Middle + 1, Middle) \o Search(1, 0) \o ListDestroy

(* A mutant: the loop removes one item too many. *)
RemoveFromEndTwice == num_removes + 1

RemovesMade == num_removes
RemoveLast ==
  [k \in 1 .. 2 * RemovesMade |->
     Drop(AtEnd, num_inserts - ((k - 1) \div 2))[2 - (k % 2)]]
test_ll_size ==
  ListNew \o Size(0) \o InsertAll \o Size(num_inserts) \o RemoveLast
    \o Size(num_inserts - num_removes) \o ListDestroy

Suite == <<"init_destroy", "ops_null_ptr", "null_buffer", "add_remove_full",
           "add_full", "remove_empty", "wrap_add", "wrap_remove", "check_full",
           "check_empty", "ll_init_destroy", "ll_ops_null_ptr", "ll_insert",
           "ll_remove", "ll_search", "ll_size">>

Script ==
  CASE Suite[test] = "init_destroy"    -> test_circbuf_init_destroy
    [] Suite[test] = "ops_null_ptr"    -> test_circbuf_ops_null_ptr
    [] Suite[test] = "null_buffer"     -> test_circbuf_null_buffer
    [] Suite[test] = "add_remove_full" -> test_circbuf_add_remove_full
    [] Suite[test] = "add_full"        -> test_circbuf_add_full
    [] Suite[test] = "remove_empty"    -> test_circbuf_remove_empty
    [] Suite[test] = "wrap_add"        -> test_circbuf_wrap_add
    [] Suite[test] = "wrap_remove"     -> test_circbuf_wrap_remove
    [] Suite[test] = "check_full"      -> test_circbuf_check_full
    [] Suite[test] = "check_empty"     -> test_circbuf_check_empty
    [] Suite[test] = "ll_init_destroy" -> test_ll_init_destroy
    [] Suite[test] = "ll_ops_null_ptr" -> test_ll_ops_null_ptr
    [] Suite[test] = "ll_insert"       -> test_ll_insert
    [] Suite[test] = "ll_remove"       -> test_ll_remove
    [] Suite[test] = "ll_search"       -> test_ll_search
    [] Suite[test] = "ll_size"         -> test_ll_size

Running == test <= Len(Suite)
Now == Script[at]
----------------------------------------------------------------------------
(* The calls.                                                              *)

(* At most MaxFails allocations fail; any other may still succeed.          *)
Allocates(code) ==
  IF code = "ALLOC_FAILURE"
  THEN fails < MaxFails /\ fails' = fails + 1 /\ short' = TRUE
  ELSE UNCHANGED <<fails, short>>

RingCall(s) ==
  /\ \/ s.call = "circbuf_init" /\ CB!circbuf_init(s.arg) /\ status' # "NULL_POINTER"
     \/ s.call = "circbuf_add_item" /\ CB!circbuf_add_item(s.arg)
     \/ s.call = "circbuf_remove_item" /\ CB!circbuf_remove_item(TRUE)
     \/ s.call = "circbuf_peek" /\ CB!circbuf_peek(s.arg)
     \/ s.call = "circbuf_full" /\ CB!circbuf_full
     \/ s.call = "circbuf_empty" /\ CB!circbuf_empty
     \/ s.call = "circbuf_destroy" /\ CB!circbuf_destroy
     \/ s.call = "circbuf_null_buffer" /\ CB!circbuf_null_buffer
     \/ /\ s.call = "circbuf NULL"
        /\ CB!Refuse("NULL_POINTER") /\ CB!Asked("NULL", 0)
     \/ /\ s.call = "free buf"
        /\ CB!Release /\ CB!Reply("NO_ERROR", <<>>) /\ CB!Asked("free", 0)
  /\ Allocates(status')
  /\ UNCHANGED <<listVars, live>>

(* Which node malloc returns makes no difference: the lowest. *)
FirstFree == \A n \in heap' \ heap : \A m \in Nodes \ heap : n <= m

ListCall(s) ==
  /\ \/ s.call = "ll_init" /\ LL!ll_init(TRUE)
     \/ s.call = "ll_insert" /\ LL!ll_insert(Payload(s.arg[1]), s.arg[2])
     \/ s.call = "ll_remove" /\ LL!ll_remove(TRUE, s.arg)
     \/ s.call = "ll_remove to NULL" /\ LL!ll_remove(FALSE, s.arg)
     \/ s.call = "ll_search" /\ LL!ll_search(Payload(s.arg), TRUE)
     \/ s.call = "ll_search with NULL" /\ LL!ll_search(Local, FALSE)
     \/ s.call = "ll_size" /\ LL!ll_size(TRUE)
     \/ s.call = "ll_size to NULL" /\ LL!ll_size(FALSE)
     \/ s.call = "ll_destroy" /\ LL!ll_destroy
     \/ s.call = "ll NULL" /\ LL!Refuse("init", "NULL_POINTER")
  /\ FirstFree
  /\ Allocates(IF pc' = "idle" THEN ll_status' ELSE "NO_ERROR")
  /\ UNCHANGED <<ringVars, live>>

(* A payload is malloc'ed and filled, or one that was removed is freed.     *)
PayloadCall(s) ==
  /\ \/ s.call = "malloc" /\ live' = live \cup {s.arg} /\ UNCHANGED <<fails, short>>
     \/ s.call = "malloc" /\ Allocates("ALLOC_FAILURE") /\ UNCHANGED live
     \/ s.call = "free" /\ UNCHANGED <<live, fails, short>>
  /\ UNCHANGED <<ringVars, listVars>>

Call ==
  /\ Running /\ phase = "call" /\ at <= Len(Script)
  /\ RingCall(Now) \/ ListCall(Now) \/ PayloadCall(Now)
  /\ phase' = "check"
  /\ UNCHANGED <<test, at, randoms, failed>>

(* The list goes on with the call. *)
Walk ==
  /\ Running /\ phase = "check"
  /\ \/ LL!InsertWalk \/ LL!InsertBreak \/ LL!InsertStop \/ LL!InsertLink
     \/ LL!RemoveWalk \/ LL!RemoveUnlink
     \/ LL!SearchHit \/ LL!SearchWalk
     \/ LL!SizeWalk \/ LL!SizeEnd \/ LL!DestroyWalk \/ LL!DestroyEnd
  /\ FirstFree
  /\ Allocates(IF pc' = "idle" THEN ll_status' ELSE "NO_ERROR")
  /\ UNCHANGED <<ringVars, test, at, phase, randoms, live, failed>>
----------------------------------------------------------------------------
(* cmocka.                                                                 *)

NextTest == test' = test + 1 /\ at' = 1 /\ phase' = "setup"
Fail == failed' = failed \cup {Suite[test]} /\ NextTest

(* What the abandoned test held is lost, its payloads with it. *)
Abandon ==
  /\ handle' = "null"
  /\ UNCHANGED <<buffer, head, tail, count, length, freed, ring_asked, status, out>>
  /\ p_head' = NULL /\ heap' = {} /\ chain' = <<>>
  /\ next' = [n \in Nodes |-> NULL] /\ prev' = [n \in Nodes |-> NULL]
  /\ data' = [n \in Nodes |-> NULL]
  /\ pc' = "idle" /\ current' = NULL /\ walked' = 0
  /\ index' = 0 /\ item' = NULL /\ seen' = <<>>
  /\ UNCHANGED <<asked, ll_status, ll_out>>

OfRing(call) == call \in {"circbuf_init", "circbuf_add_item", "circbuf_remove_item",
  "circbuf_peek", "circbuf_full", "circbuf_empty", "circbuf_destroy",
  "circbuf_null_buffer", "circbuf NULL", "free buf"}
OfPayload(call) == call \in {"malloc", "free"}

Asserted(s) ==
  CASE OfRing(s.call)    -> status = s.code /\ (s.gives = Any \/ s.gives = out)
    [] OfPayload(s.call) -> ~short
    [] OTHER             -> /\ pc = "idle" /\ ll_status = s.code
                            /\ s.gives = Any \/ s.gives = ll_out

(* A mutant: the payload inserted last is freed. *)
RemovedLast == num_inserts

Removed == ll_out[1].id

(* The payloads the call just made passed to free(), in order. *)
Released ==
  CASE Now.call = "ll_destroy" /\ ll_status = "NO_ERROR" ->
         [k \in DOMAIN ll_out |-> ll_out[k].id]
    [] Now.call = "free" -> <<Removed>>
    [] OTHER -> <<>>

Returned == Running /\ phase = "check" /\ pc \in {"idle", "crashed"}

assert_int_equal ==
  /\ Returned
  /\ \/ /\ Asserted(Now)
        /\ at' = at + 1 /\ phase' = "call"
        /\ live' = live \ Range(Released)
        /\ UNCHANGED <<ringVars, listVars, test, failed>>
     \/ ~Asserted(Now) /\ Fail /\ Abandon /\ live' = {}
  /\ UNCHANGED <<randoms, short, fails>>

(* The script is done: the test passed. *)
EndTest ==
  /\ Running /\ phase = "call" /\ at > Len(Script)
  /\ NextTest
  /\ UNCHANGED <<ringVars, listVars, randoms, live, short, fails, failed>>

(* A mutant: a draw may be HALF_LIST_SIZE itself. *)
DrawnInclusive == 0 .. HALF_LIST_SIZE

(* random() % HALF_LIST_SIZE *)
Drawn == 0 .. HALF_LIST_SIZE - 1

(* Each test draws its numbers before it calls anything.  The loops that    *)
(* draw again are over when the number is large enough; test_ll_size        *)
(* divides by the first one before it looks at it.                          *)
Enough(n) ==
  CASE Suite[test] \in {"ll_insert", "ll_search", "ll_size"} -> n > 0
    [] Suite[test] = "ll_remove" -> n >= 3
    [] OTHER -> n = 0

Draw(n, r) ==
  /\ num_inserts' = n /\ num_removes' = r
  /\ vals' \in [1 .. IF Suite[test] = "ll_insert" THEN n + 2 ELSE n -> Vals]

Setup ==
  /\ Running /\ phase = "setup"
  /\ short' = FALSE
  /\ \/ /\ \E n \in Drawn :
              /\ Enough(n)
              /\ \E r \in {0} \cup 0 .. n - 1 :
                   (Suite[test] # "ll_size" => r = 0) /\ Draw(n, r)
        /\ phase' = "call" /\ UNCHANGED <<test, at, failed>>
     \/ Suite[test] = "ll_size" /\ Draw(0, 0) /\ Fail
  /\ UNCHANGED <<ringVars, listVars, live, fails>>
----------------------------------------------------------------------------
Init ==
  /\ CB!Init /\ LL!Init
  /\ test = 1 /\ at = 1 /\ phase = "setup"
  /\ num_inserts = 0 /\ num_removes = 0 /\ vals = <<>>
  /\ live = {} /\ short = FALSE /\ fails = 0 /\ failed = {}

Returns == ~Running /\ UNCHANGED vars

Next == Setup \/ Call \/ Walk \/ assert_int_equal \/ EndTest \/ Returns

Spec == Init /\ [][Next]_vars
----------------------------------------------------------------------------
(* Properties.                                                             *)

(* Types of the client's own state. *)
TypeOK ==
  /\ test \in 1 .. Len(Suite) + 1 /\ at \in Nat \ {0}
  /\ phase \in {"setup", "call", "check"}
  /\ num_inserts \in 0 .. HALF_LIST_SIZE - 1 /\ num_removes \in 0 .. HALF_LIST_SIZE
  /\ live \subseteq 1 .. MaxPayloads
  /\ short \in BOOLEAN /\ fails \in 0 .. MaxFails
  /\ failed \subseteq Range(Suite)

(* The middle item compares equal to an earlier one, and is found there.    *)
SameContents ==
  /\ Suite[test] = "ll_search" /\ phase = "check"
  /\ \E j \in 1 .. Middle : vals[j] = vals[Middle + 1]

(* A test fails in three cases and no other, whatever numbers it draws: an  *)
(* allocation failed (unit_linkedlist.c:137 does not look, the containers   *)
(* report it), two payloads of test_ll_search are filled alike (line 258),  *)
(* or test_ll_size draws 0 and divides by it (line 272, before the check of *)
(* line 277).  So the containers answer every call as the tests assert.     *)
TestsPass ==
  [][test' # test =>
       (failed' # failed
          <=> short \/ SameContents \/ (Suite[test] = "ll_size" /\ num_inserts' = 0))]_vars

(* Tests and containers together free each payload once: what ll_destroy or *)
(* the test passes to free() is live, and no payload twice.                 *)
FreedOnce ==
  Returned => IsInjective(Released) /\ Range(Released) \subseteq live

(* A test that passes leaves nothing behind for the next one: no payload,   *)
(* no node, no ring.                                                        *)
PassedTestsLeaveNothing ==
  [][test' # test /\ failed' = failed
       => live = {} /\ heap = {} /\ handle # "live"]_vars
=============================================================================
