----------------------------- MODULE LinkedList -----------------------------
(***************************************************************************)
(* linkedlist.c: a doubly linked list with a sentinel head, on the heap.    *)
(*                                                                         *)
(* A call that loops is a first step that checks its arguments and one step *)
(* for each turn of the loop: `pc' says which loop, `current' and `count'   *)
(* are its variables.  `chain' is a history variable, the nodes in the      *)
(* order they were linked; no step reads it to decide anything.             *)
(***************************************************************************)
EXTENDS Integers, Sequences, FiniteSets

CONSTANTS
  Nodes,  \* the nodes the heap has room for
  Data,   \* payloads
  NULL,
  Compare(_, _)  \* the function ll_search is given

ASSUME LinkedListAssumption ==
  /\ IsFiniteSet(Nodes)
  /\ NULL \notin Nodes /\ NULL \notin Data
  /\ \A x, y \in Data : Compare(x, y) \in BOOLEAN

VARIABLES
  head,              \* the caller's handle, NULL before ll_init and once destroyed
  heap,              \* nodes allocated
  next, prev, data,  \* the fields of every node
  chain,             \* history: the linked nodes, sentinel first
  pc, current, count,
  index, item,       \* arguments of the running call
  seen,              \* what the running call printed or freed so far
  asked, status, out \* the last call, what it returned, and handed over

links == <<head, heap, next, prev, data, chain>>
loop == <<pc, current, count, index, item, seen>>
answer == <<asked, status, out>>
vars == <<links, loop, answer>>

INSERT_AT_END == -1
REMOVE_AT_END == -1

Indexes == -2 .. Cardinality(Nodes)

Reply(op, i, x, code, given) ==
  /\ pc' = "idle" /\ current' = NULL /\ count' = 0
  /\ index' = 0 /\ item' = NULL /\ seen' = <<>>
  /\ asked' = <<op, i, x>> /\ status' = code /\ out' = given

Return(op, code, given) == Reply(op, index, item, code, given)
Refuse(op, code) == Return(op, code, <<>>) /\ UNCHANGED links

(* LL_CHECK_NULL on the arguments, then the loop starts at the head. *)
Call(op, from, i, x, args) ==
  /\ pc = "idle"
  /\ \/ /\ head = NULL \/ ~args
        /\ Reply(op, i, x, "NULL_POINTER", <<>>)
        /\ UNCHANGED links
     \/ /\ head # NULL /\ args
        /\ pc' = op /\ current' = head /\ count' = from
        /\ index' = i /\ item' = x /\ seen' = <<>>
        /\ UNCHANGED <<links, answer>>

(* A turn of a loop that goes to the next node, and the end of one. *)
Following == next[current]
Turn(op) == pc = op /\ Following # NULL
AtLast(op) == pc = op /\ Following = NULL
Advance ==
  current' = Following /\ count' = count + 1 /\ UNCHANGED <<index, item, answer>>
Visit(op) == Turn(op) /\ Advance /\ UNCHANGED <<pc, links>>

(* A node zeroed by memset, or freed: what it held is gone, kept as NULL.   *)
Cleared(field, n) == [field EXCEPT ![n] = NULL]
----------------------------------------------------------------------------
ll_init(handle) ==
  /\ pc = "idle" /\ head = NULL
  /\ \/ ~handle /\ Refuse("init", "NULL_POINTER")
     \/ handle /\ Refuse("init", "ALLOC_FAILURE")
     \/ /\ handle
        /\ \E n \in Nodes \ heap :
             /\ head' = n /\ heap' = heap \cup {n} /\ chain' = <<n>>
             /\ next' = Cleared(next, n) /\ prev' = Cleared(prev, n)
             /\ data' = Cleared(data, n)
        /\ Return("init", "NO_ERROR", <<>>)
----------------------------------------------------------------------------
(* ll_insert.                                                              *)

InsertWalk == Visit("insert") /\ count # index /\ UNCHANGED seen

(* The turn whose count is the index stops on the node it has gone to. *)
InsertBreak ==
  /\ Turn("insert") /\ count = index
  /\ pc' = "link" /\ current' = Following
  /\ UNCHANGED <<links, count, index, item, seen, answer>>

InsertStop ==
  /\ AtLast("insert") /\ pc' = "link"
  /\ UNCHANGED <<links, current, count, index, item, seen, answer>>

(* Where current is in the chain. *)
Place(n) == CHOOSE p \in 1 .. Len(chain) : chain[p] = n

LinkAfter(n) ==
  LET after == next[current]
  IN  /\ heap' = heap \cup {n}
      /\ next' = [next EXCEPT ![current] = n, ![n] = after]
      /\ prev' = [m \in Nodes |-> IF m = n THEN current
                                  ELSE IF m = after THEN n ELSE prev[m]]
      /\ data' = [data EXCEPT ![n] = item]
      /\ chain' = SubSeq(chain, 1, Place(current)) \o <<n>>
                    \o SubSeq(chain, Place(current) + 1, Len(chain))
      /\ UNCHANGED head

(* A mutant: an index past the end is taken for the end. *)
InsertAnywhere == TRUE

InsertFound == index = INSERT_AT_END \/ count = index

InsertLink ==
  /\ pc = "link"
  /\ \/ ~InsertFound /\ Refuse("insert", "INDEX_TOO_LARGE")
     \/ InsertFound /\ Refuse("insert", "ALLOC_FAILURE")
     \/ /\ InsertFound
        /\ \E n \in Nodes \ heap : LinkAfter(n)
        /\ Return("insert", "NO_ERROR", <<>>)

(* A mutant: data is not checked. *)
InsertUnchecked(x, i) == Call("insert", 0, i, x, TRUE)

ll_insert(x, i) == Call("insert", 0, i, x, x # NULL)
----------------------------------------------------------------------------
(* ll_remove.                                                              *)

RemoveStops == Following = NULL \/ (count # REMOVE_AT_END /\ count = index)

RemoveWalk == Visit("remove") /\ ~RemoveStops /\ UNCHANGED seen

RemoveFound == index = REMOVE_AT_END \/ count = index

Unchain ==
  chain' = SubSeq(chain, 1, Place(current) - 1)
             \o SubSeq(chain, Place(current) + 1, Len(chain))

(* A mutant: the successor still points back at the freed node. *)
UnlinkForward ==
  /\ heap' = heap \ {current}
  /\ next' = Cleared([next EXCEPT ![prev[current]] = next[current]], current)
  /\ prev' = Cleared(prev, current)
  /\ data' = Cleared(data, current)
  /\ Unchain /\ UNCHANGED head

Unlink ==
  /\ heap' = heap \ {current}
  /\ next' = Cleared([next EXCEPT ![prev[current]] = next[current]], current)
  /\ prev' = Cleared([m \in Nodes |-> IF m = next[current] THEN prev[current]
                                    ELSE prev[m]], current)
  /\ data' = Cleared(data, current)
  /\ Unchain /\ UNCHANGED head

(* On an empty list REMOVE_AT_END finds the sentinel: its prev is NULL, and *)
(* the store through it ends the program.                                   *)
RemoveUnlink ==
  /\ pc = "remove" /\ RemoveStops
  /\ \/ ~RemoveFound /\ Refuse("remove", "INDEX_TOO_LARGE")
     \/ /\ RemoveFound /\ prev[current] # NULL
        /\ Unlink
        /\ Return("remove", "NO_ERROR", <<data[current]>>)
     \/ /\ RemoveFound /\ prev[current] = NULL
        /\ pc' = "crashed" /\ current' = NULL /\ count' = 0
        /\ index' = 0 /\ item' = NULL /\ seen' = <<>>
        /\ asked' = <<"remove", index, item>> /\ status' = "CRASHED" /\ out' = <<>>
        /\ UNCHANGED links

(* A mutant: counting starts at the head, as in ll_insert. *)
RemoveFromHead(dst, i) == Call("remove", 0, i, NULL, dst)

ll_remove(dst, i) == Call("remove", -1, i, NULL, dst)
----------------------------------------------------------------------------
(* ll_search, ll_size, ll_dump.                                            *)

SearchHit ==
  /\ Turn("search") /\ Compare(item, data[Following])
  /\ Return("search", "NO_ERROR", <<count>>) /\ UNCHANGED links
SearchWalk ==
  Visit("search") /\ ~Compare(item, data[Following]) /\ UNCHANGED seen
SearchEnd == AtLast("search") /\ Refuse("search", "DATA_NOT_FOUND")

SizeWalk == Visit("size") /\ UNCHANGED seen
SizeEnd ==
  AtLast("size") /\ Return("size", "NO_ERROR", <<count>>) /\ UNCHANGED links

DumpWalk == Visit("dump") /\ seen' = Append(seen, data[Following])
DumpEnd ==
  AtLast("dump") /\ Return("dump", "NO_ERROR", seen) /\ UNCHANGED links

ll_search(x, args) == Call("search", 0, 0, x, x # NULL /\ args)
ll_size(dst) == Call("size", 0, 0, NULL, dst)
ll_dump(func) == Call("dump", 0, 0, NULL, func)
----------------------------------------------------------------------------
(* ll_destroy: each turn frees the payload of a node and the node before.  *)

Free(n) ==
  /\ heap' = heap \ {n}
  /\ next' = Cleared(next, n) /\ prev' = Cleared(prev, n) /\ data' = Cleared(data, n)

DestroyWalk ==
  /\ Turn("destroy") /\ Advance
  /\ seen' = Append(seen, data[Following])
  /\ Free(prev[Following])
  /\ chain' = Tail(chain)
  /\ UNCHANGED <<head, pc>>

(* A mutant: the last node is not freed. *)
DestroyEndLeaks ==
  /\ AtLast("destroy")
  /\ head' = NULL /\ chain' = <<>>
  /\ Return("destroy", "NO_ERROR", seen)
  /\ UNCHANGED <<heap, next, prev, data>>

DestroyEnd ==
  /\ AtLast("destroy")
  /\ Free(current)
  /\ head' = NULL /\ chain' = <<>>
  /\ Return("destroy", "NO_ERROR", seen)

ll_destroy == Call("destroy", 0, 0, NULL, TRUE)
----------------------------------------------------------------------------
Init ==
  /\ head = NULL /\ heap = {} /\ chain = <<>>
  /\ next = [n \in Nodes |-> NULL] /\ prev = [n \in Nodes |-> NULL]
  /\ data = [n \in Nodes |-> NULL]
  /\ pc = "idle" /\ current = NULL /\ count = 0
  /\ index = 0 /\ item = NULL /\ seen = <<>>
  /\ asked = <<"none", 0, NULL>> /\ status = "NO_ERROR" /\ out = <<>>

(* Nothing happens in a program that crashed. *)
Crashed == pc = "crashed" /\ UNCHANGED vars

Next ==
  \/ \E x \in Data \cup {NULL}, i \in Indexes : ll_insert(x, i)
  \/ \E i \in Indexes, dst \in BOOLEAN : ll_remove(dst, i)
  \/ \E x \in Data \cup {NULL}, args \in BOOLEAN : ll_search(x, args)
  \/ \E given \in BOOLEAN : ll_init(given) \/ ll_size(given) \/ ll_dump(given)
  \/ ll_destroy
  \/ InsertWalk \/ InsertBreak \/ InsertStop \/ InsertLink
  \/ RemoveWalk \/ RemoveUnlink
  \/ SearchHit \/ SearchWalk \/ SearchEnd \/ SizeWalk \/ SizeEnd \/ DumpWalk \/ DumpEnd
  \/ DestroyWalk \/ DestroyEnd
  \/ Crashed

Spec == Init /\ [][Next]_vars
----------------------------------------------------------------------------
Walks == {"insert", "link", "remove", "search", "size", "dump", "destroy"}
Max == Cardinality(Nodes)

(* Type invariant; an item in the list, or being inserted or looked for, is *)
(* never a null pointer.                                                    *)
TypeOK ==
  /\ head \in Nodes \cup {NULL} /\ heap \subseteq Nodes
  /\ next \in [Nodes -> Nodes \cup {NULL}] /\ prev \in [Nodes -> Nodes \cup {NULL}]
  /\ data \in [Nodes -> Data \cup {NULL}]
  /\ pc \in Walks \cup {"idle", "crashed"}
  /\ current \in Nodes \cup {NULL} /\ count \in Int /\ index \in Int
  /\ item \in Data \cup {NULL}
  /\ pc \in {"insert", "link", "search"} => item \in Data
  /\ chain \in Seq(Nodes) /\ seen \in Seq(Data)
  /\ \A p \in 2 .. Len(chain) : data[chain[p]] \in Data

(* The nodes reachable from the head are the linked ones, once each, and    *)
(* every prev undoes a next, through every order of insertions and removals *)
(* (linkedlist.c:77-84 and 118-122), even between two turns of ll_destroy.  *)
ListIsLinked ==
  /\ \A p, q \in 1 .. Len(chain) : chain[p] = chain[q] => p = q
  /\ \A p \in 1 .. Len(chain) - 1 :
       next[chain[p]] = chain[p + 1] /\ prev[chain[p + 1]] = chain[p]
  /\ chain # <<>> => next[chain[Len(chain)]] = NULL
  /\ pc # "destroy" =>
       IF head = NULL THEN chain = <<>>
       ELSE chain # <<>> /\ chain[1] = head /\ prev[head] = NULL

(* No node leaks, none is freed while linked, and a loop only ever stands   *)
(* on a live node: ll_destroy frees the node behind it and not its own.     *)
NothingLeaksOrDangles ==
  /\ heap = {chain[p] : p \in 1 .. Len(chain)}
  /\ pc \in Walks => current \in heap

(* What a loop has done by its count: the node it stands on, the items it   *)
(* has printed or freed, and that it has walked past none it looks for.     *)
WalksCount ==
  LET item_(p) == data[chain[p]]
      Before(p) == [j \in 1 .. p - 1 |-> item_(j + 1)]
      At(p) == p \in 1 .. Len(chain) /\ current = chain[p]
  IN  /\ pc = "insert" => At(count + 1) /\ index \notin 0 .. count - 1
      /\ pc = "link" => \/ At(count + 2) /\ count = index
                        \/ At(count + 1) /\ next[current] = NULL
      /\ pc = "remove" => At(count + 2) /\ index \notin 0 .. count - 1
      /\ pc \in {"search", "size", "dump"} => At(count + 1)
      /\ pc = "search" => \A j \in 1 .. count : ~Compare(item, item_(j + 1))
      /\ pc = "dump" => seen = Before(count + 1)
      /\ pc = "destroy" => At(1) /\ Len(seen) = count

(* The nodes implement the list of items: every call is one step of it, at  *)
(* the moment it returns, and a refused call changes nothing.               *)
ItemsOf ==
  (IF pc = "destroy" THEN seen ELSE <<>>)
    \o [p \in 1 .. Len(chain) - 1 |-> data[chain[p + 1]]]
L == INSTANCE ItemList WITH MaxItems <- Max - 1, open <- head # NULL, items <- ItemsOf
ImplementsList == L!Spec
=============================================================================
