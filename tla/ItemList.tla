------------------------------ MODULE ItemList ------------------------------
(***************************************************************************)
(* What linkedlist.c does for its client, with no nodes and no pointers: a  *)
(* list of items addressed by index.  A step is a whole call: `asked' is    *)
(* the call, `status' its answer, `out' what it returned, printed or freed. *)
(***************************************************************************)
EXTENDS Integers, Sequences

CONSTANTS
  MaxItems,  \* bounds the indexes a client asks for
  Data,      \* payloads
  NULL,
  Compare(_, _)  \* which payloads a search takes for the same

VARIABLES open, items, asked, status, out

listVars == <<open, items, asked, status, out>>

AtEnd == -1
Indexes == -2 .. MaxItems + 1

Init ==
  /\ open = FALSE /\ items = <<>>
  /\ asked = <<"none", 0, NULL>> /\ status = "NO_ERROR" /\ out = <<>>

Reply(op, i, x, code, given) ==
  /\ asked' = <<op, i, x>> /\ status' = code /\ out' = given

(* A call that could not be served. *)
Refuse(op, i, x, code) ==
  Reply(op, i, x, code, <<>>) /\ UNCHANGED <<open, items>>

Answer(op, x, given) ==
  open /\ Reply(op, 0, x, "NO_ERROR", given) /\ UNCHANGED <<open, items>>

(* No list yet, or a missing argument: which calls are refused is not said, *)
(* only that a refused one changes nothing.                                 *)
NullPointer(i, x) ==
  \E op \in {"init", "insert", "remove", "search", "size", "dump", "destroy"} :
    Refuse(op, i, x, "NULL_POINTER")

Open ==
  /\ ~open
  /\ \/ open' = TRUE /\ Reply("init", 0, NULL, "NO_ERROR", <<>>) /\ UNCHANGED items
     \/ Refuse("init", 0, NULL, "ALLOC_FAILURE")

(* An item goes after the one at index i; the length, or -1, is the end.    *)
(* An item never goes before the first one.                                 *)
Insert(i, x) ==
  /\ open /\ i \in {AtEnd} \cup 0 .. Len(items)
  /\ \/ LET at == IF i \in 0 .. Len(items) - 1 THEN i + 1 ELSE Len(items)
        IN  /\ items' = SubSeq(items, 1, at) \o <<x>> \o SubSeq(items, at + 1, Len(items))
            /\ Reply("insert", i, x, "NO_ERROR", <<>>)
            /\ UNCHANGED open
     \/ Refuse("insert", i, x, "ALLOC_FAILURE")

InsertTooFar(i, x) ==
  /\ open /\ i \notin {AtEnd} \cup 0 .. Len(items)
  /\ Refuse("insert", i, x, "INDEX_TOO_LARGE")

Remove(i) ==
  /\ open /\ items # <<>> /\ i \in {AtEnd} \cup 0 .. Len(items) - 1
  /\ LET at == IF i = AtEnd THEN Len(items) ELSE i + 1
     IN  /\ items' = SubSeq(items, 1, at - 1) \o SubSeq(items, at + 1, Len(items))
         /\ Reply("remove", i, NULL, "NO_ERROR", <<items[at]>>)
  /\ UNCHANGED open

RemoveTooFar(i) ==
  /\ open /\ i \notin {AtEnd} \cup 0 .. Len(items) - 1
  /\ Refuse("remove", i, NULL, "INDEX_TOO_LARGE")

(* There is no last item to remove: the program ends there.                 *)
RemoveFromNothing ==
  /\ open /\ items = <<>>
  /\ Refuse("remove", AtEnd, NULL, "CRASHED")

(* The index of the first item that compares equal to x. *)
Search(x) ==
  \/ \E i \in 0 .. Len(items) - 1 :
       /\ Compare(x, items[i + 1])
       /\ \A j \in 1 .. i : ~Compare(x, items[j])
       /\ Answer("search", x, <<i>>)
  \/ /\ open /\ \A i \in 1 .. Len(items) : ~Compare(x, items[i])
     /\ Refuse("search", 0, x, "DATA_NOT_FOUND")

(* Destroying frees every payload, in order. *)
Destroy ==
  /\ open /\ open' = FALSE /\ items' = <<>>
  /\ Reply("destroy", 0, NULL, "NO_ERROR", items)

Next ==
  /\ status # "CRASHED"
  /\ \/ Open \/ Destroy \/ RemoveFromNothing
     \/ Answer("size", NULL, <<Len(items)>>) \/ Answer("dump", NULL, items)
     \/ \E i \in Indexes, x \in Data \cup {NULL} : NullPointer(i, x)
     \/ \E i \in Indexes : Remove(i) \/ RemoveTooFar(i)
     \/ \E i \in Indexes, x \in Data : Insert(i, x) \/ InsertTooFar(i, x)
     \/ \E x \in Data : Search(x)

Spec == Init /\ [][Next]_listVars
=============================================================================
