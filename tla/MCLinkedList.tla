---------------------------- MODULE MCLinkedList ----------------------------
(* A heap of four nodes: the sentinel, and a list of up to three items, so  *)
(* that there is a first, a middle and a last one.                          *)
EXTENDS LinkedList, TLC

CONSTANTS n1, n2, n3, n4, x, y, z

MCNodes == {n1, n2, n3, n4}
MCData == {x, y, z}

(* The client compares payloads by what they hold; y and z hold the same.  *)
MCCompare(d, e) == d = e \/ {d, e} = {y, z}

(* Any node malloc returns is as good as another. *)
AnyNode == Permutations(MCNodes)
=============================================================================
