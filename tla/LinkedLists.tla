------------------------------ MODULE LinkedLists ------------------------------
(***************************************************************************)
(* The linked lists of libcdio and what data_structures.c does to them:    *)
(* the pointers themselves, for the sort writes them, `end` included, and  *)
(* an append goes where `end` points.  A node is a number, NULL is 0.      *)
(***************************************************************************)
EXTENDS Integers, Sequences

NULL == 0

\* _cdio_list_new
NewList == [length |-> 0, begin |-> NULL, end |-> NULL, next |-> <<>>]

\* _cdio_list_append
ListAppend(list, node) ==
    [length |-> list.length + 1,
     begin |-> IF list.length = 0 THEN node ELSE list.begin,
     end |-> node,
     next |-> [n \in DOMAIN list.next \cup {node} |->
                 IF n = node THEN NULL ELSE IF n = list.end THEN node ELSE list.next[n]]]

\* The nodes in the order in which a walk from `begin` meets them.
Elements(list) ==
    LET nth[k \in 1 .. list.length] == IF k = 1 THEN list.begin ELSE list.next[nth[k - 1]]
    IN  [k \in 1 .. list.length |-> nth[k]]

\* What pp_node points at: `begin`, or the next of a node.
Deref(list, slot) == IF slot = NULL THEN list.begin ELSE list.next[slot]

\* Mutant: `end` stays where it was.
Exchanged_end(list, slot) ==
    LET node == Deref(list, slot)
        behind == list.next[node]
    IN  [list EXCEPT
           !.begin = IF slot = NULL THEN behind ELSE @,
           !.next = [n \in DOMAIN @ |-> CASE n = slot -> behind
                                          [] n = node -> @[behind]
                                          [] n = behind -> node
                                          [] n \notin {slot, node, behind} -> @[n]]]

\* The node that slot points at changes places with the next one.
Exchanged(list, slot) ==
    LET node == Deref(list, slot)
        behind == list.next[node]
    IN  [list EXCEPT
           !.begin = IF slot = NULL THEN behind ELSE @,
           !.next = [n \in DOMAIN @ |-> CASE n = slot -> behind
                                          [] n = node -> @[behind]
                                          [] n = behind -> node
                                          [] n \notin {slot, node, behind} -> @[n]],
           !.end = IF list.next[behind] = NULL THEN node ELSE @]

\* _bubble_sort_iteration: the list after k turns of the loop, and the slot.  What cmp_func
\* compares is the rank of a node.
BubbleSortIteration(list, rank) ==
    LET turn[k \in 0 .. list.length] ==
          IF k = 0 THEN [list |-> list, slot |-> NULL]
          ELSE LET s == turn[k - 1]
                   node == Deref(s.list, s.slot)
               IN  IF node = NULL \/ s.list.next[node] = NULL THEN s
                   ELSE IF rank[node] <= rank[s.list.next[node]] THEN [s EXCEPT !.slot = node]
                   ELSE [list |-> Exchanged(s.list, s.slot), slot |-> s.list.next[node]]
    IN  turn[list.length].list

\* _vcd_list_sort: until nothing changes, which is after length iterations at most.
SortList(list, rank) ==
    LET sorted[k \in 0 .. list.length] ==
          IF k = 0 THEN list ELSE BubbleSortIteration(sorted[k - 1], rank)
    IN  sorted[list.length]

\* A list that a walk and an append may trust.
Sound(list) ==
    /\ list.length = 0 => list.begin = NULL /\ list.end = NULL
    /\ list.length > 0 =>
          /\ Elements(list)[list.length] = list.end
          /\ list.next[list.end] = NULL
          /\ {Elements(list)[k] : k \in 1 .. list.length} = DOMAIN list.next
=============================================================================
