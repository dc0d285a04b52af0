------------------------------- MODULE Lists -------------------------------
(***************************************************************************)
(* What the intrusive lists of cplist.h promise: a family of sequences of  *)
(* nodes, changed by the operations of ListOps.                            *)
(***************************************************************************)
EXTENDS ListOps

CONSTANTS ListHead, Node
VARIABLE lists

Linked(n) == \E h \in ListHead : n \in ToSet(lists[h])

Init == lists = [h \in ListHead |-> << >>]

addTail(h, n) == ~Linked(n) /\ lists' = [lists EXCEPT ![h] = AddTail(@, n)]

del(n) == Linked(n) /\ lists' = [h \in ListHead |-> Unlink(lists[h], n)]

accept(h, n) ==
  lists' = [g \in ListHead |-> IF g = h THEN AddTail(Unlink(lists[g], n), n) ELSE Unlink(lists[g], n)]

Next == \E n \in Node : del(n) \/ \E h \in ListHead : addTail(h, n) \/ accept(h, n)

Spec == Init /\ [][Next]_lists
============================================================================
