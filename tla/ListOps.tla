------------------------------ MODULE ListOps ------------------------------
(***************************************************************************)
(* The intrusive doubly linked list of pdm/include/cplist.h, seen as the   *)
(* sequence of its nodes from getFirstEntry to getLastEntry.  A node is on *)
(* at most one list at a time; unlinking it needs no knowledge of which.   *)
(***************************************************************************)
EXTENDS Integers, Sequences, SequencesExt

\* CListHeader::del, CListHeader::sIntDel: the neighbours of e are joined.  A
\* list that e is not on is left as it is.
Unlink(s, e) ==
  IF e \in ToSet(s)
  THEN LET i == CHOOSE i \in DOMAIN s : s[i] = e
       IN  SubSeq(s, 1, i - 1) \o SubSeq(s, i + 1, Len(s))
  ELSE s

\* CListHead::addTail
AddTail(s, e) == Append(s, e)

\* CListHead::isEmpty
IsEmpty(s) == s = << >>

\* No node is linked twice.
NoDup(s) == \A i, j \in DOMAIN s : s[i] = s[j] => i = j
============================================================================
