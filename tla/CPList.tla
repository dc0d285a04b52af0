------------------------------- MODULE CPList -------------------------------
(***************************************************************************)
(* pdm/include/cplist.h as it is written: every header, head or node, has  *)
(* a next and a previous pointer, and a list is the ring through its head. *)
(* The assertions are compiled out, so what a call does is what its stores *)
(* do; the callers' part is to link a node once (PrcMng!StartQueueOk).     *)
(*                                                                         *)
(* listForEachSafe is here with what the loops of the manager do in its    *)
(* body: leave the node, unlink it, or move it to another list.            *)
(***************************************************************************)
EXTENDS Integers, FiniteSets, SequencesExt

CONSTANTS CpHead, CpNode, CpNil

CpHeader == CpHead \cup CpNode

ASSUME CpAssumption ==
  /\ CpHead \cap CpNode = {} /\ CpNil \notin CpHeader
  /\ IsFiniteSet(CpNode)

VARIABLES cpNext, cpPrev,  \* m_pNext, m_pPrev
          cpLoop           \* a loop: head, pInst, pN, what was there, what it saw

cpVars == <<cpNext, cpPrev, cpLoop>>

NoLoop == [head |-> CpNil, inst |-> CpNil, pn |-> CpNil, had |-> << >>, saw |-> << >>]

\* CListHeader::CListHeader
CpInit ==
  /\ cpNext = [x \in CpHeader |-> x] /\ cpPrev = [x \in CpHeader |-> x]
  /\ cpLoop = NoLoop

\* The headers that follow a head, by the next pointers, until it or NULL is met
Walk(h) ==
  LET walk[i \in 1 .. Cardinality(CpNode) + 1] ==
        IF i = 1 THEN cpNext[h]
        ELSE IF walk[i - 1] \in {h, CpNil} THEN walk[i - 1] ELSE cpNext[walk[i - 1]]
  IN  walk

\* The nodes of a list from getFirstEntry on
Elements(h) == [i \in {j \in DOMAIN Walk(h) : Walk(h)[j] \notin {h, CpNil}} |-> Walk(h)[i]]

CpLinked(n) == cpNext[n] \notin {n, CpNil}

\* sIntDel(pPrev, pNext)
IntDel(n) ==
  [next |-> [cpNext EXCEPT ![cpPrev[n]] = cpNext[n]],
   prev |-> [cpPrev EXCEPT ![cpNext[n]] = cpPrev[n]]]

\* mutant: the neighbour behind is not told
IntAddHalf(l, n, h) ==
  LET last == l.prev[h] IN
  [next |-> [[l.next EXCEPT ![n] = h] EXCEPT ![last] = n],
   prev |-> [l.prev EXCEPT ![n] = last]]

\* sIntAdd(pNew, head->m_pPrev, head)
IntAdd(l, n, h) ==
  LET last == l.prev[h] IN
  [next |-> [[l.next EXCEPT ![n] = h] EXCEPT ![last] = n],
   prev |-> [[l.prev EXCEPT ![h] = n] EXCEPT ![n] = last]]

Become(l) == cpNext' = l.next /\ cpPrev' = l.prev

\* CListHead::addTail, for a node that is not linked
CpAddTail(h, n) ==
  /\ ~CpLinked(n)
  /\ Become(IntAdd([next |-> cpNext, prev |-> cpPrev], n, h))

\* CListHeader::del
CpDel(n) ==
  /\ CpLinked(n)
  /\ LET l == IntDel(n) IN
       Become([next |-> [l.next EXCEPT ![n] = CpNil], prev |-> [l.prev EXCEPT ![n] = CpNil]])

\* CListHead::accept: of a node of any list, or one that was never linked
CpAccept(h, n) ==
  /\ cpNext[n] # CpNil
  /\ Become(IntAdd(IntDel(n), n, h))

CpCall ==
  /\ cpLoop = NoLoop
  /\ \E n \in CpNode : CpDel(n) \/ \E h \in CpHead : CpAddTail(h, n) \/ CpAccept(h, n)
  /\ UNCHANGED cpLoop

\* listForEachSafe(pInst, head) begins
CpBegin(h) ==
  /\ cpLoop = NoLoop
  /\ cpLoop' = [head |-> h, inst |-> cpNext[h], pn |-> cpNext[cpNext[h]], had |-> Elements(h), saw |-> << >>]
  /\ UNCHANGED <<cpNext, cpPrev>>

\* mutant: listForEach, which reads the next pointer after the body
CpBodyUnsafe ==
  /\ cpLoop.head # CpNil /\ cpLoop.inst # cpLoop.head
  /\ LET n == cpLoop.inst IN
       \/ UNCHANGED <<cpNext, cpPrev>>
       \/ \E h \in CpHead \ {cpLoop.head} : CpAccept(h, n)
  /\ cpLoop' = [cpLoop EXCEPT !.inst = cpNext'[cpLoop.inst], !.saw = Append(@, cpLoop.inst)]

\* One run of the body, then pInst = pN, pN = pN->next().
CpBody ==
  /\ cpLoop.head # CpNil /\ cpLoop.inst # cpLoop.head
  /\ LET n == cpLoop.inst IN
       \/ UNCHANGED <<cpNext, cpPrev>>
       \/ CpDel(n)
       \/ \E h \in CpHead \ {cpLoop.head} : CpAccept(h, n)
  /\ cpLoop' = [cpLoop EXCEPT !.inst = cpLoop.pn, !.pn = cpNext'[cpLoop.pn],
                              !.saw = Append(@, cpLoop.inst)]

CpEnd ==
  /\ cpLoop.head # CpNil /\ cpLoop.inst = cpLoop.head
  /\ cpLoop' = NoLoop
  /\ UNCHANGED <<cpNext, cpPrev>>

CpNext == CpCall \/ (\E h \in CpHead : CpBegin(h)) \/ CpBody \/ CpEnd

CpSpec == CpInit /\ [][CpNext]_cpVars

----------------------------------------------------------------------------
(* Properties *)

CpTypeOK ==
  /\ cpNext \in [CpHeader -> CpHeader \cup {CpNil}]
  /\ cpPrev \in [CpHeader -> CpHeader \cup {CpNil}]
  /\ cpLoop.head \in CpHead \cup {CpNil}

\* Seen through its next pointers each ring is the sequence that ListOps says,
\* after every order of addTail, del and accept, also in a loop's body.
CpPromise == INSTANCE Lists WITH
  ListHead <- CpHead, Node <- CpNode, lists <- [h \in CpHead |-> Elements(h)]

CpRefinesLists == CpPromise!Spec

\* A loop sees each node its list had, in order, once, and ends, although the
\* body unlinks the nodes or moves them to another list.
LoopSeesAll ==
  cpLoop.head # CpNil =>
    /\ Len(cpLoop.saw) <= Len(cpLoop.had)
    /\ cpLoop.saw = SubSeq(cpLoop.had, 1, Len(cpLoop.saw))
    /\ cpLoop.inst = cpLoop.head => cpLoop.saw = cpLoop.had
============================================================================
