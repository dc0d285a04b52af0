--------------------------- MODULE ListOpsProofs ---------------------------
(***************************************************************************)
(* What the list operations return, for every list without duplicates.     *)
(* The proofs of the other modules cite these facts and never expand the   *)
(* operations.                                                             *)
(***************************************************************************)
EXTENDS ListOps, SequenceTheorems, TLAPS

(* The nodes of a list belong to the set the list is over. *)
LEMMA NodesOfList ==
  ASSUME NEW S, NEW s \in Seq(S)
  PROVE  ToSet(s) \subseteq S
  BY DEF ToSet

(* The empty list (what the constructor of CListHead makes) has no nodes. *)
LEMMA EmptyList ==
  ASSUME NEW S
  PROVE  << >> \in Seq(S) /\ NoDup(<< >>) /\ ToSet(<< >>) = {}
  BY DEF NoDup, ToSet

(* getFirstEntry of a list that is not empty is one of its nodes. *)
LEMMA FirstEntry ==
  ASSUME NEW S, NEW s \in Seq(S), ~IsEmpty(s)
  PROVE  Head(s) \in ToSet(s) /\ Head(s) \in S
<1>1. 1 \in DOMAIN s /\ Head(s) = s[1] /\ s[1] \in S BY DEF IsEmpty
<1> QED BY <1>1 DEF ToSet

(* The rest of a list walked by listForEachSafe has neither new nodes nor the *)
(* one just visited.                                                         *)
LEMMA RestOfList ==
  ASSUME NEW S, NEW s \in Seq(S), ~IsEmpty(s)
  PROVE  /\ Tail(s) \in Seq(S)
         /\ ToSet(Tail(s)) \subseteq ToSet(s)
         /\ NoDup(s) => NoDup(Tail(s)) /\ Head(s) \notin ToSet(Tail(s))
<1> DEFINE t == Tail(s)
<1>1. /\ t \in Seq(S) /\ Len(t) = Len(s) - 1
      /\ \A i \in 1 .. Len(t) : t[i] = s[i + 1]
      /\ Head(s) = s[1] /\ Len(s) \in Nat /\ Len(s) > 0
  BY HeadTailProperties DEF IsEmpty
<1> HIDE DEF t
<1>2. DOMAIN s = 1 .. Len(s) /\ DOMAIN t = 1 .. Len(s) - 1
  BY <1>1
<1>3. ToSet(t) \subseteq ToSet(s)
  BY <1>1, <1>2 DEF ToSet
<1>4. ASSUME NoDup(s)
      PROVE  NoDup(t) /\ Head(s) \notin ToSet(t)
  <2>1. \A j \in DOMAIN t : t[j] = s[j + 1] /\ j + 1 \in DOMAIN s /\ j + 1 # 1
    BY <1>1, <1>2
  <2>2. NoDup(t)
    <3> SUFFICES ASSUME NEW j \in DOMAIN t, NEW k \in DOMAIN t, t[j] = t[k]
                 PROVE  j = k
      BY DEF NoDup
    <3>1. j + 1 = k + 1  BY <2>1, <1>4 DEF NoDup
    <3> QED BY <3>1, <1>2, <1>1
  <2>3. Head(s) \notin ToSet(t)
    <3> SUFFICES ASSUME NEW j \in DOMAIN t, t[j] = Head(s)
                 PROVE  FALSE
      BY DEF ToSet
    <3>1. 1 \in DOMAIN s /\ s[1] = s[j + 1]  BY <1>1, <1>2, <2>1
    <3> QED BY <3>1, <2>1, <1>4 DEF NoDup
  <2> QED BY <2>2, <2>3
<1> QED BY <1>1, <1>3, <1>4 DEF t

(* addTail of a node that is on no list *)
LEMMA AddTailNew ==
  ASSUME NEW S, NEW s \in Seq(S), NEW e \in S
  PROVE  /\ AddTail(s, e) \in Seq(S)
         /\ ToSet(AddTail(s, e)) = ToSet(s) \cup {e}
         /\ NoDup(s) /\ e \notin ToSet(s) => NoDup(AddTail(s, e))
         /\ ~IsEmpty(AddTail(s, e))
<1> DEFINE t == AddTail(s, e)
<1>1. /\ t \in Seq(S) /\ Len(t) = Len(s) + 1 /\ Len(s) \in Nat
      /\ \A i \in 1 .. Len(s) : t[i] = s[i]
      /\ t[Len(s) + 1] = e
  BY AppendProperties DEF AddTail
<1> HIDE DEF t
<1>2. DOMAIN s = 1 .. Len(s) /\ DOMAIN t = 1 .. Len(s) + 1
  BY <1>1
<1>3. ToSet(t) = ToSet(s) \cup {e}
  <2>1. ToSet(t) \subseteq ToSet(s) \cup {e}  BY <1>1, <1>2 DEF ToSet
  <2>2. ToSet(s) \subseteq ToSet(t)  BY <1>1, <1>2 DEF ToSet
  <2>3. Len(s) + 1 \in DOMAIN t  BY <1>1, <1>2
  <2>4. e \in ToSet(t)  BY <1>1, <2>3 DEF ToSet
  <2> QED BY <2>1, <2>2, <2>4
<1>4. ASSUME NoDup(s), e \notin ToSet(s) PROVE NoDup(t)
  <2>1. \A i \in DOMAIN s : s[i] # e  BY <1>4 DEF ToSet
  <2> QED BY <1>1, <1>2, <1>4, <2>1 DEF NoDup
<1>5. ~IsEmpty(t)  BY <1>1, <1>2 DEF IsEmpty
<1> QED BY <1>1, <1>3, <1>4, <1>5 DEF t

(* del of the node at the place i: the nodes behind it move up. *)
LEMMA UnlinkAt ==
  ASSUME NEW S, NEW s \in Seq(S), NoDup(s), NEW i \in 1 .. Len(s)
  PROVE  /\ Unlink(s, s[i]) \in Seq(S)
         /\ Len(Unlink(s, s[i])) = Len(s) - 1
         /\ \A j \in 1 .. Len(s) - 1 : Unlink(s, s[i])[j] = IF j < i THEN s[j] ELSE s[j + 1]
<1> DEFINE e == s[i]
           a == SubSeq(s, 1, i - 1)
           b == SubSeq(s, i + 1, Len(s))
           u == a \o b
<1>1. Unlink(s, e) = u
  <2> DEFINE k == CHOOSE k \in DOMAIN s : s[k] = e
  <2>1. e \in ToSet(s)  BY DEF ToSet
  <2>2. k \in DOMAIN s /\ s[k] = e  OBVIOUS
  <2>3. k = i  BY <2>2 DEF NoDup
  <2> QED BY <2>1, <2>3 DEF Unlink
<1>2. a \in Seq(S) /\ Len(a) = i - 1 /\ \A j \in 1 .. i - 1 : a[j] = s[j]
  BY SubSeqProperties
<1>3. b \in Seq(S) /\ Len(b) = Len(s) - i /\ \A j \in 1 .. Len(s) - i : b[j] = s[i + j]
  BY SubSeqProperties
<1> HIDE DEF a, b
<1>4. u \in Seq(S) /\ Len(u) = Len(s) - 1
  <2>1. u \in Seq(S) /\ Len(u) = Len(a) + Len(b)  BY <1>2, <1>3, ConcatProperties
  <2> QED BY <2>1, <1>2, <1>3
<1>5. ASSUME NEW j \in 1 .. Len(s) - 1
      PROVE  u[j] = IF j < i THEN s[j] ELSE s[j + 1]
  <2>1. CASE j < i  BY <2>1, <1>2, <1>3, ConcatProperties
  <2>2. CASE ~(j < i)
    <3>1. u[j] = b[j - (i - 1)]  BY <2>2, <1>2, <1>3, ConcatProperties
    <3>2. j - (i - 1) \in 1 .. Len(s) - i  BY <2>2
    <3>3. b[j - (i - 1)] = s[i + (j - (i - 1))]  BY <3>2, <1>3
    <3> QED BY <3>1, <3>3, <2>2
  <2> QED BY <2>1, <2>2
<1> HIDE DEF u, e
<1> QED BY <1>1, <1>4, <1>5 DEF e

(* del of a node, of whichever list it is on *)
LEMMA UnlinkNode ==
  ASSUME NEW S, NEW s \in Seq(S), NEW e, NoDup(s)
  PROVE  /\ Unlink(s, e) \in Seq(S)
         /\ ToSet(Unlink(s, e)) = ToSet(s) \ {e}
         /\ NoDup(Unlink(s, e))
<1>1. CASE e \notin ToSet(s)
  BY <1>1 DEF Unlink
<1>2. CASE e \in ToSet(s)
  <2> DEFINE u == Unlink(s, e)
  <2>1. PICK i \in 1 .. Len(s) : s[i] = e  BY <1>2 DEF ToSet
  <2>2. u \in Seq(S) /\ Len(u) = Len(s) - 1  BY <2>1, UnlinkAt
  <2>3. \A j \in 1 .. Len(s) - 1 : u[j] = IF j < i THEN s[j] ELSE s[j + 1]
    BY <2>1, UnlinkAt
  <2> HIDE DEF u
  <2>4. DOMAIN s = 1 .. Len(s) /\ DOMAIN u = 1 .. Len(s) - 1 /\ Len(s) \in Nat  BY <2>2
  <2>5. NoDup(u)
    <3> SUFFICES ASSUME NEW j \in DOMAIN u, NEW k \in DOMAIN u, u[j] = u[k], j # k
                 PROVE  FALSE
      BY DEF NoDup
    <3> DEFINE at(n) == IF n < i THEN n ELSE n + 1
    <3>1. at(j) \in DOMAIN s /\ at(k) \in DOMAIN s /\ at(j) # at(k)
      BY <2>1, <2>4
    <3>2. s[at(j)] = s[at(k)]  BY <2>3, <2>4
    <3> HIDE DEF at
    <3> QED BY <3>1, <3>2, NoDup(s) DEF NoDup
  <2>6. ToSet(u) = ToSet(s) \ {e}
    <3>1. ASSUME NEW x \in ToSet(u) PROVE x \in ToSet(s) \ {e}
      BY <2>1, <2>3, <2>4 DEF NoDup, ToSet
    <3>2. ASSUME NEW x \in ToSet(s), x # e PROVE x \in ToSet(u)
      <4>1. PICK k \in 1 .. Len(s) : s[k] = x  BY <2>4 DEF ToSet
      <4>2. k # i  BY <4>1, <2>1, <3>2
      <4>3. CASE k < i
        <5>1. k \in DOMAIN u /\ u[k] = x  BY <4>1, <4>3, <2>1, <2>3, <2>4
        <5> QED BY <5>1 DEF ToSet
      <4>4. CASE k > i
        <5>1. k - 1 \in DOMAIN u /\ u[k - 1] = x  BY <4>1, <4>4, <2>1, <2>3, <2>4
        <5> QED BY <5>1 DEF ToSet
      <4> QED BY <4>1, <4>2, <4>3, <4>4, <2>1
    <3> QED BY <3>1, <3>2
  <2> QED BY <2>2, <2>5, <2>6 DEF u
<1> QED BY <1>1, <1>2

(* The order in which the sStop loops walk their tables *)
LEMMA ReverseList ==
  ASSUME NEW S, NEW s \in Seq(S)
  PROVE  Reverse(s) \in Seq(S)
  BY DEF Reverse
============================================================================
