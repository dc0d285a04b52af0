---------------------------- MODULE CPListProofs ----------------------------
(***************************************************************************)
(* The pointers of cplist.h keep the sequences of Lists, for any number of *)
(* heads and nodes.  A list is a ring (Rings), seen by the places of its   *)
(* nodes; sIntDel and sIntAdd are shown to keep rings for any pointers, so *)
(* the calls need only be composed of them.                                *)
(***************************************************************************)
EXTENDS CPList, ListOpsProofs, FiniteSetTheorems, WellFoundedInduction

----------------------------------------------------------------------------
(* Induction over the naturals, for a set.  The library's theorems on it      *)
(* take an operator; its theorem on well-founded relations does not.          *)

Less == {ss \in Nat \X Nat : ss[1] < ss[2]}

(* Every set of naturals that is not empty has a smallest one. *)
LEMMA LessWellFounded == IsWellFoundedOn(Less, Nat)
<1>1. OpToRel(<, Nat) = Less  BY DEF OpToRel, Less
<1>2. IsWellFoundedOn(OpToRel(<, Nat), Nat)  BY NatLessThanWellFounded
<1> QED BY <1>1, <1>2

(* A set with 0 and, with each natural, the next one has them all. *)
LEMMA NatSetInduction ==
  ASSUME NEW S, 0 \in S, \A n \in Nat : n \in S => n + 1 \in S
  PROVE  Nat \subseteq S
<1> DEFINE T == Nat \ S
<1> SUFFICES ASSUME T # {} PROVE FALSE
  OBVIOUS
<1>1. PICK x \in T : \A y \in T : ~(<<y, x>> \in Less)
  BY LessWellFounded, WFMin
<1>2. x - 1 \in Nat /\ x - 1 < x  BY <1>1
<1>3. x - 1 \in T  BY <1>2
<1>4. <<x - 1, x>> \in Less  BY <1>2 DEF Less
<1> QED BY <1>1, <1>3, <1>4

----------------------------------------------------------------------------
(* Rings *)

\* The headers of the ring through h with the nodes s, by place: the head comes
\* before the first and after the last.
Place(h, s, i) == IF i \in 1 .. Len(s) THEN s[i] ELSE h

\* From each header of the ring through h with the nodes s the next pointers
\* nx lead to the header behind it, and the previous pointers pv back.
Forward(nx, h, s)  == \A i \in 0 .. Len(s) : nx[Place(h, s, i)] = Place(h, s, i + 1)
Backward(pv, h, s) == \A i \in 0 .. Len(s) : pv[Place(h, s, i + 1)] = Place(h, s, i)

Pointers == [CpHeader -> CpHeader \cup {CpNil}]
Chains   == [CpHead -> Seq(CpNode)]

OnChains(f) == UNION {ToSet(f[h]) : h \in CpHead}

Apart(f) ==
  /\ \A h \in CpHead : NoDup(f[h])
  /\ \A g, h \in CpHead : g # h => ToSet(f[g]) \cap ToSet(f[h]) = {}

Rings(nx, pv, f) == Apart(f) /\ \A h \in CpHead : Forward(nx, h, f[h]) /\ Backward(pv, h, f[h])

(* Where the headers of a ring are: the head at both ends, no node twice. *)
LEMMA Places ==
  ASSUME NEW h \in CpHead, NEW s \in Seq(CpNode)
  PROVE  /\ Place(h, s, 0) = h /\ Place(h, s, Len(s) + 1) = h
         /\ \A i \in Int : Place(h, s, i) \in CpHeader
         /\ \A i \in 1 .. Len(s) : /\ Place(h, s, i) = s[i] /\ s[i] \in ToSet(s)
                                   /\ s[i] \in CpNode /\ s[i] # h
         /\ \A i \in Int : Place(h, s, i) \in {h} \cup ToSet(s)
<1>1. Len(s) \in Nat /\ DOMAIN s = 1 .. Len(s) /\ \A i \in 1 .. Len(s) : s[i] \in CpNode
  OBVIOUS
<1>2. Place(h, s, 0) = h /\ Place(h, s, Len(s) + 1) = h  BY <1>1 DEF Place
<1>3. \A i \in 1 .. Len(s) : /\ Place(h, s, i) = s[i] /\ s[i] \in ToSet(s)
                             /\ s[i] \in CpNode /\ s[i] # h
  BY <1>1, CpAssumption DEF Place, ToSet
<1>4. \A i \in Int : Place(h, s, i) \in CpHeader /\ Place(h, s, i) \in {h} \cup ToSet(s)
  BY <1>1, <1>3 DEF Place, CpHeader
<1> QED BY <1>2, <1>3, <1>4

(* No header is at two places of a ring, but for the head at its ends. *)
LEMMA PlacesDiffer ==
  ASSUME NEW h \in CpHead, NEW s \in Seq(CpNode), NoDup(s)
  PROVE  /\ \A i, j \in 0 .. Len(s) : Place(h, s, i) = Place(h, s, j) => i = j
         /\ \A i, j \in 1 .. Len(s) + 1 : Place(h, s, i) = Place(h, s, j) => i = j
<1>1. Len(s) \in Nat /\ DOMAIN s = 1 .. Len(s)  OBVIOUS
<1>2. \A i, j \in 1 .. Len(s) : Place(h, s, i) = Place(h, s, j) => i = j
  BY <1>1, Places DEF NoDup
<1>3. \A i \in 1 .. Len(s) : Place(h, s, i) # h  BY Places
<1>4. ASSUME NEW i \in 0 .. Len(s), NEW j \in 0 .. Len(s), Place(h, s, i) = Place(h, s, j)
      PROVE  i = j
  <2>1. (i = 0 \/ i \in 1 .. Len(s)) /\ (j = 0 \/ j \in 1 .. Len(s))  BY <1>1
  <2> QED BY <2>1, <1>2, <1>3, <1>4, Places
<1>5. ASSUME NEW i \in 1 .. Len(s) + 1, NEW j \in 1 .. Len(s) + 1, Place(h, s, i) = Place(h, s, j)
      PROVE  i = j
  <2>1. (i = Len(s) + 1 \/ i \in 1 .. Len(s)) /\ (j = Len(s) + 1 \/ j \in 1 .. Len(s))  BY <1>1
  <2> QED BY <2>1, <1>2, <1>3, <1>5, Places
<1> QED BY <1>4, <1>5

(* The next pointer of a node on a ring leads to the place ahead. *)
LEMMA Ahead ==
  ASSUME NEW nx, NEW h \in CpHead, NEW s \in Seq(CpNode), Forward(nx, h, s),
         NEW k \in 1 .. Len(s)
  PROVE  nx[s[k]] = Place(h, s, k + 1)
<1>1. k \in 0 .. Len(s)  OBVIOUS
<1>2. Place(h, s, k) = s[k]  BY Places
<1> QED BY <1>1, <1>2 DEF Forward

(* The previous pointer of a node on a ring leads to the place behind. *)
LEMMA Behind ==
  ASSUME NEW pv, NEW h \in CpHead, NEW s \in Seq(CpNode), Backward(pv, h, s),
         NEW k \in 1 .. Len(s)
  PROVE  pv[s[k]] = Place(h, s, k - 1)
<1>1. k - 1 \in 0 .. Len(s) /\ k - 1 + 1 = k  OBVIOUS
<1>2. Place(h, s, k) = s[k]  BY Places
<1> QED BY <1>1, <1>2 DEF Backward

(* The head's next pointer leads to the first place. *)
LEMMA FirstPlace ==
  ASSUME NEW nx, NEW h \in CpHead, NEW s \in Seq(CpNode), Forward(nx, h, s)
  PROVE  nx[h] = Place(h, s, 1)
<1>1. 0 \in 0 .. Len(s)  OBVIOUS
<1> QED BY <1>1, Places DEF Forward

(* The head's previous pointer leads to the last place. *)
LEMMA LastPlace ==
  ASSUME NEW pv, NEW h \in CpHead, NEW s \in Seq(CpNode), Backward(pv, h, s)
  PROVE  pv[h] = Place(h, s, Len(s))
<1>1. Len(s) \in 0 .. Len(s)  OBVIOUS
<1> QED BY <1>1, Places DEF Backward

(* Stores to other headers leave a ring as it is. *)
LEMMA OtherRing ==
  ASSUME NEW nx, NEW pv, NEW nx2, NEW pv2, NEW h \in CpHead, NEW s \in Seq(CpNode),
         Forward(nx, h, s), Backward(pv, h, s),
         \A x \in {h} \cup ToSet(s) : nx2[x] = nx[x] /\ pv2[x] = pv[x]
  PROVE  Forward(nx2, h, s) /\ Backward(pv2, h, s)
<1>1. ASSUME NEW i \in 0 .. Len(s)
      PROVE  /\ nx2[Place(h, s, i)] = Place(h, s, i + 1)
             /\ pv2[Place(h, s, i + 1)] = Place(h, s, i)
  <2>1. Place(h, s, i) \in {h} \cup ToSet(s) /\ Place(h, s, i + 1) \in {h} \cup ToSet(s)
    BY Places
  <2> QED BY <2>1 DEF Forward, Backward
<1> QED BY <1>1 DEF Forward, Backward

(* Where the headers of a ring are when the node at the place k is unlinked *)
LEMMA PlacesWithout ==
  ASSUME NEW h \in CpHead, NEW s \in Seq(CpNode), NoDup(s), NEW k \in 1 .. Len(s)
  PROVE  \A i \in 0 .. Len(s) :
           Place(h, Unlink(s, s[k]), i) = IF i < k THEN Place(h, s, i) ELSE Place(h, s, i + 1)
<1> DEFINE u == Unlink(s, s[k])
<1>1. u \in Seq(CpNode) /\ Len(u) = Len(s) - 1
  BY UnlinkAt
<1>2. \A i \in 1 .. Len(s) - 1 : u[i] = IF i < k THEN s[i] ELSE s[i + 1]
  BY UnlinkAt
<1> HIDE DEF u
<1> SUFFICES ASSUME NEW i \in 0 .. Len(s)
             PROVE  Place(h, u, i) = IF i < k THEN Place(h, s, i) ELSE Place(h, s, i + 1)
  BY DEF u
<1>3. CASE i = 0  BY <1>3, Places, <1>1
<1>4. CASE i = Len(s)  BY <1>4, Places, <1>1
<1>5. CASE i \in 1 .. Len(s) - 1
  <2>1. Place(h, u, i) = u[i] /\ Place(h, s, i) = s[i]  BY <1>5, <1>1, Places
  <2>2. Place(h, s, i + 1) = s[i + 1]
    <3>1. i + 1 \in 1 .. Len(s)  BY <1>5
    <3> QED BY <3>1, Places
  <2> QED BY <2>1, <2>2, <1>2, <1>5
<1> QED BY <1>3, <1>4, <1>5

(* sIntDel joins the neighbours of a node: its ring is that of the rest. *)
LEMMA DelRing ==
  ASSUME NEW nx \in Pointers, NEW pv \in Pointers, NEW h \in CpHead, NEW s \in Seq(CpNode),
         NoDup(s), Forward(nx, h, s), Backward(pv, h, s), NEW k \in 1 .. Len(s)
  PROVE  /\ Forward([nx EXCEPT ![pv[s[k]]] = nx[s[k]]], h, Unlink(s, s[k]))
         /\ Backward([pv EXCEPT ![nx[s[k]]] = pv[s[k]]], h, Unlink(s, s[k]))
<1> DEFINE u   == Unlink(s, s[k])
           at(i) == Place(h, s, i)
           nx2 == [nx EXCEPT ![pv[s[k]]] = nx[s[k]]]
           pv2 == [pv EXCEPT ![nx[s[k]]] = pv[s[k]]]
<1>1. u \in Seq(CpNode) /\ Len(u) = Len(s) - 1 /\ Len(s) \in Nat
  BY UnlinkAt
<1>2. \A i \in 0 .. Len(s) : Place(h, u, i) = IF i < k THEN at(i) ELSE at(i + 1)
  BY PlacesWithout
<1>3. nx[s[k]] = at(k + 1) /\ pv[s[k]] = at(k - 1)
  <2>1. nx[s[k]] = Place(h, s, k + 1)  BY Ahead
  <2>2. pv[s[k]] = Place(h, s, k - 1)  BY Behind
  <2> QED BY <2>1, <2>2
<1>4. /\ \A i, j \in 0 .. Len(s) : at(i) = at(j) => i = j
      /\ \A i, j \in 1 .. Len(s) + 1 : at(i) = at(j) => i = j
      /\ \A i \in Int : at(i) \in CpHeader
  BY Places, PlacesDiffer
<1>5. \A i \in 0 .. Len(s) : nx[at(i)] = at(i + 1) /\ pv[at(i + 1)] = at(i)
  BY DEF Forward, Backward
<1> HIDE DEF u, at
<1>6. \A x \in CpHeader : nx2[x] = IF x = at(k - 1) THEN at(k + 1) ELSE nx[x]
  BY <1>3, <1>4 DEF Pointers
<1>7. \A x \in CpHeader : pv2[x] = IF x = at(k + 1) THEN at(k - 1) ELSE pv[x]
  BY <1>3, <1>4 DEF Pointers
<1> HIDE DEF nx2, pv2
<1>8. ASSUME NEW i \in 0 .. Len(s) - 1
      PROVE  /\ nx2[Place(h, u, i)] = Place(h, u, i + 1)
             /\ pv2[Place(h, u, i + 1)] = Place(h, u, i)
  <2>0. i \in 0 .. Len(s) /\ i + 1 \in 0 .. Len(s) /\ i + 1 \in 1 .. Len(s) + 1
        /\ k - 1 \in 0 .. Len(s) /\ k + 1 \in 1 .. Len(s) + 1
    OBVIOUS
  <2>1. CASE i + 1 < k
    <3>1. Place(h, u, i) = at(i) /\ Place(h, u, i + 1) = at(i + 1)  BY <2>0, <2>1, <1>2
    <3>2. at(i) # at(k - 1) /\ at(i + 1) # at(k + 1)  BY <2>0, <2>1, <1>4
    <3>3. nx2[at(i)] = at(i + 1)  BY <3>2, <2>0, <1>4, <1>5, <1>6
    <3>4. pv2[at(i + 1)] = at(i)  BY <3>2, <2>0, <1>4, <1>5, <1>7
    <3> QED BY <3>1, <3>3, <3>4
  <2>2. CASE i + 1 = k
    <3>1. Place(h, u, i) = at(k - 1) /\ Place(h, u, i + 1) = at(k + 1)  BY <2>0, <2>2, <1>2
    <3>2. nx2[at(k - 1)] = at(k + 1)  BY <1>4, <1>6
    <3>3. pv2[at(k + 1)] = at(k - 1)  BY <1>4, <1>7
    <3> QED BY <3>1, <3>2, <3>3
  <2>3. CASE i + 1 > k
    <3>1. Place(h, u, i) = at(i + 1)  BY <2>0, <2>3, <1>2
    <3>2. Place(h, u, i + 1) = at(i + 2)
      <4>1. i + 1 + 1 = i + 2  OBVIOUS
      <4> QED BY <4>1, <2>0, <2>3, <1>2
    <3>3. at(i + 1) # at(k - 1)  BY <2>0, <2>3, <1>4
    <3>4. at(i + 2) # at(k + 1)
      <4>1. i + 2 \in 1 .. Len(s) + 1 /\ i + 2 # k + 1  BY <2>3
      <4> QED BY <4>1, <2>0, <1>4
    <3>5. nx[at(i + 1)] = at(i + 2) /\ pv[at(i + 2)] = at(i + 1)
      <4>1. i + 1 + 1 = i + 2  OBVIOUS
      <4> QED BY <4>1, <2>0, <1>5
    <3>6. nx2[at(i + 1)] = at(i + 2)  BY <3>3, <3>5, <1>4, <1>6
    <3>7. pv2[at(i + 2)] = at(i + 1)  BY <3>4, <3>5, <1>4, <1>7
    <3> QED BY <3>1, <3>2, <3>6, <3>7
  <2> QED BY <2>1, <2>2, <2>3
<1>9. Forward(nx2, h, u) /\ Backward(pv2, h, u)  BY <1>1, <1>8 DEF Forward, Backward
<1> QED BY <1>9 DEF nx2, pv2, u

(* sIntAdd before the head: the ring has the node behind its last. *)
LEMMA AddRing ==
  ASSUME NEW nx \in Pointers, NEW pv \in Pointers, NEW h \in CpHead, NEW s \in Seq(CpNode),
         NoDup(s), Forward(nx, h, s), Backward(pv, h, s), NEW n \in CpNode, n \notin ToSet(s)
  PROVE  /\ Forward([[nx EXCEPT ![n] = h] EXCEPT ![pv[h]] = n], h, AddTail(s, n))
         /\ Backward([[pv EXCEPT ![h] = n] EXCEPT ![n] = pv[h]], h, AddTail(s, n))
<1> DEFINE t   == AddTail(s, n)
           l   == Len(s)
           at(i) == Place(h, s, i)
           nx2 == [[nx EXCEPT ![n] = h] EXCEPT ![pv[h]] = n]
           pv2 == [[pv EXCEPT ![h] = n] EXCEPT ![n] = pv[h]]
<1>1. /\ t \in Seq(CpNode) /\ Len(t) = l + 1 /\ l \in Nat
      /\ \A i \in 1 .. l : t[i] = s[i]
      /\ t[l + 1] = n
  BY AppendProperties DEF AddTail
<1>2. /\ \A i, j \in 0 .. l : at(i) = at(j) => i = j
      /\ \A i \in Int : at(i) \in CpHeader /\ at(i) \in {h} \cup ToSet(s)
      /\ at(0) = h /\ \A i \in 1 .. l : at(i) = s[i] /\ at(i) # h
  BY Places, PlacesDiffer
<1>3. pv[h] = at(l)  BY LastPlace
<1>4. \A i \in 0 .. l : nx[at(i)] = at(i + 1) /\ pv[at(i + 1)] = at(i)
  BY DEF Forward, Backward
<1>5. n \in CpHeader /\ h \in CpHeader /\ n # h /\ \A i \in Int : at(i) # n
  BY <1>2, CpAssumption DEF CpHeader
<1> HIDE DEF t, at
<1>6. /\ \A i \in 0 .. l : Place(h, t, i) = at(i)
      /\ Place(h, t, l + 1) = n /\ Place(h, t, l + 2) = h
  <2>1. \A i \in 1 .. l : Place(h, t, i) = at(i)  BY <1>1, <1>2, Places
  <2>2. Place(h, t, 0) = at(0)  BY <1>1, <1>2, Places
  <2>3. Place(h, t, l + 1) = n  BY <1>1, Places
  <2>4. Place(h, t, l + 2) = h
    <3>1. l + 2 = Len(t) + 1  BY <1>1
    <3> QED BY <3>1, <1>1, Places
  <2> QED BY <2>1, <2>2, <2>3, <2>4, <1>1
<1>7. /\ nx2[n] = h /\ nx2[at(l)] = n
      /\ \A x \in CpHeader : x # n /\ x # at(l) => nx2[x] = nx[x]
  BY <1>1, <1>2, <1>3, <1>5 DEF Pointers
<1>8. /\ pv2[h] = n /\ pv2[n] = at(l)
      /\ \A x \in CpHeader : x # n /\ x # h => pv2[x] = pv[x]
  BY <1>3, <1>5 DEF Pointers
<1> HIDE DEF nx2, pv2, l
<1>9. ASSUME NEW i \in 0 .. l + 1
      PROVE  /\ nx2[Place(h, t, i)] = Place(h, t, i + 1)
             /\ pv2[Place(h, t, i + 1)] = Place(h, t, i)
  <2>1. CASE i < l
    <3>1. i \in 0 .. l /\ i + 1 \in 0 .. l /\ l \in 0 .. l /\ i + 1 \in 1 .. l  BY <1>1, <2>1
    <3>2. at(i) # at(l) /\ at(i) # n /\ at(i + 1) # n /\ at(i + 1) # h
      BY <3>1, <2>1, <1>2, <1>5
    <3>3. nx2[at(i)] = at(i + 1)  BY <3>1, <3>2, <1>2, <1>4, <1>7
    <3>4. pv2[at(i + 1)] = at(i)  BY <3>1, <3>2, <1>2, <1>4, <1>8
    <3> QED BY <3>1, <3>3, <3>4, <1>6
  <2>2. CASE i = l  BY <2>2, <1>1, <1>6, <1>7, <1>8
  <2>3. CASE i = l + 1
    <3>1. i + 1 = l + 2  BY <2>3, <1>1
    <3> QED BY <2>3, <3>1, <1>6, <1>7, <1>8
  <2> QED BY <2>1, <2>2, <2>3, <1>1
<1>10. Forward(nx2, h, t) /\ Backward(pv2, h, t)  BY <1>1, <1>9 DEF Forward, Backward
<1> QED BY <1>10 DEF nx2, pv2, t

----------------------------------------------------------------------------
(* All lists together *)

NextDel(nx, pv, n) == [nx EXCEPT ![pv[n]] = nx[n]]
PrevDel(nx, pv, n) == [pv EXCEPT ![nx[n]] = pv[n]]

NextAdd(nx, pv, n, h) == [[nx EXCEPT ![n] = h] EXCEPT ![pv[h]] = n]
PrevAdd(nx, pv, n, h) == [[pv EXCEPT ![h] = n] EXCEPT ![n] = pv[h]]

Without(f, n) == [h \in CpHead |-> Unlink(f[h], n)]
With(f, h, n) == [f EXCEPT ![h] = AddTail(@, n)]

\* The pointers of the nodes that are on no list of f are not touched.
LooseSame(nx, pv, nx2, pv2, f) ==
  \A x \in CpNode \ OnChains(f) : nx2[x] = nx[x] /\ pv2[x] = pv[x]

(* sIntDel of a node on a list: all lists are rings of what is left of them. *)
LEMMA DelRings ==
  ASSUME NEW nx \in Pointers, NEW pv \in Pointers, NEW f \in Chains, Rings(nx, pv, f),
         NEW h \in CpHead, NEW n \in ToSet(f[h])
  PROVE  /\ NextDel(nx, pv, n) \in Pointers /\ PrevDel(nx, pv, n) \in Pointers
         /\ Without(f, n) \in Chains
         /\ Rings(NextDel(nx, pv, n), PrevDel(nx, pv, n), Without(f, n))
         /\ OnChains(Without(f, n)) = OnChains(f) \ {n}
         /\ LooseSame(nx, pv, NextDel(nx, pv, n), PrevDel(nx, pv, n), f)
<1> DEFINE nx2 == NextDel(nx, pv, n)
           pv2 == PrevDel(nx, pv, n)
           g   == Without(f, n)
<1>1. \A e \in CpHead : f[e] \in Seq(CpNode) /\ NoDup(f[e])
  BY DEF Chains, Rings, Apart
<1>2. \A e \in CpHead : g[e] = Unlink(f[e], n)  BY DEF Without
<1>3. \A e \in CpHead : e # h => n \notin ToSet(f[e])  BY DEF Rings, Apart
<1>4. \A e \in CpHead : /\ g[e] \in Seq(CpNode) /\ NoDup(g[e])
                        /\ ToSet(g[e]) = ToSet(f[e]) \ {n}
  BY <1>1, <1>2, UnlinkNode
<1>5. \A e \in CpHead : e # h => g[e] = f[e]  BY <1>2, <1>3 DEF Unlink
<1>6. PICK k \in 1 .. Len(f[h]) : f[h][k] = n  BY <1>1 DEF ToSet
<1>7. nx[n] \in {h} \cup ToSet(f[h]) /\ pv[n] \in {h} \cup ToSet(f[h])
      /\ nx[n] \in CpHeader /\ pv[n] \in CpHeader
  <2>1. Forward(nx, h, f[h]) /\ Backward(pv, h, f[h])  BY DEF Rings
  <2>2. nx[n] = Place(h, f[h], k + 1)  BY <2>1, <1>1, <1>6, Ahead
  <2>3. pv[n] = Place(h, f[h], k - 1)  BY <2>1, <1>1, <1>6, Behind
  <2> QED BY <2>2, <2>3, <1>1, Places
<1>8. nx2 \in Pointers /\ pv2 \in Pointers
  BY <1>7 DEF NextDel, PrevDel, Pointers
<1>9. \A x \in CpHeader : x \notin {h} \cup ToSet(f[h]) => nx2[x] = nx[x] /\ pv2[x] = pv[x]
  BY <1>7 DEF NextDel, PrevDel, Pointers
<1>10. Forward(nx2, h, g[h]) /\ Backward(pv2, h, g[h])
  <2>1. Forward(nx, h, f[h]) /\ Backward(pv, h, f[h])  BY DEF Rings
  <2> QED BY <2>1, <1>1, <1>2, <1>6, DelRing DEF NextDel, PrevDel
<1> HIDE DEF nx2, pv2, g
<1>11. ASSUME NEW e \in CpHead, e # h PROVE Forward(nx2, e, g[e]) /\ Backward(pv2, e, g[e])
  <2>1. \A x \in {e} \cup ToSet(f[e]) : x \in CpHeader /\ x \notin {h} \cup ToSet(f[h])
    <3>1. ToSet(f[e]) \subseteq CpNode /\ ToSet(f[h]) \subseteq CpNode  BY <1>1, NodesOfList
    <3>2. ToSet(f[e]) \cap ToSet(f[h]) = {}  BY <1>11 DEF Rings, Apart
    <3> QED BY <3>1, <3>2, <1>11, CpAssumption DEF CpHeader
  <2>2. Forward(nx, e, f[e]) /\ Backward(pv, e, f[e])  BY DEF Rings
  <2>3. \A x \in {e} \cup ToSet(f[e]) : nx2[x] = nx[x] /\ pv2[x] = pv[x]  BY <2>1, <1>9
  <2>4. Forward(nx2, e, f[e]) /\ Backward(pv2, e, f[e])  BY <2>2, <2>3, <1>1, OtherRing
  <2> QED BY <2>4, <1>5, <1>11
<1>12. g \in Chains
  <2>1. g = [e \in CpHead |-> g[e]]  BY DEF g, Without
  <2> QED BY <2>1, <1>4 DEF Chains
<1>13. Apart(g)
  <2>1. \A e \in CpHead : NoDup(g[e]) /\ ToSet(g[e]) \subseteq ToSet(f[e])  BY <1>4
  <2> QED BY <2>1 DEF Apart, Rings
<1>14. Rings(nx2, pv2, g)  BY <1>10, <1>11, <1>13 DEF Rings
<1>15. OnChains(g) = OnChains(f) \ {n}
  <2>1. \A x : x \in OnChains(g) <=> \E e \in CpHead : x \in ToSet(g[e])  BY DEF OnChains
  <2>2. \A x : x \in OnChains(f) <=> \E e \in CpHead : x \in ToSet(f[e])  BY DEF OnChains
  <2>3. \A x : \A e \in CpHead : x \in ToSet(g[e]) <=> x \in ToSet(f[e]) /\ x # n  BY <1>4
  <2>4. \A x : x \in OnChains(g) <=> x \in OnChains(f) /\ x # n  BY <2>1, <2>2, <2>3, Zenon
  <2> QED BY <2>4
<1>16. LooseSame(nx, pv, nx2, pv2, f)
  BY <1>9, CpAssumption DEF LooseSame, OnChains, CpHeader
<1> QED BY <1>8, <1>12, <1>14, <1>15, <1>16 DEF nx2, pv2, g

(* sIntAdd of a node that is on no list: all lists are rings, one with the node. *)
LEMMA AddRings ==
  ASSUME NEW nx \in Pointers, NEW pv \in Pointers, NEW f \in Chains, Rings(nx, pv, f),
         NEW h \in CpHead, NEW n \in CpNode \ OnChains(f)
  PROVE  /\ NextAdd(nx, pv, n, h) \in Pointers /\ PrevAdd(nx, pv, n, h) \in Pointers
         /\ With(f, h, n) \in Chains
         /\ Rings(NextAdd(nx, pv, n, h), PrevAdd(nx, pv, n, h), With(f, h, n))
         /\ OnChains(With(f, h, n)) = OnChains(f) \cup {n}
         /\ LooseSame(nx, pv, NextAdd(nx, pv, n, h), PrevAdd(nx, pv, n, h), With(f, h, n))
<1> DEFINE nx2 == NextAdd(nx, pv, n, h)
           pv2 == PrevAdd(nx, pv, n, h)
           g   == With(f, h, n)
<1>1. \A e \in CpHead : f[e] \in Seq(CpNode) /\ NoDup(f[e]) /\ n \notin ToSet(f[e])
  BY DEF Chains, Rings, Apart, OnChains
<1>2. g[h] = AddTail(f[h], n) /\ \A e \in CpHead : e # h => g[e] = f[e]
  BY DEF With, Chains
<1>3. /\ g[h] \in Seq(CpNode) /\ NoDup(g[h]) /\ ToSet(g[h]) = ToSet(f[h]) \cup {n}
  BY <1>1, <1>2, AddTailNew
<1>4. Forward(nx, h, f[h]) /\ Backward(pv, h, f[h])  BY DEF Rings
<1>5. pv[h] \in {h} \cup ToSet(f[h]) /\ pv[h] \in CpHeader /\ h \in CpHeader /\ n \in CpHeader
  <2>1. pv[h] = Place(h, f[h], Len(f[h]))  BY <1>1, <1>4, LastPlace
  <2> QED BY <2>1, <1>1, Places DEF CpHeader
<1>6. nx2 \in Pointers /\ pv2 \in Pointers
  BY <1>5 DEF NextAdd, PrevAdd, Pointers
<1>7. \A x \in CpHeader : x \notin {h, n} \cup ToSet(f[h]) => nx2[x] = nx[x] /\ pv2[x] = pv[x]
  BY <1>5 DEF NextAdd, PrevAdd, Pointers
<1>8. Forward(nx2, h, g[h]) /\ Backward(pv2, h, g[h])
  BY <1>1, <1>2, <1>4, AddRing DEF NextAdd, PrevAdd
<1> HIDE DEF nx2, pv2, g
<1>9. ASSUME NEW e \in CpHead, e # h PROVE Forward(nx2, e, g[e]) /\ Backward(pv2, e, g[e])
  <2>1. \A x \in {e} \cup ToSet(f[e]) : x \in CpHeader /\ x \notin {h, n} \cup ToSet(f[h])
    <3>1. ToSet(f[e]) \subseteq CpNode /\ ToSet(f[h]) \subseteq CpNode  BY <1>1, NodesOfList
    <3>2. ToSet(f[e]) \cap ToSet(f[h]) = {}  BY <1>9 DEF Rings, Apart
    <3>3. n \notin ToSet(f[e])  BY <1>1
    <3> QED BY <3>1, <3>2, <3>3, <1>9, CpAssumption DEF CpHeader
  <2>2. Forward(nx, e, f[e]) /\ Backward(pv, e, f[e])  BY DEF Rings
  <2>3. \A x \in {e} \cup ToSet(f[e]) : nx2[x] = nx[x] /\ pv2[x] = pv[x]  BY <2>1, <1>7
  <2>4. Forward(nx2, e, f[e]) /\ Backward(pv2, e, f[e])  BY <2>2, <2>3, <1>1, OtherRing
  <2> QED BY <2>4, <1>2, <1>9
<1>10. g \in Chains
  <2>1. g = [e \in CpHead |-> g[e]]  BY DEF g, With, Chains
  <2>2. \A e \in CpHead : g[e] \in Seq(CpNode)  BY <1>1, <1>2, <1>3
  <2> QED BY <2>1, <2>2 DEF Chains
<1>11. Apart(g)
  <2>1. \A e \in CpHead : NoDup(g[e])  BY <1>1, <1>2, <1>3
  <2>2. \A d, e \in CpHead : d # e => ToSet(f[d]) \cap ToSet(f[e]) = {}  BY DEF Rings, Apart
  <2>3. ASSUME NEW d \in CpHead, NEW e \in CpHead, d # e PROVE ToSet(g[d]) \cap ToSet(g[e]) = {}
    <3>1. CASE d = h  BY <3>1, <2>2, <2>3, <1>1, <1>2, <1>3
    <3>2. CASE e = h  BY <3>2, <2>2, <2>3, <1>1, <1>2, <1>3
    <3>3. CASE d # h /\ e # h  BY <3>3, <2>2, <2>3, <1>2
    <3> QED BY <3>1, <3>2, <3>3
  <2> QED BY <2>1, <2>3 DEF Apart
<1>12. Rings(nx2, pv2, g)  BY <1>8, <1>9, <1>11 DEF Rings
<1>13. OnChains(g) = OnChains(f) \cup {n}
  <2>1. \A e \in CpHead : ToSet(g[e]) = IF e = h THEN ToSet(f[e]) \cup {n} ELSE ToSet(f[e])
    BY <1>2, <1>3
  <2> QED BY <2>1 DEF OnChains
<1>14. LooseSame(nx, pv, nx2, pv2, g)
  <2> SUFFICES ASSUME NEW x \in CpNode, x \notin OnChains(g)
               PROVE  nx2[x] = nx[x] /\ pv2[x] = pv[x]
    BY DEF LooseSame
  <2>1. x \notin ToSet(f[h]) /\ x # n  BY <1>13 DEF OnChains
  <2> QED BY <2>1, <1>7, CpAssumption DEF CpHeader
<1> QED BY <1>6, <1>10, <1>12, <1>13, <1>14 DEF nx2, pv2, g

----------------------------------------------------------------------------
(* The lists that are seen through the pointers *)

(* A list with no node twice is no longer than there are nodes. *)
LEMMA NoLongerThanNodes ==
  ASSUME NEW s \in Seq(CpNode), NoDup(s)
  PROVE  Len(s) \in 0 .. Cardinality(CpNode) /\ Cardinality(CpNode) \in Nat
<1>1. s \in [1 .. Len(s) -> CpNode] /\ Len(s) \in Nat  OBVIOUS
<1>2. s \in Injection(1 .. Len(s), CpNode)  BY <1>1 DEF Injection, IsInjective, NoDup
<1>3. Cardinality(1 .. Len(s)) <= Cardinality(CpNode)  BY <1>2, FS_Injection, CpAssumption
<1>4. Cardinality(1 .. Len(s)) = Len(s)
  <2>1. Cardinality(1 .. Len(s)) = IF 1 > Len(s) THEN 0 ELSE Len(s) - 1 + 1
    BY <1>1, FS_Interval
  <2> QED BY <2>1, <1>1
<1>5. Cardinality(CpNode) \in Nat  BY CpAssumption, FS_CardinalityType
<1> QED BY <1>1, <1>3, <1>4, <1>5

(* A walk through a ring is at its places, one after the other. *)
LEMMA WalkIsRing ==
  ASSUME NEW h \in CpHead, NEW s \in Seq(CpNode), NoDup(s), Forward(cpNext, h, s)
  PROVE  Walk(h) = [i \in 1 .. Cardinality(CpNode) + 1 |-> Place(h, s, i)]
<1> DEFINE N    == Cardinality(CpNode)
           Step(w) == [i \in 1 .. N + 1 |->
                         IF i = 1 THEN cpNext[h]
                         ELSE IF w[i - 1] \in {h, CpNil} THEN w[i - 1] ELSE cpNext[w[i - 1]]]
           ring == [i \in 1 .. N + 1 |-> Place(h, s, i)]
<1>1. N \in Nat /\ Len(s) \in Nat  BY NoLongerThanNodes
<1>2. Walk(h) = CHOOSE w : w = Step(w)  BY DEF Walk
<1> HIDE DEF N
<1>3. ring = Step(ring)
  <2> SUFFICES ASSUME NEW i \in 1 .. N + 1
               PROVE  ring[i] = IF i = 1 THEN cpNext[h]
                                ELSE IF ring[i - 1] \in {h, CpNil} THEN ring[i - 1]
                                ELSE cpNext[ring[i - 1]]
    OBVIOUS
  <2>1. CASE i = 1  BY <2>1, FirstPlace
  <2>2. CASE i # 1
    <3>1. i - 1 \in 1 .. N + 1 /\ ring[i - 1] = Place(h, s, i - 1)  BY <2>2, <1>1
    <3>2. CASE i - 1 <= Len(s)
      <4>1. i - 1 \in 1 .. Len(s) /\ i - 1 + 1 = i  BY <3>1, <3>2, <1>1
      <4>2. ring[i - 1] = s[i - 1] /\ s[i - 1] \in CpNode /\ s[i - 1] # h  BY <3>1, <4>1, Places
      <4>3. s[i - 1] # CpNil  BY <4>2, CpAssumption DEF CpHeader
      <4>4. cpNext[s[i - 1]] = Place(h, s, i)  BY <4>1, Ahead
      <4> QED BY <4>2, <4>3, <4>4, <2>2
    <3>3. CASE i - 1 > Len(s)
      <4>1. Place(h, s, i - 1) = h /\ Place(h, s, i) = h  BY <3>3, <1>1 DEF Place
      <4> QED BY <3>1, <4>1, <2>2
    <3> QED BY <3>2, <3>3, <1>1
  <2> QED BY <2>1, <2>2
<1>4. ASSUME NEW w, w = Step(w) PROVE w = ring
  <2>1. /\ DOMAIN w = 1 .. N + 1 /\ w = [i \in 1 .. N + 1 |-> w[i]]
        /\ \A i \in 1 .. N + 1 :
             w[i] = IF i = 1 THEN cpNext[h]
                    ELSE IF w[i - 1] \in {h, CpNil} THEN w[i - 1] ELSE cpNext[w[i - 1]]
    BY <1>4
  <2>2. \A i \in 1 .. N + 1 :
          ring[i] = IF i = 1 THEN cpNext[h]
                    ELSE IF ring[i - 1] \in {h, CpNil} THEN ring[i - 1] ELSE cpNext[ring[i - 1]]
    BY <1>3
  <2> HIDE DEF ring, Step
  <2> DEFINE S == {n \in Nat : n <= N => w[n + 1] = ring[n + 1]}
  <2>3. 0 \in S
    <3>1. 1 \in 1 .. N + 1 /\ 0 + 1 = 1  BY <1>1
    <3> QED BY <3>1, <2>1, <2>2
  <2>4. ASSUME NEW n \in Nat, n \in S PROVE n + 1 \in S
    <3> SUFFICES ASSUME n + 1 <= N PROVE w[n + 2] = ring[n + 2]
      OBVIOUS
    <3>1. n + 2 \in 1 .. N + 1 /\ n <= N  BY <1>1
    <3>2. PICK i \in 1 .. N + 1 : i = n + 2  BY <3>1
    <3>3. i # 1 /\ i - 1 = n + 1  BY <3>2
    <3>4. w[i - 1] = ring[i - 1]  BY <2>4, <3>1, <3>3
    <3>5. w[i] = IF w[i - 1] \in {h, CpNil} THEN w[i - 1] ELSE cpNext[w[i - 1]]
      BY <3>3, <2>1
    <3>6. ring[i] = IF ring[i - 1] \in {h, CpNil} THEN ring[i - 1] ELSE cpNext[ring[i - 1]]
      BY <3>3, <2>2
    <3>7. w[i] = ring[i]  BY <3>4, <3>5, <3>6
    <3> QED BY <3>2, <3>7
  <2>5. Nat \subseteq S  BY <2>3, <2>4, NatSetInduction
  <2>6. ASSUME NEW i \in 1 .. N + 1 PROVE w[i] = ring[i]
    <3>1. i - 1 \in Nat /\ i - 1 <= N /\ i - 1 + 1 = i  BY <1>1
    <3>2. i - 1 \in S  BY <3>1, <2>5
    <3> QED BY <3>1, <3>2
  <2> HIDE DEF S
  <2>7. ring = [i \in 1 .. N + 1 |-> ring[i]]  BY DEF ring
  <2> QED BY <2>1, <2>6, <2>7
<1> HIDE DEF Step, ring
<1>5. Walk(h) = Step(Walk(h))  BY <1>2, <1>3
<1>6. Walk(h) = ring  BY <1>4, <1>5
<1> QED BY <1>6 DEF ring, N

\* What is seen of rings are the lists they are of.
Seen ==
  \A f \in Chains : Rings(cpNext, cpPrev, f) => \A h \in CpHead : Elements(h) = f[h]

(* Elements finds the nodes of a ring. *)
LEMMA ElementsAre == Seen
<1> SUFFICES ASSUME NEW f \in Chains, Rings(cpNext, cpPrev, f), NEW h \in CpHead
             PROVE  Elements(h) = f[h]
  BY DEF Seen
<1> DEFINE N == Cardinality(CpNode)
           s == f[h]
<1>1. s \in Seq(CpNode) /\ NoDup(s) /\ Forward(cpNext, h, s)
  BY DEF Chains, Rings, Apart
<1> HIDE DEF N, s
<1>2. Len(s) \in 0 .. N /\ N \in Nat  BY <1>1, NoLongerThanNodes DEF N
<1>3. Walk(h) = [i \in 1 .. N + 1 |-> Place(h, s, i)]  BY <1>1, WalkIsRing DEF N
<1>4. \A i \in 1 .. N + 1 : i \in 1 .. Len(s) <=> Place(h, s, i) \notin {h, CpNil}
  <2>1. \A i \in 1 .. Len(s) : Place(h, s, i) \in CpNode /\ Place(h, s, i) # h  BY <1>1, Places
  <2>2. \A i \in 1 .. N + 1 : i \notin 1 .. Len(s) => Place(h, s, i) = h  BY DEF Place
  <2> QED BY <2>1, <2>2, CpAssumption DEF CpHeader
<1>5. {j \in DOMAIN Walk(h) : Walk(h)[j] \notin {h, CpNil}} = 1 .. Len(s)
  <2>1. 1 .. Len(s) \subseteq 1 .. N + 1  BY <1>2
  <2> QED BY <2>1, <1>3, <1>4
<1>6. \A i \in 1 .. Len(s) : Walk(h)[i] = s[i]
  <2> SUFFICES ASSUME NEW i \in 1 .. Len(s) PROVE Walk(h)[i] = s[i]  OBVIOUS
  <2>1. i \in 1 .. N + 1  BY <1>2
  <2> QED BY <2>1, <1>1, <1>3, Places
<1>7. Elements(h) = [i \in 1 .. Len(s) |-> s[i]]  BY <1>5, <1>6 DEF Elements
<1>8. s = [i \in 1 .. Len(s) |-> s[i]]  BY <1>1
<1> QED BY <1>7, <1>8 DEF s

CpLists == [h \in CpHead |-> Elements(h)]

\* A node that is on no list points at itself, as it was made, or at nothing.
Loose(nx, pv, f) == \A n \in CpNode \ OnChains(f) : nx[n] = pv[n] /\ nx[n] \in {n, CpNil}

ListsOk ==
  /\ cpNext \in Pointers /\ cpPrev \in Pointers
  /\ CpLists \in Chains /\ Rings(cpNext, cpPrev, CpLists) /\ Loose(cpNext, cpPrev, CpLists)

\* The lists f are what the pointers are of.
ListsAre(f) ==
  /\ cpNext \in Pointers /\ cpPrev \in Pointers
  /\ Rings(cpNext, cpPrev, f) /\ Loose(cpNext, cpPrev, f)

ListsAreSeen == \A f \in Chains : ListsAre(f) => ListsOk /\ CpLists = f

(* So pointers that are of some lists are of those seen through them. *)
LEMMA SeenLists == ListsAreSeen
<1> SUFFICES ASSUME NEW f \in Chains, ListsAre(f) PROVE ListsOk /\ CpLists = f
  BY DEF ListsAreSeen
<1>1. \A h \in CpHead : Elements(h) = f[h]  BY ElementsAre DEF Seen, ListsAre
<1>2. CpLists = f  BY <1>1 DEF CpLists, Chains
<1> QED BY <1>2 DEF ListsAre, ListsOk

(* The same in the next state *)
LEMMA SeenListsNext == ListsAreSeen'
  BY SeenLists, PTL

(* A node is linked exactly when it is on a list, *)
LEMMA LinkedIsOn ==
  ASSUME ListsOk, NEW n \in CpNode
  PROVE  CpLinked(n) <=> n \in OnChains(CpLists)
<1>1. CASE n \notin OnChains(CpLists)  BY <1>1 DEF ListsOk, Loose, CpLinked
<1>2. CASE n \in OnChains(CpLists)
  <2>1. PICK h \in CpHead : n \in ToSet(CpLists[h])  BY <1>2 DEF OnChains
  <2> DEFINE s == CpLists[h]
  <2>2. s \in Seq(CpNode) /\ NoDup(s) /\ Forward(cpNext, h, s)
    BY DEF ListsOk, Chains, Rings, Apart
  <2> HIDE DEF s
  <2>3. PICK k \in 1 .. Len(s) : s[k] = n  BY <2>1, <2>2 DEF ToSet, s
  <2>4. cpNext[n] = Place(h, s, k + 1) /\ n = Place(h, s, k)  BY <2>2, <2>3, Ahead, Places
  <2>5. k \in 1 .. Len(s) + 1 /\ k + 1 \in 1 .. Len(s) + 1 /\ k # k + 1  BY <2>2
  <2>6. cpNext[n] # n  BY <2>2, <2>4, <2>5, PlacesDiffer
  <2>7. cpNext[n] # CpNil  BY <2>2, <2>4, Places, CpAssumption
  <2> QED BY <1>2, <2>6, <2>7 DEF CpLinked
<1> QED BY <1>1, <1>2

----------------------------------------------------------------------------
(* The calls *)

(* Stores to a node that is on no list leave the lists as they are. *)
LEMMA ClearRings ==
  ASSUME NEW nx \in Pointers, NEW pv \in Pointers, NEW f \in Chains, Rings(nx, pv, f),
         NEW n \in CpNode \ OnChains(f)
  PROVE  /\ [nx EXCEPT ![n] = CpNil] \in Pointers /\ [pv EXCEPT ![n] = CpNil] \in Pointers
         /\ Rings([nx EXCEPT ![n] = CpNil], [pv EXCEPT ![n] = CpNil], f)
<1> DEFINE nx2 == [nx EXCEPT ![n] = CpNil]
           pv2 == [pv EXCEPT ![n] = CpNil]
<1>1. nx2 \in Pointers /\ pv2 \in Pointers  BY DEF Pointers
<1>2. \A x \in CpHeader : x # n => nx2[x] = nx[x] /\ pv2[x] = pv[x]  BY DEF Pointers
<1> HIDE DEF nx2, pv2
<1>3. ASSUME NEW h \in CpHead PROVE Forward(nx2, h, f[h]) /\ Backward(pv2, h, f[h])
  <2>1. f[h] \in Seq(CpNode)  BY DEF Chains
  <2>2. \A x \in {h} \cup ToSet(f[h]) : x \in CpHeader /\ x # n
    <3>1. ToSet(f[h]) \subseteq CpNode  BY <2>1, NodesOfList
    <3> QED BY <3>1, CpAssumption DEF CpHeader, OnChains
  <2>3. Forward(nx, h, f[h]) /\ Backward(pv, h, f[h])  BY DEF Rings
  <2>4. \A x \in {h} \cup ToSet(f[h]) : nx2[x] = nx[x] /\ pv2[x] = pv[x]  BY <2>2, <1>2
  <2> QED BY <2>1, <2>3, <2>4, OtherRing
<1>4. Rings(nx2, pv2, f)  BY <1>3 DEF Rings
<1> QED BY <1>1, <1>4 DEF nx2, pv2

(* A call that stores nothing in the pointers leaves the lists. *)
LEMMA SameStep ==
  ASSUME ListsOk, UNCHANGED <<cpNext, cpPrev>>
  PROVE  ListsOk' /\ CpLists' = CpLists
<1>1. PICK f \in Chains : f = CpLists  BY DEF ListsOk
<1>2. ListsAre(f)'  BY <1>1 DEF ListsOk, ListsAre
<1> QED BY <1>1, <1>2, SeenListsNext DEF ListsAreSeen

(* del takes the node off its list and points it at nothing. *)
LEMMA DelStep ==
  ASSUME ListsOk, NEW n \in CpNode, CpDel(n)
  PROVE  ListsOk' /\ n \in OnChains(CpLists) /\ CpLists' = Without(CpLists, n)
<1> DEFINE f  == CpLists
           nd == NextDel(cpNext, cpPrev, n)
           pd == PrevDel(cpNext, cpPrev, n)
           g  == Without(CpLists, n)
<1>1. n \in OnChains(f)  BY LinkedIsOn DEF CpDel
<1>2. PICK h \in CpHead : n \in ToSet(f[h])  BY <1>1 DEF OnChains
<1>3. /\ cpNext \in Pointers /\ cpPrev \in Pointers /\ f \in Chains
      /\ Rings(cpNext, cpPrev, f) /\ Loose(cpNext, cpPrev, f)
  BY DEF ListsOk
<1>4. cpNext' = [nd EXCEPT ![n] = CpNil] /\ cpPrev' = [pd EXCEPT ![n] = CpNil]
  BY DEF CpDel, Become, IntDel, NextDel, PrevDel
<1> HIDE DEF nd, pd, f, g
<1>5. /\ nd \in Pointers /\ pd \in Pointers /\ g \in Chains /\ Rings(nd, pd, g)
      /\ OnChains(g) = OnChains(f) \ {n} /\ LooseSame(cpNext, cpPrev, nd, pd, f)
  BY <1>2, <1>3, DelRings DEF nd, pd, g, f
<1>6. cpNext' \in Pointers /\ cpPrev' \in Pointers /\ Rings(cpNext', cpPrev', g)
  BY <1>4, <1>5, ClearRings
<1>7. Loose(cpNext', cpPrev', g)
  <2> SUFFICES ASSUME NEW x \in CpNode, x \notin OnChains(g)
               PROVE  cpNext'[x] = cpPrev'[x] /\ cpNext'[x] \in {x, CpNil}
    BY DEF Loose
  <2>1. CASE x = n  BY <2>1, <1>4, <1>5 DEF Pointers, CpHeader
  <2>2. CASE x # n
    <3>1. x \in CpNode \ OnChains(f)  BY <2>2, <1>5
    <3>2. nd[x] = cpNext[x] /\ pd[x] = cpPrev[x]  BY <3>1, <1>5 DEF LooseSame
    <3>3. cpNext'[x] = nd[x] /\ cpPrev'[x] = pd[x]  BY <2>2, <1>4, <1>5 DEF Pointers, CpHeader
    <3> QED BY <3>1, <3>2, <3>3, <1>3 DEF Loose
  <2> QED BY <2>1, <2>2
<1>8. PICK q \in Chains : q = g  BY <1>5
<1>9. ListsAre(q)'  BY <1>6, <1>7, <1>8 DEF ListsAre
<1> QED BY <1>1, <1>8, <1>9, SeenListsNext DEF ListsAreSeen, f, g

(* sIntAdd of a node that is on no list, whatever its own pointers are *)
LEMMA AddStep ==
  ASSUME NEW nx \in Pointers, NEW pv \in Pointers, NEW f \in Chains, Rings(nx, pv, f),
         NEW h \in CpHead, NEW n \in CpNode \ OnChains(f),
         \A x \in CpNode \ OnChains(f) : x # n => nx[x] = pv[x] /\ nx[x] \in {x, CpNil},
         Become(IntAdd([next |-> nx, prev |-> pv], n, h))
  PROVE  ListsOk' /\ CpLists' = With(f, h, n)
<1> DEFINE na == NextAdd(nx, pv, n, h)
           pa == PrevAdd(nx, pv, n, h)
           g  == With(f, h, n)
<1>1. cpNext' = na /\ cpPrev' = pa  BY DEF Become, IntAdd, NextAdd, PrevAdd
<1>2. /\ na \in Pointers /\ pa \in Pointers /\ g \in Chains /\ Rings(na, pa, g)
      /\ OnChains(g) = OnChains(f) \cup {n} /\ LooseSame(nx, pv, na, pa, g)
  BY AddRings
<1> HIDE DEF na, pa, g
<1>3. ASSUME NEW x \in CpNode, x \notin OnChains(g) PROVE na[x] = pa[x] /\ na[x] \in {x, CpNil}
  <2>1. x # n /\ x \in CpNode \ OnChains(f)  BY <1>2, <1>3
  <2>2. na[x] = nx[x] /\ pa[x] = pv[x]  BY <1>2, <1>3 DEF LooseSame
  <2> QED BY <2>1, <2>2
<1>4. Loose(na, pa, g)  BY <1>3 DEF Loose
<1>5. PICK q \in Chains : q = g  BY <1>2
<1>6. ListsAre(q)'  BY <1>1, <1>2, <1>4, <1>5 DEF ListsAre
<1> QED BY <1>5, <1>6, SeenListsNext DEF ListsAreSeen, g

(* addTail puts the node behind the last of the list. *)
LEMMA AddTailStep ==
  ASSUME ListsOk, NEW h \in CpHead, NEW n \in CpNode, CpAddTail(h, n)
  PROVE  ListsOk' /\ n \notin OnChains(CpLists) /\ CpLists' = With(CpLists, h, n)
<1>1. n \notin OnChains(CpLists)  BY LinkedIsOn DEF CpAddTail
<1>2. PICK f \in Chains : f = CpLists  BY DEF ListsOk
<1>3. /\ cpNext \in Pointers /\ cpPrev \in Pointers /\ Rings(cpNext, cpPrev, f)
      /\ \A x \in CpNode \ OnChains(f) : cpNext[x] = cpPrev[x] /\ cpNext[x] \in {x, CpNil}
  BY <1>2 DEF ListsOk, Loose
<1>4. Become(IntAdd([next |-> cpNext, prev |-> cpPrev], n, h))  BY DEF CpAddTail
<1>5. ListsOk' /\ CpLists' = With(f, h, n)  BY <1>1, <1>2, <1>3, <1>4, AddStep
<1> QED BY <1>1, <1>2, <1>5

(* Unlinking a node that is on no list changes no list. *)
LEMMA WithoutLoose ==
  ASSUME NEW f \in Chains, NEW n, n \notin OnChains(f)
  PROVE  Without(f, n) = f
<1>1. \A h \in CpHead : Unlink(f[h], n) = f[h]  BY DEF OnChains, Unlink
<1> QED BY <1>1 DEF Without, Chains

(* accept takes a node off the list it is on, if it is on one, and puts it     *)
(* behind the last of its own.                                                *)
LEMMA AcceptStep ==
  ASSUME ListsOk, NEW h \in CpHead, NEW n \in CpNode, CpAccept(h, n)
  PROVE  ListsOk' /\ CpLists' = With(Without(CpLists, n), h, n)
<1> DEFINE nd == NextDel(cpNext, cpPrev, n)
           pd == PrevDel(cpNext, cpPrev, n)
<1>1. PICK f \in Chains : f = CpLists  BY DEF ListsOk
<1>2. /\ cpNext \in Pointers /\ cpPrev \in Pointers /\ Rings(cpNext, cpPrev, f)
      /\ \A x \in CpNode \ OnChains(f) : cpNext[x] = cpPrev[x] /\ cpNext[x] \in {x, CpNil}
  BY <1>1 DEF ListsOk, Loose
<1>3. PICK g : g = Without(f, n)  OBVIOUS
<1>4. IntDel(n) = [next |-> nd, prev |-> pd]  BY DEF IntDel, NextDel, PrevDel
<1>5. Become(IntAdd([next |-> nd, prev |-> pd], n, h))  BY <1>4 DEF CpAccept
<1>6. /\ nd \in Pointers /\ pd \in Pointers /\ g \in Chains /\ Rings(nd, pd, g)
      /\ n \in CpNode \ OnChains(g) /\ OnChains(f) \subseteq OnChains(g) \cup {n}
      /\ \A x \in CpNode \ OnChains(f) : x # n => nd[x] = cpNext[x] /\ pd[x] = cpPrev[x]
  <2>1. CASE n \in OnChains(f)
    <3>1. PICK e \in CpHead : n \in ToSet(f[e])  BY <2>1 DEF OnChains
    <3>2. /\ nd \in Pointers /\ pd \in Pointers /\ g \in Chains /\ Rings(nd, pd, g)
          /\ OnChains(g) = OnChains(f) \ {n} /\ LooseSame(cpNext, cpPrev, nd, pd, f)
      BY <1>2, <1>3, <3>1, DelRings
    <3> QED BY <3>2 DEF LooseSame
  <2>2. CASE n \notin OnChains(f)
    <3>1. cpNext[n] = n /\ cpPrev[n] = n  BY <2>2, <1>2 DEF CpAccept
    <3>2. nd = cpNext /\ pd = cpPrev  BY <3>1, <1>2 DEF NextDel, PrevDel, Pointers
    <3>3. g = f  BY <2>2, <1>3, WithoutLoose
    <3> QED BY <3>2, <3>3, <2>2, <1>2
  <2> QED BY <2>1, <2>2
<1> HIDE DEF nd, pd
<1>7. ASSUME NEW x \in CpNode \ OnChains(g), x # n
      PROVE  nd[x] = pd[x] /\ nd[x] \in {x, CpNil}
  <2>1. x \in CpNode \ OnChains(f)  BY <1>6, <1>7
  <2> QED BY <2>1, <1>2, <1>6, <1>7
<1>8. PICK nx \in Pointers, pv \in Pointers : nx = nd /\ pv = pd  BY <1>6
<1>9. ListsOk' /\ CpLists' = With(g, h, n)  BY <1>5, <1>6, <1>7, <1>8, AddStep
<1> QED BY <1>1, <1>3, <1>9

----------------------------------------------------------------------------
(* The loop *)

LoopT == cpLoop \in [head : CpHead, inst : CpHeader, pn : CpHeader \cup {CpNil},
                     had : Seq(CpNode), saw : Seq(CpNode)]

\* The nodes the loop has not been at are the last of its list, as they were.
StillThere(e, had, m) ==
  /\ m <= Len(e)
  /\ \A i \in 0 .. m - 1 : e[Len(e) - i] = had[Len(had) - i]

LoopAt ==
  LET h == cpLoop.head  had == cpLoop.had  k == Len(cpLoop.saw) IN
  /\ LoopT
  /\ k <= Len(had) /\ \A i \in 1 .. k : cpLoop.saw[i] = had[i]
  /\ cpLoop.inst = Place(h, had, k + 1)
  /\ k < Len(had) => cpLoop.pn = Place(h, had, k + 2)
  /\ StillThere(CpLists[h], had, Len(had) - k)

CpInv == ListsOk /\ (cpLoop = NoLoop \/ LoopAt)

(* The first of the nodes that are still there may stay or be unlinked: the   *)
(* others are the last of the list again.                                     *)
LEMMA OthersStillThere ==
  ASSUME NEW e \in Seq(CpNode), NoDup(e), NEW had \in Seq(CpNode), NEW m \in Nat \ {0},
         m <= Len(had), StillThere(e, had, m),
         NEW e2, e2 \in {e, Unlink(e, had[Len(had) - (m - 1)])}
  PROVE  StillThere(e2, had, m - 1)
<1>1. CASE e2 = e
  BY <1>1 DEF StillThere
<1>2. CASE e2 = Unlink(e, had[Len(had) - (m - 1)])
  <2> DEFINE p == Len(e) - (m - 1)
  <2>1. p \in 1 .. Len(e) /\ m <= Len(e)  BY DEF StillThere
  <2>2. e[p] = had[Len(had) - (m - 1)]
    <3>1. m - 1 \in 0 .. m - 1  OBVIOUS
    <3> QED BY <3>1 DEF StillThere
  <2>3. e2 = Unlink(e, e[p])  BY <1>2, <2>2
  <2> HIDE DEF p
  <2>4. Len(e2) = Len(e) - 1 /\ \A j \in 1 .. Len(e) - 1 : e2[j] = IF j < p THEN e[j] ELSE e[j + 1]
    BY <2>1, <2>3, UnlinkAt
  <2>5. ASSUME NEW i \in 0 .. m - 2 PROVE e2[Len(e2) - i] = had[Len(had) - i]
    <3> DEFINE j == Len(e2) - i
    <3>1. j \in 1 .. Len(e) - 1 /\ ~(j < p) /\ j + 1 = Len(e) - i  BY <2>1, <2>4 DEF p
    <3> HIDE DEF j
    <3>2. e2[j] = e[Len(e) - i]  BY <3>1, <2>4
    <3>3. i \in 0 .. m - 1  OBVIOUS
    <3>4. e[Len(e) - i] = had[Len(had) - i]  BY <3>3 DEF StillThere
    <3> QED BY <3>2, <3>4 DEF j
  <2>6. m - 1 <= Len(e2)  BY <2>1, <2>4
  <2> QED BY <2>5, <2>6 DEF StillThere
<1> QED BY <1>1, <1>2

(* The header behind the first of the nodes that are still there is the one   *)
(* that was behind it when the loop began.                                    *)
LEMMA AheadStillThere ==
  ASSUME NEW nx, NEW h \in CpHead, NEW e \in Seq(CpNode), Forward(nx, h, e),
         NEW had \in Seq(CpNode), NEW m \in Nat \ {0}, m <= Len(had), StillThere(e, had, m)
  PROVE  nx[had[Len(had) - (m - 1)]] = Place(h, had, Len(had) - (m - 1) + 1)
<1> DEFINE p == Len(e) - (m - 1)
<1>1. p \in 1 .. Len(e) /\ Len(e) \in Nat /\ Len(had) \in Nat  BY DEF StillThere
<1>2. e[p] = had[Len(had) - (m - 1)]
  <2>1. m - 1 \in 0 .. m - 1  OBVIOUS
  <2> QED BY <2>1 DEF StillThere
<1>3. nx[e[p]] = Place(h, e, p + 1)  BY <1>1, Ahead
<1>4. Place(h, e, p + 1) = Place(h, had, Len(had) - (m - 1) + 1)
  <2>1. CASE m = 1
    <3>1. p + 1 = Len(e) + 1 /\ Len(had) - (m - 1) + 1 = Len(had) + 1  BY <2>1, <1>1
    <3> QED BY <3>1, Places
  <2>2. CASE m > 1
    <3>1. m - 2 \in 0 .. m - 1  BY <2>2
    <3>2. e[Len(e) - (m - 2)] = had[Len(had) - (m - 2)]  BY <3>1 DEF StillThere
    <3>3. /\ p + 1 = Len(e) - (m - 2) /\ p + 1 \in 1 .. Len(e)
          /\ Len(had) - (m - 1) + 1 = Len(had) - (m - 2)
          /\ Len(had) - (m - 2) \in 1 .. Len(had)
      BY <2>2, <1>1
    <3>4. Place(h, e, p + 1) = e[p + 1]  BY <3>3, Places
    <3>5. Place(h, had, Len(had) - (m - 2)) = had[Len(had) - (m - 2)]  BY <3>3, Places
    <3> QED BY <3>2, <3>3, <3>4, <3>5
  <2> QED BY <2>1, <2>2
<1> QED BY <1>2, <1>3, <1>4

(* What the list through h is: a sequence without duplicates, and its ring. *)
LEMMA ListIs ==
  ASSUME ListsOk, NEW h \in CpHead
  PROVE  /\ CpLists[h] \in Seq(CpNode) /\ NoDup(CpLists[h])
         /\ Forward(cpNext, h, CpLists[h]) /\ CpLists[h] = Elements(h)
  BY DEF ListsOk, Chains, Rings, Apart, CpLists

----------------------------------------------------------------------------
(* The invariant *)

(* The constructor makes rings of no nodes. *)
LEMMA CpInitLists ==
  ASSUME CpInit
  PROVE  ListsOk /\ CpLists = [h \in CpHead |-> << >>]
<1> PICK f \in Chains : f = [h \in CpHead |-> << >>]  BY EmptyList DEF Chains
<1>1. cpNext \in Pointers /\ cpPrev \in Pointers  BY DEF CpInit, Pointers
<1>2. ASSUME NEW h \in CpHead PROVE Forward(cpNext, h, f[h]) /\ Backward(cpPrev, h, f[h])
  <2>1. f[h] = << >> /\ Len(f[h]) = 0  OBVIOUS
  <2>2. Place(h, f[h], 0) = h /\ Place(h, f[h], 1) = h  BY <2>1 DEF Place
  <2>3. cpNext[h] = h /\ cpPrev[h] = h  BY DEF CpInit, CpHeader
  <2> QED BY <2>1, <2>2, <2>3 DEF Forward, Backward
<1>3. \A h \in CpHead : NoDup(f[h]) /\ ToSet(f[h]) = {}  BY EmptyList
<1>4. Apart(f)  BY <1>3 DEF Apart
<1>5. Loose(cpNext, cpPrev, f)  BY DEF Loose, CpInit, CpHeader
<1>6. ListsAre(f)  BY <1>1, <1>2, <1>4, <1>5 DEF ListsAre, Rings
<1> QED BY <1>6, SeenLists DEF ListsAreSeen

(* One call outside of a loop keeps the rings. *)
LEMMA CallLists == ListsOk /\ CpCall => ListsOk'
<1> SUFFICES ASSUME ListsOk, CpCall PROVE ListsOk'  OBVIOUS
<1> PICK n \in CpNode : CpDel(n) \/ \E h \in CpHead : CpAddTail(h, n) \/ CpAccept(h, n)
  BY DEF CpCall
<1>1. CASE CpDel(n)  BY <1>1, DelStep
<1>2. ASSUME NEW h \in CpHead, CpAddTail(h, n) PROVE ListsOk'  BY <1>2, AddTailStep
<1>3. ASSUME NEW h \in CpHead, CpAccept(h, n) PROVE ListsOk'  BY <1>3, AcceptStep
<1> QED BY <1>1, <1>2, <1>3

(* When a loop begins, all of its list is still there. *)
LEMMA BeginInv ==
  ASSUME CpInv, NEW h \in CpHead, CpBegin(h)
  PROVE  ListsOk' /\ LoopAt'
<1> DEFINE e == CpLists[h]
<1>1. ListsOk' /\ CpLists' = CpLists  BY SameStep DEF CpInv, CpBegin
<1>2. e \in Seq(CpNode) /\ NoDup(e) /\ Forward(cpNext, h, e) /\ e = Elements(h)
  BY ListIs DEF CpInv
<1>3. cpLoop' = [head |-> h, inst |-> cpNext[h], pn |-> cpNext[cpNext[h]], had |-> e, saw |-> << >>]
  BY <1>2 DEF CpBegin
<1> HIDE DEF e
<1>4. cpNext[h] = Place(h, e, 1)  BY <1>2, FirstPlace
<1>5. cpNext[h] \in CpHeader /\ cpNext[cpNext[h]] \in CpHeader \cup {CpNil}
  <2>1. cpNext[h] \in CpHeader  BY <1>2, <1>4, Places
  <2> QED BY <2>1 DEF CpInv, ListsOk, Pointers
<1>6. 0 < Len(e) => cpNext[cpNext[h]] = Place(h, e, 2)
  <2> SUFFICES ASSUME 0 < Len(e) PROVE cpNext[cpNext[h]] = Place(h, e, 2)  OBVIOUS
  <2>1. 1 \in 1 .. Len(e) /\ 1 + 1 = 2  BY <1>2
  <2>2. cpNext[h] = e[1]  BY <2>1, <1>2, <1>4, Places
  <2>3. cpNext[e[1]] = Place(h, e, 1 + 1)  BY <2>1, <1>2, Ahead
  <2> QED BY <2>1, <2>2, <2>3
<1>7. LoopT'  BY <1>2, <1>3, <1>5 DEF LoopT
<1>8. StillThere(e, e, Len(e))  BY <1>2 DEF StillThere
<1>9. /\ cpLoop'.head = h /\ cpLoop'.had = e /\ Len(cpLoop'.saw) = 0
      /\ cpLoop'.inst = cpNext[h] /\ cpLoop'.pn = cpNext[cpNext[h]]
  BY <1>3
<1>10. CpLists'[h] = e  BY <1>1 DEF e
<1>11. StillThere(CpLists'[h], e, Len(e) - 0)
  <2>1. Len(e) - 0 = Len(e)  BY <1>2
  <2> QED BY <2>1, <1>8, <1>10
<1>12. 0 + 1 = 1 /\ 0 + 2 = 2 /\ 0 <= Len(e) /\ 1 .. 0 = {}  BY <1>2
<1>13. LoopAt'
  BY <1>4, <1>6, <1>7, <1>9, <1>11, <1>12 DEF LoopAt
<1> QED BY <1>1, <1>13

(* The body keeps the rings, and of its list takes away at most its node. *)
LEMMA BodyLists ==
  ASSUME ListsOk, LoopT, CpBody, cpLoop.inst \in CpNode
  PROVE  /\ ListsOk'
         /\ CpLists'[cpLoop.head] \in
              {CpLists[cpLoop.head], Unlink(CpLists[cpLoop.head], cpLoop.inst)}
<1> DEFINE n == cpLoop.inst
           h == cpLoop.head
<1>1. h \in CpHead  BY DEF LoopT
<1>2. \/ UNCHANGED <<cpNext, cpPrev>>
      \/ CpDel(n)
      \/ \E g \in CpHead \ {h} : CpAccept(g, n)
  BY DEF CpBody
<1> HIDE DEF n, h
<1>3. n \in CpNode  BY DEF n
<1>4. Without(CpLists, n)[h] = Unlink(CpLists[h], n)  BY <1>1 DEF Without
<1>5. ListsOk' /\ CpLists'[h] \in {CpLists[h], Unlink(CpLists[h], n)}
  <2>1. CASE UNCHANGED <<cpNext, cpPrev>>  BY <2>1, SameStep
  <2>2. CASE CpDel(n)  BY <2>2, <1>3, <1>4, DelStep
  <2>3. ASSUME NEW g \in CpHead \ {h}, CpAccept(g, n)
        PROVE  ListsOk' /\ CpLists'[h] \in {CpLists[h], Unlink(CpLists[h], n)}
    <3>1. ListsOk' /\ CpLists' = With(Without(CpLists, n), g, n)  BY <2>3, <1>3, AcceptStep
    <3>2. CpLists'[h] = Without(CpLists, n)[h]  BY <3>1, <1>1, <2>3 DEF With, Without
    <3> QED BY <3>1, <3>2, <1>4
  <2> QED BY <1>2, <2>1, <2>2, <2>3
<1> QED BY <1>5 DEF n, h

(* The body's node is a node, and the next one. *)
LEMMA BodyNode ==
  ASSUME LoopAt, cpLoop.inst # cpLoop.head
  PROVE  /\ Len(cpLoop.saw) < Len(cpLoop.had)
         /\ cpLoop.inst = cpLoop.had[Len(cpLoop.saw) + 1] /\ cpLoop.inst \in CpNode
<1> DEFINE h == cpLoop.head
           had == cpLoop.had
           k == Len(cpLoop.saw)
<1>1. /\ h \in CpHead /\ had \in Seq(CpNode) /\ k \in Nat /\ Len(had) \in Nat /\ k <= Len(had)
      /\ cpLoop.inst = Place(h, had, k + 1)
  BY DEF LoopAt, LoopT
<1>2. k # Len(had)  BY <1>1, Places
<1>3. k + 1 \in 1 .. Len(had)  BY <1>1, <1>2
<1>4. cpLoop.inst = had[k + 1] /\ had[k + 1] \in CpNode  BY <1>1, <1>3, Places
<1> QED BY <1>1, <1>2, <1>4

(* One run of the body and the step to pN, which the body has not touched *)
LEMMA BodyInv ==
  ASSUME ListsOk, LoopAt, CpBody
  PROVE  ListsOk' /\ LoopAt'
<1> DEFINE h == cpLoop.head
           had == cpLoop.had
           k == Len(cpLoop.saw)
           n == cpLoop.inst
           e == CpLists[h]
           e2 == CpLists'[h]
           m == Len(had) - k
<1>1. LoopT /\ n # h  BY DEF LoopAt, CpBody
<1>2. k < Len(had) /\ n = had[k + 1] /\ n \in CpNode  BY <1>1, BodyNode
<1>3. ListsOk' /\ e2 \in {e, Unlink(e, n)}  BY <1>1, <1>2, BodyLists
<1>4. /\ h \in CpHead /\ had \in Seq(CpNode) /\ k \in Nat /\ Len(had) \in Nat
      /\ cpLoop.saw \in Seq(CpNode)
  BY <1>1 DEF LoopT
<1>5. e \in Seq(CpNode) /\ NoDup(e)  BY <1>4, ListIs
<1>6. e2 \in Seq(CpNode) /\ Forward(cpNext', h, e2)
  BY <1>3, <1>4 DEF ListsOk, Chains, Rings
<1>7. /\ \A i \in 1 .. k : cpLoop.saw[i] = had[i]
      /\ cpLoop.pn = Place(h, had, k + 2) /\ StillThere(e, had, m)
  BY <1>2 DEF LoopAt
<1>8. /\ cpLoop' = [cpLoop EXCEPT !.inst = cpLoop.pn, !.pn = cpNext'[cpLoop.pn],
                                  !.saw = Append(@, cpLoop.inst)]
  BY DEF CpBody
<1>9. /\ cpLoop'.head = h /\ cpLoop'.had = had /\ cpLoop'.inst = cpLoop.pn
      /\ cpLoop'.pn = cpNext'[cpLoop.pn] /\ cpLoop'.saw = Append(cpLoop.saw, n)
  BY <1>1, <1>8 DEF LoopT
<1> HIDE DEF n, e, e2, h, had
<1>10. /\ cpLoop'.saw \in Seq(CpNode) /\ Len(cpLoop'.saw) = k + 1
       /\ \A i \in 1 .. k : cpLoop'.saw[i] = cpLoop.saw[i]
       /\ cpLoop'.saw[k + 1] = n
  BY <1>2, <1>4, <1>9, AppendProperties
<1> HIDE DEF k
<1>11. m \in Nat \ {0} /\ m <= Len(had) /\ Len(had) - (m - 1) = k + 1
       /\ m - 1 = Len(had) - (k + 1)
  BY <1>2, <1>4
<1>12. StillThere(e2, had, m - 1)
  BY <1>2, <1>3, <1>4, <1>5, <1>7, <1>11, OthersStillThere
<1>13. cpLoop.pn \in CpHeader  BY <1>4, <1>7, Places
<1>14. cpNext'[cpLoop.pn] \in CpHeader \cup {CpNil}  BY <1>3, <1>13 DEF ListsOk, Pointers
<1>15. k + 1 < Len(had) => cpNext'[cpLoop.pn] = Place(h, had, k + 3)
  <2> SUFFICES ASSUME k + 1 < Len(had) PROVE cpNext'[cpLoop.pn] = Place(h, had, k + 3)  OBVIOUS
  <2>0. k \in Nat /\ Len(had) \in Nat  BY <1>4
  <2>1. k + 2 \in 1 .. Len(had) /\ m - 1 \in Nat \ {0} /\ m - 1 <= Len(had)
        /\ Len(had) - (m - 1 - 1) = k + 2 /\ k + 2 + 1 = k + 3
    BY <2>0
  <2>2. cpLoop.pn = had[k + 2]  BY <2>1, <1>4, <1>7, Places
  <2>3. cpNext'[had[Len(had) - (m - 1 - 1)]] = Place(h, had, Len(had) - (m - 1 - 1) + 1)
    BY <2>1, <1>4, <1>6, <1>12, AheadStillThere
  <2> QED BY <2>1, <2>2, <2>3
<1>16. LoopT'
  <2>1. cpLoop' = [head |-> h, inst |-> cpLoop'.inst, pn |-> cpLoop'.pn, had |-> had,
                   saw |-> cpLoop'.saw]
    BY <1>1, <1>8 DEF LoopT, h, had
  <2> QED BY <2>1, <1>4, <1>9, <1>10, <1>13, <1>14 DEF LoopT
<1>17. \A i \in 1 .. k + 1 : cpLoop'.saw[i] = had[i]
  <2> SUFFICES ASSUME NEW i \in 1 .. k + 1 PROVE cpLoop'.saw[i] = had[i]  OBVIOUS
  <2>1. CASE i \in 1 .. k  BY <2>1, <1>7, <1>10
  <2>2. CASE i = k + 1  BY <2>2, <1>2, <1>10
  <2> QED BY <2>1, <2>2, <1>4
<1>18. k + 1 + 1 = k + 2 /\ k + 1 + 2 = k + 3 /\ k + 1 <= Len(had)  BY <1>2, <1>4
<1>19. StillThere(CpLists'[cpLoop'.head], had, Len(had) - (k + 1))
  BY <1>9, <1>11, <1>12 DEF e2
<1>20. LoopAt'
  BY <1>7, <1>9, <1>10, <1>15, <1>16, <1>17, <1>18, <1>19 DEF LoopAt
<1> QED BY <1>3, <1>20

(* Every step of the calls and the loop keeps the invariant. *)
LEMMA CpNextInv == CpInv /\ [CpNext]_cpVars => CpInv'
<1> SUFFICES ASSUME CpInv, [CpNext]_cpVars PROVE CpInv'  OBVIOUS
<1>1. ASSUME UNCHANGED cpLoop, UNCHANGED CpLists PROVE LoopAt => LoopAt'
  BY <1>1 DEF LoopAt, LoopT
<1>2. CASE CpCall
  <2>1. cpLoop = NoLoop /\ UNCHANGED cpLoop  BY <1>2 DEF CpCall
  <2>2. ListsOk'  BY <1>2, CallLists DEF CpInv
  <2>3. cpLoop' = NoLoop'  BY <2>1 DEF NoLoop
  <2> QED BY <2>2, <2>3 DEF CpInv
<1>3. ASSUME NEW h \in CpHead, CpBegin(h) PROVE CpInv'
  BY <1>3, BeginInv DEF CpInv
<1>4. CASE CpBody
  <2>1. cpLoop # NoLoop  BY <1>4 DEF CpBody, NoLoop
  <2> QED BY <1>4, <2>1, BodyInv DEF CpInv
<1>5. CASE CpEnd
  <2>1. ListsOk'  BY <1>5, SameStep DEF CpEnd, CpInv
  <2> QED BY <1>5, <2>1 DEF CpEnd, CpInv, NoLoop
<1>6. CASE UNCHANGED cpVars
  <2>1. ListsOk' /\ UNCHANGED CpLists  BY <1>6, SameStep DEF cpVars, CpInv
  <2>2. UNCHANGED cpLoop  BY <1>6 DEF cpVars
  <2> QED BY <2>1, <2>2, <1>1 DEF CpInv, NoLoop
<1> QED BY <1>2, <1>3, <1>4, <1>5, <1>6 DEF CpNext

(* The invariant holds in every reachable state. *)
LEMMA CpInvHolds == CpSpec => []CpInv
<1>1. CpInit => CpInv  BY CpInitLists DEF CpInit, CpInv
<1> QED BY <1>1, CpNextInv, PTL DEF CpSpec

(* A loop sees each node its list had, in order, once, and ends with the last,  *)
(* although its body unlinks nodes or moves them to another list.             *)
THEOREM LoopsSeeAll == CpSpec => []LoopSeesAll
<1>1. CpInv => LoopSeesAll
  <2> SUFFICES ASSUME CpInv, cpLoop.head # CpNil PROVE LoopSeesAll
    BY DEF LoopSeesAll
  <2>1. LoopAt  BY DEF CpInv, NoLoop
  <2> DEFINE had == cpLoop.had
             saw == cpLoop.saw
             k   == Len(saw)
  <2>2. /\ cpLoop.head \in CpHead /\ had \in Seq(CpNode) /\ saw \in Seq(CpNode)
        /\ k \in Nat /\ Len(had) \in Nat /\ k <= Len(had)
        /\ \A i \in 1 .. k : saw[i] = had[i]
    BY <2>1 DEF LoopAt, LoopT
  <2> HIDE DEF had, saw
  <2>3. saw = SubSeq(had, 1, k)
    <3> DEFINE s == SubSeq(had, 1, k)
    <3>1. \A i \in 1 .. k : had[i] \in CpNode  BY <2>2
    <3>2. s \in Seq(CpNode) /\ Len(s) = k /\ \A i \in 1 .. k : s[i] = had[i]
      BY <2>2, <3>1, SubSeqProperties
    <3> HIDE DEF s
    <3>3. saw = s  BY <2>2, <3>2, SeqEqual
    <3> QED BY <3>3 DEF s
  <2>4. ASSUME cpLoop.inst = cpLoop.head PROVE saw = had
    <3>1. ~(k < Len(had))
      <4> SUFFICES ASSUME k < Len(had) PROVE FALSE  OBVIOUS
      <4>1. cpLoop.inst = Place(cpLoop.head, had, k + 1)  BY <2>1 DEF LoopAt, had, saw
      <4>2. k + 1 \in 1 .. Len(had)  BY <2>2
      <4> QED BY <4>1, <4>2, <2>2, <2>4, Places
    <3>2. k = Len(had)  BY <3>1, <2>2
    <3> QED BY <3>2, <2>2, SeqEqual
  <2> QED BY <2>2, <2>3, <2>4 DEF LoopSeesAll, had, saw
<1> QED BY <1>1, CpInvHolds, PTL

\* The pointers keep their types, and a loop is over a list.
LEMMA CpTypes == CpSpec => []CpTypeOK
<1>1. CpInv => CpTypeOK
  <2> SUFFICES ASSUME CpInv PROVE CpTypeOK
    OBVIOUS
  <2>1. cpNext \in Pointers /\ cpPrev \in Pointers  BY DEF CpInv, ListsOk
  <2>2. CASE cpLoop = NoLoop  BY <2>1, <2>2 DEF CpTypeOK, Pointers, NoLoop
  <2>3. CASE LoopAt
    <3>1. LoopT  BY <2>3 DEF LoopAt
    <3>2. cpLoop.head \in CpHead  BY <3>1 DEF LoopT
    <3> QED BY <2>1, <3>2 DEF CpTypeOK, Pointers
  <2> QED BY <2>2, <2>3 DEF CpInv
<1> QED BY <1>1, CpInvHolds, PTL

(* Lists reads the operations of ListOps as this module does. *)
LEMMA SameOps ==
  /\ \A s, e : CpPromise!Unlink(s, e) = Unlink(s, e) /\ CpPromise!AddTail(s, e) = AddTail(s, e)
  /\ \A n : CpPromise!Linked(n) <=> n \in OnChains(CpLists)
<1>1. \A s : CpPromise!ToSet(s) = ToSet(s)  BY DEF ToSet, CpPromise!ToSet
<1>2. \A s, e : CpPromise!Unlink(s, e) = Unlink(s, e)
  BY <1>1 DEF Unlink, CpPromise!Unlink
<1>3. \A s, e : CpPromise!AddTail(s, e) = AddTail(s, e)
  BY DEF AddTail, CpPromise!AddTail
<1>4. \A n : CpPromise!Linked(n) <=> n \in OnChains(CpLists)
  BY <1>1 DEF OnChains, CpPromise!Linked, CpLists
<1> QED BY <1>2, <1>3, <1>4

(* What the pointers are of changes as Lists says, or not at all. *)
LEMMA CpStep == CpInv /\ [CpNext]_cpVars => [CpPromise!Next]_CpLists
<1> SUFFICES ASSUME CpInv, [CpNext]_cpVars PROVE CpPromise!Next \/ UNCHANGED CpLists
  OBVIOUS
<1>0. ListsOk  BY DEF CpInv
<1>1. ASSUME NEW n \in CpNode, CpDel(n) PROVE CpPromise!del(n)
  <2>1. n \in OnChains(CpLists) /\ CpLists' = Without(CpLists, n)  BY <1>0, <1>1, DelStep
  <2> QED BY <2>1, SameOps DEF CpPromise!del, Without, CpLists
<1>2. ASSUME NEW n \in CpNode, NEW h \in CpHead, CpAddTail(h, n) PROVE CpPromise!addTail(h, n)
  <2>1. n \notin OnChains(CpLists) /\ CpLists' = With(CpLists, h, n)
    BY <1>0, <1>2, AddTailStep
  <2> QED BY <2>1, SameOps DEF CpPromise!addTail, With, CpLists
<1>3. ASSUME NEW n \in CpNode, NEW h \in CpHead, CpAccept(h, n) PROVE CpPromise!accept(h, n)
  <2>1. CpLists' = With(Without(CpLists, n), h, n)  BY <1>0, <1>3, AcceptStep
  <2> QED BY <2>1, SameOps DEF CpPromise!accept, With, Without, CpLists
<1>4. CASE CpCall  BY <1>1, <1>2, <1>3, <1>4 DEF CpCall, CpPromise!Next
<1>5. ASSUME UNCHANGED <<cpNext, cpPrev>> PROVE UNCHANGED CpLists
  BY <1>0, <1>5, SameStep
<1>6. CASE \E h \in CpHead : CpBegin(h)  BY <1>5, <1>6 DEF CpBegin
<1>7. CASE CpBody
  <2>1. cpLoop.inst \in CpNode
    <3>1. LoopAt  BY <1>7 DEF CpInv, CpBody, NoLoop
    <3> QED BY <1>7, <3>1, BodyNode DEF CpBody
  <2>2. \/ UNCHANGED <<cpNext, cpPrev>>
        \/ CpDel(cpLoop.inst)
        \/ \E h \in CpHead : CpAccept(h, cpLoop.inst)
    BY <1>7 DEF CpBody
  <2> QED BY <2>1, <2>2, <1>1, <1>3, <1>5 DEF CpPromise!Next
<1>8. CASE CpEnd  BY <1>5, <1>8 DEF CpEnd
<1>9. CASE UNCHANGED cpVars  BY <1>5, <1>9 DEF cpVars
<1> QED BY <1>4, <1>6, <1>7, <1>8, <1>9 DEF CpNext

(* The pointers of cplist.h are the sequences of Lists: addTail, del and accept *)
(* do to the nodes of each ring, from getFirstEntry on, what Lists says, after *)
(* any calls and also in the body of a loop, for any heads and nodes.         *)
THEOREM PointersAreLists == CpSpec => CpRefinesLists
<1>1. CpInit => CpPromise!Init  BY CpInitLists DEF CpPromise!Init, CpLists
<1>2. CpInv /\ [CpNext]_cpVars => [CpPromise!Next]_[h \in CpHead |-> Elements(h)]
  BY CpStep DEF CpLists
<1> QED BY <1>1, <1>2, CpInvHolds, PTL DEF CpSpec, CpRefinesLists, CpPromise!Spec
=============================================================================
