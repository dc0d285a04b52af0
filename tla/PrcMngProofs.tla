---------------------------- MODULE PrcMngProofs ----------------------------
(***************************************************************************)
(* Theorems about the process and device manager, for every number of     *)
(* units, slots, run-time objects, process ids and card types.             *)
(***************************************************************************)
EXTENDS PrcMng, ListOpsProofs

(* The inductive invariant, in parts.  The run-time objects, the units and the *)
(* kernel's children change together in sCapture, sRelease, sTerm and sKill,   *)
(* so what ties them together is one part, RtInv.                              *)

RtTypeOK ==
  /\ lists \in [ListName -> Seq(Rt)]
  /\ state \in [Rt -> RtState]
  /\ pid \in [Rt -> Pid \cup {NULL}]
  /\ missed \in [Rt -> -MaxAhead .. MaxMissed]
  /\ parent \in [Rt -> Mng \cup {NULL}]
  /\ child \in [Mng -> Rt \cup {NULL}]
  /\ prc \in [Pid -> PrcState]

QueueTypeOK == list2Start \in Seq(Mng) /\ startTimer \in BOOLEAN

TimerTypeOK ==
  termTimer \in BOOLEAN /\ killTimer \in BOOLEAN /\ hellos \in -1 .. SPV_HELLO_FACTOR

DynTypeOK ==
  /\ cardType \in [Dynamic -> CardType \cup {NULL}]
  /\ cardTypeNew \in [Dynamic -> CardType \cup {NULL}]
  /\ cnt4Filter \in [Dynamic -> 0 .. ONLINE_FILTER_COUNT]
  /\ drv \in [Dynamic -> CardType \cup {NULL}]
  /\ reads \in [Dynamic -> [type : CardType \cup {NULL},
                            n : 0 .. ONLINE_FILTER_COUNT + 1]]

CtlTypeOK ==
  /\ main \in MainState
  /\ spvTodo \in Seq(Rt)
  /\ stopTodo \in Seq(Mng)
  /\ sigChld \in BOOLEAN
  /\ sigAck \in Pid \cup {NULL}
  /\ restarts \in 0 .. MaxRestart

\* every object is on exactly one list, and on it once
ListsPartition ==
  /\ \A l \in ListName : NoDup(lists[l])
  /\ \A r \in Rt, l, k \in ListName : r \in On(l) /\ r \in On(k) => l = k
  /\ \A r \in Rt : \E l \in ListName : r \in On(l)

PoolIsNull  == \A r \in Rt : r \in On("pool") <=> state[r] = "NULL"
StateOnList == \A r \in Rt : r \in On(ListOf(state[r]))

RtInv == RtTypeOK /\ ListsPartition /\ PoolIsNull /\ Association /\ ChildrenTracked

\* what the loop of sCheckLiveState has still to visit stays on s_listNormal
LoopInv ==
  main = "spv" =>
    ~IsEmpty(spvTodo) /\ NoDup(spvTodo) /\ ToSet(spvTodo) \subseteq On("normal")

Inv ==
  /\ RtInv /\ QueueTypeOK /\ TimerTypeOK /\ DynTypeOK /\ CtlTypeOK
  /\ StartQueueOk
  /\ LoopInv
  /\ Running => StateOnList

----------------------------------------------------------------------------
(* The lists *)

(* accept moves one object and no other. *)
LEMMA AcceptList ==
  ASSUME RtTypeOK, ListsPartition, NEW to \in ListName, NEW r \in Rt,
         lists' = Accept(to, r)
  PROVE  /\ lists' \in [ListName -> Seq(Rt)]
         /\ ListsPartition'
         /\ \A l \in ListName : On(l)' = IF l = to THEN On(l) \cup {r} ELSE On(l) \ {r}
         /\ ~IsEmpty(lists'[to])
<1>1. ASSUME NEW l \in ListName
      PROVE  /\ Unlink(lists[l], r) \in Seq(Rt)
             /\ ToSet(Unlink(lists[l], r)) = On(l) \ {r}
             /\ NoDup(Unlink(lists[l], r))
  <2>1. lists[l] \in Seq(Rt) /\ NoDup(lists[l])  BY DEF RtTypeOK, ListsPartition
  <2> QED BY <2>1, UnlinkNode DEF On
<1>2. ASSUME NEW l \in ListName
      PROVE  /\ lists'[l] \in Seq(Rt)
             /\ ToSet(lists'[l]) = IF l = to THEN On(l) \cup {r} ELSE On(l) \ {r}
             /\ NoDup(lists'[l])
             /\ l = to => ~IsEmpty(lists'[l])
  <2>1. CASE l = to
    <3>1. lists'[l] = AddTail(Unlink(lists[l], r), r)  BY <2>1 DEF Accept
    <3>2. r \notin ToSet(Unlink(lists[l], r))  BY <1>1
    <3> QED BY <3>1, <3>2, <2>1, <1>1, AddTailNew
  <2>2. CASE l # to
    <3>1. lists'[l] = Unlink(lists[l], r)  BY <2>2 DEF Accept
    <3> QED BY <3>1, <2>2, <1>1
  <2> QED BY <2>1, <2>2
<1>3. lists' = [l \in ListName |-> lists'[l]]  BY DEF Accept
<1>4. lists' \in [ListName -> Seq(Rt)]
  <2> DEFINE f == lists'
  <2>1. f = [l \in ListName |-> f[l]] /\ \A l \in ListName : f[l] \in Seq(Rt)  BY <1>2, <1>3
  <2> HIDE DEF f
  <2>2. f \in [ListName -> Seq(Rt)]  BY <2>1
  <2> QED BY <2>2 DEF f
<1>5. \A l \in ListName : On(l)' = IF l = to THEN On(l) \cup {r} ELSE On(l) \ {r}
  BY <1>2 DEF On
<1>6. ListsPartition'
  <2>1. \A l \in ListName : NoDup(lists'[l])  BY <1>2
  <2>2. ASSUME NEW q \in Rt, NEW l \in ListName, NEW k \in ListName, q \in On(l)', q \in On(k)'
        PROVE  l = k
    BY <1>5, <2>2 DEF ListsPartition
  <2>3. ASSUME NEW q \in Rt
        PROVE  \E l \in ListName : q \in On(l)'
    <3>1. PICK k \in ListName : q \in On(k)  BY DEF ListsPartition
    <3>2. CASE q = r  BY <3>2, <1>5
    <3>3. CASE q # r  BY <3>3, <3>1, <1>5
    <3> QED BY <3>2, <3>3
  <2> QED BY <2>1, <2>2, <2>3 DEF ListsPartition
<1> QED BY <1>2, <1>4, <1>5, <1>6

(* The first object of a list is an object on that list and on no other. *)
LEMMA FirstOnList ==
  ASSUME RtTypeOK, NEW l \in ListName, ~IsEmpty(lists[l])
  PROVE  Head(lists[l]) \in Rt /\ Head(lists[l]) \in On(l)
<1>1. lists[l] \in Seq(Rt)  BY DEF RtTypeOK
<1> QED BY <1>1, FirstEntry DEF On

----------------------------------------------------------------------------
(* The four operations on a run-time object *)

(* What every object's links say, whatever list it is on *)
LEMMA PoolOrNot ==
  ASSUME RtInv, NEW r \in Rt
  PROVE  /\ r \in On("pool") <=> state[r] = "NULL"
         /\ state[r] = "NULL" <=> parent[r] = NULL
         /\ state[r] # "NULL" => /\ parent[r] \in Mng /\ child[parent[r]] = r
                                 /\ pid[r] \in Pid /\ prc[pid[r]] # "none"
BY NullAssumption DEF RtInv, RtTypeOK, PoolIsNull, Association, ChildrenTracked

(* sCapture: the first free object becomes the child of m. *)
LEMMA CaptureStep ==
  ASSUME RtInv, NEW m \in Mng, child[m] = NULL, NEW p \in Pid, sCapture(m, p)
  PROVE  /\ RtInv'
         /\ StateOnList => StateOnList'
         /\ \A n \in Mng : n # m => child'[n] = child[n]
<1> DEFINE r == Head(lists["pool"])
<1>1. r \in Rt /\ r \in On("pool") /\ "normal" \in ListName
  BY FirstOnList DEF sCapture, ListName, RtInv
<1>2. /\ lists' = Accept("normal", r)
      /\ prc[p] = "none"
      /\ prc' = [prc EXCEPT ![p] = "live"]
      /\ state' = [state EXCEPT ![r] = "NORMAL"]
      /\ pid' = [pid EXCEPT ![r] = p]
      /\ parent' = [parent EXCEPT ![r] = m]
      /\ child' = [child EXCEPT ![m] = r]
      /\ missed' = missed
  BY DEF sCapture
<1>3. state[r] = "NULL" /\ parent[r] = NULL /\ pid[r] = NULL /\ missed[r] = 0
  BY <1>1, PoolOrNot DEF RtInv, Association
<1> HIDE DEF r
<1>4. /\ lists' \in [ListName -> Seq(Rt)]
      /\ ListsPartition'
      /\ \A l \in ListName : On(l)' = IF l = "normal" THEN On(l) \cup {r} ELSE On(l) \ {r}
  BY <1>1, <1>2, AcceptList DEF RtInv
<1>5. RtTypeOK'
  BY <1>1, <1>2, <1>4 DEF RtInv, RtTypeOK, RtState, PrcState
<1>6. PoolIsNull'
  BY <1>1, <1>2, <1>4 DEF RtInv, RtTypeOK, PoolIsNull, ListName
<1>7. Association'
  <2>1. \A n \in Mng, q \in Rt : child'[n] = q <=> parent'[q] = n
    BY <1>1, <1>2, <1>3, NullAssumption DEF RtInv, RtTypeOK, Association
  <2>2. \A q \in Rt : state'[q] = "NULL" <=> parent'[q] = NULL
    BY <1>1, <1>2, <1>3, NullAssumption DEF RtInv, RtTypeOK, Association
  <2>3. \A q \in Rt : state'[q] = "NULL" => pid'[q] = NULL /\ missed'[q] = 0
    BY <1>1, <1>2, <1>3, NullAssumption DEF RtInv, RtTypeOK, Association
  <2> QED BY <2>1, <2>2, <2>3 DEF Association
<1>8. ChildrenTracked'
  <2>1. \A x \in Pid : prc'[x] # "none" => \E q \in Rt : pid'[q] = x
    BY <1>1, <1>2, <1>3, NullAssumption DEF RtInv, RtTypeOK, ChildrenTracked
  <2>2. \A q \in Rt : state'[q] # "NULL" => pid'[q] \in Pid /\ prc'[pid'[q]] # "none"
    BY <1>1, <1>2, <1>3, NullAssumption DEF RtInv, RtTypeOK, ChildrenTracked
  <2>3. \A x, q \in Rt : pid'[x] = pid'[q] /\ pid'[x] # NULL => x = q
    <3>1. \A q \in Rt : pid[q] # p
      BY <1>2, NullAssumption DEF RtInv, Association, ChildrenTracked
    <3> QED BY <3>1, <1>1, <1>2, <1>3, NullAssumption DEF RtInv, RtTypeOK, ChildrenTracked
  <2> QED BY <2>1, <2>2, <2>3 DEF ChildrenTracked
<1>9. StateOnList => StateOnList'
  BY <1>1, <1>2, <1>3, <1>4 DEF RtInv, RtTypeOK, StateOnList, ListOf, RtState, ListName
<1> QED BY <1>2, <1>5, <1>4, <1>6, <1>7, <1>8, <1>9 DEF RtInv, RtTypeOK

(* sRelease: a child that has ended is reaped, its object goes back to the pool. *)
LEMMA ReleaseStep ==
  ASSUME RtInv, NEW r \in Rt, state[r] # "NULL", prc[pid[r]] = "zombie", sRelease(r)
  PROVE  /\ RtInv'
         /\ StateOnList => StateOnList'
         /\ child'[parent[r]] = NULL
         /\ \A n \in Mng : n # parent[r] => child'[n] = child[n]
<1>1. "pool" \in ListName  BY DEF ListName
<1>2. /\ lists' = Accept("pool", r)
      /\ prc' = [prc EXCEPT ![pid[r]] = "none"]
      /\ state' = [state EXCEPT ![r] = "NULL"]
      /\ pid' = [pid EXCEPT ![r] = NULL]
      /\ parent' = [parent EXCEPT ![r] = NULL]
      /\ child' = [child EXCEPT ![parent[r]] = NULL]
      /\ missed' = [missed EXCEPT ![r] = 0]
  BY DEF sRelease, Reaped
<1>3. parent[r] \in Mng /\ child[parent[r]] = r /\ pid[r] \in Pid
  BY PoolOrNot
<1>4. /\ lists' \in [ListName -> Seq(Rt)]
      /\ ListsPartition'
      /\ \A l \in ListName : On(l)' = IF l = "pool" THEN On(l) \cup {r} ELSE On(l) \ {r}
  BY <1>1, <1>2, AcceptList DEF RtInv
<1>5. RtTypeOK'
  <2>1. 0 \in -MaxAhead .. MaxMissed  BY BoundAssumption
  <2>2. missed' \in [Rt -> -MaxAhead .. MaxMissed]  BY <1>2, <2>1 DEF RtInv, RtTypeOK
  <2>3. prc' \in [Pid -> PrcState] /\ child' \in [Mng -> Rt \cup {NULL}]
    BY <1>2, <1>3 DEF RtInv, RtTypeOK, PrcState
  <2>4. /\ state' \in [Rt -> RtState] /\ pid' \in [Rt -> Pid \cup {NULL}]
        /\ parent' \in [Rt -> Mng \cup {NULL}]
    BY <1>2 DEF RtInv, RtTypeOK, RtState
  <2> QED BY <1>4, <2>2, <2>3, <2>4 DEF RtTypeOK
<1>6. PoolIsNull'
  BY <1>1, <1>2, <1>4 DEF RtInv, RtTypeOK, PoolIsNull
<1>7. Association'
  <2>1. \A n \in Mng, q \in Rt : child'[n] = q <=> parent'[q] = n
    BY <1>2, <1>3, NullAssumption DEF RtInv, RtTypeOK, Association
  <2>2. \A q \in Rt : state'[q] = "NULL" <=> parent'[q] = NULL
    BY <1>2, <1>3, NullAssumption DEF RtInv, RtTypeOK, Association
  <2>3. \A q \in Rt : state'[q] = "NULL" => pid'[q] = NULL /\ missed'[q] = 0
    BY <1>2, <1>3, NullAssumption DEF RtInv, RtTypeOK, Association
  <2> QED BY <2>1, <2>2, <2>3 DEF Association
<1>8. ChildrenTracked'
  <2>1. \A x \in Pid : prc'[x] # "none" => \E q \in Rt : pid'[q] = x
    BY <1>2, <1>3, NullAssumption DEF RtInv, RtTypeOK, ChildrenTracked
  <2>2. \A q \in Rt : state'[q] # "NULL" => pid'[q] \in Pid /\ prc'[pid'[q]] # "none"
    BY <1>2, <1>3, NullAssumption DEF RtInv, RtTypeOK, ChildrenTracked
  <2>3. \A x, q \in Rt : pid'[x] = pid'[q] /\ pid'[x] # NULL => x = q
    BY <1>2, <1>3, NullAssumption DEF RtInv, RtTypeOK, ChildrenTracked
  <2> QED BY <2>1, <2>2, <2>3 DEF ChildrenTracked
<1>9. StateOnList => StateOnList'
  BY <1>2, <1>4 DEF RtInv, RtTypeOK, StateOnList, ListOf, RtState, ListName
<1> QED BY <1>2, <1>3, <1>4, <1>5, <1>6, <1>7, <1>8, <1>9 DEF RtInv, RtTypeOK

(* sTerm and sKill: the object of a child moves to the list of its new state,  *)
(* the child is signalled and stays the unit's child.                          *)
LEMMA SignalStep ==
  ASSUME RtInv, NEW r \in Rt, state[r] # "NULL",
         NEW to \in {"exiting", "killing"}, NEW sig \in PrcState,
         prc' = [prc EXCEPT ![pid[r]] = sig], sig # "none",
         state' = [state EXCEPT ![r] = IF to = "exiting" THEN "EXITING" ELSE "KILLING"],
         missed' = [missed EXCEPT ![r] = 0],
         lists' = Accept(to, r),
         UNCHANGED <<pid, parent, child>>
  PROVE  /\ RtInv'
         /\ StateOnList => StateOnList'
         /\ \A l \in ListName : l # to => On(l)' = On(l) \ {r}
<1>1. to \in ListName /\ to # "pool"  BY DEF ListName
<1>3. parent[r] \in Mng /\ child[parent[r]] = r /\ pid[r] \in Pid
  BY PoolOrNot
<1>4. /\ lists' \in [ListName -> Seq(Rt)]
      /\ ListsPartition'
      /\ \A l \in ListName : On(l)' = IF l = to THEN On(l) \cup {r} ELSE On(l) \ {r}
  BY <1>1, AcceptList DEF RtInv
<1>5. RtTypeOK'
  BY <1>3, <1>4, BoundAssumption DEF RtInv, RtTypeOK, RtState
<1>6. PoolIsNull'
  BY <1>1, <1>4 DEF RtInv, RtTypeOK, PoolIsNull, ListName
<1>7. Association'
  BY <1>3, NullAssumption DEF RtInv, RtTypeOK, Association
<1>8. ChildrenTracked'
  BY <1>3, NullAssumption DEF RtInv, RtTypeOK, ChildrenTracked
<1>9. StateOnList => StateOnList'
  BY <1>4 DEF RtInv, RtTypeOK, StateOnList, ListOf, RtState, ListName
<1> QED BY <1>4, <1>5, <1>6, <1>7, <1>8, <1>9 DEF RtInv

(* sTerm, rt_prc_info.cpp: a running object goes to the list of exiting ones.  *)
LEMMA TermStep ==
  ASSUME RtInv, NEW r \in Rt, state[r] # "NULL", sTerm(r)
  PROVE  /\ RtInv'
         /\ StateOnList => StateOnList'
         /\ \A l \in ListName : l # "exiting" => On(l)' = On(l) \ {r}
         /\ UNCHANGED child
<1>1. Termed(prc[pid[r]]) \in PrcState /\ Termed(prc[pid[r]]) # "none"
  BY PoolOrNot DEF Termed, RtInv, RtTypeOK, PrcState
<1> QED BY <1>1, SignalStep DEF sTerm

(* sKill: a running or exiting object goes to the list of those being killed.  *)
LEMMA KillStep ==
  ASSUME RtInv, NEW r \in Rt, state[r] # "NULL", sKill(r)
  PROVE  /\ RtInv'
         /\ StateOnList => StateOnList'
         /\ \/ \A l \in ListName : l # "killing" => On(l)' = On(l) \ {r}
            \/ UNCHANGED lists
         /\ UNCHANGED child
<1>1. Killed(prc[pid[r]]) \in PrcState /\ Killed(prc[pid[r]]) # "none"
  BY PoolOrNot DEF Killed, RtInv, RtTypeOK, PrcState
<1>2. CASE NeedKillPrc
  <2>1. /\ prc' = [prc EXCEPT ![pid[r]] = Killed(@)]
        /\ state' = [state EXCEPT ![r] = "KILLING"]
        /\ missed' = [missed EXCEPT ![r] = 0]
        /\ lists' = Accept("killing", r)
        /\ UNCHANGED <<pid, parent, child>>
    BY <1>2 DEF sKill
  <2> QED BY <2>1, <1>1, SignalStep
<1>3. CASE ~NeedKillPrc
  <2>1. UNCHANGED <<rtVars, prc>>  BY <1>3 DEF sKill
  <2> QED BY <2>1 DEF rtVars, RtInv, RtTypeOK, ListsPartition, On, PoolIsNull,
                      Association, ChildrenTracked, StateOnList
<1> QED BY <1>2, <1>3

----------------------------------------------------------------------------
(* The queue, and the parts an action leaves alone *)

(* An action that leaves objects, units and children alone keeps the run-time  *)
(* part of the invariant.                                                      *)
LEMMA RtSame ==
  ASSUME RtInv, UNCHANGED <<rtVars, prc>>
  PROVE  RtInv' /\ (StateOnList => StateOnList')
BY DEF rtVars, RtInv, RtTypeOK, ListsPartition, On, PoolIsNull, Association,
       ChildrenTracked, StateOnList

(* An action that leaves s_list2Start and its units alone keeps the queue's.   *)
LEMMA QueueSame ==
  ASSUME QueueTypeOK, StartQueueOk, UNCHANGED <<list2Start, startTimer, child, cardType>>
  PROVE  QueueTypeOK' /\ StartQueueOk'
BY DEF QueueTypeOK, StartQueueOk, NoCard

(* addIn2Start of a unit that has no child and is not queued *)
LEMMA AddStep ==
  ASSUME QueueTypeOK, NoDup(list2Start), NEW m \in Mng, m \notin ToSet(list2Start),
         addIn2Start(m)
  PROVE  /\ QueueTypeOK' /\ NoDup(list2Start')
         /\ ToSet(list2Start') = ToSet(list2Start) \cup {m}
<1>1. startTimer' \in BOOLEAN  BY DEF addIn2Start, QueueTypeOK, IsEmpty
<1>2. list2Start' = AddTail(list2Start, m)  BY DEF addIn2Start
<1> QED BY <1>1, <1>2, AddTailNew DEF QueueTypeOK

(* stop: the child that has ended is released, and the unit queued again where *)
(* it has something to run.                                                   *)
LEMMA StopStep ==
  ASSUME RtInv, QueueTypeOK, StartQueueOk, DynTypeOK, NEW m \in Mng, stop(m),
         UNCHANGED <<cardType, cardTypeNew, cnt4Filter, reads>>
  PROVE  /\ RtInv' /\ QueueTypeOK' /\ StartQueueOk' /\ DynTypeOK'
         /\ StateOnList => StateOnList'
<1>1. CASE Waitable(m)
  <2> DEFINE r == child[m]
  <2>1. /\ r \in Rt /\ parent[r] = m /\ state[r] # "NULL"
        /\ prc[pid[r]] = "zombie"
    BY <1>1, PoolOrNot, NullAssumption DEF Waitable, RtInv, RtTypeOK, Association
  <2>2. sRelease(r) /\ (subStopStatic(m) \/ subStopDynamic(m))
    BY <1>1 DEF stop
  <2>3. /\ RtInv' /\ (StateOnList => StateOnList')
        /\ child'[m] = NULL
        /\ \A n \in Mng : n # m => child'[n] = child[n]
    BY <2>1, <2>2, ReleaseStep
  <2>4. m \notin ToSet(list2Start) /\ NoDup(list2Start) /\ ToSet(list2Start) \subseteq Mng
    BY <2>1, NullAssumption, NodesOfList DEF StartQueueOk, QueueTypeOK
  <2>5. CASE subStopStatic(m)
    <3>1. addIn2Start(m) /\ drv' = drv /\ m \notin Dynamic
      BY <2>5, ListAssumption DEF subStopStatic
    <3>2. QueueTypeOK' /\ NoDup(list2Start') /\ ToSet(list2Start') = ToSet(list2Start) \cup {m}
      BY <3>1, <2>4, AddStep
    <3>3. StartQueueOk'
      BY <3>1, <3>2, <2>3, <2>4 DEF StartQueueOk, NoCard
    <3> QED BY <3>1, <3>2, <3>3, <2>3 DEF DynTypeOK
  <2>6. CASE subStopDynamic(m)
    <3>1. DynTypeOK' /\ m \in Dynamic  BY <2>6 DEF subStopDynamic, DynTypeOK
    <3>2. CASE addIn2Start(m) /\ cardType[m] # NULL
      <4>1. QueueTypeOK' /\ NoDup(list2Start') /\ ToSet(list2Start') = ToSet(list2Start) \cup {m}
        BY <3>2, <2>4, AddStep
      <4>2. StartQueueOk'
        BY <3>1, <3>2, <4>1, <2>3, <2>4 DEF StartQueueOk, NoCard
      <4> QED BY <3>1, <4>1, <4>2, <2>3
    <3>3. CASE UNCHANGED <<list2Start, startTimer>>
      <4>1. QueueTypeOK' /\ StartQueueOk'
        BY <3>3, <2>3, <2>4 DEF QueueTypeOK, StartQueueOk, NoCard
      <4> QED BY <3>1, <4>1, <2>3
    <3> QED BY <2>6, <3>2, <3>3 DEF subStopDynamic
  <2> QED BY <2>2, <2>5, <2>6
<1>2. CASE ~Waitable(m)
  <2>1. UNCHANGED <<rtVars, prc, list2Start, startTimer, drv>>  BY <1>2 DEF stop
  <2>2. RtInv' /\ (StateOnList => StateOnList')  BY <2>1, RtSame
  <2>3. QueueTypeOK' /\ StartQueueOk'  BY <2>1, QueueSame DEF rtVars
  <2> QED BY <2>1, <2>2, <2>3 DEF DynTypeOK
<1> QED BY <1>1, <1>2

----------------------------------------------------------------------------
(* Start: what a manager, the first or a later one, begins with *)

Fresh ==
  /\ lists = AllPooled
  /\ state = [r \in Rt |-> "NULL"] /\ pid = [r \in Rt |-> NULL]
  /\ missed = [r \in Rt |-> 0] /\ parent = [r \in Rt |-> NULL]
  /\ child = [m \in Mng |-> NULL]
  /\ prc = [p \in Pid |-> "none"]
  /\ list2Start = StaticPrc /\ startTimer = TRUE
  /\ termTimer = TRUE /\ killTimer = TRUE /\ hellos = 0
  /\ cardType = [d \in Dynamic |-> NULL] /\ cardTypeNew = [d \in Dynamic |-> NULL]
  /\ cnt4Filter = [d \in Dynamic |-> 0] /\ reads = [d \in Dynamic |-> NoRead]
  /\ main = "loop" /\ spvTodo = << >> /\ stopTodo = << >>
  /\ sigChld = FALSE /\ sigAck = NULL
  /\ drv \in [Dynamic -> CardType \cup {NULL}]
  /\ restarts \in 0 .. MaxRestart

(* After sInitPool every object is on the pool and stands for nothing.         *)
LEMMA FreshRt == Fresh => RtInv /\ StateOnList
<1> SUFFICES ASSUME Fresh PROVE RtInv /\ StateOnList
  OBVIOUS
<1>1. /\ RtPool \in Seq(Rt) /\ NoDup(RtPool) /\ Rt = ToSet(RtPool)
      /\ << >> \in Seq(Rt) /\ NoDup(<< >>) /\ ToSet(<< >>) = {}
  BY ListAssumption, EmptyList DEF Rt
<1>2. "pool" \in ListName  BY DEF ListName
<1>3. \A l \in ListName : lists[l] = IF l = "pool" THEN RtPool ELSE << >>
  BY DEF Fresh, AllPooled
<1>4. \A l \in ListName : On(l) = IF l = "pool" THEN Rt ELSE {}
  BY <1>1, <1>3 DEF On
<1>5. RtTypeOK
  <2>1. lists \in [ListName -> Seq(Rt)]
    <3> DEFINE f == lists
    <3>1. f = [l \in ListName |-> f[l]]  BY DEF Fresh, AllPooled
    <3>2. \A l \in ListName : f[l] \in Seq(Rt)  BY <1>1, <1>3
    <3> HIDE DEF f
    <3>3. f \in [ListName -> Seq(Rt)]  BY <3>1, <3>2
    <3> QED BY <3>3 DEF f
  <2>2. 0 \in -MaxAhead .. MaxMissed  BY BoundAssumption
  <2> QED BY <2>1, <2>2 DEF Fresh, RtTypeOK, RtState, PrcState
<1>6. ListsPartition  BY <1>1, <1>2, <1>3, <1>4 DEF ListsPartition
<1>7. PoolIsNull /\ StateOnList
  BY <1>2, <1>4 DEF Fresh, PoolIsNull, StateOnList, ListOf
<1>8. Association  BY NullAssumption DEF Fresh, Association
<1>9. ChildrenTracked  BY NullAssumption DEF Fresh, ChildrenTracked
<1> QED BY <1>5, <1>6, <1>7, <1>8, <1>9 DEF RtInv

(* A manager that has just started satisfies the invariant.                    *)
LEMMA FreshInv == Fresh => Inv
<1> SUFFICES ASSUME Fresh PROVE Inv
  OBVIOUS
<1>1. RtInv /\ StateOnList  BY FreshRt
<1>2. QueueTypeOK /\ StartQueueOk
  <2>1. StaticPrc \in Seq(Static) /\ NoDup(StaticPrc) /\ Static \cap Dynamic = {}
        /\ ToSet(StaticPrc) = Static
    BY ListAssumption DEF Static
  <2>2. StaticPrc \in Seq(Mng)  BY <2>1 DEF Mng
  <2> QED BY <2>1, <2>2 DEF Fresh, QueueTypeOK, StartQueueOk, NoCard, Mng
<1>3. TimerTypeOK  BY BoundAssumption DEF Fresh, TimerTypeOK
<1>4. DynTypeOK  BY BoundAssumption DEF Fresh, DynTypeOK, NoRead
<1>5. CtlTypeOK  BY EmptyList DEF Fresh, CtlTypeOK, MainState
<1>6. LoopInv  BY DEF Fresh, LoopInv
<1> QED BY <1>1, <1>2, <1>3, <1>4, <1>5, <1>6 DEF Inv

(* The first manager does.                                                     *)
LEMMA InitInv == Init => Inv
<1>1. Init => Fresh  BY BoundAssumption DEF Init, Fresh
<1> QED BY <1>1, FreshInv

(* So does one started after another ended: its own tables are new.            *)
LEMMA RestartInv == Inv /\ Restart => Inv'
<1>1. Inv /\ Restart => Fresh'
  BY BoundAssumption DEF Restart, Fresh, Inv, DynTypeOK, CtlTypeOK, AllPooled, NoRead
<1>2. (Fresh => Inv)'  BY FreshInv, PTL
<1> QED BY <1>1, <1>2

----------------------------------------------------------------------------
(* Every action keeps the invariant: the timers *)

(* The hello timer only counts.                                                *)
LEMMA HelloInv == Inv /\ sHello4Live => Inv'
<1> SUFFICES ASSUME Inv, sHello4Live PROVE Inv'
  OBVIOUS
<1> USE DEF Inv
<1>1. RtTypeOK'
  <2>1. missed' \in [Rt -> -MaxAhead .. MaxMissed]
    BY BoundAssumption DEF sHello4Live, RtInv, RtTypeOK
  <2> QED BY <2>1 DEF sHello4Live, RtInv, RtTypeOK
<1>2. ListsPartition' /\ PoolIsNull' /\ ChildrenTracked' /\ StateOnList'
  BY DEF sHello4Live, Running, RtInv, ListsPartition, On, PoolIsNull, ChildrenTracked, StateOnList
<1>3. Association'
  <2>1. \A r \in Rt : state[r] = "NULL" => r \notin ToSet(lists["normal"])
    BY DEF sHello4Live, RtInv, PoolIsNull, ListsPartition, On, ListName
  <2> QED BY <2>1 DEF sHello4Live, RtInv, RtTypeOK, Association
<1>4. QueueTypeOK' /\ StartQueueOk'  BY QueueSame DEF sHello4Live, dynVars
<1>5. TimerTypeOK'  BY BoundAssumption DEF sHello4Live, TimerTypeOK
<1>6. DynTypeOK' /\ CtlTypeOK' /\ LoopInv'
  BY DEF sHello4Live, DynTypeOK, CtlTypeOK, LoopInv, dynVars, ctlVars, sigVars
<1> QED BY <1>1, <1>2, <1>3, <1>4, <1>5, <1>6 DEF RtInv

(* The supervision timer takes the list of normal objects to walk.             *)
LEMMA CheckLiveInv == Inv /\ sCheckLiveState => Inv'
<1> SUFFICES ASSUME Inv, sCheckLiveState PROVE Inv'
  OBVIOUS
<1> USE DEF Inv
<1>1. RtInv' /\ StateOnList'  BY RtSame DEF sCheckLiveState, Running
<1>2. QueueTypeOK' /\ StartQueueOk'  BY QueueSame DEF sCheckLiveState, rtVars, dynVars
<1>3. TimerTypeOK' /\ DynTypeOK'
  BY BoundAssumption DEF sCheckLiveState, TimerTypeOK, DynTypeOK, dynVars
<1>4. lists["normal"] \in Seq(Rt) /\ NoDup(lists["normal"])
  BY DEF RtInv, RtTypeOK, ListsPartition, ListName
<1>5. CtlTypeOK'
  BY <1>4 DEF sCheckLiveState, CtlTypeOK, MainState, sigVars
<1>6. LoopInv'
  BY <1>4 DEF sCheckLiveState, LoopInv, On, rtVars
<1> QED BY <1>1, <1>2, <1>3, <1>5, <1>6

(* One object of sCheckLiveState: its counters cleared, or sKill.              *)
LEMMA CheckLiveOneInv == Inv /\ CheckLiveOne => Inv'
<1> SUFFICES ASSUME Inv, CheckLiveOne PROVE Inv'
  OBVIOUS
<1> USE DEF Inv
<1> DEFINE r == Head(spvTodo)
<1>1. /\ spvTodo \in Seq(Rt) /\ ~IsEmpty(spvTodo) /\ NoDup(spvTodo)
      /\ ToSet(spvTodo) \subseteq On("normal")
  BY DEF CheckLiveOne, LoopInv, CtlTypeOK
<1>2. r \in Rt /\ r \in On("normal")  BY <1>1, FirstEntry
<1>3. /\ Tail(spvTodo) \in Seq(Rt) /\ NoDup(Tail(spvTodo))
      /\ ToSet(Tail(spvTodo)) \subseteq On("normal") \ {r}
  BY <1>1, RestOfList
<1>4. state[r] # "NULL"
  BY <1>2 DEF RtInv, PoolIsNull, ListsPartition, ListName
<1> HIDE DEF r
<1>5. RtInv' /\ StateOnList' /\ On("normal") \ {r} \subseteq On("normal")' /\ UNCHANGED child
  <2>1. CASE sKill(r)
    BY <2>1, <1>2, <1>4, KillStep DEF CheckLiveOne, Running, ListName, On
  <2>2. CASE /\ missed' = [missed EXCEPT ![r] = 0]
             /\ UNCHANGED <<lists, state, pid, parent, child, killTimer, prc>>
    <3>1. 0 \in -MaxAhead .. MaxMissed  BY BoundAssumption
    <3>2. RtTypeOK'  BY <2>2, <1>2, <3>1 DEF RtInv, RtTypeOK
    <3>3. Association'  BY <2>2, <1>2 DEF RtInv, RtTypeOK, Association
    <3>4. ListsPartition' /\ PoolIsNull' /\ ChildrenTracked' /\ StateOnList' /\ On("normal")' = On("normal")
      BY <2>2 DEF CheckLiveOne, Running, RtInv, ListsPartition, On, PoolIsNull, ChildrenTracked, StateOnList
    <3> QED BY <2>2, <3>2, <3>3, <3>4 DEF RtInv
  <2> QED BY <2>1, <2>2 DEF CheckLiveOne, r
<1>6. QueueTypeOK' /\ StartQueueOk'
  BY <1>5, QueueSame DEF CheckLiveOne, dynVars
<1>7. DynTypeOK'  BY DEF CheckLiveOne, DynTypeOK, dynVars
<1>8. TimerTypeOK'
  BY DEF CheckLiveOne, TimerTypeOK, sKill, IsEmpty
<1>9. CtlTypeOK'
  BY <1>3 DEF CheckLiveOne, CtlTypeOK, MainState, sigVars
<1>10. LoopInv'
  BY <1>3, <1>5 DEF CheckLiveOne, LoopInv
<1> QED BY <1>5, <1>6, <1>7, <1>8, <1>9, <1>10

(* The term timer kills the first exiting object.                              *)
LEMMA TermTimeoutInv == Inv /\ sCheckTermTimeout => Inv'
<1> SUFFICES ASSUME Inv, sCheckTermTimeout PROVE Inv'
  OBVIOUS
<1> USE DEF Inv
<1>1. RtInv' /\ StateOnList' /\ UNCHANGED child
  <2>1. CASE ~IsEmpty(lists["exiting"]) /\ sKill(Head(lists["exiting"]))
    <3>1. /\ Head(lists["exiting"]) \in Rt
          /\ state[Head(lists["exiting"])] # "NULL"
      BY <2>1, FirstOnList DEF RtInv, PoolIsNull, ListsPartition, ListName
    <3> QED BY <2>1, <3>1, KillStep DEF sCheckTermTimeout, Running
  <2>2. CASE UNCHANGED <<rtVars, killTimer, prc>>
    BY <2>2, RtSame DEF sCheckTermTimeout, Running, rtVars
  <2> QED BY <2>1, <2>2 DEF sCheckTermTimeout
<1>2. QueueTypeOK' /\ StartQueueOk'
  BY <1>1, QueueSame DEF sCheckTermTimeout, dynVars
<1>3. DynTypeOK'  BY DEF sCheckTermTimeout, DynTypeOK, dynVars
<1>4. TimerTypeOK'
  BY DEF sCheckTermTimeout, TimerTypeOK, sKill, IsEmpty
<1>5. CtlTypeOK' /\ LoopInv'
  BY DEF sCheckTermTimeout, CtlTypeOK, LoopInv, ctlVars, sigVars
<1> QED BY <1>1, <1>2, <1>3, <1>4, <1>5

(* The kill timer stops the unit of the first object being killed.             *)
LEMMA KillTimeoutInv == Inv /\ sCheckKillTimeout => Inv'
<1> SUFFICES ASSUME Inv, sCheckKillTimeout PROVE Inv'
  OBVIOUS
<1> USE DEF Inv
<1>1. RtInv' /\ StateOnList' /\ QueueTypeOK' /\ StartQueueOk' /\ DynTypeOK'
  <2>1. CASE ~IsEmpty(lists["killing"]) /\ stop(parent[Head(lists["killing"])])
    <3>1. /\ Head(lists["killing"]) \in Rt
          /\ state[Head(lists["killing"])] # "NULL"
      BY <2>1, FirstOnList DEF RtInv, PoolIsNull, ListsPartition, ListName
    <3>2. parent[Head(lists["killing"])] \in Mng  BY <3>1, PoolOrNot
    <3> QED BY <2>1, <3>2, StopStep DEF sCheckKillTimeout, Running, dynVars
  <2>2. CASE UNCHANGED <<rtVars, prc, list2Start, startTimer, drv>>
    BY <2>2, RtSame, QueueSame DEF sCheckKillTimeout, Running, rtVars, dynVars, DynTypeOK
  <2> QED BY <2>1, <2>2 DEF sCheckKillTimeout
<1>2. TimerTypeOK'
  BY DEF sCheckKillTimeout, TimerTypeOK, IsEmpty
<1>3. CtlTypeOK' /\ LoopInv'
  BY DEF sCheckKillTimeout, CtlTypeOK, LoopInv, ctlVars, sigVars
<1> QED BY <1>1, <1>2, <1>3 DEF sCheckKillTimeout, ctlVars

(* The start timer starts the first unit queued: sCapture, then delFrom2Start. *)
LEMMA NeedStartInv == Inv /\ sCheckNeedStart => Inv'
<1> SUFFICES ASSUME Inv, sCheckNeedStart PROVE Inv'
  OBVIOUS
<1> USE DEF Inv
<1> DEFINE m == Head(list2Start)
<1>1. list2Start \in Seq(Mng) /\ NoDup(list2Start)  BY DEF QueueTypeOK, StartQueueOk
<1>2. /\ Unlink(list2Start, m) \in Seq(Mng) /\ NoDup(Unlink(list2Start, m))
      /\ ToSet(Unlink(list2Start, m)) = ToSet(list2Start) \ {m}
  BY <1>1, UnlinkNode
<1>3. RtInv' /\ StateOnList' /\ list2Start' \in Seq(Mng) /\ StartQueueOk'
  <2>1. ASSUME ~IsEmpty(list2Start), child[m] = NULL, NEW p \in Pid, sCapture(m, p),
               list2Start' = Unlink(list2Start, m)
        PROVE  RtInv' /\ StateOnList' /\ list2Start' \in Seq(Mng) /\ StartQueueOk'
    <3>1. m \in Mng  BY <1>1, <2>1, FirstEntry
    <3>2. /\ RtInv' /\ (StateOnList => StateOnList')
          /\ \A n \in Mng : n # m => child'[n] = child[n]
      BY <2>1, <3>1, CaptureStep
    <3>3. ToSet(list2Start) \subseteq Mng  BY <1>1, NodesOfList
    <3>4. StartQueueOk'
      BY <1>2, <2>1, <3>2, <3>3 DEF StartQueueOk, NoCard, sCheckNeedStart, dynVars
    <3> QED BY <1>2, <2>1, <3>2, <3>4 DEF sCheckNeedStart, Running
  <2>2. ASSUME UNCHANGED <<rtVars, prc>>,
               list2Start' = list2Start \/ list2Start' = Unlink(list2Start, m)
        PROVE  RtInv' /\ StateOnList' /\ list2Start' \in Seq(Mng) /\ StartQueueOk'
    <3>1. RtInv' /\ StateOnList'  BY <2>2, RtSame DEF sCheckNeedStart, Running
    <3>2. /\ list2Start' \in Seq(Mng) /\ NoDup(list2Start')
          /\ ToSet(list2Start') \subseteq ToSet(list2Start)
      BY <2>2, <1>1, <1>2
    <3>3. StartQueueOk'
      BY <2>2, <3>2 DEF StartQueueOk, NoCard, sCheckNeedStart, dynVars, rtVars
    <3> QED BY <3>1, <3>2, <3>3
  <2> QED BY <2>1, <2>2 DEF sCheckNeedStart
<1>4. QueueTypeOK'
  BY <1>3 DEF sCheckNeedStart, QueueTypeOK, IsEmpty
<1>5. TimerTypeOK' /\ DynTypeOK' /\ CtlTypeOK' /\ LoopInv'
  BY DEF sCheckNeedStart, TimerTypeOK, DynTypeOK, CtlTypeOK, LoopInv, dynVars, ctlVars, sigVars
<1> QED BY <1>3, <1>4, <1>5

----------------------------------------------------------------------------
(* Every action keeps the invariant: the signals *)

(* sFindObj returns an object that has the pid and is on one of the lists. *)
LEMMA FindObj ==
  ASSUME NEW names \in SUBSET ListName, NEW p, sFindObj(names, p) # NULL
  PROVE  LET r == sFindObj(names, p)
         IN  pid[r] = p /\ \E l \in names : r \in On(l)
<1> DEFINE found == {r \in UNION {ToSet(lists[l]) : l \in names} : pid[r] = p}
<1>1. found # {} /\ sFindObj(names, p) = CHOOSE r \in found : TRUE  BY DEF sFindObj
<1>2. sFindObj(names, p) \in found  BY <1>1
<1> QED BY <1>2 DEF On

(* The answer to a hello only counts.                                          *)
LEMMA UpdateLiveInv == Inv /\ sUpdateLiveState => Inv'
<1> SUFFICES ASSUME Inv, sUpdateLiveState PROVE Inv'
  OBVIOUS
<1> USE DEF Inv
<1> DEFINE r == sFindObj({"normal"}, sigAck)
<1>1. r # NULL => r \in On("normal")  BY FindObj DEF ListName
<1>2. r # NULL => r \in Rt /\ state[r] # "NULL"
  <2>1. lists["normal"] \in Seq(Rt)  BY DEF RtInv, RtTypeOK, ListName
  <2>2. On("normal") \subseteq Rt  BY <2>1, NodesOfList DEF On
  <2> QED BY <1>1, <2>2 DEF RtInv, PoolIsNull, ListsPartition, ListName
<1> HIDE DEF r
<1>3. /\ r # NULL => missed[r] > -MaxAhead
      /\ missed' = IF r = NULL THEN missed ELSE [missed EXCEPT ![r] = @ - 1]
  BY DEF sUpdateLiveState, r
<1>4. RtTypeOK'
  <2>1. missed' \in [Rt -> -MaxAhead .. MaxMissed]
    BY <1>2, <1>3, BoundAssumption DEF RtInv, RtTypeOK
  <2> QED BY <2>1 DEF sUpdateLiveState, RtInv, RtTypeOK
<1>5. Association'  BY <1>2, <1>3 DEF sUpdateLiveState, RtInv, RtTypeOK, Association
<1>6. ListsPartition' /\ PoolIsNull' /\ ChildrenTracked' /\ StateOnList'
  BY DEF sUpdateLiveState, Running, RtInv, ListsPartition, On, PoolIsNull, ChildrenTracked, StateOnList
<1>7. QueueTypeOK' /\ StartQueueOk'  BY QueueSame DEF sUpdateLiveState, timers, dynVars
<1>8. TimerTypeOK' /\ DynTypeOK' /\ CtlTypeOK' /\ LoopInv'
  BY DEF sUpdateLiveState, TimerTypeOK, DynTypeOK, CtlTypeOK, LoopInv, timers, dynVars, ctlVars
<1> QED BY <1>4, <1>5, <1>6, <1>7, <1>8 DEF RtInv

(* An action that leaves everything but main and the signals alone *)
LEMMA OnlyMainInv ==
  ASSUME Inv, Running, main' \in MainState, main' # "spv", CtlTypeOK',
         UNCHANGED <<rtVars, list2Start, timers, dynVars, prc, drv>>
  PROVE  Inv'
<1> USE DEF Inv
<1>1. RtInv' /\ StateOnList'  BY RtSame
<1>2. QueueTypeOK' /\ StartQueueOk'  BY QueueSame DEF timers, dynVars, rtVars
<1>3. TimerTypeOK' /\ DynTypeOK' /\ LoopInv'
  BY DEF TimerTypeOK, DynTypeOK, LoopInv, timers, dynVars
<1> QED BY <1>1, <1>2, <1>3

(* SIGCHLD begins, or ends, the loop of sBuryChld.                             *)
LEMMA BuryInv == Inv /\ (sBuryChld \/ BuryEnd) => Inv'
<1>1. Inv /\ sBuryChld => CtlTypeOK'  BY DEF sBuryChld, Inv, CtlTypeOK, MainState
<1>2. Inv /\ BuryEnd => CtlTypeOK'  BY DEF BuryEnd, Inv, CtlTypeOK, MainState, sigVars
<1>3. Inv /\ sBuryChld => Inv'
  BY <1>1, OnlyMainInv DEF sBuryChld, Running, MainState
<1>4. Inv /\ BuryEnd => Inv'
  BY <1>2, OnlyMainInv DEF BuryEnd, Running, MainState
<1> QED BY <1>3, <1>4

(* One turn of the waitpid loop: the object of the pid is found on a list and  *)
(* its unit stopped.                                                           *)
LEMMA BuryOneInv == Inv /\ BuryOne => Inv'
<1> SUFFICES ASSUME Inv, BuryOne PROVE Inv'
  OBVIOUS
<1> USE DEF Inv
<1> DEFINE names == {"killing", "exiting", "normal"}
<1>1. RtInv' /\ StateOnList' /\ QueueTypeOK' /\ StartQueueOk' /\ DynTypeOK'
  <2> PICK p \in Pid :
        /\ prc[p] = "zombie"
        /\ IF sFindObj(names, p) # NULL
           THEN stop(parent[sFindObj(names, p)])
           ELSE /\ prc' = [prc EXCEPT ![p] = "none"]
                /\ UNCHANGED <<rtVars, list2Start, startTimer, drv>>
    BY DEF BuryOne
  <2> DEFINE r == sFindObj(names, p)
  <2>1. PICK q \in Rt : pid[q] = p /\ state[q] # "NULL"
    BY NullAssumption DEF RtInv, ChildrenTracked, Association
  <2>2. sFindObj(names, p) # NULL
    <3>1. q \in On(ListOf(state[q]))  BY DEF BuryOne, Running, StateOnList
    <3>2. ListOf(state[q]) \in names  BY <2>1 DEF ListOf, RtInv, RtTypeOK, RtState
    <3>3. q \in {x \in UNION {ToSet(lists[l]) : l \in names} : pid[x] = p}
      BY <2>1, <3>1, <3>2 DEF On
    <3>4. UNION {ToSet(lists[l]) : l \in names} \subseteq Rt
      <4>1. \A l \in names : lists[l] \in Seq(Rt)  BY DEF RtInv, RtTypeOK, ListName
      <4> QED BY <4>1, NodesOfList
    <3> HIDE DEF names
    <3> QED BY <3>3, <3>4, NullAssumption DEF sFindObj
  <2>3. names \in SUBSET ListName  BY DEF ListName
  <2>4. PICK l \in names : pid[r] = p /\ r \in On(l)  BY <2>2, <2>3, FindObj
  <2>5. lists[l] \in Seq(Rt)  BY <2>3 DEF RtInv, RtTypeOK
  <2>6. r \in Rt  BY <2>4, <2>5, NodesOfList DEF On
  <2>7. state[r] # "NULL"
    BY <2>4, <2>6 DEF RtInv, PoolIsNull, ListsPartition, ListName
  <2>8. parent[r] \in Mng /\ stop(parent[r])  BY <2>2, <2>6, <2>7, PoolOrNot
  <2> HIDE DEF r
  <2> QED BY <2>8, StopStep DEF BuryOne, Running, dynVars
<1>2. TimerTypeOK' /\ CtlTypeOK' /\ LoopInv'
  BY DEF BuryOne, TimerTypeOK, CtlTypeOK, LoopInv, ctlVars, sigVars
<1> QED BY <1>1, <1>2

----------------------------------------------------------------------------
(* Every action keeps the invariant: the cards *)

\* What handleNewType leaves to show, whichever of its steps is taken
CardPost ==
  /\ RtInv' /\ StateOnList'
  /\ QueueTypeOK' /\ StartQueueOk' /\ TimerTypeOK'
  /\ cardType' \in [Dynamic -> CardType \cup {NULL}]
  /\ cardTypeNew' \in [Dynamic -> CardType \cup {NULL}]
  /\ cnt4Filter' \in [Dynamic -> 0 .. ONLINE_FILTER_COUNT]
  /\ drv' \in [Dynamic -> CardType \cup {NULL}]
  /\ main' \in {"loop", "crashed"}

(* handleNewType, step 2: the process is told to end, or the unit leaves the   *)
(* start queue.                                                                *)
LEMMA CardGonePost ==
  ASSUME Inv, main = "loop", NEW d \in Dynamic, NEW t \in CardType \cup {NULL}, CardGone(d, t)
  PROVE  CardPost
<1> USE DEF Inv
<1>1. d \in Mng /\ cardType[d] # NULL  BY DEF Mng, CardGone
<1>2. cardType' = [cardType EXCEPT ![d] = NULL]
      /\ cardTypeNew' = [cardTypeNew EXCEPT ![d] = NULL]
      /\ cnt4Filter' = cnt4Filter /\ startTimer' = startTimer /\ hellos' = hellos
  BY DEF CardGone
<1>3. /\ cardType' \in [Dynamic -> CardType \cup {NULL}]
      /\ cardTypeNew' \in [Dynamic -> CardType \cup {NULL}]
      /\ cnt4Filter' \in [Dynamic -> 0 .. ONLINE_FILTER_COUNT]
      /\ drv' \in [Dynamic -> CardType \cup {NULL}]
  BY <1>2 DEF CardGone, DynTypeOK
<1>4. list2Start \in Seq(Mng) /\ NoDup(list2Start)  BY DEF QueueTypeOK, StartQueueOk
<1>5. \A m \in Mng : m # d => (NoCard(m)' <=> NoCard(m))
  BY <1>2 DEF NoCard, DynTypeOK
<1>6. ToSet(list2Start) \subseteq Mng  BY <1>4, NodesOfList
<1>7. CASE child[d] # NULL /\ state[child[d]] = "NORMAL" /\ sTerm(child[d])
           /\ UNCHANGED <<list2Start, killTimer, main, drv>>
  <2>1. child[d] \in Rt /\ state[child[d]] # "NULL"  BY <1>1, <1>7 DEF RtInv, RtTypeOK
  <2>2. RtInv' /\ StateOnList' /\ UNCHANGED child
    BY <1>7, <2>1, TermStep DEF Running
  <2>3. QueueTypeOK' /\ StartQueueOk'
    BY <1>2, <1>5, <1>6, <1>7, <2>2 DEF QueueTypeOK, StartQueueOk
  <2>4. TimerTypeOK'  BY <1>2, <1>7 DEF sTerm, TimerTypeOK, IsEmpty
  <2> QED BY <1>3, <1>7, <2>2, <2>3, <2>4 DEF CardPost
<1>8. CASE child[d] # NULL
           /\ UNCHANGED <<rtVars, list2Start, termTimer, killTimer, main, prc, drv>>
  <2>1. RtInv' /\ StateOnList' /\ UNCHANGED child  BY <1>8, RtSame DEF Running, rtVars
  <2>2. QueueTypeOK' /\ StartQueueOk'
    BY <1>2, <1>5, <1>6, <1>8, <2>1 DEF QueueTypeOK, StartQueueOk
  <2> QED BY <1>2, <1>3, <1>8, <2>1, <2>2 DEF CardPost, TimerTypeOK
<1>9. CASE child[d] = NULL /\ list2Start' = Unlink(list2Start, d)
           /\ UNCHANGED <<rtVars, termTimer, killTimer, main, prc>>
  <2>1. RtInv' /\ StateOnList' /\ UNCHANGED child  BY <1>9, RtSame DEF Running, rtVars
  <2>2. /\ list2Start' \in Seq(Mng) /\ NoDup(list2Start')
        /\ ToSet(list2Start') = ToSet(list2Start) \ {d}
    BY <1>4, <1>9, UnlinkNode
  <2>3. QueueTypeOK' /\ StartQueueOk'
    BY <1>2, <1>5, <1>6, <2>1, <2>2 DEF QueueTypeOK, StartQueueOk
  <2> QED BY <1>2, <1>3, <1>9, <2>1, <2>3 DEF CardPost, TimerTypeOK
<1>10. CASE child[d] = NULL /\ d \notin ToSet(list2Start) /\ main' = "crashed"
            /\ UNCHANGED <<rtVars, list2Start, termTimer, killTimer, prc, drv>>
  <2>1. RtInv' /\ StateOnList' /\ UNCHANGED child  BY <1>10, RtSame DEF Running, rtVars
  <2>2. QueueTypeOK' /\ StartQueueOk'
    BY <1>2, <1>5, <1>6, <1>10, <2>1 DEF QueueTypeOK, StartQueueOk
  <2> QED BY <1>2, <1>3, <1>10, <2>1, <2>2 DEF CardPost, TimerTypeOK
<1> QED BY <1>7, <1>8, <1>9, <1>10 DEF CardGone

(* handleNewType, step 4: the unit of a filtered card joins the start queue.   *)
LEMMA CardOnlinePost ==
  ASSUME Inv, main = "loop", NEW d \in Dynamic, NEW t \in CardType \cup {NULL}, CardOnline(d, t)
  PROVE  CardPost
<1> USE DEF Inv
<1>1. d \in Mng /\ NoCard(d) /\ child[d] = NULL  BY DEF Mng, CardOnline, NoCard
<1>2. /\ cardType' \in [Dynamic -> CardType \cup {NULL}]
      /\ cardTypeNew' \in [Dynamic -> CardType \cup {NULL}]
      /\ cnt4Filter' \in [Dynamic -> 0 .. ONLINE_FILTER_COUNT]
      /\ drv' \in [Dynamic -> CardType \cup {NULL}]
  BY BoundAssumption DEF CardOnline, DynTypeOK
<1>3. RtInv' /\ StateOnList' /\ UNCHANGED child
  BY RtSame DEF CardOnline, Running, rtVars
<1>4. d \notin ToSet(list2Start) /\ NoDup(list2Start) /\ ToSet(list2Start) \subseteq Mng
  BY <1>1, NodesOfList DEF StartQueueOk, QueueTypeOK
<1>5. QueueTypeOK' /\ NoDup(list2Start') /\ ToSet(list2Start') = ToSet(list2Start) \cup {d}
  BY <1>1, <1>4, AddStep DEF CardOnline
<1>6. \A m \in Mng : (m # d => (NoCard(m)' <=> NoCard(m))) /\ ~NoCard(d)'
  BY DEF CardOnline, NoCard, DynTypeOK
<1>7. StartQueueOk'
  BY <1>1, <1>3, <1>4, <1>5, <1>6 DEF StartQueueOk
<1> QED BY <1>2, <1>3, <1>5, <1>7 DEF CardPost, CardOnline, TimerTypeOK

(* The poll of the card types, with whichever step of handleNewType.           *)
LEMMA DevChangeInv ==
  ASSUME Inv, NEW d \in Dynamic, sCheckDevChange(d)
  PROVE  Inv'
<1> USE DEF Inv
<1> PICK t \in CardType \cup {NULL} :
      /\ handleNewType(d, t)
      /\ reads' = [reads EXCEPT ![d] =
           [type |-> t,
            n |-> IF t # @.type THEN 1
                  ELSE IF @.n <= ONLINE_FILTER_COUNT THEN @.n + 1 ELSE @.n]]
  BY DEF sCheckDevChange
<1>1. main = "loop" /\ UNCHANGED <<spvTodo, stopTodo, restarts, sigVars>>
  BY DEF sCheckDevChange
<1>2. CardPost
  <2>1. CASE SameCard(d, t) \/ RecordCard(d, t) \/ FilterCard(d, t)
    <3>1. UNCHANGED <<rtVars, prc, list2Start, startTimer, cardType, drv, main,
                      termTimer, killTimer, hellos>>
      BY <2>1 DEF SameCard, RecordCard, FilterCard, timers
    <3>2. RtInv' /\ StateOnList' /\ QueueTypeOK' /\ StartQueueOk'
      BY <1>1, <3>1, RtSame, QueueSame DEF Running, rtVars
    <3>3. /\ cardTypeNew' \in [Dynamic -> CardType \cup {NULL}]
          /\ cnt4Filter' \in [Dynamic -> 0 .. ONLINE_FILTER_COUNT]
      <4>1. CASE SameCard(d, t)  BY <4>1 DEF SameCard, DynTypeOK
      <4>2. CASE RecordCard(d, t)  BY <4>2, BoundAssumption DEF RecordCard, DynTypeOK
      <4>3. CASE FilterCard(d, t)
        <5> DEFINE n == IF cnt4Filter[d] + 1 > ONLINE_FILTER_COUNT
                        THEN cnt4Filter[d] ELSE cnt4Filter[d] + 1
        <5>1. n \in 0 .. ONLINE_FILTER_COUNT  BY BoundAssumption DEF DynTypeOK
        <5>2. cnt4Filter' = [cnt4Filter EXCEPT ![d] = n] /\ cardTypeNew' = cardTypeNew
          BY <4>3 DEF FilterCard
        <5> HIDE DEF n
        <5> QED BY <5>1, <5>2 DEF DynTypeOK
      <4> QED BY <2>1, <4>1, <4>2, <4>3
    <3> QED BY <1>1, <3>1, <3>2, <3>3 DEF CardPost, TimerTypeOK, DynTypeOK
  <2> QED BY <1>1, <2>1, CardGonePost, CardOnlinePost DEF handleNewType
<1>3. reads' \in [Dynamic -> [type : CardType \cup {NULL}, n : 0 .. ONLINE_FILTER_COUNT + 1]]
  BY BoundAssumption DEF DynTypeOK
<1>4. CtlTypeOK'  BY <1>1, <1>2 DEF CardPost, CtlTypeOK, MainState, sigVars
<1> QED BY <1>2, <1>3, <1>4 DEF CardPost, DynTypeOK, LoopInv

----------------------------------------------------------------------------
(* Every action keeps the invariant: Stop and the children *)

(* Term4Stop and Kill4Stop change states and send signals to every child, and  *)
(* move nothing.                                                               *)
LEMMA SignalAllInv ==
  ASSUME Inv, main' \in MainState, main' \notin {"loop", "bury", "spv"},
         NEW s \in RtState, s # "NULL",
         state' = [r \in Rt |-> IF r \in Attached THEN s ELSE state[r]],
         prc' \in [Pid -> PrcState],
         \A p \in Pid : prc'[p] = "none" <=> prc[p] = "none",
         UNCHANGED <<lists, pid, missed, parent, child, list2Start, timers, dynVars,
                     spvTodo, stopTodo, restarts, sigVars, drv>>
  PROVE  Inv'
<1> USE DEF Inv
<1>1. \A r \in Rt : state'[r] = "NULL" <=> state[r] = "NULL"
  BY DEF Attached, RtInv, Association
<1>2. RtTypeOK'  BY DEF RtInv, RtTypeOK
<1>3. ListsPartition' /\ PoolIsNull'  BY <1>1 DEF RtInv, ListsPartition, On, PoolIsNull
<1>4. Association'  BY <1>1 DEF RtInv, Association
<1>5. ChildrenTracked'  BY <1>1, NullAssumption DEF RtInv, RtTypeOK, ChildrenTracked
<1>6. QueueTypeOK' /\ StartQueueOk'  BY QueueSame DEF timers, dynVars
<1>7. TimerTypeOK' /\ DynTypeOK' /\ CtlTypeOK' /\ LoopInv'
  BY DEF TimerTypeOK, DynTypeOK, CtlTypeOK, LoopInv, timers, dynVars, sigVars
<1> QED BY <1>2, <1>3, <1>4, <1>5, <1>6, <1>7 DEF RtInv, Running

(* Stop's two rounds of signals: a unit on its way to the end is on a list.    *)
LEMMA SignalStopInv == Inv /\ (sTerm4Stop \/ sKill4Stop) => Inv'
<1>1. Inv /\ sTerm4Stop => Inv'
  <2> SUFFICES ASSUME Inv, sTerm4Stop PROVE Inv'
    OBVIOUS
  <2>1. /\ prc' \in [Pid -> PrcState]
        /\ \A p \in Pid : prc'[p] = "none" <=> prc[p] = "none"
    BY DEF sTerm4Stop, Termed, Inv, RtInv, RtTypeOK, PrcState
  <2> QED BY <2>1, SignalAllInv DEF sTerm4Stop, MainState, RtState
<1>2. Inv /\ sKill4Stop => Inv'
  <2> SUFFICES ASSUME Inv, sKill4Stop PROVE Inv'
    OBVIOUS
  <2>1. /\ prc' \in [Pid -> PrcState]
        /\ \A p \in Pid : prc'[p] = "none" <=> prc[p] = "none"
    BY DEF sKill4Stop, Killed, Inv, RtInv, RtTypeOK, PrcState
  <2> QED BY <2>1, SignalAllInv DEF sKill4Stop, MainState, RtState
<1> QED BY <1>1, <1>2

(* The table of the units, read from its last entry *)
LEMMA StopOrder == Reverse(DynamicPrc) \o Reverse(StaticPrc) \in Seq(Mng)
<1>1. StaticPrc \in Seq(Mng) /\ DynamicPrc \in Seq(Mng)
  BY ListAssumption DEF Mng, Static, Dynamic
<1>2. Reverse(StaticPrc) \in Seq(Mng) /\ Reverse(DynamicPrc) \in Seq(Mng)
  BY <1>1, ReverseList
<1> QED BY <1>2, ConcatProperties

(* Stop's last round: every unit's stop, static and dynamic.                   *)
LEMMA StopInv == Inv /\ (sStop \/ StopOne \/ StopEnd) => Inv'
<1>1. Inv /\ sStop => Inv'
  <2> SUFFICES ASSUME Inv, sStop PROVE Inv'
    OBVIOUS
  <2> USE DEF Inv
  <2>1. RtInv'  BY RtSame DEF sStop
  <2>2. QueueTypeOK' /\ StartQueueOk'  BY QueueSame DEF sStop, timers, dynVars, rtVars
  <2>3. stopTodo' \in Seq(Mng)  BY StopOrder DEF sStop
  <2>4. TimerTypeOK' /\ DynTypeOK' /\ CtlTypeOK' /\ LoopInv'
    BY <2>3 DEF sStop, TimerTypeOK, DynTypeOK, CtlTypeOK, LoopInv, MainState, timers, dynVars, sigVars
  <2> QED BY <2>1, <2>2, <2>4 DEF sStop, Running
<1>2. Inv /\ StopOne => Inv'
  <2> SUFFICES ASSUME Inv, StopOne PROVE Inv'
    OBVIOUS
  <2> USE DEF Inv
  <2>1. stopTodo \in Seq(Mng) /\ ~IsEmpty(stopTodo)  BY DEF StopOne, CtlTypeOK
  <2>2. Head(stopTodo) \in Mng /\ Tail(stopTodo) \in Seq(Mng)
    BY <2>1, FirstEntry, RestOfList
  <2>3. RtInv' /\ QueueTypeOK' /\ StartQueueOk' /\ DynTypeOK'
    BY <2>2, StopStep DEF StopOne, dynVars
  <2>4. TimerTypeOK' /\ CtlTypeOK' /\ LoopInv'
    BY <2>2 DEF StopOne, TimerTypeOK, CtlTypeOK, LoopInv, sigVars
  <2> QED BY <2>3, <2>4 DEF StopOne, Running
<1>3. Inv /\ StopEnd => Inv'
  <2> SUFFICES ASSUME Inv, StopEnd PROVE Inv'
    OBVIOUS
  <2> USE DEF Inv
  <2>1. RtInv'  BY RtSame DEF StopEnd
  <2>2. QueueTypeOK' /\ StartQueueOk'
    BY DEF StopEnd, QueueTypeOK, StartQueueOk, NoCard, dynVars, rtVars
  <2>3. TimerTypeOK' /\ DynTypeOK' /\ CtlTypeOK' /\ LoopInv'
    BY DEF StopEnd, TimerTypeOK, DynTypeOK, CtlTypeOK, LoopInv, MainState, dynVars, sigVars
  <2> QED BY <2>1, <2>2, <2>3 DEF StopEnd, Running
<1> QED BY <1>1, <1>2, <1>3

(* A child that exits or answers changes only what the kernel keeps of it.     *)
LEMMA ChildInv ==
  ASSUME Inv, NEW p \in Pid, ChildExit(p) \/ ChildAck(p)
  PROVE  Inv'
<1> USE DEF Inv
<1>1. /\ prc' \in [Pid -> PrcState]
      /\ \A x \in Pid : prc'[x] = "none" <=> prc[x] = "none"
  BY DEF ChildExit, ChildAck, RtInv, RtTypeOK, PrcState
<1>2. UNCHANGED <<lists, state, pid, missed, parent, child>>
  BY DEF ChildExit, ChildAck, pdmVars, rtVars
<1>3. RtTypeOK'  BY <1>1, <1>2 DEF RtInv, RtTypeOK
<1>4. ListsPartition' /\ PoolIsNull' /\ Association' /\ (StateOnList => StateOnList')
      /\ On("normal")' = On("normal")
  BY <1>2 DEF RtInv, ListsPartition, On, PoolIsNull, Association, StateOnList
<1>5. ChildrenTracked'  BY <1>1, <1>2 DEF RtInv, ChildrenTracked
<1>6. QueueTypeOK' /\ StartQueueOk'
  BY QueueSame DEF ChildExit, ChildAck, pdmVars, rtVars, timers, dynVars
<1>7. TimerTypeOK' /\ DynTypeOK' /\ CtlTypeOK' /\ UNCHANGED <<main, spvTodo>>
  BY DEF ChildExit, ChildAck, pdmVars, timers, dynVars, ctlVars, TimerTypeOK, DynTypeOK, CtlTypeOK
<1>8. LoopInv'  BY <1>4, <1>7 DEF LoopInv
<1> QED BY <1>3, <1>4, <1>5, <1>6, <1>7, <1>8 DEF RtInv, Running

(* A stuttering step *)
LEMMA StutterInv == Inv /\ UNCHANGED vars => Inv'
<1> SUFFICES ASSUME Inv, UNCHANGED vars PROVE Inv'
  OBVIOUS
<1> USE DEF Inv
<1>1. UNCHANGED <<rtVars, list2Start, timers, dynVars, ctlVars, prc, sigVars, drv>>
  BY DEF vars
<1>2. RtInv' /\ (StateOnList => StateOnList')  BY <1>1, RtSame
<1>3. QueueTypeOK' /\ StartQueueOk'
  BY <1>1, QueueSame DEF timers, dynVars, rtVars
<1>4. TimerTypeOK' /\ DynTypeOK' /\ CtlTypeOK' /\ LoopInv'
  BY <1>1 DEF rtVars, timers, dynVars, ctlVars, sigVars,
              TimerTypeOK, DynTypeOK, CtlTypeOK, LoopInv, On
<1> QED BY <1>1, <1>2, <1>3, <1>4 DEF Running, ctlVars

----------------------------------------------------------------------------
(* The theorems *)

(* Every step keeps the invariant.                                             *)
LEMMA NextInv == Inv /\ [Next]_vars => Inv'
<1>1. Inv /\ Timers => Inv'
  BY HelloInv, CheckLiveInv, CheckLiveOneInv, TermTimeoutInv, KillTimeoutInv,
     NeedStartInv, DevChangeInv DEF Timers
<1>2. Inv /\ Signals => Inv'  BY UpdateLiveInv, BuryInv, BuryOneInv DEF Signals
<1>3. Inv /\ Stop => Inv'  BY SignalStopInv, StopInv DEF Stop
<1>4. Inv /\ Child => Inv'  BY ChildInv DEF Child
<1>5. Inv /\ (Restart \/ Terminated) => Inv'  BY RestartInv, StutterInv DEF Terminated
<1> QED BY <1>1, <1>2, <1>3, <1>4, <1>5, StutterInv DEF Next

(* The parts of the invariant hold together in every reachable state. *)
THEOREM InvHolds == Spec => []Inv
BY InitInv, NextInv, PTL DEF Spec

(* Every variable keeps its type. *)
THEOREM TypeCorrect == Spec => []TypeOK
<1>1. Inv => TypeOK
  BY DEF Inv, RtInv, RtTypeOK, QueueTypeOK, TimerTypeOK, DynTypeOK, CtlTypeOK, TypeOK
<1> QED BY <1>1, InvHolds, PTL

(* Every run-time object is linked exactly once, on the list of its m_state    *)
(* until Stop begins (rt_prc_info.cpp, s_listPool .. s_listKilling).           *)
THEOREM ListsAgree == Spec => []ListsMatchState
<1>1. Inv => ListsMatchState
  BY DEF Inv, RtInv, ListsPartition, PoolIsNull, StateOnList, ListsMatchState
<1> QED BY <1>1, InvHolds, PTL

(* Both ends of buildBdAss and destroyBdAss stay in step (bd_ass.h).           *)
THEOREM AssociationHolds == Spec => []Association
<1>1. Inv => Association  BY DEF Inv, RtInv
<1> QED BY <1>1, InvHolds, PTL

(* The children the kernel keeps for the manager are exactly the ones its      *)
(* objects stand for, in whatever order SIGCHLD, the kill timeout and Stop     *)
(* come to reap them.                                                          *)
THEOREM NoChildLost == Spec => []ChildrenTracked
<1>1. Inv => ChildrenTracked  BY DEF Inv, RtInv
<1> QED BY <1>1, InvHolds, PTL

(* No unit is queued twice, with a child or without a card.                    *)
THEOREM QueueHolds == Spec => []StartQueueOk
<1>1. Inv => StartQueueOk  BY DEF Inv
<1> QED BY <1>1, InvHolds, PTL

(* The driver's state of a slot changes only when it has no card or the        *)
(* process started for the card has ended: subStop runs after waitpid, and     *)
(* handleNewType takes a slot offline, or online, for a unit without child.    *)
THEOREM OfflineAfterDeath == Spec => OfflineOnlyWhenDead
<1> DEFINE Dead(d) == child[d] = NULL \/ prc[pid[child[d]]] \in {"zombie", "none"}
           Good == \A d \in Dynamic : drv[d] # NULL /\ drv'[d] # drv[d] => Dead(d)
<1>1. ASSUME Inv, NEW m \in Mng, stop(m) PROVE Good
  <2>1. CASE Waitable(m) /\ (subStopStatic(m) \/ subStopDynamic(m))
    BY <1>1, <2>1 DEF Waitable, subStopStatic, subStopDynamic, Inv, DynTypeOK
  <2>2. CASE UNCHANGED drv  BY <2>2
  <2> QED BY <1>1, <2>1, <2>2 DEF stop
<1>2. ASSUME Inv, Next PROVE Good
  <2>1. CASE Timers
    <3>1. CASE sCheckKillTimeout
      <4>1. CASE ~IsEmpty(lists["killing"]) /\ stop(parent[Head(lists["killing"])])
        <5>1. parent[Head(lists["killing"])] \in Mng
          BY <1>2, <4>1, FirstOnList, PoolOrNot DEF Inv, RtInv, PoolIsNull, ListsPartition, ListName
        <5> QED BY <1>1, <1>2, <4>1, <5>1
      <4> QED BY <3>1, <4>1 DEF sCheckKillTimeout
    <3>2. CASE \E d \in Dynamic : sCheckDevChange(d)
      BY <1>2, <3>2 DEF sCheckDevChange, handleNewType, SameCard, CardGone, RecordCard,
                        FilterCard, CardOnline, Inv, DynTypeOK
    <3> QED BY <2>1, <3>1, <3>2 DEF Timers, sHello4Live, sCheckLiveState, CheckLiveOne,
                                    sCheckTermTimeout, sCheckNeedStart
  <2>2. CASE Signals
    <3>1. CASE BuryOne
      <4>1. PICK p \in Pid : \/ /\ sFindObj({"killing", "exiting", "normal"}, p) # NULL
                                /\ stop(parent[sFindObj({"killing", "exiting", "normal"}, p)])
                             \/ UNCHANGED drv
        BY <3>1 DEF BuryOne
      <4> DEFINE r == sFindObj({"killing", "exiting", "normal"}, p)
      <4>2. CASE r # NULL /\ stop(parent[r])
        <5>1. PICK l \in {"killing", "exiting", "normal"} : r \in On(l)
          BY <4>2, FindObj DEF ListName
        <5>2. lists[l] \in Seq(Rt) /\ l \in ListName  BY <1>2 DEF Inv, RtInv, RtTypeOK, ListName
        <5>3. r \in Rt  BY <5>1, <5>2, NodesOfList DEF On
        <5>4. parent[r] \in Mng
          BY <1>2, <5>1, <5>3, PoolOrNot DEF Inv, RtInv, ListsPartition, ListName
        <5> QED BY <1>1, <1>2, <4>2, <5>4
      <4> QED BY <4>1, <4>2
    <3> QED BY <2>2, <3>1 DEF Signals, sUpdateLiveState, sBuryChld, BuryEnd
  <2>3. CASE Stop
    <3>1. CASE StopOne
      <4>1. stopTodo \in Seq(Mng) /\ ~IsEmpty(stopTodo) /\ stop(Head(stopTodo))
        BY <1>2, <3>1 DEF StopOne, Inv, CtlTypeOK
      <4>2. Head(stopTodo) \in Mng  BY <4>1, FirstEntry
      <4> QED BY <1>1, <1>2, <4>1, <4>2
    <3> QED BY <2>3, <3>1 DEF Stop, sTerm4Stop, sKill4Stop, sStop, StopEnd
  <2>4. CASE Child \/ Restart \/ Terminated
    BY <2>4 DEF Child, ChildExit, ChildAck, pdmVars, Restart, Terminated, vars
  <2> QED BY <1>2, <2>1, <2>2, <2>3, <2>4 DEF Next
<1>3. Inv /\ [Next]_vars => [Good]_vars  BY <1>2
<1>4. Spec => [][Good]_vars  BY <1>3, InvHolds, PTL DEF Spec
<1> QED BY <1>4 DEF OfflineOnlyWhenDead
=============================================================================
