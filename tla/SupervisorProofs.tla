-------------------------- MODULE SupervisorProofs --------------------------
(***************************************************************************)
(* The manager implements Supervisor, for every number of units, slots,    *)
(* run-time objects, process ids and card types: each action of PrcMng,    *)
(* under the invariant of PrcMngProofs, is one of Supervisor's or changes  *)
(* nothing that Supervisor speaks of.                                      *)
(***************************************************************************)
EXTENDS PrcMngProofs

\* what a step of the manager has to be
SupStep == [Promise!Next]_(Promise!supVars)

\* all that the mapping is made of
supBase == <<child, pid, state, prc, drv>>

(* A step that leaves the base of the mapping alone is a stuttering step.      *)
LEMMA SupSame == UNCHANGED supBase => SupStep
BY DEF supBase, SupStep, Promise!supVars, SupWorks, SupAsked, SupEnded

(* What the invariant says of a unit with a child                              *)
LEMMA UnitFacts ==
  ASSUME RtInv, NEW m \in Mng, child[m] # NULL
  PROVE  /\ child[m] \in Rt /\ parent[child[m]] = m /\ state[child[m]] # "NULL"
         /\ pid[child[m]] \in Pid /\ prc[pid[child[m]]] # "none"
<1>1. child[m] \in Rt /\ parent[child[m]] = m  BY DEF RtInv, RtTypeOK, Association
<1>2. m # NULL  BY NullAssumption
<1> QED BY <1>1, <1>2, PoolOrNot

(* Two units never have the same process.                                      *)
LEMMA WorksApart ==
  ASSUME RtInv, NEW m \in Mng, NEW n \in Mng, SupWorks[m] = SupWorks[n], SupWorks[m] # NULL
  PROVE  m = n
<1>1. child[m] # NULL /\ child[n] # NULL /\ pid[child[m]] = pid[child[n]]  BY DEF SupWorks
<1>2. child[m] \in Rt /\ child[n] \in Rt /\ parent[child[m]] = m /\ parent[child[n]] = n
      /\ pid[child[m]] # NULL
  BY <1>1, UnitFacts, NullAssumption
<1>3. child[m] = child[n]  BY <1>1, <1>2 DEF RtInv, ChildrenTracked
<1> QED BY <1>2, <1>3

----------------------------------------------------------------------------
(* What becomes of one unit *)

(* sCapture is Fork: the kernel has no child with the pid, so no unit has it.  *)
LEMMA SupFork ==
  ASSUME RtInv, NEW m \in Mng, child[m] = NULL, NEW p \in Pid, sCapture(m, p), UNCHANGED drv
  PROVE  Promise!Fork(m, p)
<1> DEFINE r == Head(lists["pool"])
<1>1. r \in Rt /\ state[r] = "NULL" /\ parent[r] = NULL
  <2>1. r \in Rt /\ r \in On("pool")  BY FirstOnList DEF sCapture, RtInv, ListName
  <2> QED BY <2>1, PoolOrNot
<1>2. prc[p] = "none" /\ prc' = [prc EXCEPT ![p] = "live"] /\ p # NULL
      /\ state' = [state EXCEPT ![r] = "NORMAL"] /\ pid' = [pid EXCEPT ![r] = p]
      /\ child' = [child EXCEPT ![m] = r]
  BY NullAssumption DEF sCapture
<1>3. \A n \in Mng : n # m => child'[n] = child[n] /\ child[n] # r
  BY <1>1, <1>2, NullAssumption DEF RtInv, RtTypeOK, Association
<1>4. child'[m] = r /\ r # NULL /\ pid'[r] = p /\ state'[r] = "NORMAL"
  BY <1>1, <1>2, NullAssumption DEF RtInv, RtTypeOK
<1> HIDE DEF r
<1>5. \A n \in Mng : n # m /\ child[n] # NULL =>
        pid'[child[n]] = pid[child[n]] /\ state'[child[n]] = state[child[n]]
  BY <1>2, <1>3, UnitFacts DEF RtInv, RtTypeOK
<1>6. SupWorks[m] = NULL /\ SupWorks' = [SupWorks EXCEPT ![m] = p]
  BY <1>3, <1>4, <1>5 DEF SupWorks
<1>7. p \notin {SupWorks[u] : u \in Mng}
  BY <1>2, UnitFacts DEF SupWorks
<1>8. SupAsked' = SupAsked  BY <1>3, <1>4, <1>5 DEF SupAsked
<1>9. SupEnded' = SupEnded  BY <1>2 DEF SupEnded, RtInv, RtTypeOK
<1> QED BY <1>6, <1>7, <1>8, <1>9 DEF Promise!Fork, Promise!Busy

(* CPrcMngInfo::stop is Bury when waitpid lets it go on.                       *)
LEMMA SupBury ==
  ASSUME RtInv, DynTypeOK, NEW m \in Mng, stop(m)
  PROVE  Promise!Bury(m) \/ UNCHANGED supBase
<1>1. CASE ~Waitable(m) /\ UNCHANGED <<rtVars, prc, drv>>
  BY <1>1 DEF rtVars, supBase
<1>2. CASE Waitable(m) /\ sRelease(child[m]) /\ (subStopStatic(m) \/ subStopDynamic(m))
  <2> DEFINE r == child[m]
  <2>1. r # NULL /\ r \in Rt /\ parent[r] = m /\ pid[r] \in Pid /\ prc[pid[r]] = "zombie"
    BY <1>2, UnitFacts DEF Waitable
  <2>2. /\ prc' = [prc EXCEPT ![pid[r]] = "none"]
        /\ state' = [state EXCEPT ![r] = "NULL"] /\ pid' = [pid EXCEPT ![r] = NULL]
        /\ child' = [child EXCEPT ![m] = NULL]
    BY <1>2, <2>1 DEF sRelease, Reaped
  <2>3. child'[m] = NULL /\ \A n \in Mng : n # m => child'[n] = child[n]
    BY <2>2 DEF RtInv, RtTypeOK
  <2>4. \A n \in Mng : n # m /\ child[n] # NULL => child[n] # r
    BY <2>1, UnitFacts
  <2>5. SupWorks[m] = pid[r]  BY <2>1 DEF SupWorks
  <2> HIDE DEF r
  <2>6. \A n \in Mng : n # m /\ child[n] # NULL =>
          pid'[child[n]] = pid[child[n]] /\ state'[child[n]] = state[child[n]]
    BY <2>2, <2>4, UnitFacts DEF RtInv, RtTypeOK
  <2>7. SupWorks' = [SupWorks EXCEPT ![m] = NULL]  BY <2>3, <2>6 DEF SupWorks
  <2>8. SupAsked' = SupAsked \ {m}  BY <2>3, <2>6 DEF SupAsked
  <2>9. SupEnded' = SupEnded \ {pid[r]} /\ pid[r] \in SupEnded
    BY <2>1, <2>2 DEF SupEnded, RtInv, RtTypeOK
  <2>10. IF m \in Dynamic THEN \E c \in CardType \cup {NULL} : drv' = [drv EXCEPT ![m] = c]
                          ELSE UNCHANGED drv
    <3>1. CASE subStopStatic(m)
      BY <3>1, ListAssumption DEF subStopStatic
    <3>2. CASE subStopDynamic(m)
      BY <3>2 DEF subStopDynamic, DynTypeOK
    <3> QED BY <1>2, <3>1, <3>2
  <2> QED BY <2>5, <2>7, <2>8, <2>9, <2>10 DEF Promise!Bury
<1> QED BY <1>1, <1>2 DEF stop

(* A signal to a process, and its object no longer in the normal state, is Ask.*)
LEMMA SupAsk ==
  ASSUME RtInv, NEW R \in SUBSET Rt, \A r \in R : state[r] # "NULL",
         NEW s \in {"EXITING", "KILLING"},
         state' = [r \in Rt |-> IF r \in R THEN s ELSE state[r]],
         SupEnded' = SupEnded, UNCHANGED <<child, pid, drv>>
  PROVE  Promise!Ask({parent[r] : r \in R})
<1> DEFINE us == {parent[r] : r \in R}
<1>1. \A m \in Mng : m \in us <=> child[m] # NULL /\ child[m] \in R
  BY NullAssumption, PoolOrNot, UnitFacts DEF RtInv, Association
<1>2. us \subseteq Mng  BY PoolOrNot
<1>3. \A u \in us : SupWorks[u] # NULL
  BY <1>1, <1>2, UnitFacts, NullAssumption DEF SupWorks
<1>4. SupAsked' = SupAsked \cup us
  <2>1. \A m \in Mng : child[m] # NULL => child[m] \in Rt  BY UnitFacts
  <2> HIDE DEF us
  <2> QED BY <1>1, <1>2, <2>1 DEF SupAsked
<1>5. SupWorks' = SupWorks  BY DEF SupWorks
<1> QED BY <1>3, <1>4, <1>5 DEF Promise!Ask
(* What the waitpid loop finds is always a child of some unit.                 *)
LEMMA BuryOneStops ==
  ASSUME Inv, BuryOne
  PROVE  \E m \in Mng : stop(m)
<1> USE DEF Inv
<1> DEFINE names == {"killing", "exiting", "normal"}
<1> PICK p \in Pid :
      /\ prc[p] = "zombie"
      /\ sFindObj(names, p) # NULL => stop(parent[sFindObj(names, p)])
  BY DEF BuryOne
<1>1. PICK q \in Rt : pid[q] = p /\ state[q] # "NULL"
  BY NullAssumption DEF RtInv, ChildrenTracked, Association
<1>2. \A l \in names : On(l) \subseteq Rt
  <2>1. \A l \in names : lists[l] \in Seq(Rt)  BY DEF RtInv, RtTypeOK, ListName
  <2> QED BY <2>1, NodesOfList DEF On
<1>3. sFindObj(names, p) # NULL
  <2>1. q \in On(ListOf(state[q]))  BY DEF BuryOne, Running, StateOnList
  <2>2. ListOf(state[q]) \in names  BY <1>1 DEF ListOf, RtInv, RtTypeOK, RtState
  <2>3. q \in {x \in UNION {ToSet(lists[l]) : l \in names} : pid[x] = p}
    BY <1>1, <2>1, <2>2 DEF On
  <2>4. UNION {ToSet(lists[l]) : l \in names} \subseteq Rt  BY <1>2 DEF On
  <2> HIDE DEF names
  <2> QED BY <2>3, <2>4, NullAssumption DEF sFindObj
<1>4. PICK l \in names : sFindObj(names, p) \in On(l)
  BY <1>3, FindObj DEF ListName
<1>5. sFindObj(names, p) \in Rt /\ state[sFindObj(names, p)] # "NULL"
  BY <1>2, <1>4 DEF RtInv, PoolIsNull, ListsPartition, ListName
<1> QED BY <1>3, <1>5, PoolOrNot

----------------------------------------------------------------------------
(* The manager's actions *)

(* sTerm and sKill of one object                                               *)
LEMMA SupSignal ==
  ASSUME RtInv, NEW r \in Rt, state[r] # "NULL", sTerm(r) \/ sKill(r), UNCHANGED drv
  PROVE  SupStep
<1>1. CASE UNCHANGED rtVars /\ UNCHANGED prc
  BY <1>1, SupSame DEF rtVars, supBase
<1>2. CASE /\ \E s \in {"EXITING", "KILLING"} : state' = [state EXCEPT ![r] = s]
           /\ prc' = [prc EXCEPT ![pid[r]] = Termed(@)] \/ prc' = [prc EXCEPT ![pid[r]] = Killed(@)]
           /\ UNCHANGED <<child, pid>>
  <2>1. PICK s \in {"EXITING", "KILLING"} : state' = [state EXCEPT ![r] = s]  BY <1>2
  <2>2. state' = [x \in Rt |-> IF x \in {r} THEN s ELSE state[x]]  BY <2>1 DEF RtInv, RtTypeOK
  <2>3. SupEnded' = SupEnded  BY <1>2 DEF SupEnded, Termed, Killed, RtInv, RtTypeOK
  <2>4. Promise!Ask({parent[x] : x \in {r}})  BY <1>2, <2>2, <2>3, SupAsk
  <2>5. {parent[x] : x \in {r}} \in SUBSET Mng  BY PoolOrNot
  <2> QED BY <2>4, <2>5 DEF SupStep, Promise!Next
<1> QED BY <1>1, <1>2 DEF sTerm, sKill

(* What handleNewType does to the driver's slot                                *)
LEMMA SupChange ==
  ASSUME DynTypeOK, NEW d \in Dynamic, child[d] = NULL, NEW c \in CardType \cup {NULL},
         c = NULL \/ drv[d] = NULL, drv' = [drv EXCEPT ![d] = c], UNCHANGED <<child, pid, state, prc>>
  PROVE  SupStep
<1>1. SupWorks[d] = NULL /\ UNCHANGED <<SupWorks, SupAsked, SupEnded>>
  BY DEF Mng, SupWorks, SupAsked, SupEnded
<1>2. Promise!Change(d)  BY <1>1 DEF Promise!Change
<1> QED BY <1>2 DEF SupStep, Promise!Next

(* A step of stop for some unit                                                *)
LEMMA SupStop ==
  ASSUME RtInv, DynTypeOK, NEW m \in Mng, stop(m)
  PROVE  SupStep
BY SupBury, SupSame DEF SupStep, Promise!Next

(* The timers                                                                  *)
LEMMA SupTimers ==
  ASSUME Inv, Timers
  PROVE  SupStep
<1> USE DEF Inv
<1>1. CASE sHello4Live \/ sCheckLiveState
  BY <1>1, SupSame DEF sHello4Live, sCheckLiveState, rtVars, supBase
<1>2. CASE CheckLiveOne
  <2>1. CASE sKill(Head(spvTodo))
    <3>1. spvTodo \in Seq(Rt) /\ ~IsEmpty(spvTodo) /\ ToSet(spvTodo) \subseteq On("normal")
      BY <1>2 DEF CheckLiveOne, LoopInv, CtlTypeOK
    <3>2. Head(spvTodo) \in Rt /\ Head(spvTodo) \in On("normal")  BY <3>1, FirstEntry
    <3>3. state[Head(spvTodo)] # "NULL"
      BY <3>2 DEF RtInv, PoolIsNull, ListsPartition, ListName
    <3> QED BY <1>2, <2>1, <3>2, <3>3, SupSignal DEF CheckLiveOne
  <2>2. CASE UNCHANGED <<child, pid, state, prc>>
    BY <1>2, <2>2, SupSame DEF CheckLiveOne, supBase
  <2> QED BY <1>2, <2>1, <2>2 DEF CheckLiveOne
<1>3. CASE sCheckTermTimeout
  <2>1. CASE ~IsEmpty(lists["exiting"]) /\ sKill(Head(lists["exiting"]))
    <3>1. Head(lists["exiting"]) \in Rt /\ Head(lists["exiting"]) \in On("exiting")
      BY <2>1, FirstOnList DEF RtInv, ListName
    <3>2. state[Head(lists["exiting"])] # "NULL"
      BY <3>1 DEF RtInv, PoolIsNull, ListsPartition, ListName
    <3> QED BY <1>3, <2>1, <3>1, <3>2, SupSignal DEF sCheckTermTimeout
  <2>2. CASE UNCHANGED <<rtVars, prc>>
    BY <1>3, <2>2, SupSame DEF sCheckTermTimeout, supBase, rtVars
  <2> QED BY <1>3, <2>1, <2>2 DEF sCheckTermTimeout
<1>4. CASE sCheckKillTimeout
  <2>1. CASE ~IsEmpty(lists["killing"]) /\ stop(parent[Head(lists["killing"])])
    <3>1. Head(lists["killing"]) \in Rt /\ Head(lists["killing"]) \in On("killing")
      BY <2>1, FirstOnList DEF RtInv, ListName
    <3>2. state[Head(lists["killing"])] # "NULL"
      BY <3>1 DEF RtInv, PoolIsNull, ListsPartition, ListName
    <3>3. parent[Head(lists["killing"])] \in Mng  BY <3>1, <3>2, PoolOrNot
    <3> QED BY <2>1, <3>3, SupStop
  <2>2. CASE UNCHANGED <<rtVars, prc, drv>>
    BY <2>2, SupSame DEF supBase, rtVars
  <2> QED BY <1>4, <2>1, <2>2 DEF sCheckKillTimeout
<1>5. CASE sCheckNeedStart
  <2> DEFINE m == Head(list2Start)
  <2>1. ASSUME ~IsEmpty(list2Start), child[m] = NULL, NEW p \in Pid, sCapture(m, p)
        PROVE  SupStep
    <3>1. m \in Mng  BY <2>1, FirstEntry DEF QueueTypeOK
    <3>2. UNCHANGED drv  BY <1>5 DEF sCheckNeedStart
    <3>3. Promise!Fork(m, p)  BY <2>1, <3>1, <3>2, SupFork
    <3> QED BY <3>1, <3>3 DEF SupStep, Promise!Next
  <2>2. CASE UNCHANGED <<rtVars, prc>>
    BY <1>5, <2>2, SupSame DEF sCheckNeedStart, supBase, rtVars
  <2> QED BY <1>5, <2>1, <2>2 DEF sCheckNeedStart
<1>6. ASSUME NEW d \in Dynamic, NEW t \in CardType \cup {NULL}, handleNewType(d, t)
      PROVE  SupStep
  <2>1. CASE SameCard(d, t) \/ RecordCard(d, t) \/ FilterCard(d, t)
    BY <2>1, SupSame DEF SameCard, RecordCard, FilterCard, supBase, rtVars
  <2>2. CASE CardGone(d, t)
    <3>1. CASE child[d] # NULL /\ sTerm(child[d]) /\ UNCHANGED drv
      BY <3>1, UnitFacts, SupSignal DEF Mng
    <3>2. CASE child[d] = NULL /\ drv' = [drv EXCEPT ![d] = NULL] /\ UNCHANGED <<rtVars, prc>>
      BY <3>2, SupChange DEF rtVars
    <3>3. CASE UNCHANGED <<rtVars, prc, drv>>
      BY <3>3, SupSame DEF supBase, rtVars
    <3> QED BY <2>2, <3>1, <3>2, <3>3 DEF CardGone
  <2>3. CASE CardOnline(d, t)
    <3>1. child[d] = NULL /\ UNCHANGED <<rtVars, prc>>  BY <2>3 DEF CardOnline
    <3>2. CASE UNCHANGED drv  BY <3>1, <3>2, SupSame DEF supBase, rtVars
    <3>3. CASE drv[d] = NULL /\ drv' = [drv EXCEPT ![d] = t]
      BY <3>1, <3>3, SupChange DEF rtVars
    <3> QED BY <2>3, <3>2, <3>3 DEF CardOnline
  <2> QED BY <1>6, <2>1, <2>2, <2>3 DEF handleNewType
<1> QED BY <1>1, <1>2, <1>3, <1>4, <1>5, <1>6 DEF Timers, sCheckDevChange

(* The signals: what the waitpid loop finds is a unit's                        *)
LEMMA SupSignals ==
  ASSUME Inv, Signals
  PROVE  SupStep
<1> USE DEF Inv
<1>1. CASE sUpdateLiveState \/ sBuryChld \/ BuryEnd
  BY <1>1, SupSame DEF sUpdateLiveState, sBuryChld, BuryEnd, rtVars, supBase
<1>2. CASE BuryOne
  <2>1. PICK m \in Mng : stop(m)  BY <1>2, BuryOneStops
  <2> QED BY <2>1, SupStop
<1> QED BY <1>1, <1>2 DEF Signals

(* Stop                                                                        *)
LEMMA SupStopAll ==
  ASSUME Inv, Stop
  PROVE  SupStep
<1> USE DEF Inv
<1>1. ASSUME sTerm4Stop \/ sKill4Stop PROVE SupStep
  <2>1. PICK s \in {"EXITING", "KILLING"} : state' = [r \in Rt |-> IF r \in Attached THEN s ELSE state[r]]
    BY <1>1 DEF sTerm4Stop, sKill4Stop
  <2>2. Attached \in SUBSET Rt /\ \A r \in Attached : state[r] # "NULL"
    BY DEF Attached, RtInv, Association
  <2>3. SupEnded' = SupEnded /\ UNCHANGED <<child, pid, drv>>
    BY <1>1 DEF sTerm4Stop, sKill4Stop, SupEnded, Termed, Killed
  <2>4. Promise!Ask({parent[r] : r \in Attached})  BY <2>1, <2>2, <2>3, SupAsk
  <2>5. {parent[r] : r \in Attached} \in SUBSET Mng  BY <2>2, PoolOrNot
  <2> QED BY <2>4, <2>5 DEF SupStep, Promise!Next
<1>2. CASE sStop \/ StopEnd
  BY <1>2, SupSame DEF sStop, StopEnd, rtVars, supBase
<1>3. CASE StopOne
  <2>1. stopTodo \in Seq(Mng) /\ ~IsEmpty(stopTodo)  BY <1>3 DEF StopOne, CtlTypeOK
  <2>2. Head(stopTodo) \in Mng /\ stop(Head(stopTodo))  BY <1>3, <2>1, FirstEntry DEF StopOne
  <2> QED BY <2>2, SupStop
<1> QED BY <1>1, <1>2, <1>3 DEF Stop

(* A child that ends is a unit's.                                              *)
LEMMA SupChild ==
  ASSUME Inv, NEW p \in Pid, ChildExit(p) \/ ChildAck(p)
  PROVE  SupStep
<1> USE DEF Inv
<1>1. CASE ChildAck(p)
  BY <1>1, SupSame DEF ChildAck, pdmVars, rtVars, supBase
<1>2. CASE ChildExit(p)
  <2>1. /\ prc[p] \notin {"none", "zombie"} /\ prc' = [prc EXCEPT ![p] = "zombie"]
        /\ UNCHANGED <<child, pid, state, drv>>
    BY <1>2 DEF ChildExit, pdmVars, rtVars
  <2>2. PICK r \in Rt : pid[r] = p  BY <2>1 DEF RtInv, ChildrenTracked
  <2>3. state[r] # "NULL"  BY <2>2, NullAssumption DEF RtInv, Association
  <2>4. parent[r] \in Mng /\ child[parent[r]] = r  BY <2>3, PoolOrNot
  <2>5. SupWorks[parent[r]] = p  BY <2>2, <2>4, NullAssumption DEF SupWorks
  <2>6. SupEnded' = SupEnded \cup {p} /\ p \notin SupEnded
    BY <2>1 DEF SupEnded, RtInv, RtTypeOK
  <2>7. UNCHANGED <<SupWorks, SupAsked>>  BY <2>1 DEF SupWorks, SupAsked
  <2>8. Promise!End(p)  BY <2>1, <2>4, <2>5, <2>6, <2>7 DEF Promise!End, Promise!Busy
  <2> QED BY <2>8 DEF SupStep, Promise!Next
<1> QED BY <1>1, <1>2

(* A new manager                                                               *)
LEMMA SupRestart == Restart => SupStep
<1> SUFFICES ASSUME Restart PROVE SupStep
  OBVIOUS
<1>1. SupWorks' = [m \in Mng |-> NULL] /\ SupAsked' = {} /\ SupEnded' = {} /\ UNCHANGED drv
  BY DEF Restart, SupWorks, SupAsked, SupEnded
<1> QED BY <1>1 DEF SupStep, Promise!Next, Promise!NewManager

(* The first manager                                                           *)
LEMMA SupInit == Init => Promise!Init
BY DEF Init, Promise!Init, SupWorks, SupAsked, SupEnded

----------------------------------------------------------------------------
(* Every behaviour of the manager is one of Supervisor: no unit ever has two   *)
(* processes, a process that was asked to end is not used again, and slots     *)
(* change their card under no process that runs.                               *)
THEOREM ImplementsSupervisor == Spec => Supervised
<1>1. Inv /\ Next => SupStep
  BY SupTimers, SupSignals, SupStopAll, SupChild, SupRestart, SupSame
     DEF Next, Child, Terminated, vars, rtVars, supBase
<1>2. Inv /\ UNCHANGED vars => SupStep  BY SupSame DEF vars, rtVars, supBase
<1>3. Inv /\ [Next]_vars => [Promise!Next]_(Promise!supVars)  BY <1>1, <1>2 DEF SupStep
<1> QED BY <1>3, SupInit, InvHolds, PTL DEF Spec, Supervised, Promise!Spec
=============================================================================
