---------------------------- MODULE PrcMngSafety ----------------------------
(***************************************************************************)
(* The safety properties of the process and device manager that relate the *)
(* units to their timers, their cards, the kernel driver and the end of    *)
(* the manager.  Each is proved from the invariant of PrcMngProofs, Inv,   *)
(* with the strengthening it needs and in the order they build on one      *)
(* another: NothingForgotten before DriverAgrees.                          *)
(***************************************************************************)
EXTENDS PrcMngProofs

\* isEmpty tells whether an object is on the list.
EmptyMeansNone == \A l \in ListName : IsEmpty(lists[l]) <=> On(l) = {}

(* The timers are started and stopped by what isEmpty says of their lists. *)
LEMMA EmptyOn == RtTypeOK => EmptyMeansNone
<1> SUFFICES ASSUME RtTypeOK, NEW l \in ListName
             PROVE  IsEmpty(lists[l]) <=> On(l) = {}
  BY DEF EmptyMeansNone
<1>1. lists[l] \in Seq(Rt)  BY DEF RtTypeOK
<1>2. CASE IsEmpty(lists[l])  BY <1>2, EmptyList DEF On, IsEmpty
<1>3. CASE ~IsEmpty(lists[l])  BY <1>1, <1>3, FirstEntry DEF On
<1> QED BY <1>2, <1>3

(* A list that no object enters does not become one to wait for. *)
LEMMA NoMore ==
  ASSUME RtTypeOK, RtTypeOK', NEW l \in ListName, On(l)' \subseteq On(l)
  PROVE  IsEmpty(lists[l]) => IsEmpty(lists'[l])
<1>1. EmptyMeansNone'  BY EmptyOn, PTL
<1> QED BY <1>1, EmptyOn DEF EmptyMeansNone

(* Once the event loop has stopped it runs again in a new manager only. *)
LEMMA LoopEnds == Next /\ ~Running => ~Running' \/ Restart
BY DEF Next, Timers, Signals, Stop, Child, sHello4Live, sCheckLiveState, CheckLiveOne,
       sCheckTermTimeout, sCheckKillTimeout, sCheckNeedStart, sCheckDevChange,
       sUpdateLiveState, sBuryChld, BuryOne, BuryEnd, sTerm4Stop, sKill4Stop, sStop,
       StopOne, StopEnd, ChildExit, ChildAck, pdmVars, ctlVars, Terminated, vars, Running

----------------------------------------------------------------------------
(* What the operations do to a unit that they are not about *)

(* stop: no other unit is touched, no object enters a list but the pool, no    *)
(* process is signalled.                                                       *)
LEMMA StopEffect ==
  ASSUME Inv, NEW m \in Mng, stop(m)
  PROVE  /\ \A n \in Mng : n # m => child'[n] = child[n]
         /\ \A n \in Mng : child'[n] # NULL =>
              child'[n] = child[n] /\ state'[child[n]] = state[child[n]]
         /\ \A l \in ListName : l # "pool" => On(l)' \subseteq On(l)
         /\ \A p \in Pid : prc'[p] \in {prc[p], "none"}
         /\ \/ UNCHANGED <<child, list2Start, startTimer, drv>>
            \/ /\ child[m] # NULL /\ child'[m] = NULL
               /\ subStopStatic(m) \/ subStopDynamic(m)
<1> USE DEF Inv
<1>1. CASE Waitable(m)
  <2> DEFINE r == child[m]
  <2>1. /\ r \in Rt /\ parent[r] = m /\ state[r] # "NULL"
        /\ prc[pid[r]] = "zombie" /\ pid[r] \in Pid
    BY <1>1, PoolOrNot, NullAssumption DEF Waitable, RtInv, RtTypeOK, Association
  <2>2. sRelease(r) /\ (subStopStatic(m) \/ subStopDynamic(m))
    BY <1>1 DEF stop
  <2>3. /\ child'[m] = NULL
        /\ \A n \in Mng : n # m => child'[n] = child[n]
    BY <2>1, <2>2, ReleaseStep
  <2>4. ASSUME NEW n \in Mng, child'[n] # NULL
        PROVE  child'[n] = child[n] /\ state'[child[n]] = state[child[n]]
    <3>1. n # m /\ child'[n] = child[n]  BY <2>3, <2>4
    <3>2. child[n] \in Rt  BY <2>4, <3>1 DEF RtInv, RtTypeOK
    <3>3. child[n] # r  BY <2>1, <3>1, <3>2 DEF RtInv, Association
    <3>4. state' = [state EXCEPT ![r] = "NULL"]  BY <2>2 DEF sRelease
    <3> QED BY <3>1, <3>2, <3>3, <3>4 DEF RtInv, RtTypeOK
  <2>5. ASSUME NEW l \in ListName, l # "pool"
        PROVE  On(l)' \subseteq On(l)
    <3>1. lists' = Accept("pool", r) /\ "pool" \in ListName
      BY <2>2 DEF sRelease, ListName
    <3>2. On(l)' = IF l = "pool" THEN On(l) \cup {r} ELSE On(l) \ {r}
      BY <2>1, <3>1, AcceptList DEF RtInv
    <3> QED BY <2>5, <3>2
  <2>6. \A p \in Pid : prc'[p] \in {prc[p], "none"}
    BY <2>1, <2>2 DEF sRelease, Reaped, RtInv, RtTypeOK
  <2> QED BY <2>1, <2>2, <2>3, <2>4, <2>5, <2>6, NullAssumption
<1>2. CASE ~Waitable(m)
  <2>1. UNCHANGED <<rtVars, prc, list2Start, startTimer, drv>>  BY <1>2 DEF stop
  <2> QED BY <2>1 DEF rtVars, On
<1> QED BY <1>1, <1>2

(* The three callers of stop, in the kill timeout, sBuryChld and sStop, call   *)
(* it for one unit of the table, or only reap a child.                         *)
LEMMA StopCallers ==
  ASSUME Inv, sCheckKillTimeout \/ BuryOne \/ StopOne
  PROVE  \/ \E m \in Mng : stop(m)
         \/ /\ UNCHANGED <<rtVars, list2Start, startTimer, drv>>
            /\ \A p \in Pid : prc'[p] \in {prc[p], "none"}
<1> USE DEF Inv
<1>1. CASE sCheckKillTimeout
  <2>1. CASE ~IsEmpty(lists["killing"]) /\ stop(parent[Head(lists["killing"])])
    BY <2>1, FirstOnList, PoolOrNot DEF RtInv, PoolIsNull, ListsPartition, ListName
  <2> QED BY <1>1, <2>1 DEF sCheckKillTimeout
<1>2. CASE BuryOne
  <2> DEFINE names == {"killing", "exiting", "normal"}
  <2>1. PICK p \in Pid :
          IF sFindObj(names, p) # NULL
          THEN stop(parent[sFindObj(names, p)])
          ELSE /\ prc' = [prc EXCEPT ![p] = "none"]
               /\ UNCHANGED <<rtVars, list2Start, startTimer, drv>>
    BY <1>2 DEF BuryOne
  <2> DEFINE r == sFindObj(names, p)
  <2>2. CASE r # NULL
    <3>1. PICK l \in names : r \in On(l)  BY <2>2, FindObj DEF ListName
    <3>2. lists[l] \in Seq(Rt) /\ l \in ListName  BY DEF RtInv, RtTypeOK, ListName
    <3>3. r \in Rt  BY <3>1, <3>2, NodesOfList DEF On
    <3>4. parent[r] \in Mng
      BY <3>1, <3>3, PoolOrNot DEF RtInv, ListsPartition, ListName
    <3> QED BY <2>1, <2>2, <3>4
  <2>3. CASE r = NULL  BY <2>1, <2>3 DEF RtInv, RtTypeOK
  <2> QED BY <2>2, <2>3
<1>3. CASE StopOne
  <2>1. stopTodo \in Seq(Mng) /\ ~IsEmpty(stopTodo) /\ stop(Head(stopTodo))
    BY <1>3 DEF StopOne, CtlTypeOK
  <2> QED BY <2>1, FirstEntry
<1> QED BY <1>1, <1>2, <1>3

(* sCapture, called for the first unit of the queue, gives that unit a child    *)
(* in the normal state; no other unit or object changes.                       *)
LEMMA CaptureEffect ==
  ASSUME Inv, NEW m \in Mng, child[m] = NULL, NEW p \in Pid, sCapture(m, p)
  PROVE  /\ child'[m] # NULL
         /\ \A n \in Mng : n # m => child'[n] = child[n]
         /\ \A n \in Mng : n # m /\ child[n] # NULL => state'[child[n]] = state[child[n]]
         /\ On("exiting")' \subseteq On("exiting") /\ On("killing")' \subseteq On("killing")
<1> USE DEF Inv
<1> DEFINE r == Head(lists["pool"])
<1>1. r \in Rt /\ r \in On("pool") /\ "normal" \in ListName
  BY FirstOnList DEF sCapture, ListName, RtInv
<1>2. /\ lists' = Accept("normal", r)
      /\ state' = [state EXCEPT ![r] = "NORMAL"]
      /\ child' = [child EXCEPT ![m] = r]
  BY DEF sCapture
<1>3. parent[r] = NULL  BY <1>1, PoolOrNot
<1> HIDE DEF r
<1>4. \A n \in Mng : child[n] # r
  BY <1>1, <1>3, NullAssumption DEF RtInv, Association
<1>5. \A l \in ListName : On(l)' = IF l = "normal" THEN On(l) \cup {r} ELSE On(l) \ {r}
  BY <1>1, <1>2, AcceptList DEF RtInv
<1>6. "exiting" \in ListName /\ "killing" \in ListName  BY DEF ListName
<1>7. \A n \in Mng : n # m /\ child[n] # NULL => state'[child[n]] = state[child[n]]
  BY <1>1, <1>2, <1>4 DEF RtInv, RtTypeOK
<1> QED BY <1>1, <1>2, <1>5, <1>6, <1>7, NullAssumption DEF RtInv, RtTypeOK

(* sKill takes an object to no list but the one of the killed, starts the kill *)
(* timer for it, and leaves no object in the normal state that was not.        *)
LEMMA KillEffect ==
  ASSUME RtInv, TimerTypeOK, NEW r \in Rt, sKill(r)
  PROVE  /\ On("exiting")' \subseteq On("exiting")
         /\ killTimer \/ IsEmpty(lists["killing"]) => killTimer' \/ IsEmpty(lists'["killing"])
         /\ \A q \in Rt : state'[q] = "NORMAL" => state[q] = "NORMAL"
         /\ UNCHANGED child
<1>1. CASE NeedKillPrc
  <2>1. /\ state' = [state EXCEPT ![r] = "KILLING"]
        /\ lists' = Accept("killing", r) /\ UNCHANGED child
        /\ killTimer' = (killTimer \/ IsEmpty(lists["killing"]))
    BY <1>1 DEF sKill
  <2>2. "killing" \in ListName /\ "exiting" \in ListName  BY DEF ListName
  <2>3. On("exiting")' = On("exiting") \ {r}
    BY <2>1, <2>2, AcceptList DEF RtInv
  <2>4. \A q \in Rt : state'[q] = "NORMAL" => state[q] = "NORMAL"
    BY <2>1 DEF RtInv, RtTypeOK
  <2>5. killTimer \/ IsEmpty(lists["killing"]) => killTimer'  BY <2>1, Zenon
  <2> QED BY <2>1, <2>3, <2>4, <2>5
<1>2. CASE ~NeedKillPrc  BY <1>2 DEF sKill, rtVars, On
<1> QED BY <1>1, <1>2

----------------------------------------------------------------------------
(* TimersArmed *)

\* Its three parts, one for each timer
StartArmed == ~IsEmpty(list2Start) => startTimer
TermArmed  == ~IsEmpty(lists["exiting"]) => termTimer
KillArmed  == ~IsEmpty(lists["killing"]) => killTimer

(* addIn2Start leaves the timer running that ran for the entries before. *)
LEMMA AddArms ==
  ASSUME StartArmed, NEW m, addIn2Start(m)
  PROVE  StartArmed'
<1>1. startTimer' = (startTimer \/ IsEmpty(list2Start))  BY DEF addIn2Start
<1>2. startTimer'  BY <1>1, Zenon DEF StartArmed
<1> QED BY <1>2 DEF StartArmed

(* The start timer *)
LEMMA StartArmedStep ==
  ASSUME Inv, StartArmed, Next, Running, Running'
  PROVE  StartArmed'
<1> USE DEF Inv
<1>1. CASE sCheckKillTimeout \/ BuryOne
  <2>1. CASE UNCHANGED <<list2Start, startTimer>>  BY <2>1 DEF StartArmed
  <2>2. CASE \E m \in Mng : stop(m)
    <3>1. PICK m \in Mng : stop(m)  BY <2>2
    <3>2. CASE addIn2Start(m)  BY <3>2, AddArms
    <3>3. CASE UNCHANGED <<list2Start, startTimer>>  BY <3>3 DEF StartArmed
    <3> QED BY <3>1, <3>2, <3>3, StopEffect DEF subStopStatic, subStopDynamic
  <2> QED BY <1>1, <2>1, <2>2, StopCallers
<1>2. CASE sCheckNeedStart  BY <1>2 DEF sCheckNeedStart, StartArmed
<1>3. CASE \E d \in Dynamic : sCheckDevChange(d)
  <2> PICK d \in Dynamic, t \in CardType \cup {NULL} : handleNewType(d, t)
    BY <1>3 DEF sCheckDevChange
  <2>1. CASE CardGone(d, t)
    <3>1. startTimer' = startTimer /\ (list2Start' = list2Start \/ list2Start' = Unlink(list2Start, d))
      BY <2>1 DEF CardGone
    <3>2. IsEmpty(list2Start) => Unlink(list2Start, d) = list2Start
      BY EmptyList DEF IsEmpty, Unlink
    <3> QED BY <3>1, <3>2 DEF StartArmed
  <2>2. CASE CardOnline(d, t)  BY <2>2, AddArms DEF CardOnline
  <2> QED BY <2>1, <2>2 DEF handleNewType, SameCard, RecordCard, FilterCard, timers, StartArmed
<1>4. CASE Stop \/ Restart \/ Terminated
  BY <1>4 DEF Stop, sTerm4Stop, sKill4Stop, sStop, StopOne, StopEnd, Restart, Terminated,
              ManagerRuns, Running
<1>5. CASE \/ sHello4Live \/ sCheckLiveState \/ CheckLiveOne \/ sCheckTermTimeout
           \/ sUpdateLiveState \/ sBuryChld \/ BuryEnd \/ Child
  <2>1. UNCHANGED <<list2Start, startTimer>>
    BY <1>5 DEF sHello4Live, sCheckLiveState, CheckLiveOne, sCheckTermTimeout, timers,
                sUpdateLiveState, sBuryChld, BuryEnd, Child, ChildExit, ChildAck, pdmVars
  <2> QED BY <2>1 DEF StartArmed
<1> QED BY <1>1, <1>2, <1>3, <1>4, <1>5 DEF Next, Timers, Signals

(* The term timer *)
LEMMA TermArmedStep ==
  ASSUME Inv, Inv', TermArmed, Next, Running, Running'
  PROVE  TermArmed'
<1> USE DEF Inv
<1>0. "exiting" \in ListName /\ "pool" # "exiting" /\ RtTypeOK /\ RtTypeOK'  BY DEF ListName, RtInv
<1>1. ASSUME On("exiting")' \subseteq On("exiting"), UNCHANGED termTimer
      PROVE  TermArmed'
  BY <1>0, <1>1, NoMore DEF TermArmed
<1>2. CASE sCheckKillTimeout \/ BuryOne
  <2>1. On("exiting")' \subseteq On("exiting")
    BY <1>0, <1>2, StopCallers, StopEffect DEF rtVars, On
  <2> QED BY <1>1, <1>2, <2>1 DEF sCheckKillTimeout, BuryOne
<1>3. CASE sCheckTermTimeout  BY <1>3 DEF sCheckTermTimeout, TermArmed
<1>4. CASE CheckLiveOne
  <2>1. CASE sKill(Head(spvTodo))
    <3>1. Head(spvTodo) \in Rt  BY <1>4, FirstEntry DEF CheckLiveOne, LoopInv, CtlTypeOK
    <3> QED BY <1>1, <1>4, <2>1, <3>1, KillEffect DEF CheckLiveOne
  <2>2. CASE UNCHANGED lists  BY <1>1, <1>4, <2>2 DEF CheckLiveOne, On
  <2> QED BY <1>4, <2>1, <2>2 DEF CheckLiveOne
<1>5. CASE sCheckNeedStart
  <2>1. CASE UNCHANGED rtVars  BY <1>1, <1>5, <2>1 DEF sCheckNeedStart, rtVars, On
  <2>2. CASE \E p \in Pid : ~IsEmpty(list2Start) /\ child[Head(list2Start)] = NULL
                            /\ sCapture(Head(list2Start), p)
    <3>1. Head(list2Start) \in Mng  BY <2>2, FirstEntry DEF QueueTypeOK
    <3> QED BY <1>1, <1>5, <2>2, <3>1, CaptureEffect DEF sCheckNeedStart
  <2> QED BY <1>5, <2>1, <2>2 DEF sCheckNeedStart
<1>6. CASE \E d \in Dynamic : sCheckDevChange(d)
  <2> PICK d \in Dynamic, t \in CardType \cup {NULL} : handleNewType(d, t)
    BY <1>6 DEF sCheckDevChange
  <2>1. CASE CardGone(d, t)
    <3>1. CASE sTerm(child[d])
      <4>1. termTimer' = (termTimer \/ IsEmpty(lists["exiting"]))  BY <3>1 DEF sTerm
      <4>2. termTimer'  BY <4>1, Zenon DEF TermArmed
      <4> QED BY <4>2 DEF TermArmed
    <3>2. CASE UNCHANGED <<rtVars, termTimer>>  BY <3>2 DEF TermArmed, rtVars
    <3> QED BY <2>1, <3>1, <3>2 DEF CardGone
  <2> QED BY <2>1 DEF handleNewType, SameCard, RecordCard, FilterCard, CardOnline,
                      timers, rtVars, TermArmed
<1>7. CASE Stop \/ Restart \/ Terminated
  BY <1>7 DEF Stop, sTerm4Stop, sKill4Stop, sStop, StopOne, StopEnd, Restart, Terminated,
              ManagerRuns, Running
<1>8. CASE sHello4Live \/ sCheckLiveState \/ sUpdateLiveState \/ sBuryChld \/ BuryEnd \/ Child
  <2>1. UNCHANGED <<lists, termTimer>>
    BY <1>8 DEF sHello4Live, sCheckLiveState, sUpdateLiveState, sBuryChld, BuryEnd,
                Child, ChildExit, ChildAck, pdmVars, rtVars, timers
  <2> QED BY <2>1 DEF TermArmed
<1> QED BY <1>2, <1>3, <1>4, <1>5, <1>6, <1>7, <1>8 DEF Next, Timers, Signals

(* The kill timer *)
LEMMA KillArmedStep ==
  ASSUME Inv, Inv', KillArmed, Next, Running, Running'
  PROVE  KillArmed'
<1> USE DEF Inv
<1>0. "killing" \in ListName /\ "exiting" \in ListName /\ "pool" # "killing" /\ RtTypeOK /\ RtTypeOK'
  BY DEF ListName, RtInv
<1>1. ASSUME On("killing")' \subseteq On("killing"), UNCHANGED killTimer
      PROVE  KillArmed'
  BY <1>0, <1>1, NoMore DEF KillArmed
<1>2. CASE BuryOne
  <2>1. On("killing")' \subseteq On("killing")
    BY <1>0, <1>2, StopCallers, StopEffect DEF rtVars, On
  <2> QED BY <1>1, <1>2, <2>1 DEF BuryOne
<1>3. CASE sCheckKillTimeout  BY <1>3 DEF sCheckKillTimeout, KillArmed
<1>4. ASSUME NEW r \in Rt, sKill(r) PROVE KillArmed'
  BY <1>4, KillEffect DEF KillArmed
<1>5. CASE CheckLiveOne
  <2>1. Head(spvTodo) \in Rt  BY <1>5, FirstEntry DEF CheckLiveOne, LoopInv, CtlTypeOK
  <2>2. CASE UNCHANGED <<lists, killTimer>>  BY <2>2 DEF KillArmed
  <2> QED BY <1>4, <1>5, <2>1, <2>2 DEF CheckLiveOne
<1>6. CASE sCheckTermTimeout
  <2>1. ~IsEmpty(lists["exiting"]) => Head(lists["exiting"]) \in Rt  BY <1>0, FirstOnList
  <2>2. CASE UNCHANGED <<rtVars, killTimer>>  BY <2>2 DEF KillArmed, rtVars
  <2> QED BY <1>4, <1>6, <2>1, <2>2 DEF sCheckTermTimeout
<1>7. CASE sCheckNeedStart
  <2>1. CASE UNCHANGED rtVars  BY <1>1, <1>7, <2>1 DEF sCheckNeedStart, rtVars, On
  <2>2. CASE \E p \in Pid : ~IsEmpty(list2Start) /\ child[Head(list2Start)] = NULL
                            /\ sCapture(Head(list2Start), p)
    <3>1. Head(list2Start) \in Mng  BY <2>2, FirstEntry DEF QueueTypeOK
    <3> QED BY <1>1, <1>7, <2>2, <3>1, CaptureEffect DEF sCheckNeedStart
  <2> QED BY <1>7, <2>1, <2>2 DEF sCheckNeedStart
<1>8. CASE \E d \in Dynamic : sCheckDevChange(d)
  <2> PICK d \in Dynamic, t \in CardType \cup {NULL} : handleNewType(d, t)
    BY <1>8 DEF sCheckDevChange
  <2>1. CASE CardGone(d, t)
    <3>1. CASE child[d] # NULL /\ state[child[d]] = "NORMAL" /\ sTerm(child[d]) /\ UNCHANGED killTimer
      <4>1. child[d] \in Rt /\ state[child[d]] # "NULL"
        BY <3>1 DEF Mng, RtInv, RtTypeOK
      <4>2. On("killing")' \subseteq On("killing")
        BY <1>0, <3>1, <4>1, TermStep
      <4> QED BY <1>1, <3>1, <4>2
    <3>2. CASE UNCHANGED <<rtVars, killTimer>>  BY <3>2 DEF KillArmed, rtVars
    <3> QED BY <2>1, <3>1, <3>2 DEF CardGone
  <2> QED BY <2>1 DEF handleNewType, SameCard, RecordCard, FilterCard, CardOnline,
                      timers, rtVars, KillArmed
<1>9. CASE Stop \/ Restart \/ Terminated
  BY <1>9 DEF Stop, sTerm4Stop, sKill4Stop, sStop, StopOne, StopEnd, Restart, Terminated,
              ManagerRuns, Running
<1>10. CASE sHello4Live \/ sCheckLiveState \/ sUpdateLiveState \/ sBuryChld \/ BuryEnd \/ Child
  <2>1. UNCHANGED <<lists, killTimer>>
    BY <1>10 DEF sHello4Live, sCheckLiveState, sUpdateLiveState, sBuryChld, BuryEnd,
                 Child, ChildExit, ChildAck, pdmVars, rtVars, timers
  <2> QED BY <2>1 DEF KillArmed
<1> QED BY <1>2, <1>3, <1>5, <1>6, <1>7, <1>8, <1>9, <1>10 DEF Next, Timers, Signals

(* Whatever waits for a timer has it running, in every reachable state. *)
THEOREM TimersRun == Spec => []TimersArmed
<1>1. Init => TimersArmed  BY DEF Init, TimersArmed
<1>2. ASSUME Inv, Inv', TimersArmed, Next PROVE TimersArmed'
  <2>1. CASE Running /\ Running'
    BY <1>2, <2>1, StartArmedStep, TermArmedStep, KillArmedStep
       DEF TimersArmed, StartArmed, TermArmed, KillArmed
  <2>2. CASE Restart  BY <2>2 DEF Restart, TimersArmed
  <2> QED BY <1>2, <2>1, <2>2, LoopEnds DEF TimersArmed
<1>3. TimersArmed /\ UNCHANGED vars => TimersArmed'
  BY DEF TimersArmed, Running, vars, rtVars, timers, ctlVars
<1> QED BY <1>1, <1>2, <1>3, InvHolds, PTL DEF Spec

----------------------------------------------------------------------------
(* NothingForgotten *)

\* What NothingForgotten says of one unit
Remembered(m) ==
  \/ child[m] # NULL
  \/ m \in ToSet(list2Start)
  \/ m \in Dynamic /\ (cardType[m] = NULL \/ (OnlineMayFail /\ drv[m] = NULL))

(* A unit about which nothing changes but what others leave on the queue       *)
LEMMA RememberedSame ==
  ASSUME NEW m \in Mng, Remembered(m), child'[m] = child[m],
         m \in ToSet(list2Start) => m \in ToSet(list2Start'),
         m \in Dynamic => cardType'[m] = cardType[m] /\ drv'[m] = drv[m]
  PROVE  Remembered(m)'
BY DEF Remembered

(* addIn2Start of a unit keeps what is queued. *)
LEMMA AddKeeps ==
  ASSUME QueueTypeOK, NEW m \in Mng, addIn2Start(m)
  PROVE  ToSet(list2Start') = ToSet(list2Start) \cup {m}
BY AddTailNew DEF addIn2Start, QueueTypeOK

(* stop: the unit whose process has ended is queued again, or has no card, or  *)
(* the driver refused its card.                                                *)
LEMMA StopRemembers ==
  ASSUME Inv, Running, NEW m \in Mng, stop(m), UNCHANGED cardType,
         NEW n \in Mng, Remembered(n)
  PROVE  Remembered(n)'
<1> USE DEF Inv
<1>1. CASE UNCHANGED <<child, list2Start, startTimer, drv>>  BY <1>1, RememberedSame
<1>2. CASE subStopStatic(m) /\ child'[m] = NULL
  <2>1. ToSet(list2Start') = ToSet(list2Start) \cup {m} /\ drv' = drv
    BY <1>2, AddKeeps DEF subStopStatic
  <2>2. CASE n = m  BY <2>1, <2>2 DEF Remembered
  <2>3. CASE n # m  BY <2>1, <2>3, StopEffect, RememberedSame
  <2> QED BY <2>2, <2>3
<1>3. CASE subStopDynamic(m) /\ child'[m] = NULL
  <2>1. \/ ToSet(list2Start') = ToSet(list2Start) \cup {m}
        \/ list2Start' = list2Start /\ (cardType[m] = NULL \/ (OnlineMayFail /\ drv'[m] = NULL))
    BY <1>3, AddKeeps DEF subStopDynamic, ExitFlag, Running, DynTypeOK
  <2>2. m \in Dynamic /\ \A d \in Dynamic : d # m => drv'[d] = drv[d]
    BY <1>3 DEF subStopDynamic, DynTypeOK
  <2>3. CASE n = m  BY <2>1, <2>2, <2>3 DEF Remembered
  <2>4. CASE n # m  BY <2>1, <2>2, <2>4, StopEffect, RememberedSame
  <2> QED BY <2>3, <2>4
<1> QED BY <1>1, <1>2, <1>3, StopEffect

(* sCheckNeedStart: the first unit of the queue gets its child, or leaves the   *)
(* queue because its slot is empty, or stays.                                  *)
LEMMA NeedStartRemembers ==
  ASSUME Inv, sCheckNeedStart, NEW n \in Mng, Remembered(n)
  PROVE  Remembered(n)'
<1> USE DEF Inv
<1> DEFINE m == Head(list2Start)
<1>1. UNCHANGED <<cardType, drv>>  BY DEF sCheckNeedStart, dynVars
<1>2. CASE UNCHANGED <<rtVars, list2Start>>  BY <1>1, <1>2, RememberedSame DEF rtVars
<1>3. CASE ~IsEmpty(list2Start)
  <2>1. list2Start \in Seq(Mng) /\ m \in Mng /\ NoDup(list2Start)
    BY <1>3, FirstEntry DEF QueueTypeOK, StartQueueOk
  <2>2. ToSet(Unlink(list2Start, m)) = ToSet(list2Start) \ {m}  BY <2>1, UnlinkNode
  <2> HIDE DEF m
  <2>3. CASE /\ child[m] = NULL /\ \E p \in Pid : sCapture(m, p)
             /\ list2Start' = Unlink(list2Start, m)
    <3>1. child'[m] # NULL /\ \A x \in Mng : x # m => child'[x] = child[x]
      BY <2>1, <2>3, CaptureEffect
    <3>2. CASE n = m  BY <3>1, <3>2 DEF Remembered
    <3>3. CASE n # m  BY <1>1, <2>2, <2>3, <3>1, <3>3, RememberedSame
    <3> QED BY <3>2, <3>3
  <2>4. CASE /\ UNCHANGED rtVars /\ NoCard(m) /\ list2Start' = Unlink(list2Start, m)
    <3>1. CASE n = m  BY <1>1, <2>4, <3>1 DEF Remembered, NoCard
    <3>2. CASE n # m  BY <1>1, <2>2, <2>4, <3>2, RememberedSame DEF rtVars
    <3> QED BY <3>1, <3>2
  <2>5. \/ /\ child[m] = NULL /\ \E p \in Pid : sCapture(m, p)
           /\ list2Start' = Unlink(list2Start, m)
        \/ /\ UNCHANGED rtVars /\ NoCard(m) /\ list2Start' = Unlink(list2Start, m)
        \/ UNCHANGED <<rtVars, list2Start>>
    BY <1>3 DEF sCheckNeedStart, m
  <2> QED BY <1>2, <2>3, <2>4, <2>5
<1> QED BY <1>2, <1>3 DEF sCheckNeedStart

(* handleNewType: a slot whose card goes has nothing to remember, a slot whose  *)
(* card comes is queued.                                                       *)
LEMMA NewTypeRemembers ==
  ASSUME Inv, main = "loop", NEW d \in Dynamic, NEW t \in CardType \cup {NULL},
         handleNewType(d, t), NEW n \in Mng, Remembered(n)
  PROVE  Remembered(n)'
<1> USE DEF Inv
<1>1. CASE CardGone(d, t)
  <2>1. cardType' = [cardType EXCEPT ![d] = NULL]  BY <1>1 DEF CardGone
  <2>2. CASE n = d  BY <2>1, <2>2 DEF Remembered, DynTypeOK
  <2>3. CASE n # d
    <3>1. UNCHANGED child /\ (n \in Dynamic => cardType'[n] = cardType[n] /\ drv'[n] = drv[n])
      BY <1>1, <2>1, <2>3 DEF CardGone, sTerm, rtVars, DynTypeOK
    <3>2. list2Start' = list2Start \/ list2Start' = Unlink(list2Start, d)
      BY <1>1 DEF CardGone
    <3>3. ToSet(Unlink(list2Start, d)) = ToSet(list2Start) \ {d}
      BY UnlinkNode DEF QueueTypeOK, StartQueueOk
    <3> QED BY <2>3, <3>1, <3>2, <3>3, RememberedSame
  <2> QED BY <2>2, <2>3
<1>2. CASE CardOnline(d, t)
  <2>1. ToSet(list2Start') = ToSet(list2Start) \cup {d} /\ d \in Mng
    BY <1>2, AddKeeps DEF CardOnline, Mng
  <2>2. CASE n = d  BY <2>1, <2>2 DEF Remembered
  <2>3. CASE n # d
    <3>1. UNCHANGED child /\ (n \in Dynamic => cardType'[n] = cardType[n] /\ drv'[n] = drv[n])
      BY <1>2, <2>3 DEF CardOnline, rtVars, DynTypeOK
    <3> QED BY <2>1, <3>1, RememberedSame
  <2> QED BY <2>2, <2>3
<1>3. CASE SameCard(d, t) \/ RecordCard(d, t) \/ FilterCard(d, t)
  BY <1>3, RememberedSame DEF SameCard, RecordCard, FilterCard, rtVars
<1> QED BY <1>1, <1>2, <1>3 DEF handleNewType

\* While the manager runs, no step forgets a unit that is remembered.
LEMMA RememberedStep ==
  ASSUME Inv, Running, Running', Next, NEW n \in Mng, Remembered(n)
  PROVE  Remembered(n)'
<1>1. CASE sCheckKillTimeout \/ BuryOne
  <2>1. UNCHANGED cardType  BY <1>1 DEF sCheckKillTimeout, BuryOne, dynVars
  <2> QED BY <1>1, <2>1, StopCallers, StopRemembers, RememberedSame DEF rtVars
<1>2. CASE sCheckNeedStart  BY <1>2, NeedStartRemembers
<1>3. CASE \E d \in Dynamic : sCheckDevChange(d)
  BY <1>3, NewTypeRemembers DEF sCheckDevChange
<1>4. CASE Stop \/ Restart \/ Terminated
  BY <1>4 DEF Stop, sTerm4Stop, sKill4Stop, sStop, StopOne, StopEnd, Restart, Terminated,
              ManagerRuns, Running
<1>5. CASE \/ sHello4Live \/ sCheckLiveState \/ CheckLiveOne \/ sCheckTermTimeout
           \/ sUpdateLiveState \/ sBuryChld \/ BuryEnd \/ Child
  <2>1. UNCHANGED <<list2Start, cardType, drv, child>>
    BY <1>5 DEF sHello4Live, sCheckLiveState, CheckLiveOne, sCheckTermTimeout, sKill, timers,
                sUpdateLiveState, sBuryChld, BuryEnd, Child, ChildExit, ChildAck, pdmVars,
                rtVars, dynVars
  <2> QED BY <2>1, RememberedSame
<1> QED BY <1>1, <1>2, <1>3, <1>4, <1>5 DEF Next, Timers, Signals

(* Every static unit, and every slot with a card, has a process or is queued    *)
(* for one, but for the card the driver refused: in every reachable state.     *)
THEOREM NoneForgotten == Spec => []NothingForgotten
<1>1. NothingForgotten <=> (Running => \A m \in Mng : Remembered(m))
  BY DEF NothingForgotten, Remembered
<1>2. Fresh => NothingForgotten
  <2>1. ToSet(StaticPrc) = Static  BY DEF Static
  <2> QED BY <2>1 DEF Fresh, NothingForgotten, Mng
<1>3. ASSUME Inv, NothingForgotten, Next PROVE NothingForgotten'
  <2>1. CASE Running /\ Running'
    BY <1>3, <2>1, RememberedStep DEF NothingForgotten, Remembered
  <2>2. CASE Restart
    <3>1. Fresh'
      BY <1>3, <2>2, BoundAssumption
         DEF Restart, Fresh, Inv, DynTypeOK, CtlTypeOK, AllPooled, NoRead
    <3> QED BY <1>2, <3>1, PTL
  <2> QED BY <1>3, <2>1, <2>2, LoopEnds DEF NothingForgotten
<1>4. NothingForgotten /\ UNCHANGED vars => NothingForgotten'
  BY DEF NothingForgotten, Running, vars, rtVars, dynVars, ctlVars
<1>5. Init => Fresh  BY BoundAssumption DEF Init, Fresh
<1> QED BY <1>2, <1>3, <1>4, <1>5, InvHolds, PTL DEF Spec

----------------------------------------------------------------------------
(* NormalHasCard *)

(* A unit whose object is in the normal state after a step had it in that state *)
(* before, with the same card, or has just been started.                       *)
LEMMA NormalHasCardStep ==
  ASSUME Inv, NormalHasCard, Next
  PROVE  NormalHasCard'
<1> USE DEF Inv
<1>1. ASSUME UNCHANGED cardType,
             \A n \in Mng : child'[n] # NULL =>
               child'[n] = child[n] /\ (state'[child[n]] = "NORMAL" => state[child[n]] = "NORMAL")
      PROVE  NormalHasCard'
  BY <1>1 DEF NormalHasCard, Mng
<1>2. ASSUME UNCHANGED <<child, state, cardType>> PROVE NormalHasCard'
  BY <1>2 DEF NormalHasCard
<1>3. ASSUME UNCHANGED <<child, cardType>>,
             \A r \in Rt : state'[r] = "NORMAL" => state[r] = "NORMAL"
      PROVE  NormalHasCard'
  BY <1>1, <1>3 DEF RtInv, RtTypeOK
<1>4. CASE sCheckKillTimeout \/ BuryOne \/ StopOne
  <2>1. UNCHANGED cardType  BY <1>4 DEF sCheckKillTimeout, BuryOne, StopOne, dynVars
  <2>2. CASE \E m \in Mng : stop(m)  BY <1>1, <2>1, <2>2, StopEffect
  <2>3. CASE UNCHANGED rtVars  BY <1>2, <2>1, <2>3 DEF rtVars
  <2> QED BY <1>4, <2>2, <2>3, StopCallers
<1>5. CASE sCheckNeedStart
  <2>1. UNCHANGED cardType  BY <1>5 DEF sCheckNeedStart, dynVars
  <2>2. CASE UNCHANGED rtVars  BY <1>2, <2>1, <2>2 DEF rtVars
  <2>3. CASE \E p \in Pid : ~IsEmpty(list2Start) /\ child[Head(list2Start)] = NULL
                            /\ ~NoCard(Head(list2Start)) /\ sCapture(Head(list2Start), p)
    <3> DEFINE m == Head(list2Start)
    <3>1. m \in Mng  BY <2>3, FirstEntry DEF QueueTypeOK
    <3>2. /\ \A n \in Mng : n # m => child'[n] = child[n]
          /\ \A n \in Mng : n # m /\ child[n] # NULL => state'[child[n]] = state[child[n]]
          /\ ~NoCard(m)
      BY <2>3, <3>1, CaptureEffect
    <3> HIDE DEF m
    <3> QED BY <2>1, <3>1, <3>2 DEF NormalHasCard, NoCard, Mng
  <2> QED BY <1>5, <2>2, <2>3 DEF sCheckNeedStart
<1>6. CASE CheckLiveOne
  <2>1. UNCHANGED cardType  BY <1>6 DEF CheckLiveOne, dynVars
  <2>2. CASE sKill(Head(spvTodo))
    <3>1. Head(spvTodo) \in Rt  BY <1>6, FirstEntry DEF CheckLiveOne, LoopInv, CtlTypeOK
    <3> QED BY <1>3, <2>1, <2>2, <3>1, KillEffect
  <2>3. CASE UNCHANGED <<state, child>>  BY <1>2, <2>1, <2>3
  <2> QED BY <1>6, <2>2, <2>3 DEF CheckLiveOne
<1>7. CASE sCheckTermTimeout
  <2>1. UNCHANGED cardType  BY <1>7 DEF sCheckTermTimeout, dynVars
  <2>2. CASE ~IsEmpty(lists["exiting"]) /\ sKill(Head(lists["exiting"]))
    <3>1. Head(lists["exiting"]) \in Rt  BY <2>2, FirstOnList DEF ListName, RtInv
    <3> QED BY <1>3, <2>1, <2>2, <3>1, KillEffect
  <2>3. CASE UNCHANGED rtVars  BY <1>2, <2>1, <2>3 DEF rtVars
  <2> QED BY <1>7, <2>2, <2>3 DEF sCheckTermTimeout
<1>8. CASE \E d \in Dynamic : sCheckDevChange(d)
  <2> PICK d \in Dynamic, t \in CardType \cup {NULL} : handleNewType(d, t)
    BY <1>8 DEF sCheckDevChange
  <2>1. CASE CardGone(d, t)
    <3>1. /\ \A e \in Dynamic : e # d => cardType'[e] = cardType[e]
          /\ UNCHANGED child
      BY <2>1 DEF CardGone, sTerm, rtVars, DynTypeOK
    <3>2. CASE child[d] # NULL /\ sTerm(child[d])
      <4>1. child[d] \in Rt /\ state' = [state EXCEPT ![child[d]] = "EXITING"]
        BY <3>2 DEF sTerm, Mng, RtInv, RtTypeOK
      <4>2. state'[child[d]] # "NORMAL" /\ \A r \in Rt : state'[r] = "NORMAL" => state[r] = "NORMAL"
        BY <4>1 DEF RtInv, RtTypeOK
      <4> QED BY <3>1, <4>2 DEF NormalHasCard, Mng, RtInv, RtTypeOK
    <3>3. CASE UNCHANGED rtVars /\ (child[d] = NULL \/ state[child[d]] # "NORMAL")
      BY <3>1, <3>3 DEF NormalHasCard, rtVars
    <3> QED BY <2>1, <3>2, <3>3 DEF CardGone
  <2>2. CASE CardOnline(d, t)
    <3>1. /\ UNCHANGED <<child, state>>
          /\ \A e \in Dynamic : cardType[e] # NULL => cardType'[e] # NULL
      BY <2>2 DEF CardOnline, rtVars, DynTypeOK
    <3> QED BY <3>1 DEF NormalHasCard
  <2>3. CASE SameCard(d, t) \/ RecordCard(d, t) \/ FilterCard(d, t)
    BY <1>2, <2>3 DEF SameCard, RecordCard, FilterCard, rtVars
  <2> QED BY <2>1, <2>2, <2>3 DEF handleNewType
<1>9. CASE sTerm4Stop \/ sKill4Stop
  <2>1. UNCHANGED <<child, cardType>> /\ \A r \in Rt : state'[r] = "NORMAL" => state[r] = "NORMAL"
    BY <1>9 DEF sTerm4Stop, sKill4Stop, dynVars
  <2> QED BY <1>3, <2>1
<1>10. CASE Restart  BY <1>10 DEF Restart, NormalHasCard, Mng
<1>11. CASE \/ sHello4Live \/ sCheckLiveState \/ sUpdateLiveState \/ sBuryChld \/ BuryEnd
            \/ sStop \/ StopEnd \/ Child \/ Terminated
  <2>1. UNCHANGED <<child, state, cardType>>
    BY <1>11 DEF sHello4Live, sCheckLiveState, sUpdateLiveState, sBuryChld, BuryEnd, sStop,
                 StopEnd, Child, ChildExit, ChildAck, Terminated, vars, pdmVars, rtVars, dynVars
  <2> QED BY <1>2, <2>1
<1> QED BY <1>4, <1>5, <1>6, <1>7, <1>8, <1>9, <1>10, <1>11 DEF Next, Timers, Signals, Stop

(* A process in the normal state has its card, in every reachable state. *)
THEOREM NormalImpliesCard == Spec => []NormalHasCard
<1>1. Init => NormalHasCard  BY DEF Init, NormalHasCard, Mng
<1>2. NormalHasCard /\ UNCHANGED vars => NormalHasCard'
  BY DEF NormalHasCard, vars, rtVars, dynVars
<1> QED BY <1>1, <1>2, NormalHasCardStep, InvHolds, PTL DEF Spec

----------------------------------------------------------------------------
(* DriverAgrees *)

\* What DriverAgrees says of one slot
Agrees(d) ==
  /\ drv[d] # NULL /\ cardType[d] # NULL => drv[d] = cardType[d]
  /\ drv[d] # NULL /\ cardType[d] = NULL => child[d] # NULL

\* A step that leaves the slot's card alone, and any process it had, keeps that.
LEMMA AgreesSame ==
  ASSUME NEW d \in Dynamic, Agrees(d), drv'[d] = drv[d], cardType'[d] = cardType[d],
         child[d] # NULL => child'[d] # NULL
  PROVE  Agrees(d)'
BY DEF Agrees

(* stop: what subStop leaves in the driver is the card of the slot, or nothing. *)
LEMMA StopAgrees ==
  ASSUME Inv, NEW m \in Mng, stop(m), UNCHANGED cardType, NEW d \in Dynamic, Agrees(d)
  PROVE  Agrees(d)'
<1> USE DEF Inv
<1>1. CASE UNCHANGED <<child, list2Start, startTimer, drv>>  BY <1>1, AgreesSame
<1>2. CASE d # m
  <2>1. drv'[d] = drv[d] /\ child'[d] = child[d]
    <3>1. CASE UNCHANGED drv  BY <1>2, <3>1, StopEffect DEF Mng
    <3>2. CASE subStopDynamic(m)  BY <1>2, <3>2, StopEffect DEF Mng, subStopDynamic, DynTypeOK
    <3> QED BY <3>1, <3>2, StopEffect DEF subStopStatic
  <2> QED BY <2>1, AgreesSame
<1>3. CASE d = m /\ subStopDynamic(m)
  <2>1. drv'[d] = NULL \/ (drv'[d] = cardType[d] /\ cardType[d] # NULL)
    BY <1>3 DEF subStopDynamic, DynTypeOK
  <2> QED BY <2>1 DEF Agrees
<1>4. CASE d = m /\ subStopStatic(m)  BY <1>4, ListAssumption DEF subStopStatic
<1> QED BY <1>1, <1>2, <1>3, <1>4, StopEffect

(* handleNewType: a card is accepted while the slot of the driver is empty, and *)
(* where the manager forgets it without taking it offline a process is left,   *)
(* or (the crash of CListHeader::del) the driver had refused it before.        *)
LEMMA NewTypeAgrees ==
  ASSUME Inv, NothingForgotten, main = "loop", NEW e \in Dynamic, NEW t \in CardType \cup {NULL},
         handleNewType(e, t), NEW d \in Dynamic, Agrees(d)
  PROVE  Agrees(d)'
<1> USE DEF Inv
<1>1. CASE CardGone(e, t)
  <2>1. cardType' = [cardType EXCEPT ![e] = NULL] /\ UNCHANGED child
    BY <1>1 DEF CardGone, sTerm, rtVars
  <2>2. CASE d # e
    <3>1. drv'[d] = drv[d] /\ cardType'[d] = cardType[d]
      BY <1>1, <2>1, <2>2 DEF CardGone, DynTypeOK
    <3> QED BY <2>1, <3>1, AgreesSame
  <2>3. CASE d = e
    <3>1. \/ child[d] # NULL
          \/ drv'[d] = NULL
          \/ child[d] = NULL /\ d \notin ToSet(list2Start) /\ drv' = drv /\ cardType[d] # NULL
      BY <1>1, <2>3 DEF CardGone, DynTypeOK
    <3>2. child[d] = NULL /\ d \notin ToSet(list2Start) /\ cardType[d] # NULL => drv[d] = NULL
      BY DEF NothingForgotten, Running, Mng
    <3> QED BY <2>1, <2>3, <3>1, <3>2 DEF Agrees, DynTypeOK
  <2> QED BY <2>2, <2>3
<1>2. CASE CardOnline(e, t)
  <2>1. cardType' = [cardType EXCEPT ![e] = t] /\ UNCHANGED child
    BY <1>2 DEF CardOnline, rtVars
  <2>2. CASE d # e
    <3>1. drv'[d] = drv[d] /\ cardType'[d] = cardType[d]
      BY <1>2, <2>1, <2>2 DEF CardOnline, DynTypeOK
    <3> QED BY <2>1, <3>1, AgreesSame
  <2>3. CASE d = e
    <3>1. drv[d] = NULL  BY <1>2, <2>3 DEF CardOnline, Agrees
    <3>2. drv'[d] \in {NULL, t} /\ cardType'[d] = t /\ t # NULL
      BY <1>2, <2>1, <2>3, <3>1 DEF CardOnline, DynTypeOK
    <3> QED BY <3>2 DEF Agrees
  <2> QED BY <2>2, <2>3
<1>3. CASE SameCard(e, t) \/ RecordCard(e, t) \/ FilterCard(e, t)
  BY <1>3, AgreesSame DEF SameCard, RecordCard, FilterCard, rtVars
<1> QED BY <1>1, <1>2, <1>3 DEF handleNewType

\* So does every other step but a restart of the manager, which forgets all.
LEMMA AgreesStep ==
  ASSUME Inv, NothingForgotten, Next, ~Restart, NEW d \in Dynamic, Agrees(d)
  PROVE  Agrees(d)'
<1> USE DEF Inv
<1>1. CASE sCheckKillTimeout \/ BuryOne \/ StopOne
  <2>1. UNCHANGED cardType  BY <1>1 DEF sCheckKillTimeout, BuryOne, StopOne, dynVars
  <2> QED BY <1>1, <2>1, StopCallers, StopAgrees, AgreesSame DEF rtVars
<1>2. CASE sCheckNeedStart
  <2>1. UNCHANGED <<cardType, drv>>  BY <1>2 DEF sCheckNeedStart, dynVars
  <2>2. CASE UNCHANGED rtVars  BY <2>1, <2>2, AgreesSame DEF rtVars
  <2>3. CASE \E p \in Pid : ~IsEmpty(list2Start) /\ child[Head(list2Start)] = NULL
                            /\ sCapture(Head(list2Start), p)
    <3>1. Head(list2Start) \in Mng  BY <2>3, FirstEntry DEF QueueTypeOK
    <3>2. child[d] # NULL => child'[d] # NULL  BY <2>3, <3>1, CaptureEffect DEF Mng
    <3> QED BY <2>1, <3>2, AgreesSame
  <2> QED BY <1>2, <2>2, <2>3 DEF sCheckNeedStart
<1>3. CASE \E e \in Dynamic : sCheckDevChange(e)
  BY <1>3, NewTypeAgrees DEF sCheckDevChange
<1>4. CASE \/ sHello4Live \/ sCheckLiveState \/ CheckLiveOne \/ sCheckTermTimeout
           \/ sUpdateLiveState \/ sBuryChld \/ BuryEnd \/ Child \/ Terminated
           \/ sTerm4Stop \/ sKill4Stop \/ sStop \/ StopEnd
  <2>1. UNCHANGED <<cardType, drv, child>>
    BY <1>4 DEF sHello4Live, sCheckLiveState, CheckLiveOne, sCheckTermTimeout, sKill, sStop,
                sTerm4Stop, sKill4Stop, StopEnd, sUpdateLiveState, sBuryChld, BuryEnd, Child,
                ChildExit, ChildAck, Terminated, vars, pdmVars, rtVars, dynVars
  <2> QED BY <2>1, AgreesSame
<1> QED BY <1>1, <1>2, <1>3, <1>4 DEF Next, Timers, Signals, Stop

(* While its first manager runs, the driver has the card the manager knows, or  *)
(* none; and an empty slot as soon as the process of a removed card has gone.  *)
THEOREM DriverKept == Spec => []DriverAgrees
<1>1. DriverAgrees <=> (restarts = 0 => \A d \in Dynamic : Agrees(d))
  BY DEF DriverAgrees, Agrees
<1>2. Init => DriverAgrees  BY DEF Init, DriverAgrees
<1>3. ASSUME Inv, NothingForgotten, DriverAgrees, Next PROVE DriverAgrees'
  <2>1. CASE Restart
    <3>1. restarts' # 0  BY <1>3, <2>1 DEF Restart, Inv, CtlTypeOK
    <3> QED BY <3>1 DEF DriverAgrees
  <2>2. CASE ~Restart
    <3>1. restarts' = restarts
      BY <1>3, <2>2 DEF Next, Timers, Signals, Stop, Child, sHello4Live, sCheckLiveState,
         CheckLiveOne, sCheckTermTimeout, sCheckKillTimeout, sCheckNeedStart, sCheckDevChange,
         sUpdateLiveState, sBuryChld, BuryOne, BuryEnd, sTerm4Stop, sKill4Stop, sStop,
         StopOne, StopEnd, ChildExit, ChildAck, pdmVars, ctlVars, Terminated, vars
    <3> QED BY <1>3, <2>2, <3>1, AgreesStep DEF DriverAgrees, Agrees
  <2> QED BY <2>1, <2>2
<1>4. DriverAgrees /\ UNCHANGED vars => DriverAgrees'
  BY DEF DriverAgrees, vars, rtVars, dynVars, ctlVars
<1> QED BY <1>2, <1>3, <1>4, InvHolds, NoneForgotten, PTL DEF Spec

(* In the first manager the driver refuses no card because of an old one: what  *)
(* handleNewType asserts in step 4 can fail in a restarted manager only.       *)
THEOREM FirstNotRefused == Spec => [](restarts = 0 => OnlineNotRefused)
<1>1. DriverAgrees => (restarts = 0 => OnlineNotRefused)
  BY DEF DriverAgrees, OnlineNotRefused
<1> QED BY <1>1, DriverKept, PTL

(* Where the driver takes every card online again, CListHeader::del is never    *)
(* called for a unit that is not linked: the crash needs a refusal.            *)
THEOREM CrashNeedsRefusal ==
  ASSUME ~OnlineMayFail PROVE Spec => []DelIsLinked
<1>1. Init => DelIsLinked  BY DEF Init, DelIsLinked
<1>2. ASSUME Inv, NothingForgotten, DelIsLinked, Next PROVE DelIsLinked'
  <2>1. CASE \E d \in Dynamic : sCheckDevChange(d)
    <3> PICK d \in Dynamic, t \in CardType \cup {NULL} : handleNewType(d, t)
      BY <2>1 DEF sCheckDevChange
    <3>1. main = "loop"  BY <2>1 DEF sCheckDevChange
    <3>2. child[d] # NULL \/ d \in ToSet(list2Start) \/ cardType[d] = NULL
      BY <1>2, <3>1 DEF NothingForgotten, Running, Mng
    <3>3. main' = main
      BY <3>2 DEF handleNewType, CardGone, SameCard, RecordCard, FilterCard, CardOnline
    <3> QED BY <3>1, <3>3 DEF DelIsLinked
  <2> QED BY <1>2, <2>1 DEF DelIsLinked, Next, Timers, Signals, Stop, Child, sHello4Live,
         sCheckLiveState, CheckLiveOne, sCheckTermTimeout, sCheckKillTimeout, sCheckNeedStart,
         sUpdateLiveState, sBuryChld, BuryOne, BuryEnd, sTerm4Stop, sKill4Stop, sStop,
         StopOne, StopEnd, ChildExit, ChildAck, pdmVars, ctlVars, Terminated, vars, Restart
<1>3. DelIsLinked /\ UNCHANGED vars => DelIsLinked'  BY DEF DelIsLinked, vars, ctlVars
<1> QED BY <1>1, <1>2, <1>3, InvHolds, NoneForgotten, PTL DEF Spec

----------------------------------------------------------------------------
(* NoSurvivor *)

\* From sKill4Stop on no child is left that was not sent SIGKILL.
AllKilled ==
  main \in {"kill4stop", "sStop", "stopped"} => \A p \in Pid : prc[p] \notin {"live", "termed"}

(* sKill4Stop goes over the objects that belong to a unit, and every child the  *)
(* kernel keeps has one; from then on nothing is forked.                       *)
LEMMA AllKilledStep ==
  ASSUME Inv, AllKilled, Next
  PROVE  AllKilled'
<1> USE DEF Inv
<1>1. CASE sKill4Stop
  <2> SUFFICES ASSUME NEW p \in Pid PROVE prc'[p] \notin {"live", "termed"}
    BY DEF AllKilled
  <2>1. prc'[p] = IF \E r \in Attached : pid[r] = p THEN Killed(prc[p]) ELSE prc[p]
    BY <1>1 DEF sKill4Stop
  <2>2. CASE prc[p] = "none"  BY <2>1, <2>2 DEF Killed
  <2>3. CASE prc[p] # "none"
    <3>1. PICK r \in Rt : pid[r] = p  BY <2>3 DEF RtInv, ChildrenTracked
    <3>2. r \in Attached
      BY <3>1, NullAssumption DEF RtInv, Association, Attached
    <3> QED BY <2>1, <3>1, <3>2 DEF Killed
  <2> QED BY <2>2, <2>3
<1>2. CASE StopOne
  <2>1. UNCHANGED main /\ \A p \in Pid : prc'[p] \in {prc[p], "none"}
    BY <1>2, StopCallers, StopEffect DEF StopOne
  <2> QED BY <2>1 DEF AllKilled
<1>3. CASE sStop \/ StopEnd
  BY <1>3 DEF sStop, StopEnd, AllKilled
<1>4. CASE Child
  <2>1. PICK p \in Pid : ChildExit(p) \/ ChildAck(p)  BY <1>4 DEF Child
  <2>2. UNCHANGED main /\ \A q \in Pid : prc'[q] \in {prc[q], "zombie"}
    BY <2>1 DEF ChildExit, ChildAck, pdmVars, ctlVars, RtInv, RtTypeOK
  <2> QED BY <2>2 DEF AllKilled
<1>5. CASE Terminated  BY <1>5 DEF Terminated, vars, ctlVars, AllKilled
<1>6. CASE Timers \/ Signals \/ sTerm4Stop \/ Restart
  <2>1. main' \in {"loop", "spv", "bury", "crashed", "term4stop"}
    <3>1. CASE \E d \in Dynamic : sCheckDevChange(d)
      BY <3>1 DEF sCheckDevChange, handleNewType, SameCard, CardGone, RecordCard, FilterCard, CardOnline
    <3> QED BY <1>6, <3>1 DEF Timers, Signals, sHello4Live, sCheckLiveState, CheckLiveOne,
         sCheckTermTimeout, sCheckKillTimeout, sCheckNeedStart, sUpdateLiveState, sBuryChld,
         BuryOne, BuryEnd, sTerm4Stop, ctlVars, Restart
  <2> QED BY <2>1 DEF AllKilled
<1> QED BY <1>1, <1>2, <1>3, <1>4, <1>5, <1>6 DEF Next, Stop

(* When Stop has finished no child is left that was not sent SIGKILL. *)
THEOREM NoneSurvives == Spec => []NoSurvivor
<1>1. Init => AllKilled  BY DEF Init, AllKilled
<1>2. AllKilled /\ UNCHANGED vars => AllKilled'  BY DEF AllKilled, vars, ctlVars
<1>3. AllKilled => NoSurvivor  BY DEF AllKilled, NoSurvivor
<1> QED BY <1>1, <1>2, <1>3, AllKilledStep, InvHolds, PTL DEF Spec

----------------------------------------------------------------------------
(* OnlineFiltered *)

\* The type being filtered is the one read last, as often in a row as counted
\* and once more, for RecordCard, which does not count.
FilterLink ==
  \A d \in Dynamic : cardTypeNew[d] # NULL =>
    reads[d].type = cardTypeNew[d] /\ cnt4Filter[d] < reads[d].n

\* What one reading is remembered as
Reading(d, t) ==
  [type |-> t,
   n |-> IF t # reads[d].type THEN 1
         ELSE IF reads[d].n <= ONLINE_FILTER_COUNT THEN reads[d].n + 1 ELSE reads[d].n]

(* A reading of the same type as the last one is counted up to the limit. *)
LEMMA SameReading ==
  ASSUME DynTypeOK, FilterLink, NEW d \in Dynamic, NEW t, t # NULL, t = cardTypeNew[d]
  PROVE  /\ Reading(d, t).type = t
         /\ cnt4Filter[d] + 1 < Reading(d, t).n \/ ONLINE_FILTER_COUNT < Reading(d, t).n
<1> DEFINE n == reads[d].n
<1>1. n \in 0 .. ONLINE_FILTER_COUNT + 1 /\ cnt4Filter[d] \in 0 .. ONLINE_FILTER_COUNT
  BY DEF DynTypeOK
<1>2. reads[d].type = t /\ cnt4Filter[d] < n  BY DEF FilterLink
<1>3. Reading(d, t).n = IF n <= ONLINE_FILTER_COUNT THEN n + 1 ELSE n
  BY <1>2 DEF Reading
<1>4. Reading(d, t).type = t  BY DEF Reading
<1> HIDE DEF n
<1>5. cnt4Filter[d] + 1 < Reading(d, t).n \/ ONLINE_FILTER_COUNT < Reading(d, t).n
  BY <1>1, <1>2, <1>3, BoundAssumption
<1> QED BY <1>4, <1>5

\* A poll that leaves what was read and what is filtered in step
FilterPost(d) ==
  /\ \A e \in Dynamic : e # d => cardTypeNew'[e] = cardTypeNew[e] /\ cnt4Filter'[e] = cnt4Filter[e]
                                 /\ cardType'[e] = cardType[e] /\ reads'[e] = reads[e]
  /\ cardTypeNew'[d] # NULL => reads'[d].type = cardTypeNew'[d] /\ cnt4Filter'[d] < reads'[d].n
  /\ cardType'[d] # cardType[d] /\ cardType'[d] # NULL =>
       reads'[d].type = cardType'[d] /\ reads'[d].n > ONLINE_FILTER_COUNT

(* Each of the four steps of handleNewType, with the reading it is called for *)
LEMMA PollPost ==
  ASSUME Inv, Inv', FilterLink, NEW d \in Dynamic, sCheckDevChange(d)
  PROVE  FilterPost(d)
<1> USE DEF Inv
<1> PICK t \in CardType \cup {NULL} :
      /\ handleNewType(d, t)
      /\ reads' = [reads EXCEPT ![d] = Reading(d, t)]
  BY DEF sCheckDevChange, Reading, DynTypeOK
<1>1. reads'[d] = Reading(d, t) /\ \A e \in Dynamic : e # d => reads'[e] = reads[e]
  BY DEF DynTypeOK
<1>2. CASE SameCard(d, t)
  BY <1>1, <1>2 DEF SameCard, FilterPost, DynTypeOK
<1>3. CASE CardGone(d, t)
  BY <1>1, <1>3 DEF CardGone, FilterPost, DynTypeOK
<1>4. CASE RecordCard(d, t)
  <2>1. /\ cardTypeNew'[d] = t /\ cnt4Filter'[d] = 0 /\ UNCHANGED cardType
        /\ \A e \in Dynamic : e # d => cardTypeNew'[e] = cardTypeNew[e] /\ cnt4Filter'[e] = cnt4Filter[e]
    BY <1>4 DEF RecordCard, DynTypeOK
  <2>2. Reading(d, t).type = t /\ Reading(d, t).n > 0
    <3>1. reads[d].n \in 0 .. ONLINE_FILTER_COUNT + 1  BY DEF DynTypeOK
    <3> QED BY <3>1, BoundAssumption DEF Reading
  <2> QED BY <1>1, <2>1, <2>2 DEF FilterPost
<1>5. CASE FilterCard(d, t)
  <2>1. Reading(d, t).type = t
        /\ (cnt4Filter[d] + 1 < Reading(d, t).n \/ ONLINE_FILTER_COUNT < Reading(d, t).n)
    BY <1>5, SameReading DEF FilterCard
  <2>2. /\ UNCHANGED <<cardType, cardTypeNew>> /\ t = cardTypeNew[d]
        /\ cnt4Filter' = [cnt4Filter EXCEPT ![d] = cnt4Filter'[d]]
        /\ cnt4Filter'[d] = IF cnt4Filter[d] + 1 > ONLINE_FILTER_COUNT
                            THEN cnt4Filter[d] ELSE cnt4Filter[d] + 1
    BY <1>5 DEF FilterCard, DynTypeOK
  <2>3. /\ cnt4Filter[d] \in 0 .. ONLINE_FILTER_COUNT
        /\ reads'[d].n \in 0 .. ONLINE_FILTER_COUNT + 1
    BY DEF DynTypeOK
  <2>4. cnt4Filter'[d] < Reading(d, t).n
    BY <1>1, <2>1, <2>2, <2>3, BoundAssumption
  <2>5. \A e \in Dynamic : e # d => cnt4Filter'[e] = cnt4Filter[e]
    BY <2>2 DEF DynTypeOK
  <2> QED BY <1>1, <2>1, <2>2, <2>4, <2>5 DEF FilterPost
<1>6. CASE CardOnline(d, t)
  <2>1. Reading(d, t).type = t
        /\ (cnt4Filter[d] + 1 < Reading(d, t).n \/ ONLINE_FILTER_COUNT < Reading(d, t).n)
    BY <1>6, SameReading DEF CardOnline
  <2>2. /\ cardTypeNew'[d] = NULL /\ cardType'[d] = t
        /\ cnt4Filter[d] + 1 >= ONLINE_FILTER_COUNT
        /\ \A e \in Dynamic : e # d => cardTypeNew'[e] = cardTypeNew[e] /\ cardType'[e] = cardType[e]
                                       /\ cnt4Filter'[e] = cnt4Filter[e]
    BY <1>6 DEF CardOnline, DynTypeOK
  <2>3. /\ cnt4Filter[d] \in 0 .. ONLINE_FILTER_COUNT
        /\ reads'[d].n \in 0 .. ONLINE_FILTER_COUNT + 1
    BY DEF DynTypeOK
  <2>4. Reading(d, t).n > ONLINE_FILTER_COUNT
    BY <1>1, <2>1, <2>2, <2>3, BoundAssumption
  <2> QED BY <1>1, <2>1, <2>2, <2>4 DEF FilterPost
<1> QED BY <1>2, <1>3, <1>4, <1>5, <1>6 DEF handleNewType

\* What OnlineFiltered says of a step
Filtered ==
  \A d \in Dynamic :
    cardType'[d] # cardType[d] /\ cardType'[d] # NULL =>
      /\ reads'[d].type = cardType'[d]
      /\ reads'[d].n > ONLINE_FILTER_COUNT

\* Every step keeps the filter's count true to the readings, and a type that
\* changes has been read often enough.
LEMMA FilterStep ==
  ASSUME Inv, Inv', FilterLink, Next
  PROVE  FilterLink' /\ Filtered
<1>1. CASE \E d \in Dynamic : sCheckDevChange(d)
  <2> PICK d \in Dynamic : sCheckDevChange(d)  BY <1>1
  <2>1. FilterPost(d)  BY PollPost
  <2> QED BY <2>1 DEF FilterPost, FilterLink, Filtered
<1>2. CASE Restart
  BY <1>2 DEF Restart, FilterLink, Filtered
<1>3. CASE UNCHANGED <<cardType, cardTypeNew, cnt4Filter, reads>>
  BY <1>3 DEF FilterLink, Filtered
<1>4. CASE ~Restart /\ ~(\E d \in Dynamic : sCheckDevChange(d))
  BY <1>3, <1>4 DEF Next, Timers, Signals, Stop, Child, sHello4Live, sCheckLiveState,
     CheckLiveOne, sCheckTermTimeout, sCheckKillTimeout, sCheckNeedStart,
     sUpdateLiveState, sBuryChld, BuryOne, BuryEnd, sTerm4Stop, sKill4Stop, sStop,
     StopOne, StopEnd, ChildExit, ChildAck, pdmVars, dynVars, Terminated, vars
<1> QED BY <1>1, <1>2, <1>4

(* A card is accepted only after ONLINE_FILTER_COUNT + 1 equal readings in a    *)
(* row, whatever went online and offline before.                               *)
THEOREM OnlineIsFiltered == Spec => OnlineFiltered
<1>1. Init => FilterLink  BY DEF Init, FilterLink
<1>2. FilterLink /\ UNCHANGED vars => FilterLink'  BY DEF FilterLink, vars, dynVars
<1>3. Spec => [][Filtered]_vars
  <2>1. Inv /\ Inv' /\ FilterLink /\ [Next]_vars => FilterLink' /\ [Filtered]_vars
    BY <1>2, FilterStep
  <2> QED BY <1>1, <2>1, InvHolds, PTL DEF Spec
<1> QED BY <1>3 DEF OnlineFiltered, Filtered

----------------------------------------------------------------------------
(* What the assertion of signalTerm would need *)

\* A child that was sent SIGKILL is not asked to exit, nor counted as running.
KilledStays == \A r \in Rt : state[r] = "KILLING" => state'[r] \in {"KILLING", "NULL"}

(* stop, sKill and sCapture leave a killed process killed, or reap it. *)
LEMMA StopKilled ==
  ASSUME RtInv, NEW m \in Mng, stop(m)
  PROVE  KilledStays
<1>1. CASE Waitable(m)
  <2>1. child[m] \in Rt /\ state' = [state EXCEPT ![child[m]] = "NULL"]
    BY <1>1 DEF stop, sRelease, Waitable, RtInv, RtTypeOK
  <2> QED BY <2>1 DEF KilledStays, RtInv, RtTypeOK
<1>2. CASE ~Waitable(m)  BY <1>2 DEF stop, rtVars, KilledStays
<1> QED BY <1>1, <1>2

LEMMA KillKilled ==
  ASSUME RtInv, NEW r, sKill(r)
  PROVE  KilledStays
BY DEF sKill, rtVars, KilledStays, RtInv, RtTypeOK

LEMMA CaptureKilled ==
  ASSUME RtInv, NEW m, NEW p, sCapture(m, p)
  PROVE  KilledStays
<1> DEFINE r == Head(lists["pool"])
<1>1. r \in Rt /\ r \in On("pool")  BY FirstOnList DEF sCapture, ListName, RtInv
<1>2. state' = [state EXCEPT ![r] = "NORMAL"]  BY DEF sCapture
<1> HIDE DEF r
<1>3. state[r] = "NULL"  BY <1>1, PoolOrNot
<1> QED BY <1>2, <1>3 DEF KilledStays, RtInv, RtTypeOK

(* No step but the beginning of Stop disturbs it. *)
LEMMA KilledStaysStep == Inv /\ Next /\ ~sTerm4Stop => KilledStays
<1> SUFFICES ASSUME Inv, Next, ~sTerm4Stop PROVE KilledStays  OBVIOUS
<1> USE DEF Inv
<1>0. UNCHANGED state => KilledStays  BY DEF KilledStays
<1>1. CASE sCheckKillTimeout \/ BuryOne \/ StopOne
  BY <1>0, <1>1, StopCallers, StopKilled DEF rtVars
<1>2. CASE CheckLiveOne  BY <1>0, <1>2, KillKilled DEF CheckLiveOne
<1>3. CASE sCheckTermTimeout  BY <1>0, <1>3, KillKilled DEF sCheckTermTimeout, rtVars
<1>4. CASE sCheckNeedStart  BY <1>0, <1>4, CaptureKilled DEF sCheckNeedStart, rtVars
<1>5. CASE \E d \in Dynamic : sCheckDevChange(d)
  <2> PICK d \in Dynamic, t \in CardType \cup {NULL} : handleNewType(d, t)
    BY <1>5 DEF sCheckDevChange
  <2>1. CASE CardGone(d, t)
    <3>1. CASE state[child[d]] = "NORMAL" /\ sTerm(child[d])
      BY <3>1 DEF sTerm, KilledStays, RtInv, RtTypeOK
    <3>2. CASE UNCHANGED rtVars  BY <1>0, <3>2 DEF rtVars
    <3> QED BY <2>1, <3>1, <3>2, <1>0 DEF CardGone
  <2> QED BY <1>0, <2>1 DEF handleNewType, SameCard, RecordCard, FilterCard, CardOnline, rtVars
<1>6. CASE sKill4Stop  BY <1>6 DEF sKill4Stop, KilledStays, RtInv, RtTypeOK
<1>7. CASE Restart  BY <1>7 DEF Restart, KilledStays
<1>8. CASE \/ sHello4Live \/ sCheckLiveState \/ sUpdateLiveState \/ sBuryChld \/ BuryEnd
           \/ sStop \/ StopEnd \/ Child \/ Terminated
  <2>1. UNCHANGED state
    BY <1>8 DEF sHello4Live, sCheckLiveState, sUpdateLiveState, sBuryChld, BuryEnd, sStop,
                StopEnd, Child, ChildExit, ChildAck, pdmVars, rtVars, Terminated, vars
  <2> QED BY <1>0, <2>1
<1> QED BY <1>1, <1>2, <1>3, <1>4, <1>5, <1>6, <1>7, <1>8 DEF Next, Timers, Signals, Stop

(* What KillingNotTermed says, and Stop violates, every other step of the      *)
(* manager keeps: only Term4Stop signals a process that is being killed.       *)
THEOREM OnlyStopTermsKilled ==
  Spec => [][~(main = "loop" /\ main' = "term4stop") => KilledStays]_vars
<1> DEFINE Begins == main = "loop" /\ main' = "term4stop"
<1>1. Inv /\ [Next]_vars => [~Begins => KilledStays]_vars
  BY KilledStaysStep DEF sTerm4Stop
<1> QED BY <1>1, InvHolds, PTL DEF Spec
=============================================================================
