------------------------------- MODULE PrcMng -------------------------------
(***************************************************************************)
(* The user-space process and device manager of pdm/src: CRtPrcInfo (the   *)
(* run-time object of a child process), CPrcMngInfo with its subclasses    *)
(* CStaticPrcMngInfo and CDynamicPrcMngInfo (what has to run, and why),    *)
(* and CProcessPdm::Start/Stop, together with what surrounds them: the     *)
(* child processes, the signals the kernel delivers, the card readings of  *)
(* the slots, and the on/off-line state kept by the kernel driver.         *)
(*                                                                         *)
(* The manager is one thread that runs one callback at a time (the event   *)
(* loop of CProcessBase, external); children and signals interleave with   *)
(* it.  A callback that loops with system calls inside (sBuryChld,         *)
(* sCheckLiveState, the sStop loops) takes one step per iteration, `main'  *)
(* keeping the other callbacks out.  The build modelled is the release     *)
(* build (NDEBUG): assertions are compiled out, and are stated here as     *)
(* properties.                                                             *)
(***************************************************************************)
EXTENDS Integers, Sequences, SequencesExt, ListOps

CONSTANTS
  StaticPrc,            \* s_staticPrcList: sequence of units
  DynamicPrc,           \* s_dynamicPrcList, the slots of s_slot_care_bmp
  RtPool,               \* s_preAllPool: sequence of run-time objects
  Pid,                  \* process ids fork can return
  CardType,             \* ETinDev_t without ETINDEV_NULL
  NULL,                 \* ETINDEV_NULL, a NULL pointer, pid -1
  ONLINE_FILTER_COUNT,  \* 3 in the code
  DIFF_SPV_HELLO,       \* 5 in the code
  SPV_HELLO_FACTOR,     \* INTERVAL_SPV / INTERVAL_HELLO, 6 in the code
  NeedKillPrc,          \* CPdmGlobal::s_needKillPrc
  ForkMayFail,          \* fork can return -1
  OnlineMayFail,        \* the driver can refuse to put a card online
  MaxMissed,            \* bound: hellos sent and not answered
  MaxAhead,             \* bound: answers in advance of the hellos
  MaxRestart            \* bound: how often a new manager is started

Static  == ToSet(StaticPrc)
Dynamic == ToSet(DynamicPrc)
Mng     == Static \cup Dynamic
Rt      == ToSet(RtPool)

ASSUME ListAssumption ==
  /\ StaticPrc \in Seq(Static) /\ NoDup(StaticPrc)
  /\ DynamicPrc \in Seq(Dynamic) /\ NoDup(DynamicPrc)
  /\ RtPool \in Seq(Rt) /\ NoDup(RtPool)
  /\ Static \cap Dynamic = {}
  /\ Len(RtPool) = Len(StaticPrc) + Len(DynamicPrc)

ASSUME NullAssumption ==
  /\ NULL \notin Rt /\ NULL \notin Mng /\ NULL \notin Pid /\ NULL \notin CardType

ASSUME BoundAssumption ==
  /\ ONLINE_FILTER_COUNT \in Nat \ {0}
  /\ DIFF_SPV_HELLO \in Nat \ {0} /\ SPV_HELLO_FACTOR \in Nat \ {0}
  /\ MaxMissed \in Nat /\ MaxAhead \in Nat /\ MaxRestart \in Nat
  /\ DIFF_SPV_HELLO <= MaxMissed
  /\ NeedKillPrc \in BOOLEAN /\ ForkMayFail \in BOOLEAN /\ OnlineMayFail \in BOOLEAN

ListName  == {"pool", "normal", "exiting", "killing"}
RtState   == {"NULL", "NORMAL", "EXITING", "KILLING"}   \* EPrcRtState_t
PrcState  == {"none", "live", "termed", "killed", "zombie"}
MainState == {"loop", "bury", "spv", "term4stop", "kill4stop", "sStop",
              "stopped", "crashed"}

VARIABLES
  lists,        \* s_listPool, s_listNormal, s_listExiting, s_listKilling
  state,        \* CRtPrcInfo::m_state
  pid,          \* CRtPrcInfo::m_pid
  missed,       \* CRtPrcInfo::m_nExpTimes - m_nRealTimes, all the code reads
  parent,       \* CBdAssChild::m_pParent
  child,        \* CBdAssParent::m_pChld
  list2Start,   \* CPrcMngInfo::s_list2Start
  startTimer,   \* s_fdTimerStart is running
  termTimer,    \* s_fdTermTimer is running
  killTimer,    \* s_fdKillTimer is running
  hellos,       \* s_fdHelloTimer's expirations less those s_fdSpvTimer waited for
  cardType,     \* CDynamicPrcMngInfo::m_cardType
  cardTypeNew,  \* CDynamicPrcMngInfo::m_cardTypeNew
  cnt4Filter,   \* CDynamicPrcMngInfo::m_cnt4Filter
  main,         \* what the manager's thread is doing
  spvTodo,      \* what the loop of sCheckLiveState has still to visit
  stopTodo,     \* what the loops of the two sStop have still to visit
  \* the environment
  prc,          \* the child process with this pid, as the kernel keeps it
  sigChld,      \* SIGCHLD pending
  sigAck,       \* SIGHELLOACK pending: ssi_pid, or NULL
  drv,          \* the card type the driver has online in the slot
  reads,        \* history: last card type read and how often in a row
  restarts      \* managers started after the first

rtVars  == <<lists, state, pid, missed, parent, child>>
timers  == <<startTimer, termTimer, killTimer, hellos>>
dynVars == <<cardType, cardTypeNew, cnt4Filter, reads>>
ctlVars == <<main, spvTodo, stopTodo, restarts>>
sigVars == <<sigChld, sigAck>>
vars    == <<rtVars, list2Start, timers, dynVars, ctlVars, prc, sigVars, drv>>

----------------------------------------------------------------------------
(* Start *)

\* What CProcessPdm::Start leaves: every object in the pool (sInitPool), the
\* static units queued, no card known, every timer armed by NewTimer.
AllPooled == [l \in ListName |-> IF l = "pool" THEN RtPool ELSE << >>]
NoRead    == [type |-> NULL, n |-> 0]

Init ==
  /\ lists = AllPooled
  /\ state = [r \in Rt |-> "NULL"]
  /\ pid = [r \in Rt |-> NULL]
  /\ missed = [r \in Rt |-> 0]
  /\ parent = [r \in Rt |-> NULL]
  /\ child = [m \in Mng |-> NULL]
  /\ list2Start = StaticPrc
  /\ startTimer = TRUE
  /\ termTimer = TRUE
  /\ killTimer = TRUE
  /\ hellos = 0
  /\ cardType = [d \in Dynamic |-> NULL]
  /\ cardTypeNew = [d \in Dynamic |-> NULL]
  /\ cnt4Filter = [d \in Dynamic |-> 0]
  /\ main = "loop"
  /\ spvTodo = << >>
  /\ stopTodo = << >>
  /\ prc = [p \in Pid |-> "none"]
  /\ sigChld = FALSE
  /\ sigAck = NULL
  /\ reads = [d \in Dynamic |-> NoRead]
  /\ drv = [d \in Dynamic |-> NULL]
  /\ restarts = 0

\* A new manager process after the last one stopped or died.  The driver keeps
\* the state of its slots; the old children are no children of the new process.
Restart ==
  /\ main \in {"stopped", "crashed"}
  /\ restarts < MaxRestart
  /\ lists' = AllPooled
  /\ state' = [r \in Rt |-> "NULL"]
  /\ pid' = [r \in Rt |-> NULL]
  /\ missed' = [r \in Rt |-> 0]
  /\ parent' = [r \in Rt |-> NULL]
  /\ child' = [m \in Mng |-> NULL]
  /\ list2Start' = StaticPrc
  /\ startTimer' = TRUE
  /\ termTimer' = TRUE
  /\ killTimer' = TRUE
  /\ hellos' = 0
  /\ cardType' = [d \in Dynamic |-> NULL]
  /\ cardTypeNew' = [d \in Dynamic |-> NULL]
  /\ cnt4Filter' = [d \in Dynamic |-> 0]
  /\ main' = "loop"
  /\ spvTodo' = << >>
  /\ stopTodo' = << >>
  /\ prc' = [p \in Pid |-> "none"]
  /\ sigChld' = FALSE
  /\ sigAck' = NULL
  /\ reads' = [d \in Dynamic |-> NoRead]
  /\ restarts' = restarts + 1
  /\ UNCHANGED drv

----------------------------------------------------------------------------
(* CRtPrcInfo: state changes of one run-time object *)

\* mutant: the node is not unlinked from the list it was on
AcceptNoUnlink(to, r) ==
  [lists EXCEPT ![to] = AddTail(@, r)]

\* CListHead::accept: r leaves the list it is on and becomes the last of `to'.
Accept(to, r) ==
  [l \in ListName |-> IF l = to THEN AddTail(Unlink(lists[l], r), r)
                                ELSE Unlink(lists[l], r)]

\* kill(m_pid, SIGTERM), kill(m_pid, SIGKILL) and waitpid: a zombie takes no
\* signal, and only a zombie is reaped.
Termed(s) == IF s = "live" THEN "termed" ELSE s
Killed(s) == IF s \in {"live", "termed"} THEN "killed" ELSE s
Reaped(s) == IF s = "zombie" THEN "none" ELSE s

\* sCapture and start: fork gave p, the first free object stands for it.
sCapture(m, p) ==
  LET r == Head(lists["pool"]) IN
  /\ ~IsEmpty(lists["pool"])
  /\ prc[p] = "none"
  /\ prc' = [prc EXCEPT ![p] = "live"]
  /\ state' = [state EXCEPT ![r] = "NORMAL"]
  /\ pid' = [pid EXCEPT ![r] = p]
  /\ parent' = [parent EXCEPT ![r] = m]
  /\ child' = [child EXCEPT ![m] = r]
  /\ lists' = Accept("normal", r)
  /\ UNCHANGED missed

\* mutant: the result of waitpid is ignored
WaitableAlways(m) == child[m] # NULL

\* waitpid(m_pid, WNOHANG) lets CRtPrcInfo::stop go on: the child of m is a
\* zombie, or was reaped already (ECHILD).
Waitable(m) == child[m] # NULL /\ prc[pid[child[m]]] \in {"zombie", "none"}

\* mutant: clrTimes is forgotten
sReleaseNoClr(r) ==
  /\ prc' = [prc EXCEPT ![pid[r]] = Reaped(@)]
  /\ state' = [state EXCEPT ![r] = "NULL"]
  /\ pid' = [pid EXCEPT ![r] = NULL]
  /\ child' = [child EXCEPT ![parent[r]] = NULL]
  /\ parent' = [parent EXCEPT ![r] = NULL]
  /\ lists' = Accept("pool", r)
  /\ UNCHANGED missed

\* sRelease and CRtPrcInfo::stop, once waitpid succeeded.
sRelease(r) ==
  /\ prc' = [prc EXCEPT ![pid[r]] = Reaped(@)]
  /\ state' = [state EXCEPT ![r] = "NULL"]
  /\ pid' = [pid EXCEPT ![r] = NULL]
  /\ missed' = [missed EXCEPT ![r] = 0]
  /\ child' = [child EXCEPT ![parent[r]] = NULL]
  /\ parent' = [parent EXCEPT ![r] = NULL]
  /\ lists' = Accept("pool", r)

\* sTerm: SIGTERM, and the term timer when r is the first one exiting.
sTerm(r) ==
  /\ prc' = [prc EXCEPT ![pid[r]] = Termed(@)]
  /\ state' = [state EXCEPT ![r] = "EXITING"]
  /\ missed' = [missed EXCEPT ![r] = 0]
  /\ termTimer' = (termTimer \/ IsEmpty(lists["exiting"]))
  /\ lists' = Accept("exiting", r)
  /\ UNCHANGED <<pid, parent, child>>

\* sKill: SIGKILL, and the kill timer when r is the first one killed; without
\* s_needKillPrc nothing is done.
sKill(r) ==
  \/ /\ NeedKillPrc
     /\ prc' = [prc EXCEPT ![pid[r]] = Killed(@)]
     /\ state' = [state EXCEPT ![r] = "KILLING"]
     /\ missed' = [missed EXCEPT ![r] = 0]
     /\ killTimer' = (killTimer \/ IsEmpty(lists["killing"]))
     /\ lists' = Accept("killing", r)
     /\ UNCHANGED <<pid, parent, child>>
  \/ /\ ~NeedKillPrc
     /\ UNCHANGED <<rtVars, killTimer, prc>>

----------------------------------------------------------------------------
(* CPrcMngInfo: the queue of the units to start, and the end of a child *)

\* mutant: the timer is not started
addIn2StartNoTimer(m) ==
  /\ list2Start' = AddTail(list2Start, m)
  /\ UNCHANGED startTimer

\* addIn2Start
addIn2Start(m) ==
  /\ list2Start' = AddTail(list2Start, m)
  /\ startTimer' = (startTimer \/ IsEmpty(list2Start))

\* m_sExitFlag, set first thing by CDynamicPrcMngInfo::sStop
ExitFlag == main = "sStop"

\* CStaticPrcMngInfo::subStop after the release
subStopStatic(m) ==
  /\ m \in Static
  /\ addIn2Start(m)
  /\ UNCHANGED drv

\* mutant: the card is not taken offline when it is no longer inserted
subStopDynamicNoOffline(m) ==
  /\ m \in Dynamic
  /\ \/ /\ cardType[m] = NULL \/ ExitFlag
        /\ UNCHANGED <<drv, list2Start, startTimer>>
     \/ /\ cardType[m] # NULL /\ ~ExitFlag
        /\ drv' = [drv EXCEPT ![m] = cardType[m]]
        /\ addIn2Start(m)

\* mutant: the unit is not queued again
subStopDynamicNoQueue(m) ==
  /\ m \in Dynamic
  /\ drv' = [drv EXCEPT ![m] = IF ExitFlag THEN NULL ELSE cardType[m]]
  /\ UNCHANGED <<list2Start, startTimer>>

\* CDynamicPrcMngInfo::subStop after the release: the card goes offline, and
\* online again for the next process when it is still inserted.
subStopDynamic(m) ==
  /\ m \in Dynamic
  /\ \/ /\ cardType[m] = NULL \/ ExitFlag
        /\ drv' = [drv EXCEPT ![m] = NULL]
        /\ UNCHANGED <<list2Start, startTimer>>
     \/ /\ cardType[m] # NULL /\ ~ExitFlag
        /\ drv' = [drv EXCEPT ![m] = cardType[m]]
        /\ addIn2Start(m)
     \/ /\ cardType[m] # NULL /\ ~ExitFlag   \* the driver refuses: not queued
        /\ OnlineMayFail
        /\ drv' = [drv EXCEPT ![m] = NULL]
        /\ UNCHANGED <<list2Start, startTimer>>

\* CPrcMngInfo::stop, with waitpid inside: nothing happens to a unit without a
\* child or with a child that has not ended.
stop(m) ==
  \/ /\ Waitable(m)
     /\ sRelease(child[m])
     /\ subStopStatic(m) \/ subStopDynamic(m)
  \/ /\ ~Waitable(m)
     /\ UNCHANGED <<rtVars, prc, list2Start, startTimer, drv>>

----------------------------------------------------------------------------
(* Callbacks of the event loop: timers *)

\* sHello4Live.  The two periodic timers run in the ratio 1 : SPV_HELLO_FACTOR;
\* where they expire together either callback may come first.
sHello4Live ==
  LET normal == ToSet(lists["normal"]) IN
  /\ main = "loop"
  /\ hellos < SPV_HELLO_FACTOR
  /\ hellos' = hellos + 1
  /\ \A r \in normal : missed[r] < MaxMissed
  /\ missed' = [r \in Rt |-> IF r \in normal THEN missed[r] + 1 ELSE missed[r]]
  /\ UNCHANGED <<lists, state, pid, parent, child, list2Start, startTimer,
                 termTimer, killTimer, dynVars, ctlVars, prc, sigVars, drv>>

\* mutant: one expiration too many is waited for
sCheckLiveStateLate ==
  /\ main = "loop"
  /\ hellos >= SPV_HELLO_FACTOR - 1
  /\ hellos' = hellos - SPV_HELLO_FACTOR - 1
  /\ main' = IF IsEmpty(lists["normal"]) THEN "loop" ELSE "spv"
  /\ spvTodo' = lists["normal"]
  /\ UNCHANGED <<rtVars, list2Start, startTimer, termTimer, killTimer, dynVars,
                 stopTodo, restarts, prc, sigVars, drv>>

\* sCheckLiveState: enter the loop over the objects now on s_listNormal.
sCheckLiveState ==
  /\ main = "loop"
  /\ hellos >= SPV_HELLO_FACTOR - 1
  /\ hellos' = hellos - SPV_HELLO_FACTOR
  /\ main' = IF IsEmpty(lists["normal"]) THEN "loop" ELSE "spv"
  /\ spvTodo' = lists["normal"]
  /\ UNCHANGED <<rtVars, list2Start, startTimer, termTimer, killTimer, dynVars, stopTodo, restarts, prc,
                 sigVars, drv>>

\* mutant: compared with the length of the supervision period
isLiveFactor(r) == missed[r] <= SPV_HELLO_FACTOR

\* isLive
isLive(r) == missed[r] < DIFF_SPV_HELLO

\* sCheckLiveState: one iteration, the last one leaves the loop.
CheckLiveOne ==
  LET r == Head(spvTodo) IN
  /\ main = "spv"
  /\ spvTodo' = Tail(spvTodo)
  /\ main' = IF IsEmpty(Tail(spvTodo)) THEN "loop" ELSE "spv"
  /\ \/ /\ isLive(r)
        /\ missed' = [missed EXCEPT ![r] = 0]
        /\ UNCHANGED <<lists, state, pid, parent, child, killTimer, prc>>
     \/ /\ ~isLive(r)
        /\ sKill(r)
  /\ UNCHANGED <<list2Start, startTimer, termTimer, hellos, dynVars, stopTodo, restarts,
                 sigVars, drv>>

\* mutant: the timeout is only logged
sCheckTermTimeoutLogOnly ==
  /\ main = "loop"
  /\ termTimer
  /\ termTimer' = ~IsEmpty(lists["exiting"])
  /\ UNCHANGED <<rtVars, killTimer, prc, list2Start, startTimer, hellos, dynVars,
                 ctlVars, sigVars, drv>>

\* sCheckTermTimeout: the first one exiting is killed; the timer stops when
\* nobody is left.
sCheckTermTimeout ==
  LET exiting == lists["exiting"] IN
  /\ main = "loop"
  /\ termTimer
  /\ \/ /\ ~IsEmpty(exiting)
        /\ sKill(Head(exiting))
     \/ /\ IsEmpty(exiting)
        /\ UNCHANGED <<rtVars, killTimer, prc>>
  /\ termTimer' = ~IsEmpty(lists'["exiting"])
  /\ UNCHANGED <<list2Start, startTimer, hellos, dynVars, ctlVars, sigVars, drv>>

\* mutant: the timer is stopped after the first one
sCheckKillTimeoutOnce ==
  /\ main = "loop"
  /\ killTimer
  /\ ~IsEmpty(lists["killing"])
  /\ stop(parent[Head(lists["killing"])])
  /\ killTimer' = FALSE
  /\ UNCHANGED <<termTimer, hellos, dynVars, ctlVars, sigVars>>

\* sCheckKillTimeout: try to bury the first one killed; the timer stops when
\* nobody is left.
sCheckKillTimeout ==
  LET killing == lists["killing"] IN
  /\ main = "loop"
  /\ killTimer
  /\ \/ /\ ~IsEmpty(killing)
        /\ stop(parent[Head(killing)])
     \/ /\ IsEmpty(killing)
        /\ UNCHANGED <<rtVars, prc, list2Start, startTimer, drv>>
  /\ killTimer' = ~IsEmpty(lists'["killing"])
  /\ UNCHANGED <<termTimer, hellos, dynVars, ctlVars, sigVars>>

\* subStart has nothing to start: haveCardInserted is false.
NoCard(m) == m \in Dynamic /\ cardType[m] = NULL

\* mutant: the unit leaves the queue before its process is forked
sCheckNeedStartDelFirst ==
  LET m == Head(list2Start) IN
  /\ main = "loop"
  /\ startTimer
  /\ ~IsEmpty(list2Start)
  /\ list2Start' = Unlink(list2Start, m)
  /\ \/ \E p \in Pid : sCapture(m, p)
     \/ ForkMayFail /\ UNCHANGED <<rtVars, prc>>
  /\ startTimer' = ~IsEmpty(list2Start')
  /\ UNCHANGED <<termTimer, killTimer, hellos, dynVars, ctlVars, sigVars, drv>>

\* CPrcMngInfo::sCheckNeedStart, start and subStart: only the first unit of the
\* queue is tried; when fork fails it stays first.
sCheckNeedStart ==
  LET m == Head(list2Start) IN
  /\ main = "loop"
  /\ startTimer
  /\ \/ /\ ~IsEmpty(list2Start)
        /\ child[m] = NULL /\ ~NoCard(m)
        /\ \E p \in Pid : sCapture(m, p)
        /\ list2Start' = Unlink(list2Start, m)
     \/ /\ ~IsEmpty(list2Start)
        /\ ForkMayFail \/ child[m] # NULL \/ NoCard(m)
        /\ list2Start' = IF child[m] = NULL /\ NoCard(m)
                         THEN Unlink(list2Start, m) ELSE list2Start
        /\ UNCHANGED <<rtVars, prc>>
     \/ /\ IsEmpty(list2Start)
        /\ UNCHANGED <<rtVars, prc, list2Start>>
  /\ startTimer' = ~IsEmpty(list2Start')
  /\ UNCHANGED <<termTimer, killTimer, hellos, dynVars, ctlVars, sigVars, drv>>

----------------------------------------------------------------------------
(* Callbacks of the event loop: signals *)

\* sFindObj over the given lists
sFindObj(names, p) ==
  LET found == {r \in UNION {ToSet(lists[l]) : l \in names} : pid[r] = p}
  IN  IF found = {} THEN NULL ELSE CHOOSE r \in found : TRUE

\* sUpdateLiveState: only a process on s_listNormal has its answer counted.
sUpdateLiveState ==
  LET r == sFindObj({"normal"}, sigAck) IN
  /\ main = "loop"
  /\ sigAck # NULL
  /\ r # NULL => missed[r] > -MaxAhead
  /\ sigAck' = NULL
  /\ missed' = IF r = NULL THEN missed ELSE [missed EXCEPT ![r] = @ - 1]
  /\ UNCHANGED <<lists, state, pid, parent, child, list2Start, timers, dynVars,
                 ctlVars, prc, sigChld, drv>>

\* sBuryChld: the signal is consumed, the waitpid(-1) loop begins.
sBuryChld ==
  /\ main = "loop"
  /\ sigChld
  /\ sigChld' = FALSE
  /\ main' = "bury"
  /\ UNCHANGED <<rtVars, list2Start, timers, dynVars, spvTodo, stopTodo, restarts,
                 prc, sigAck, drv>>

\* sBuryChld: waitpid(-1) returned p; a pid no object has is skipped.
BuryOne ==
  /\ main = "bury"
  /\ \E p \in Pid :
       LET r == sFindObj({"killing", "exiting", "normal"}, p) IN
       /\ prc[p] = "zombie"
       /\ IF r # NULL
          THEN stop(parent[r])
          ELSE /\ prc' = [prc EXCEPT ![p] = "none"]
               /\ UNCHANGED <<rtVars, list2Start, startTimer, drv>>
  /\ UNCHANGED <<termTimer, killTimer, hellos, dynVars, ctlVars, sigVars>>

\* sBuryChld: waitpid(-1) has nothing more.
BuryEnd ==
  /\ main = "bury"
  /\ \A p \in Pid : prc[p] # "zombie"
  /\ main' = "loop"
  /\ UNCHANGED <<rtVars, list2Start, timers, dynVars, spvTodo, stopTodo, restarts,
                 prc, sigVars, drv>>

----------------------------------------------------------------------------
(* CDynamicPrcMngInfo: the card in a slot *)

\* mutant: the type being filtered is not forgotten
SameCardKeepsNew(d, t) ==
  /\ t = cardType[d]
  /\ UNCHANGED <<rtVars, list2Start, timers, cardType, cardTypeNew, cnt4Filter,
                 main, prc, drv>>

\* handleNewType, step 1: nothing changed.
SameCard(d, t) ==
  /\ t = cardType[d]
  /\ cardTypeNew' = [cardTypeNew EXCEPT ![d] = NULL]
  /\ UNCHANGED <<rtVars, list2Start, timers, cardType, cnt4Filter, main, prc, drv>>

\* mutant: the running process is not asked to exit
CardGoneNoTerm(d, t) ==
  /\ t # cardType[d] /\ cardType[d] # NULL
  /\ cardType' = [cardType EXCEPT ![d] = NULL]
  /\ cardTypeNew' = [cardTypeNew EXCEPT ![d] = NULL]
  /\ child[d] # NULL
  /\ UNCHANGED <<rtVars, list2Start, timers, cnt4Filter, main, prc, drv>>

\* mutant: the slot goes offline at once, the process still being there
CardGoneOffline(d, t) ==
  /\ t # cardType[d] /\ cardType[d] # NULL
  /\ cardType' = [cardType EXCEPT ![d] = NULL]
  /\ cardTypeNew' = [cardTypeNew EXCEPT ![d] = NULL]
  /\ child[d] # NULL /\ state[child[d]] = "NORMAL"
  /\ sTerm(child[d])
  /\ drv' = [drv EXCEPT ![d] = NULL]
  /\ UNCHANGED <<list2Start, startTimer, killTimer, hellos, cnt4Filter, main>>

\* handleNewType, step 2: the card the process was started for is gone.  A
\* running process is asked to exit; without one, the unit leaves the queue and
\* the slot goes offline.  A unit that is not on the queue has NULL links, which
\* CListHeader::del follows.
CardGone(d, t) ==
  /\ t # cardType[d] /\ cardType[d] # NULL
  /\ cardType' = [cardType EXCEPT ![d] = NULL]
  /\ cardTypeNew' = [cardTypeNew EXCEPT ![d] = NULL]
  /\ \/ /\ child[d] # NULL /\ state[child[d]] = "NORMAL"
        /\ sTerm(child[d])
        /\ UNCHANGED <<list2Start, killTimer, main, drv>>
     \/ /\ child[d] # NULL /\ state[child[d]] # "NORMAL"
        /\ UNCHANGED <<rtVars, list2Start, termTimer, killTimer, main, prc, drv>>
     \/ /\ child[d] = NULL /\ d \in ToSet(list2Start)
        /\ list2Start' = Unlink(list2Start, d)
        /\ drv' = [drv EXCEPT ![d] = NULL]
        /\ UNCHANGED <<rtVars, termTimer, killTimer, main, prc>>
     \/ /\ child[d] = NULL /\ d \notin ToSet(list2Start)
        /\ main' = "crashed"
        /\ UNCHANGED <<rtVars, list2Start, termTimer, killTimer, prc, drv>>
  /\ UNCHANGED <<startTimer, hellos, cnt4Filter>>

\* handleNewType, step 3: a new card type to filter.
RecordCard(d, t) ==
  /\ cardType[d] = NULL /\ t # NULL /\ t # cardTypeNew[d]
  /\ cardTypeNew' = [cardTypeNew EXCEPT ![d] = t]
  /\ cnt4Filter' = [cnt4Filter EXCEPT ![d] = 0]
  /\ UNCHANGED <<rtVars, list2Start, timers, cardType, main, prc, drv>>

\* handleNewType, step 4: the type was read once more.  The count is compared
\* with >= only, and is kept at its limit while the old process lives.
FilterCard(d, t) ==
  LET cnt  == cnt4Filter[d] + 1
      pass == cnt >= ONLINE_FILTER_COUNT
  IN
  /\ cardType[d] = NULL /\ t # NULL /\ t = cardTypeNew[d]
  /\ ~pass \/ child[d] # NULL
  /\ cnt4Filter' = [cnt4Filter EXCEPT ![d] = IF cnt > ONLINE_FILTER_COUNT THEN @ ELSE cnt]
  /\ UNCHANGED <<rtVars, list2Start, timers, cardType, cardTypeNew, main, prc, drv>>

\* mutant: the old process is not waited for
CardOnlineEarly(d, t) ==
  /\ cardType[d] = NULL /\ t # NULL /\ t = cardTypeNew[d]
  /\ cnt4Filter[d] + 1 >= ONLINE_FILTER_COUNT
  /\ cnt4Filter' = [cnt4Filter EXCEPT ![d] = 0]
  /\ cardType' = [cardType EXCEPT ![d] = t]
  /\ cardTypeNew' = [cardTypeNew EXCEPT ![d] = NULL]
  /\ drv' = [drv EXCEPT ![d] = t]
  /\ addIn2Start(d)
  /\ UNCHANGED <<rtVars, termTimer, killTimer, hellos, main, prc>>

\* handleNewType, step 4: the filter is passed and no old process is left.  The
\* driver refuses a slot that has a card online (EEXIST); a refusal is logged
\* and the process queued all the same.
CardOnline(d, t) ==
  /\ cardType[d] = NULL /\ t # NULL /\ t = cardTypeNew[d]
  /\ cnt4Filter[d] + 1 >= ONLINE_FILTER_COUNT
  /\ child[d] = NULL
  /\ cnt4Filter' = [cnt4Filter EXCEPT ![d] = 0]
  /\ cardType' = [cardType EXCEPT ![d] = t]
  /\ cardTypeNew' = [cardTypeNew EXCEPT ![d] = NULL]
  /\ \/ drv[d] = NULL /\ drv' = [drv EXCEPT ![d] = t]
     \/ (drv[d] # NULL \/ OnlineMayFail) /\ UNCHANGED drv
  /\ addIn2Start(d)
  /\ UNCHANGED <<rtVars, termTimer, killTimer, hellos, main, prc>>

handleNewType(d, t) ==
  \/ SameCard(d, t)
  \/ CardGone(d, t)
  \/ RecordCard(d, t)
  \/ FilterCard(d, t)
  \/ CardOnline(d, t)

\* sCheckDevChange for slot d: the driver reports type t.
sCheckDevChange(d) ==
  /\ main = "loop"
  /\ \E t \in CardType \cup {NULL} :
       /\ handleNewType(d, t)
       /\ reads' = [reads EXCEPT ![d] =
            [type |-> t,
             n |-> IF t # @.type THEN 1
                   ELSE IF @.n <= ONLINE_FILTER_COUNT THEN @.n + 1 ELSE @.n]]
  /\ UNCHANGED <<spvTodo, stopTodo, restarts, sigVars>>

----------------------------------------------------------------------------
(* CProcessPdm::Stop: no callback runs any more *)

\* The units with a child
Attached == {r \in Rt : parent[r] # NULL}

\* The two sTerm4Stop, then sleep(2)
sTerm4Stop ==
  /\ main = "loop"
  /\ main' = "term4stop"
  /\ state' = [r \in Rt |-> IF r \in Attached THEN "EXITING" ELSE state[r]]
  /\ prc' = [p \in Pid |-> IF \E r \in Attached : pid[r] = p
                           THEN Termed(prc[p]) ELSE prc[p]]
  /\ UNCHANGED <<lists, pid, missed, parent, child, list2Start, timers, dynVars,
                 spvTodo, stopTodo, restarts, sigVars, drv>>

\* mutant: only what is on the exiting list is killed
sKill4StopExiting ==
  /\ main = "term4stop"
  /\ main' = "kill4stop"
  /\ state' = [r \in Rt |-> IF r \in ToSet(lists["exiting"]) THEN "KILLING" ELSE state[r]]
  /\ prc' = [p \in Pid |-> IF \E r \in ToSet(lists["exiting"]) : pid[r] = p
                           THEN Killed(prc[p]) ELSE prc[p]]
  /\ UNCHANGED <<lists, pid, missed, parent, child, list2Start, timers, dynVars,
                 spvTodo, stopTodo, restarts, sigVars, drv>>

\* The two sKill4Stop, then sleep(1)
sKill4Stop ==
  /\ main = "term4stop"
  /\ main' = "kill4stop"
  /\ state' = [r \in Rt |-> IF r \in Attached THEN "KILLING" ELSE state[r]]
  /\ prc' = [p \in Pid |-> IF \E r \in Attached : pid[r] = p
                           THEN Killed(prc[p]) ELSE prc[p]]
  /\ UNCHANGED <<lists, pid, missed, parent, child, list2Start, timers, dynVars,
                 spvTodo, stopTodo, restarts, sigVars, drv>>

\* CDynamicPrcMngInfo::sStop and CStaticPrcMngInfo::sStop: enter the loops.
sStop ==
  /\ main = "kill4stop"
  /\ main' = "sStop"
  /\ stopTodo' = Reverse(DynamicPrc) \o Reverse(StaticPrc)
  /\ UNCHANGED <<rtVars, list2Start, timers, dynVars, spvTodo, restarts, prc,
                 sigVars, drv>>

\* sStop: one iteration.
StopOne ==
  /\ main = "sStop"
  /\ ~IsEmpty(stopTodo)
  /\ stopTodo' = Tail(stopTodo)
  /\ stop(Head(stopTodo))
  /\ UNCHANGED <<termTimer, killTimer, hellos, dynVars, main, spvTodo, restarts, sigVars>>

\* CPrcMngInfo::sStop and CRtPrcInfo::sStop: every timer is deleted.
StopEnd ==
  /\ main = "sStop"
  /\ IsEmpty(stopTodo)
  /\ main' = "stopped"
  /\ startTimer' = FALSE /\ termTimer' = FALSE /\ killTimer' = FALSE
  /\ UNCHANGED <<rtVars, list2Start, hellos, dynVars, spvTodo, stopTodo, restarts,
                 prc, sigVars, drv>>

----------------------------------------------------------------------------
(* Child processes *)

ManagerRuns == main \notin {"stopped", "crashed"}

pdmVars == <<rtVars, list2Start, timers, dynVars, ctlVars, drv>>

\* A child ends: on its own, or obeying a signal.
ChildExit(p) ==
  /\ ManagerRuns
  /\ prc[p] \in {"live", "termed", "killed"}
  /\ prc' = [prc EXCEPT ![p] = "zombie"]
  /\ sigChld' = TRUE
  /\ UNCHANGED <<pdmVars, sigAck>>

\* A child answers with SIGHELLOACK.  The signal does not queue: while one is
\* pending the next one is lost.
ChildAck(p) ==
  /\ ManagerRuns
  /\ prc[p] \in {"live", "termed"}
  /\ sigAck = NULL
  /\ sigAck' = p
  /\ UNCHANGED <<pdmVars, prc, sigChld>>

\* The manager is gone for good.
Terminated ==
  /\ ~ManagerRuns
  /\ restarts = MaxRestart
  /\ UNCHANGED vars

----------------------------------------------------------------------------
Timers ==
  sHello4Live \/ sCheckLiveState \/ CheckLiveOne \/ sCheckTermTimeout
  \/ sCheckKillTimeout \/ sCheckNeedStart \/ (\E d \in Dynamic : sCheckDevChange(d))

Signals == sUpdateLiveState \/ sBuryChld \/ BuryOne \/ BuryEnd

Stop == sTerm4Stop \/ sKill4Stop \/ sStop \/ StopOne \/ StopEnd

Child == \E p \in Pid : ChildExit(p) \/ ChildAck(p)

Next == Timers \/ Signals \/ Stop \/ Child \/ Restart \/ Terminated

Spec == Init /\ [][Next]_vars

\* A slot is polled and reads as it did the last time: what the poll timer brings
\* about for a card that stays as it is.
PollSame(d) == sCheckDevChange(d) /\ reads'[d].type = reads[d].type

\* The event loop serves every timer and signal that stays or comes back ready,
\* and finishes the loop it is in; a process that was sent SIGKILL ends; fork
\* does not fail for ever.  Nothing makes a child obey SIGTERM, answer a hello or
\* end on its own.
Fairness ==
  /\ WF_vars(CheckLiveOne)
  /\ WF_vars(BuryOne \/ BuryEnd)
  /\ SF_vars(sHello4Live)
  /\ SF_vars(sCheckLiveState)
  /\ SF_vars(sCheckTermTimeout)
  /\ SF_vars(sBuryChld)
  /\ SF_vars(sCheckNeedStart /\ list2Start' # list2Start)
  /\ \A d \in Dynamic : SF_vars(PollSame(d))
  /\ \A p \in Pid : WF_vars(prc[p] = "killed" /\ ChildExit(p))

FairSpec == Spec /\ Fairness

----------------------------------------------------------------------------
(* Properties *)

\* The event loop dispatches callbacks (Stop has not begun, nothing crashed).
Running == main \in {"loop", "bury", "spv"}

On(l) == ToSet(lists[l])

TypeOK ==
  /\ lists \in [ListName -> Seq(Rt)]
  /\ state \in [Rt -> RtState]
  /\ pid \in [Rt -> Pid \cup {NULL}]
  /\ missed \in [Rt -> -MaxAhead .. MaxMissed]
  /\ parent \in [Rt -> Mng \cup {NULL}]
  /\ child \in [Mng -> Rt \cup {NULL}]
  /\ list2Start \in Seq(Mng)
  /\ startTimer \in BOOLEAN /\ termTimer \in BOOLEAN /\ killTimer \in BOOLEAN
  /\ hellos \in -1 .. SPV_HELLO_FACTOR
  /\ cardType \in [Dynamic -> CardType \cup {NULL}]
  /\ cardTypeNew \in [Dynamic -> CardType \cup {NULL}]
  /\ cnt4Filter \in [Dynamic -> 0 .. ONLINE_FILTER_COUNT]
  /\ main \in MainState
  /\ spvTodo \in Seq(Rt)
  /\ stopTodo \in Seq(Mng)
  /\ prc \in [Pid -> PrcState]
  /\ sigChld \in BOOLEAN
  /\ sigAck \in Pid \cup {NULL}
  /\ drv \in [Dynamic -> CardType \cup {NULL}]
  /\ reads \in [Dynamic -> [type : CardType \cup {NULL},
                            n : 0 .. ONLINE_FILTER_COUNT + 1]]
  /\ restarts \in 0 .. MaxRestart

\* The list of an object in the given state
ListOf(s) == CASE s = "NULL" -> "pool" [] s = "NORMAL" -> "normal"
               [] s = "EXITING" -> "exiting" [] s = "KILLING" -> "killing"

\* Every run-time object is linked exactly once, on the list of its m_state, as
\* the comments on s_listPool .. s_listKilling say; Stop changes m_state without
\* moving the object (CPrcMngInfo::Term4Stop, Kill4Stop), so that from then on
\* only the pool can be told from the rest.
ListsMatchState ==
  /\ \A l \in ListName : NoDup(lists[l])
  /\ \A r \in Rt, l, k \in ListName : r \in On(l) /\ r \in On(k) => l = k
  /\ \A r \in Rt : \E l \in ListName : r \in On(l)
  /\ \A r \in Rt : r \in On("pool") <=> state[r] = "NULL"
  /\ Running => \A r \in Rt : r \in On(ListOf(state[r]))

\* buildBdAss and destroyBdAss keep both ends in step: a unit and an object
\* point at each other or at nothing, an object in the pool belongs to nobody,
\* and it is clean as CRtPrcInfo::start asserts before it is used again.
Association ==
  /\ \A m \in Mng, r \in Rt : child[m] = r <=> parent[r] = m
  /\ \A r \in Rt : state[r] = "NULL" <=> parent[r] = NULL
  /\ \A r \in Rt : state[r] = "NULL" => pid[r] = NULL /\ missed[r] = 0

\* sBuryChld always recognises the pid that waitpid(-1) returns, and no object
\* waits for a child that was reaped behind its back: the children the kernel
\* keeps for the manager are exactly the ones its objects stand for.
ChildrenTracked ==
  /\ \A p \in Pid : prc[p] # "none" => \E r \in Rt : pid[r] = p
  /\ \A r \in Rt : state[r] # "NULL" => pid[r] \in Pid /\ prc[pid[r]] # "none"
  /\ \A q, r \in Rt : pid[q] = pid[r] /\ pid[q] # NULL => q = r

\* A unit is queued once, never while its child is still there, and a slot never
\* without a card: sCheckNeedStart never meets the early returns of start and
\* subStart, which would leave the queue blocked behind its first unit.
StartQueueOk ==
  /\ NoDup(list2Start)
  /\ \A m \in ToSet(list2Start) : child[m] = NULL /\ ~NoCard(m)

\* Every static unit, and every slot with a card, has a child or is queued for
\* one.  The only exception is a slot the driver does not have since it refused
\* the online: after the process of the card before had ended, where subStop
\* returns early and forgets the unit, or at first, where handleNewType queues
\* the unit all the same.
NothingForgotten ==
  Running => \A m \in Mng :
    \/ child[m] # NULL
    \/ m \in ToSet(list2Start)
    \/ m \in Dynamic /\ (cardType[m] = NULL \/ (OnlineMayFail /\ drv[m] = NULL))

\* Whatever waits for a timer has it running: addIn2Start, sTerm and sKill start
\* it for the first entry only, and three callbacks stop it.
TimersArmed ==
  Running =>
    /\ ~IsEmpty(list2Start) => startTimer
    /\ ~IsEmpty(lists["exiting"]) => termTimer
    /\ ~IsEmpty(lists["killing"]) => killTimer

\* A process in the normal state has its card: a card that goes away takes its
\* process to the exiting list in the same callback, and a new card waits for
\* the old process to end.
NormalHasCard ==
  \A d \in Dynamic :
    child[d] # NULL /\ state[child[d]] = "NORMAL" => cardType[d] # NULL

\* While its manager knows a card, the driver has that card or none; without
\* one the driver's slot is empty as soon as the old process has gone, so that
\* no later online request finds the slot taken.  (For the first manager: a new
\* one knows nothing of what the driver kept, see OnlineNotRefused.)
DriverAgrees ==
  restarts = 0 => \A d \in Dynamic :
    /\ drv[d] # NULL /\ cardType[d] # NULL => drv[d] = cardType[d]
    /\ drv[d] # NULL /\ cardType[d] = NULL => child[d] # NULL

\* When Stop has finished, no child is left that was not sent SIGKILL, although
\* callbacks started and signalled children up to the moment Stop began.
NoSurvivor ==
  main = "stopped" => \A p \in Pid : prc[p] \notin {"live", "termed"}

\* The driver gives up a card only when the process that may have its device
\* open has ended.
OfflineOnlyWhenDead ==
  [][\A d \in Dynamic :
       drv[d] # NULL /\ drv'[d] # drv[d] =>
         child[d] = NULL \/ prc[pid[child[d]]] \in {"zombie", "none"}]_vars

\* A card is accepted only after ONLINE_FILTER_COUNT + 1 equal readings in a
\* row, whatever went online and offline before: what the NOTE on handleNewType
\* says the clearing of m_cardTypeNew in step 1 is for.
OnlineFiltered ==
  [][\A d \in Dynamic :
       cardType'[d] # cardType[d] /\ cardType'[d] # NULL =>
         /\ reads'[d].type = cardType'[d]
         /\ reads'[d].n > ONLINE_FILTER_COUNT]_vars

----------------------------------------------------------------------------
(* Liveness, under FairSpec, as long as the manager runs *)

\* A static process that has ended, however it ended, is started again.
StaticRestarted ==
  \A m \in Static : child[m] = NULL ~> child[m] # NULL \/ ~Running

\* A process that stops answering is killed by the supervision: none stays live
\* and silent for ever, although counting starts in the middle of a supervision
\* period and the two timers may expire in either order.
SilentKilled ==
  \A p \in Pid : ~<>[](Running /\ prc[p] = "live" /\ sigAck # p)

\* The driver is rid of a removed card in the end, even when its process ignores
\* SIGTERM: term timeout, SIGKILL, burial, offline.
RemovedGoesOffline ==
  \A d \in Dynamic :
    cardType[d] = NULL /\ drv[d] # NULL ~> drv[d] = NULL \/ ~Running

\* A card that stays in its slot has its process started again and again.
StableCardRuns ==
  \A d \in Dynamic, t \in CardType :
    <>[](Running /\ reads[d].type = t) => []<>(child[d] # NULL)

----------------------------------------------------------------------------
(* The abstract specification *)

\* the process of each unit, and what else Supervisor speaks of
SupWorks == [m \in Mng |-> IF child[m] = NULL THEN NULL ELSE pid[child[m]]]
SupAsked == {m \in Mng : child[m] # NULL /\ state[child[m]] # "NORMAL"}
SupEnded == {p \in Pid : prc[p] = "zombie"}

Promise == INSTANCE Supervisor WITH
  Unit <- Mng, Slot <- Dynamic, Proc <- Pid, Card <- CardType, None <- NULL,
  works <- SupWorks, asked <- SupAsked, ended <- SupEnded, online <- drv

\* The manager does what Supervisor says, whatever the order of its timers, the
\* signals, the readings of the slots and Stop, and through a new start: a unit
\* never has a second process while its first one lives, whoever reaps it.
Supervised == Promise!Spec

----------------------------------------------------------------------------
(* What assertions of the code say, and the code does not keep *)

\* CListHeader::del asserts that the node is linked.
DelIsLinked == main # "crashed"

\* CRtPrcInfo::signalTerm asserts that the process is not being killed already.
KillingNotTermed ==
  [][\A r \in Rt : state[r] = "KILLING" => state'[r] \in {"KILLING", "NULL"}]_vars

\* handleNewType asserts (step 4) that the driver takes the card online: it does
\* so when nothing is online in the slot.
OnlineNotRefused ==
  Running => \A d \in Dynamic :
    cardType[d] = NULL /\ child[d] = NULL => drv[d] = NULL
============================================================================
