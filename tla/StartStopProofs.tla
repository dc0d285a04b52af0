-------------------------- MODULE StartStopProofs --------------------------
(***************************************************************************)
(* Theorems about what is started and stopped: a card driver's module and  *)
(* its device (UdfMod), the driver core (CoreInit) and an open of a card   *)
(* driver (ThBh).  Each keeps the promise of AllOrNothing: whichever step  *)
(* fails, nothing is left half made; and while the driver core comes and   *)
(* goes, what can be opened finds what it uses.                            *)
(***************************************************************************)
EXTENDS UdfMod, CoreInit, ThBh, TLAPS

----------------------------------------------------------------------------
(* UdfMod: a card driver and its device are there wholly or not at all. *)

\* What the device consists of before each step of udf_online and udf_offline.
HasAt(pc) ==
  CASE pc = "addr" -> {}
    [] pc = "mem" -> {"addr"}
    [] pc = "cdev" -> {"addr", "mem"}
    [] pc = "node" -> {"addr", "mem", "cdev"}
    [] pc = "sifp" -> {"addr", "mem", "cdev", "node", "set"}
    [] pc = "unsifp" -> DevThings
    [] pc = "unnode" -> {"addr", "mem", "cdev", "node", "set"}
    [] pc = "uncdev" -> {"addr", "mem", "cdev", "set"}
    [] pc = "unmem" -> {"addr", "mem", "set"}
    [] pc = "unaddr" -> {"addr"}

\* A device is being made or unmade, or there is one exactly for the card of
\* a driver that is in.
DevOk ==
  /\ udfPc \in OnlinePc => udfMod \in {"reg", "in"} /\ (udfMod = "in" => ~udfCard)
  /\ udfPc \in OfflinePc => udfMod \in {"in", "exit"} /\ udfCard
  /\ udfPc # "idle" => udfHas = HasAt(udfPc)
  /\ udfPc = "idle" =>
       CASE udfMod = "in" -> udfHas = IF udfCard THEN DevThings ELSE {}
         [] udfMod = "reg" -> udfHas = {} \/ (udfHas = DevThings /\ udfCard)
         [] OTHER -> udfHas = {}

\* What s_init_step counts.
MadeAt(step) == CASE step = 0 -> {} [] step = 1 -> {"region"} [] OTHER -> {"region", "class"}

ModOk ==
  /\ udfMade \ {"cb"} = MadeAt(udfStep)
  /\ udfMod = "out" => udfStep = 0
  /\ udfMod \in {"init", "fail"} => udfStep # 3
  /\ udfMod = "reg" => udfStep = 2
  /\ udfMod = "in" => udfStep = 3 /\ "cb" \in udfMade
  /\ udfMod = "exit" => udfStep # 0

UInv == UdfTypeOK /\ DevOk /\ ModOk

\* The module is out and there is no device.
LEMMA UdfInitInv == UdfInit => UInv
<1> SUFFICES ASSUME UdfInit PROVE UInv
  OBVIOUS
<1> USE DEF UdfInit
<1>1. UdfTypeOK
  <2>1. udfMod \in {"out", "init", "reg", "fail", "in", "exit"} /\ udfStep \in 0 .. 3
    OBVIOUS
  <2>2. udfMade \subseteq {"region", "class", "cb"} /\ udfCard \in BOOLEAN /\ udfHas \subseteq DevThings
    OBVIOUS
  <2>3. udfPc \in {"idle"} \cup OnlinePc \cup OfflinePc
    OBVIOUS
  <2> QED
    BY <2>1, <2>2, <2>3 DEF UdfTypeOK
<1>2. DevOk
  BY DEF DevOk, OnlinePc, OfflinePc
<1>3. ModOk
  BY DEF ModOk, MadeAt
<1> QED
  BY <1>1, <1>2, <1>3 DEF UInv

----------------------------------------------------------------------------
\* The types are kept.
LEMMA UdfTypes == UInv /\ [UdfNext]_udfVars => UdfTypeOK'
<1> SUFFICES ASSUME UInv, [UdfNext]_udfVars PROVE UdfTypeOK'
  OBVIOUS
<1> USE DEF UInv, UdfTypeOK, OnlinePc, OfflinePc, DevThings
<1>1. CASE UdfInsmod
  BY <1>1 DEF UdfInsmod
<1>2. CASE UdfStage
  <2>1. udfStep = 0 \/ udfStep = 1
    BY <1>2 DEF UdfStage
  <2>2. udfStep' \in 0 .. 3
    BY <1>2, <2>1 DEF UdfStage
  <2>3. <<"region", "class">>[udfStep + 1] \in {"region", "class"}
    BY <2>1
  <2>4. udfMade' \subseteq {"region", "class", "cb"}
    BY <1>2, <2>3 DEF UdfStage
  <2> QED
    BY <1>2, <2>2, <2>4 DEF UdfStage
<1>3. CASE UdfReg
  BY <1>3 DEF UdfReg
<1>4. CASE UdfRegEnd
  BY <1>4 DEF UdfRegEnd
<1>5. CASE UdfRmmod
  BY <1>5 DEF UdfRmmod
<1>6. CASE UdfUndo
  <2>1. udfStep = 0 \/ udfStep = 1 \/ udfStep = 2 \/ udfStep = 3
    OBVIOUS
  <2>2. udfStep' \in 0 .. 3
    BY <1>6, <2>1 DEF UdfUndo
  <2>3. udfMade' \subseteq udfMade
    BY <1>6, <2>1 DEF UdfUndo
  <2> QED
    BY <1>6, <2>2, <2>3 DEF UdfUndo
<1>7. CASE UdfCardOnline
  BY <1>7 DEF UdfCardOnline
<1>8. CASE UdfCardOffline
  BY <1>8 DEF UdfCardOffline
<1>9. CASE UdfAddr
  BY <1>9 DEF UdfAddr, UdfOnlineFails
<1>10. CASE UdfMain
  BY <1>10 DEF UdfMain, UdfOnlineFails
<1>11. CASE UdfSifp
  BY <1>11 DEF UdfSifp
<1>12. CASE UdfOfflineStep
  BY <1>12 DEF UdfOfflineStep
<1>13. CASE UNCHANGED udfVars
  BY <1>13 DEF udfVars
<1> QED
  BY <1>1, <1>2, <1>3, <1>4, <1>5, <1>6, <1>7, <1>8, <1>9, <1>10, <1>11, <1>12, <1>13 DEF UdfNext

\* s_init_step counts what the module has.
LEMMA UdfModOk == UInv /\ [UdfNext]_udfVars => ModOk'
<1> SUFFICES ASSUME UInv, [UdfNext]_udfVars PROVE ModOk'
  OBVIOUS
<1> USE DEF UInv, UdfTypeOK, ModOk, MadeAt
<1>1. CASE UdfInsmod
  BY <1>1 DEF UdfInsmod
<1>2. CASE UdfStage
  <2>1. udfStep = 0 \/ udfStep = 1
    BY <1>2 DEF UdfStage
  <2>2. CASE udfMod' = "fail" /\ UNCHANGED <<udfMade, udfStep>>
    BY <1>2, <2>2 DEF UdfStage
  <2>3. CASE /\ udfMade' = udfMade \cup {<<"region", "class">>[udfStep + 1]}
             /\ udfStep' = udfStep + 1 /\ UNCHANGED udfMod
    BY <1>2, <2>1, <2>3 DEF UdfStage
  <2> QED
    BY <1>2, <2>2, <2>3 DEF UdfStage
<1>3. CASE UdfReg
  BY <1>3 DEF UdfReg
<1>4. CASE UdfRegEnd
  BY <1>4 DEF UdfRegEnd
<1>5. CASE UdfRmmod
  BY <1>5 DEF UdfRmmod
<1>6. CASE UdfUndo
  <2>1. udfMod' # "in" /\ udfMod' # "reg" /\ udfMod' # "init"
    BY <1>6 DEF UdfUndo
  <2>2. CASE udfStep = 3
    BY <1>6, <2>1, <2>2 DEF UdfUndo
  <2>3. CASE udfStep = 2
    BY <1>6, <2>1, <2>3 DEF UdfUndo
  <2>4. CASE udfStep = 1
    BY <1>6, <2>1, <2>4 DEF UdfUndo
  <2>5. CASE udfStep = 0
    BY <1>6, <2>1, <2>5 DEF UdfUndo
  <2> QED
    BY <2>2, <2>3, <2>4, <2>5
<1>7. CASE UdfCardOnline
  BY <1>7 DEF UdfCardOnline
<1>8. CASE UdfCardOffline
  BY <1>8 DEF UdfCardOffline
<1>9. CASE UdfAddr \/ UdfMain \/ UdfSifp \/ UdfOfflineStep \/ UNCHANGED udfVars
  BY <1>9 DEF UdfAddr, UdfMain, UdfSifp, UdfOfflineStep, udfVars
<1> QED
  BY <1>1, <1>2, <1>3, <1>4, <1>5, <1>6, <1>7, <1>8, <1>9 DEF UdfNext

\* There is a whole device, none, or one that a call is working on.
LEMMA UdfDevOk == UInv /\ [UdfNext]_udfVars => DevOk'
<1> SUFFICES ASSUME UInv, [UdfNext]_udfVars PROVE DevOk'
  OBVIOUS
<1> USE DEF UInv, UdfTypeOK, DevOk, HasAt, OnlinePc, OfflinePc, DevThings
<1>1. CASE UdfInsmod
  BY <1>1 DEF UdfInsmod
<1>2. CASE UdfStage
  BY <1>2 DEF UdfStage
<1>3. CASE UdfReg
  BY <1>3 DEF UdfReg
<1>4. CASE UdfRegEnd
  BY <1>4 DEF UdfRegEnd
<1>5. CASE UdfRmmod
  BY <1>5 DEF UdfRmmod
<1>6. CASE UdfUndo
  BY <1>6 DEF UdfUndo
<1>7. CASE UdfCardOnline
  BY <1>7 DEF UdfCardOnline, ModOk
<1>8. CASE UdfCardOffline
  BY <1>8 DEF UdfCardOffline, ModOk
<1>9. CASE UdfAddr
  BY <1>9 DEF UdfAddr, UdfOnlineFails
<1>10. CASE UdfMain
  BY <1>10 DEF UdfMain, UdfOnlineFails
<1>11. CASE UdfSifp
  BY <1>11 DEF UdfSifp
<1>12. CASE UdfOfflineStep
  BY <1>12 DEF UdfOfflineStep
<1>13. CASE UNCHANGED udfVars
  BY <1>13 DEF udfVars
<1> QED
  BY <1>1, <1>2, <1>3, <1>4, <1>5, <1>6, <1>7, <1>8, <1>9, <1>10, <1>11, <1>12, <1>13 DEF UdfNext

\* The invariant is inductive.
LEMMA UdfNextInv == UInv /\ [UdfNext]_udfVars => UInv'
BY UdfTypes, UdfModOk, UdfDevOk DEF UInv

----------------------------------------------------------------------------
\* Seen from outside: what a call that is going on will have done is not there
\* before its end.
DevKept == IF udfPc \in OnlinePc THEN {} ELSE IF udfPc \in OfflinePc THEN DevThings ELSE udfHas

ModKept == CASE udfMod \in {"init", "reg", "fail"} -> {}
             [] udfMod = "exit" -> {"region", "class"}
             [] udfMod = "in" -> udfMade \ {"cb"}
             [] udfMod = "out" -> (udfMade \ {"cb"}) \cup udfHas

\* The device is all there or not at all, and so are the module's numbers and
\* class.
LEMMA UdfKept ==
  UInv => DevKept \in {{}, DevThings} /\ ModKept \in {{}, {"region", "class"}}
<1> SUFFICES ASSUME UInv
             PROVE  DevKept \in {{}, DevThings} /\ ModKept \in {{}, {"region", "class"}}
  OBVIOUS
<1>1. DevKept \in {{}, DevThings}
  BY DEF UInv, UdfTypeOK, DevOk, DevKept
<1>2. CASE udfMod = "in"
  <2>1. udfMade \ {"cb"} = {"region", "class"}
    BY <1>2 DEF UInv, ModOk, MadeAt
  <2> QED
    BY <1>1, <1>2, <2>1 DEF ModKept
<1>3. CASE udfMod = "out"
  <2>1. udfPc = "idle"
    BY <1>3 DEF UInv, UdfTypeOK, DevOk
  <2>2. udfHas = {}
    BY <1>3, <2>1 DEF UInv, DevOk
  <2>3. udfMade \ {"cb"} = {}
    BY <1>3 DEF UInv, ModOk, MadeAt
  <2> QED
    BY <1>1, <1>3, <2>2, <2>3 DEF ModKept
<1>4. CASE udfMod \in {"init", "reg", "fail", "exit"}
  BY <1>1, <1>4 DEF ModKept
<1> QED
  BY <1>1, <1>2, <1>3, <1>4 DEF UInv, UdfTypeOK

\* Something kept that is all or nothing before and after a step was started,
\* stopped or left alone by it.
LEMMA DevStep == UInv /\ [UdfNext]_udfVars => [DevPromise!Next]_DevKept
<1> SUFFICES ASSUME UInv, [UdfNext]_udfVars PROVE [DevPromise!Next]_DevKept
  OBVIOUS
<1>1. DevKept \in {{}, DevThings}
  BY UdfKept
<1>2. UInv'
  BY UdfNextInv
<1>3. (DevKept \in {{}, DevThings})'
  BY <1>2, UdfKept, PTL
<1> QED
  BY <1>1, <1>3 DEF DevPromise!Next, DevPromise!Start, DevPromise!Stop, DevKept

\* The same for the module's numbers and class.
LEMMA ModStep == UInv /\ [UdfNext]_udfVars => [ModPromise!Next]_ModKept
<1> SUFFICES ASSUME UInv, [UdfNext]_udfVars PROVE [ModPromise!Next]_ModKept
  OBVIOUS
<1>1. ModKept \in {{}, {"region", "class"}}
  BY UdfKept
<1>2. UInv'
  BY UdfNextInv
<1>3. (ModKept \in {{}, {"region", "class"}})'
  BY <1>2, UdfKept, PTL
<1> QED
  BY <1>1, <1>3 DEF ModPromise!Next, ModPromise!Start, ModPromise!Stop, ModKept

\* udf_online, udf_offline, udf_drv_mod_init and udf_drv_mod_exit leave nothing
\* half made, whichever step fails and whichever of card and driver is first.
THEOREM NothingHalfMade == UdfSpec => UdfAllOrNothing
<1>1. UdfInit => DevPromise!Init /\ ModPromise!Init
  BY DEF UdfInit, DevPromise!Init, ModPromise!Init, OnlinePc, OfflinePc
<1>2. UInv /\ [UdfNext]_udfVars => [DevPromise!Next]_DevKept /\ [ModPromise!Next]_ModKept
  BY DevStep, ModStep
<1> QED
  BY <1>1, <1>2, UdfInitInv, UdfNextInv, PTL
  DEF UdfSpec, UdfAllOrNothing, DevPromise!Spec, ModPromise!Spec, DevKept, ModKept

----------------------------------------------------------------------------
(* CoreInit: the driver core is loaded wholly or not at all. *)

\* The stages of dmd_init, and what those before stage i have made and those of
\* dmd_exit have undone.
Stage == 1 .. 16
Thing == {<<"core", "hw">>, <<"core", "mng">>, <<"core", "region">>, <<"core", "class">>, <<"core", "cb">>,
          <<"main", "cdev">>, <<"main", "node">>, <<"core", "card">>, <<"sys", "cdev">>, <<"sys", "node">>,
          <<"regs", "cdev">>, <<"regs", "node">>, <<"sifp", "cdev">>, <<"sifp", "node">>,
          <<"irq", "driver">>, <<"irq", "line">>}
CoreMadeBy(i) == {CoreInitOrder[j] : j \in 1 .. i - 1}
CoreUndoneBy(i) == {CoreExitOrder[j] : j \in 1 .. i - 1}

\* Both orders are of the same things.
LEMMA OrderTypes ==
  /\ Len(CoreInitOrder) = 16 /\ Len(CoreExitOrder) = 16
  /\ \A i \in Stage : CoreInitOrder[i] \in Thing /\ CoreExitOrder[i] \in Thing
  /\ ToSet(CoreInitOrder) = Thing
<1>1. Len(CoreInitOrder) = 16 /\ Len(CoreExitOrder) = 16
  BY DEF CoreInitOrder, CoreExitOrder
<1>2. \A i \in Stage : CoreInitOrder[i] \in Thing
  BY DEF Stage, Thing, CoreInitOrder
<1>3. \A i \in Stage : CoreExitOrder[i] \in Thing
  BY DEF Stage, Thing, CoreExitOrder
<1>4. DOMAIN CoreInitOrder = Stage
  BY DEF CoreInitOrder, Stage
<1>5. \A t \in Thing : \E i \in Stage : t = CoreInitOrder[i]
  BY DEF Stage, Thing, CoreInitOrder
<1>6. ToSet(CoreInitOrder) = Thing
  BY <1>2, <1>4, <1>5 DEF ToSet
<1> QED
  BY <1>1, <1>2, <1>3, <1>6
\* After the last stage all is undone.
LEMMA ExitUndoesAll == \A t \in Thing : \E i \in Stage : t = CoreExitOrder[i]
BY DEF Stage, Thing, CoreExitOrder

\* No stage of dmd_exit undoes what an earlier one has.
LEMMA ExitOnce == \A i, j \in Stage : CoreExitOrder[i] = CoreExitOrder[j] => i = j
BY DEF Stage, CoreExitOrder

\* dmd_init maps the registers, makes the table and takes the numbers before
\* any device or interrupt handler, and the class before any node.
LEMMA InitBaseFirst ==
  \A i \in Stage :
    /\ CoreInitOrder[i][2] \in {"cdev", "line"} =>
         CoreMadeBy(4) \subseteq CoreMadeBy(i)
    /\ CoreInitOrder[i][2] = "node" => <<"core", "class">> \in CoreMadeBy(i)
<1> SUFFICES ASSUME NEW i \in Stage
             PROVE  /\ CoreInitOrder[i][2] \in {"cdev", "line"} => i > 4
                    /\ CoreInitOrder[i][2] = "node" => i > 4
  <2>1. CoreInitOrder[4] = <<"core", "class">>
    BY DEF CoreInitOrder
  <2>2. \A k \in Stage : k > 4 => CoreMadeBy(4) \subseteq CoreMadeBy(k) /\ CoreInitOrder[4] \in CoreMadeBy(k)
    BY DEF CoreMadeBy, Stage
  <2> QED
    BY <2>1, <2>2
<1> QED
  BY DEF CoreInitOrder, Stage

\* What every device needs.
Base == {<<"core", "hw">>, <<"core", "mng">>, <<"core", "region">>}

\* The first three stages make it.
LEMMA BaseIsMade == CoreMadeBy(4) = Base
<1>1. /\ CoreInitOrder[1] = <<"core", "hw">> /\ CoreInitOrder[2] = <<"core", "mng">>
      /\ CoreInitOrder[3] = <<"core", "region">>
  BY DEF CoreInitOrder
<1>2. 1 .. 4 - 1 = {1, 2, 3}
  OBVIOUS
<1> QED
  BY <1>1, <1>2 DEF CoreMadeBy, Base

\* dmd_exit undoes a thing of Base after all devices and the handler, and the
\* class after the nodes.
LEMMA ExitBaseLast ==
  ASSUME NEW i \in Stage, NEW t \in Thing, t \notin CoreUndoneBy(i)
  PROVE  /\ CoreExitOrder[i] \in Base => t[2] \notin {"cdev", "line"}
         /\ CoreExitOrder[i] = <<"core", "class">> => t[2] # "node"
<1>1. PICK j \in Stage : t = CoreExitOrder[j]
  BY ExitUndoesAll
<1>2. j >= i
  BY <1>1 DEF CoreUndoneBy, Stage
<1>3. CoreExitOrder[i] \in Base => i >= 14
  BY DEF CoreExitOrder, Stage, Base
<1>4. CoreExitOrder[i] = <<"core", "class">> => i >= 13
  BY DEF CoreExitOrder, Stage
<1>5. j >= 13 => CoreExitOrder[j][2] \in {"class", "region", "mng", "hw"}
  BY DEF CoreExitOrder, Stage
<1> QED
  BY <1>1, <1>2, <1>3, <1>4, <1>5 DEF Stage

\* What one more stage adds.
LEMMA OneMoreStage ==
  ASSUME NEW i \in Stage
  PROVE  /\ CoreMadeBy(i + 1) = CoreMadeBy(i) \cup {CoreInitOrder[i]}
         /\ CoreUndoneBy(i + 1) = CoreUndoneBy(i) \cup {CoreExitOrder[i]}
<1>1. 1 .. (i + 1) - 1 = (1 .. i - 1) \cup {i}
  BY DEF Stage
<1> QED
  BY <1>1 DEF CoreMadeBy, CoreUndoneBy

\* Before the first stage nothing is made or undone, after the last everything.
LEMMA AllStages ==
  /\ CoreMadeBy(1) = {} /\ CoreUndoneBy(1) = {}
  /\ CoreMadeBy(17) = Thing /\ CoreUndoneBy(17) = Thing
<1>1. 1 .. 1 - 1 = {} /\ 1 .. 17 - 1 = Stage
  BY DEF Stage
<1>2. CoreMadeBy(17) = Thing
  <2>1. \A t \in Thing : \E i \in Stage : t = CoreInitOrder[i]
    BY DEF Stage, Thing, CoreInitOrder
  <2> QED
    BY <1>1, <2>1, OrderTypes DEF CoreMadeBy
<1>3. CoreUndoneBy(17) = Thing
  BY <1>1, OrderTypes, ExitUndoesAll DEF CoreUndoneBy
<1> QED
  BY <1>1, <1>2, <1>3 DEF CoreMadeBy, CoreUndoneBy

----------------------------------------------------------------------------
\* What there is at each point of the module's life.
HeldOk ==
  /\ coreMode = "out" => coreHeld = {}
  /\ coreMode = "init" => coreHeld = {t \in CoreMadeBy(coreStep) : Connected(t)}
  /\ coreMode = "in" => coreHeld = CoreThings
  /\ coreMode = "exit" => coreHeld = CoreThings \ CoreUndoneBy(coreStep)
  /\ coreMode = "fail" => coreHeld \subseteq CoreThings \ CoreUndoneBy(coreStep)

\* What has been undone in vain.
StrayOk ==
  /\ coreMode \in {"init", "in", "exit"} => coreStray = {}
  /\ \A t \in coreStray : t[1] # "core"

\* LiveIsReady, in its parts.
NeedsBase == \A t \in coreHeld : t[2] \in {"cdev", "line"} => Base \subseteq coreHeld
NeedsClass == \A t \in coreHeld : t[2] = "node" => <<"core", "class">> \in coreHeld
NeedsReady == \A t \in coreHeld : t[2] = "cdev" => t[1] \in coreReady

CoreT == /\ coreMode \in {"out", "init", "fail", "in", "exit"}
         /\ coreStep \in Stage /\ coreHeld \subseteq CoreThings

CoreInv == CoreT /\ HeldOk /\ StrayOk /\ NeedsBase /\ NeedsClass /\ NeedsReady

\* The module is not loaded.
LEMMA CoreInitInv == CoreInit => CoreInv
BY DEF CoreInit, CoreInv, CoreT, HeldOk, StrayOk, NeedsBase, NeedsClass, NeedsReady, Stage

\* The things of a load are those that its build connects.
LEMMA ThingsAre == CoreThings = {t \in Thing : Connected(t)}
BY OrderTypes DEF CoreThings

\* A stage of dmd_init that succeeds keeps the invariant.
LEMMA MakeInv == CoreInv /\ CoreMake => CoreInv'
<1> SUFFICES ASSUME CoreInv, CoreMake PROVE CoreInv'
  OBVIOUS
<1> DEFINE i == coreStep
           t == CoreInitOrder[i]
<1>1. /\ coreMode = "init" /\ i \in Stage /\ t \in Thing
      /\ coreHeld = {s \in CoreMadeBy(i) : Connected(s)}
      /\ coreStray = {} /\ NeedsBase /\ NeedsClass /\ NeedsReady
  BY OrderTypes DEF CoreMake, CoreInv, CoreT, HeldOk, StrayOk
<1>2. /\ coreHeld' = IF Connected(t) THEN coreHeld \cup {t} ELSE coreHeld
      /\ coreReady' = IF t[2] = "cdev" THEN coreReady \cup {t[1]} ELSE coreReady
      /\ coreStray' = {} /\ coreP2020' = coreP2020
  BY <1>1 DEF CoreMake
<1>3. (coreMode' = "init" /\ coreStep' = i + 1 /\ i + 1 \in Stage) \/ (coreMode' = "in" /\ coreStep' = 1 /\ i = 16)
  BY <1>1, OrderTypes DEF CoreMake, Stage
<1>4. \A s : Connected(s)' = Connected(s)
  BY <1>2 DEF Connected
<1>5. coreHeld' = {s \in CoreMadeBy(i + 1) : Connected(s)}
  BY <1>1, <1>2, OneMoreStage
<1>6. CoreThings' = CoreThings
  BY <1>4 DEF CoreThings
<1>7. coreHeld' \subseteq CoreThings
  BY <1>1, <1>2, ThingsAre DEF CoreInv, CoreT
<1>8. CoreT'
  BY <1>3, <1>6, <1>7 DEF CoreT, Stage
<1>9. HeldOk'
  <2>1. CASE coreMode' = "init" /\ coreStep' = i + 1
    BY <2>1, <1>4, <1>5 DEF HeldOk
  <2>2. CASE coreMode' = "in" /\ i = 16
    <3>1. coreHeld' = CoreThings
      BY <1>5, <2>2, AllStages, ThingsAre
    <3> QED
      BY <2>2, <3>1, <1>6 DEF HeldOk
  <2> QED
    BY <1>3, <2>1, <2>2
<1>10. StrayOk'
  BY <1>2 DEF StrayOk
<1>11. NeedsBase'
  <2>1. \A s \in Base : Connected(s)
    BY DEF Base, Connected
  <2>2. t[2] \in {"cdev", "line"} => Base \subseteq coreHeld
    BY <1>1, <2>1, InitBaseFirst, BaseIsMade
  <2> QED
    BY <1>1, <1>2, <2>2 DEF NeedsBase
<1>12. NeedsClass'
  <2>1. Connected(<<"core", "class">>)
    BY DEF Connected
  <2>2. t[2] = "node" => <<"core", "class">> \in coreHeld
    BY <1>1, <2>1, InitBaseFirst
  <2> QED
    BY <1>1, <1>2, <2>2 DEF NeedsClass
<1>13. NeedsReady'
  BY <1>1, <1>2 DEF NeedsReady
<1> QED
  BY <1>8, <1>9, <1>10, <1>11, <1>12, <1>13 DEF CoreInv

\* So does one that fails.
LEMMA FailInv == CoreInv /\ CoreFail => CoreInv'
<1> SUFFICES ASSUME CoreInv, CoreFail PROVE CoreInv'
  OBVIOUS
<1> DEFINE i == coreStep
           t == CoreInitOrder[i]
           own == IF t[1] \in CoreDevice THEN {<<t[1], "node">>, <<t[1], "cdev">>} ELSE {}
<1>1. /\ coreMode = "init" /\ i \in Stage /\ t \in Thing
      /\ coreHeld = {s \in CoreMadeBy(i) : Connected(s)} /\ coreHeld \subseteq CoreThings
      /\ coreStray = {} /\ NeedsBase /\ NeedsClass /\ NeedsReady
  BY OrderTypes DEF CoreFail, CoreInv, CoreT, HeldOk, StrayOk
<1>2. /\ coreHeld' = coreHeld \ own /\ coreStep' = 1
      /\ coreMode' = (IF t[2] = "hw" THEN "out" ELSE "fail")
      /\ UNCHANGED <<coreReady, coreP2020>>
      /\ coreStray' \subseteq own
  BY <1>1 DEF CoreFail
<1>3. \A s \in own : s[1] # "core" /\ s[2] \in {"node", "cdev"} /\ s \notin Base /\ s # <<"core", "class">>
  BY DEF CoreDevice, Base
<1>4. CoreThings' = CoreThings
  BY <1>2 DEF CoreThings, Connected
<1>5. CoreT'
  BY <1>1, <1>2, <1>4 DEF CoreT, Stage
<1>6. HeldOk'
  <2>1. CASE t[2] = "hw"
    <3>1. i = 1
      BY <1>1, <2>1 DEF CoreInitOrder, Stage
    <3>2. coreHeld = {}
      BY <1>1, <3>1, AllStages
    <3> QED
      BY <1>2, <2>1, <3>2 DEF HeldOk
  <2>2. CASE t[2] # "hw"
    BY <1>1, <1>2, <1>4, <2>2, AllStages DEF HeldOk
  <2> QED
    BY <2>1, <2>2
<1>7. StrayOk'
  <2>1. coreMode' \in {"out", "fail"}
    BY <1>2
  <2> QED
    BY <1>2, <1>3, <2>1 DEF StrayOk
<1>8. NeedsBase'
  BY <1>1, <1>2, <1>3 DEF NeedsBase
<1>9. NeedsClass'
  BY <1>1, <1>2, <1>3 DEF NeedsClass
<1>10. NeedsReady'
  BY <1>1, <1>2 DEF NeedsReady
<1> QED
  BY <1>5, <1>6, <1>7, <1>8, <1>9, <1>10 DEF CoreInv

\* A stage of dmd_exit keeps it, after a failure and at rmmod.
LEMMA UndoInv == CoreInv /\ CoreUndo => CoreInv'
<1> SUFFICES ASSUME CoreInv, CoreUndo PROVE CoreInv'
  OBVIOUS
<1> DEFINE i == coreStep
           t == CoreExitOrder[i]
<1>1. /\ coreMode \in {"fail", "exit"} /\ i \in Stage /\ t \in Thing
      /\ coreHeld \subseteq CoreThings \ CoreUndoneBy(i)
      /\ coreMode = "exit" => coreHeld = CoreThings \ CoreUndoneBy(i) /\ coreStray = {}
      /\ NeedsBase /\ NeedsClass /\ NeedsReady
      /\ \A s \in coreStray : s[1] # "core"
  BY OrderTypes DEF CoreUndo, CoreInv, CoreT, HeldOk, StrayOk
<1>2. /\ coreHeld' = coreHeld \ {t} /\ coreStray' = coreStray \cup Stray({t})
      /\ UNCHANGED <<coreReady, coreP2020>>
  BY <1>1 DEF CoreUndo
<1>3. \/ coreMode' = coreMode /\ coreStep' = i + 1 /\ i + 1 \in Stage
      \/ coreMode' = "out" /\ coreStep' = 1 /\ i = 16
  BY <1>1, OrderTypes DEF CoreUndo, Stage
<1>4. CoreThings' = CoreThings
  BY <1>2 DEF CoreThings, Connected
<1>5. CoreT'
  BY <1>1, <1>2, <1>3, <1>4 DEF CoreT, Stage
<1>6. HeldOk'
  <2>1. CASE coreMode' = coreMode /\ coreStep' = i + 1
    BY <1>1, <1>2, <1>4, <2>1, OneMoreStage DEF HeldOk
  <2>2. CASE coreMode' = "out" /\ i = 16
    <3>1. coreHeld' \subseteq CoreThings \ CoreUndoneBy(17)
      BY <1>1, <1>2, <2>2, OneMoreStage
    <3>2. coreHeld' = {}
      BY <3>1, AllStages, ThingsAre
    <3> QED
      BY <2>2, <3>2 DEF HeldOk
  <2> QED
    BY <1>3, <2>1, <2>2
<1>7. StrayOk'
  <2>1. \A s \in Stray({t}) : s = t /\ t \notin coreHeld /\ t[1] # "core" /\ Connected(t)
    <3>1. \A s \in Stray({t}) : s = t /\ t \notin coreHeld /\ ~Checked(t)
      BY DEF Stray
    <3>2. ~Checked(t) => t[1] # "core" /\ Connected(t)
      BY DEF Checked
    <3> QED
      BY <3>1, <3>2
  <2>2. ASSUME coreMode = "exit" PROVE Stray({t}) = {}
    <3>1. t \notin CoreUndoneBy(i)
      <4>1. \A j \in 1 .. i - 1 : j \in Stage /\ j # i
        BY <1>1 DEF Stage
      <4> QED
        BY <1>1, <4>1, ExitOnce DEF CoreUndoneBy
    <3>2. Connected(t) => t \in coreHeld
      BY <1>1, <2>2, <3>1, ThingsAre
    <3> QED
      BY <2>1, <3>2
  <2>3. \A s \in coreStray' : s[1] # "core"
    BY <1>1, <1>2, <2>1
  <2>4. coreMode' \in {"init", "in", "exit"} => coreMode = "exit"
    BY <1>1, <1>3
  <2> QED
    BY <1>1, <1>2, <2>2, <2>3, <2>4 DEF StrayOk
<1>8. \A s \in coreHeld : s \in Thing /\ s \notin CoreUndoneBy(i)
  BY <1>1, ThingsAre
<1>9. NeedsBase'
  <2> SUFFICES ASSUME NEW s \in coreHeld', s[2] \in {"cdev", "line"} PROVE Base \subseteq coreHeld'
    BY DEF NeedsBase
  <2>1. s \in coreHeld /\ Base \subseteq coreHeld
    BY <1>1, <1>2 DEF NeedsBase
  <2>2. t \notin Base
    BY <1>1, <1>8, <2>1, ExitBaseLast
  <2> QED
    BY <1>2, <2>1, <2>2
<1>10. NeedsClass'
  <2> SUFFICES ASSUME NEW s \in coreHeld', s[2] = "node" PROVE <<"core", "class">> \in coreHeld'
    BY DEF NeedsClass
  <2>1. s \in coreHeld /\ <<"core", "class">> \in coreHeld
    BY <1>1, <1>2 DEF NeedsClass
  <2>2. t # <<"core", "class">>
    BY <1>1, <1>8, <2>1, ExitBaseLast
  <2> QED
    BY <1>2, <2>1, <2>2
<1>11. NeedsReady'
  BY <1>1, <1>2 DEF NeedsReady
<1> QED
  BY <1>5, <1>6, <1>7, <1>9, <1>10, <1>11 DEF CoreInv

\* Every step of loading and unloading keeps the invariant.
LEMMA CoreNextInv == CoreInv /\ [CoreNext]_coreVars => CoreInv'
<1> SUFFICES ASSUME CoreInv, [CoreNext]_coreVars PROVE CoreInv'
  OBVIOUS
<1>1. CASE CoreInsmod
  <2>1. /\ coreHeld = {} /\ coreHeld' = {} /\ coreMode' = "init" /\ coreStep' = 1 /\ coreStray' = {}
    BY <1>1 DEF CoreInsmod, CoreInv, HeldOk
  <2> QED
    BY <2>1, AllStages DEF CoreInv, CoreT, HeldOk, StrayOk, NeedsBase, NeedsClass, NeedsReady, Stage
<1>2. CASE CoreRmmod
  <2>1. /\ coreHeld = CoreThings /\ UNCHANGED <<coreHeld, coreReady, coreStray, coreP2020>>
        /\ coreMode' = "exit" /\ coreStep' = 1 /\ coreStray = {}
    BY <1>2 DEF CoreRmmod, CoreInv, HeldOk, StrayOk
  <2>2. CoreThings' = CoreThings
    BY <2>1 DEF CoreThings, Connected
  <2>3. CoreT' /\ HeldOk' /\ StrayOk'
    BY <2>1, <2>2, AllStages DEF CoreT, HeldOk, StrayOk, Stage
  <2>4. NeedsBase' /\ NeedsClass' /\ NeedsReady'
    BY <2>1 DEF CoreInv, NeedsBase, NeedsClass, NeedsReady
  <2> QED
    BY <2>3, <2>4 DEF CoreInv
<1>3. CASE UNCHANGED coreVars
  <2>1. UNCHANGED <<coreMode, coreStep, coreHeld, coreReady, coreStray, coreP2020>>
    BY <1>3 DEF coreVars
  <2>2. \A t : Connected(t)' = Connected(t)
    BY <2>1 DEF Connected
  <2>3. CoreThings' = CoreThings
    BY <2>2 DEF CoreThings
  <2> QED
    BY <2>1, <2>2, <2>3 DEF CoreInv, CoreT, HeldOk, StrayOk, NeedsBase, NeedsClass, NeedsReady
<1> QED
  BY <1>1, <1>2, <1>3, MakeInv, FailInv, UndoInv DEF CoreNext

\* At every point of dmd_init, of the exit after a failure and of rmmod, a
\* device that can be opened and an interrupt that can come find what they use.
THEOREM DevicesReady == CoreSpec => []LiveIsReady
<1>1. CoreInv => LiveIsReady
  <2> SUFFICES ASSUME CoreInv PROVE LiveIsReady
    OBVIOUS
  <2>1. ASSUME NEW d \in CoreDevice, <<d, "cdev">> \in coreHeld PROVE d \in coreReady
    BY <2>1 DEF CoreInv, NeedsReady
  <2>2. ASSUME NEW d \in CoreDevice, <<d, "node">> \in coreHeld PROVE <<"core", "class">> \in coreHeld
    BY <2>2 DEF CoreInv, NeedsClass
  <2> QED
    BY <2>1, <2>2 DEF LiveIsReady, CoreInv, NeedsBase, Base
<1> QED
  BY <1>1, CoreInitInv, CoreNextInv, PTL DEF CoreSpec

\* Whichever stage fails, nothing of the core itself is undone in vain, and
\* after a dmd_init that succeeded nothing is.
THEOREM OnceUndone == CoreSpec => []UndoneOnce
<1>1. CoreInv => UndoneOnce
  BY DEF CoreInv, StrayOk, UndoneOnce
<1> QED
  BY <1>1, CoreInitInv, CoreNextInv, PTL DEF CoreSpec

\* The rest of the types: what was undone in vain is a thing of this load, and
\* only devices have a mutex.
CoreRest == coreStray \subseteq CoreThings /\ coreReady \subseteq CoreDevice /\ coreP2020 \in BOOLEAN

\* Every step keeps them.
LEMMA CoreRestKept == CoreInv /\ CoreRest /\ [CoreNext]_coreVars => CoreRest'
<1> SUFFICES ASSUME CoreInv, CoreRest, [CoreNext]_coreVars PROVE CoreRest'
  OBVIOUS
<1>1. coreP2020' = coreP2020
  BY DEF CoreNext, CoreInsmod, CoreMake, CoreFail, CoreRmmod, CoreUndo, coreVars
<1>2. CoreThings' = CoreThings
  BY <1>1 DEF CoreThings, Connected
<1>3. \A d \in CoreDevice : <<d, "node">> \in CoreThings /\ <<d, "cdev">> \in CoreThings
  BY ThingsAre DEF CoreDevice, Thing, Connected
<1>4. CASE CoreMake
  <2>1. CoreInitOrder[coreStep] \in Thing
    BY OrderTypes DEF CoreInv, CoreT
  <2>2. \A t \in Thing : t[2] = "cdev" => t[1] \in CoreDevice
    BY DEF Thing, CoreDevice
  <2>3. coreReady' \subseteq CoreDevice /\ coreStray' = coreStray
    BY <1>4, <2>1, <2>2 DEF CoreMake, CoreRest
  <2> QED
    BY <1>1, <1>2, <2>3 DEF CoreRest
<1>5. CASE CoreFail
  <2> DEFINE t == CoreInitOrder[coreStep]
             own == IF t[1] \in CoreDevice THEN {<<t[1], "node">>, <<t[1], "cdev">>} ELSE {}
  <2>1. own \subseteq CoreThings
    BY <1>3
  <2>2. coreStray' \subseteq coreStray \cup own /\ coreReady' = coreReady
    BY <1>5 DEF CoreFail
  <2> QED
    BY <1>1, <1>2, <2>1, <2>2 DEF CoreRest
<1>6. CASE CoreUndo
  <2> DEFINE t == CoreExitOrder[coreStep]
  <2>1. t \in Thing
    BY OrderTypes DEF CoreInv, CoreT
  <2>2. ~Checked(t) => t \in CoreThings
    BY <2>1, ThingsAre DEF Checked
  <2>3. coreStray' \subseteq CoreThings /\ coreReady' = coreReady
    BY <1>6, <2>2 DEF CoreUndo, CoreRest, Stray
  <2> QED
    BY <1>1, <1>2, <2>3 DEF CoreRest
<1>7. CASE CoreInsmod \/ CoreRmmod \/ UNCHANGED coreVars
  BY <1>1, <1>2, <1>7 DEF CoreInsmod, CoreRmmod, coreVars, CoreRest
<1> QED
  BY <1>4, <1>5, <1>6, <1>7 DEF CoreNext

\* The variables of the core keep their types.
LEMMA CoreTypes == CoreSpec => []CoreTypeOK
<1>1. CoreInit => CoreRest
  BY DEF CoreInit, CoreRest
<1>2. CoreInv /\ CoreRest => CoreTypeOK
  BY OrderTypes DEF CoreInv, CoreT, CoreRest, CoreTypeOK, Stage
<1> QED
  BY <1>1, <1>2, CoreInitInv, CoreNextInv, CoreRestKept, PTL DEF CoreSpec

----------------------------------------------------------------------------
\* Seen from outside: what dmd_init or dmd_exit will have done is not there
\* before its end.
CoreKept ==
  CASE coreMode \in {"init", "fail"} -> {}
    [] coreMode = "exit" -> ToSet(CoreInitOrder)
    [] coreMode = "in" -> coreHeld \cup {t \in ToSet(CoreInitOrder) : ~Connected(t)}
    [] coreMode = "out" -> coreHeld

\* It is everything or nothing.
LEMMA CoreKeptAll == CoreInv => CoreKept \in {{}, ToSet(CoreInitOrder)}
<1> SUFFICES ASSUME CoreInv PROVE CoreKept \in {{}, ToSet(CoreInitOrder)}
  OBVIOUS
<1>1. CASE coreMode \in {"init", "fail", "exit"}
  BY <1>1 DEF CoreKept
<1>2. CASE coreMode = "in"
  <2>1. coreHeld \cup {t \in ToSet(CoreInitOrder) : ~Connected(t)} = ToSet(CoreInitOrder)
    BY <1>2 DEF CoreInv, HeldOk, CoreThings
  <2> QED
    BY <1>2, <2>1 DEF CoreKept
<1>3. CASE coreMode = "out"
  BY <1>3 DEF CoreKept, CoreInv, HeldOk
<1> QED
  BY <1>1, <1>2, <1>3 DEF CoreInv, CoreT

\* A step starts it, stops it or leaves it alone.
LEMMA CoreStep == CoreInv /\ [CoreNext]_coreVars => [CorePromise!Next]_CoreKept
<1> SUFFICES ASSUME CoreInv, [CoreNext]_coreVars PROVE [CorePromise!Next]_CoreKept
  OBVIOUS
<1>1. CoreKept \in {{}, ToSet(CoreInitOrder)}
  BY CoreKeptAll
<1>2. CoreInv'
  BY CoreNextInv
<1>3. (CoreKept \in {{}, ToSet(CoreInitOrder)})'
  BY <1>2, CoreKeptAll, PTL
<1> QED
  BY <1>1, <1>3 DEF CorePromise!Next, CorePromise!Start, CorePromise!Stop, CoreKept

\* dmd_init keeps all that it makes or none of it, whichever stage fails, and
\* dmd_exit leaves nothing.
THEOREM CoreAllThereOrNot == CoreSpec => CoreAllOrNothing
<1>1. CoreInit => CorePromise!Init
  BY DEF CoreInit, CorePromise!Init
<1> QED
  BY <1>1, CoreInitInv, CoreNextInv, CoreStep, PTL
  DEF CoreSpec, CoreAllOrNothing, CorePromise!Spec, CoreKept

----------------------------------------------------------------------------
(* ThBh: an open holds all of what it takes or nothing. *)

\* What an open has before step i, and what a release has left before step i.
ThMadeAt == [kernel |-> <<{}, {"th"}, {"th", "bh"}, {"th", "bh", "bh_ds"}>>,
             user   |-> <<{}, {"th"}, {"th", "fd"}, {"th", "fd"}>>,
             lib    |-> <<{}, {"fd"}>>]

ThLeftAt == [kernel |-> <<{"th", "bh", "bh_ds", "th_ds"}, {"th", "bh", "bh_ds"}, {"th", "bh"}, {"th"}>>,
             user   |-> <<{"th", "fd", "th_ds"}, {"th", "fd"}, {"th", "fd"}, {"th"}>>,
             lib    |-> <<{"fd"}, {"fd"}>>]

\* Whether the mapping is made before step i of an open, or unmade before step i
\* of a release.
Mapped(b, i) == b = "user" /\ i = 4
Unmapped(b, i) == b = "kernel" \/ (b = "user" /\ i > 2) \/ (b = "lib" /\ i > 1)

Build == {"kernel", "user", "lib"}
LastAt == [b \in Build |-> IF b = "lib" THEN 2 ELSE 4]

\* Both halves as a call finds and leaves them.
HalvesOk ==
  /\ thPc[1] = "closed" => thHeld = {} /\ thMaps = thLost
  /\ thPc[1] = "opening" =>
       /\ thPc[2] \in 1 .. LastAt[thBuild] /\ thHeld = ThMadeAt[thBuild][thPc[2]]
       /\ thMaps = IF Mapped(thBuild, thPc[2]) THEN thLost + 1 ELSE thLost
  /\ thPc[1] = "open" =>
       /\ thHeld = ThThings[thBuild]
       /\ thMaps \in IF Unmapped(thBuild, 1) THEN {thLost} ELSE {thLost, thLost + 1}
  /\ thPc[1] = "closing" =>
       /\ thPc[2] \in 1 .. LastAt[thBuild] /\ thHeld = ThLeftAt[thBuild][thPc[2]]
       /\ thMaps \in IF Unmapped(thBuild, thPc[2]) THEN {thLost} ELSE {thLost, thLost + 1}

\* A download's file and buffer, while the driver is open.
DownloadOk ==
  /\ dlPc # "idle" => thPc[1] = "open"
  /\ dlHeld = CASE dlPc = "idle" -> {}
                [] dlPc = "stat" -> {"file"}
                [] dlPc = "read" -> {"file", "buf"}
                [] dlPc = "load" -> {"buf"}

ThT == /\ thBuild \in Build /\ thPc[1] \in {"closed", "opening", "open", "closing"}
       /\ dlPc \in {"idle", "stat", "read", "load"}
       /\ thLost \in Nat

ThInv == ThT /\ HalvesOk /\ DownloadOk

\* A step of an open adds what it says.
LEMMA TakeAdds ==
  ASSUME NEW b \in Build, NEW i \in 1 .. LastAt[b]
  PROVE  LET step == ThSteps[b][i]
             has == IF step = "map" THEN ThMadeAt[b][i] ELSE ThMadeAt[b][i] \cup {step}
         IN  /\ Len(ThSteps[b]) = LastAt[b] /\ Len(ThUndo[b]) = LastAt[b] /\ LastAt[b] \in 1 .. 4
             /\ i = LastAt[b] => has = ThThings[b]
             /\ i < LastAt[b] => has = ThMadeAt[b][i + 1]
             /\ i < LastAt[b] /\ step = "map" => Mapped(b, i + 1) /\ ~Mapped(b, i)
             /\ step = "map" => ~Mapped(b, i)
             /\ i < LastAt[b] /\ step # "map" => (Mapped(b, i + 1) <=> Mapped(b, i))
<1> USE DEF LastAt, Build, ThSteps, ThUndo, ThMadeAt, ThThings, Mapped
<1>1. CASE b = "kernel"
  <2>1. i \in {1, 2, 3, 4}
    BY <1>1
  <2>2. CASE i = 1
    BY <1>1, <2>2
  <2>3. CASE i = 2
    BY <1>1, <2>3
  <2>4. CASE i = 3
    BY <1>1, <2>4
  <2>5. CASE i = 4
    BY <1>1, <2>5
  <2> QED
    BY <2>1, <2>2, <2>3, <2>4, <2>5
<1>2. CASE b = "user"
  <2>1. i \in {1, 2, 3, 4}
    BY <1>2
  <2>2. CASE i = 1
    BY <1>2, <2>2
  <2>3. CASE i = 2
    BY <1>2, <2>3
  <2>4. CASE i = 3
    BY <1>2, <2>4
  <2>5. CASE i = 4
    BY <1>2, <2>5
  <2> QED
    BY <2>1, <2>2, <2>3, <2>4, <2>5
<1>3. CASE b = "lib"
  <2>1. i \in {1, 2}
    BY <1>3
  <2> QED
    BY <1>3, <2>1
<1> QED
  BY <1>1, <1>2, <1>3

\* A step of an open that fails gives back all that those before it took.
LEMMA FailGivesBack ==
  ASSUME NEW b \in {"kernel", "user"}, NEW i \in 1 .. LastAt[b]
  PROVE  /\ ThMadeAt[b][i] \ GivenBack(ThSteps[b][i]) = {}
         /\ Mapped(b, i) <=> ThSteps[b][i] = "th_ds" /\ b = "user"
<1> USE DEF LastAt, Build, ThSteps, ThMadeAt, GivenBack, Mapped
<1>1. CASE b = "kernel"
  <2>1. i \in {1, 2, 3, 4}
    BY <1>1
  <2>2. CASE i = 1
    BY <1>1, <2>2
  <2>3. CASE i = 2
    BY <1>1, <2>3
  <2>4. CASE i = 3
    BY <1>1, <2>4
  <2>5. CASE i = 4
    BY <1>1, <2>5
  <2> QED
    BY <2>1, <2>2, <2>3, <2>4, <2>5
<1>2. CASE b = "user"
  <2>1. i \in {1, 2, 3, 4}
    BY <1>2
  <2>2. CASE i = 1
    BY <1>2, <2>2
  <2>3. CASE i = 2
    BY <1>2, <2>3
  <2>4. CASE i = 3
    BY <1>2, <2>4
  <2>5. CASE i = 4
    BY <1>2, <2>5
  <2> QED
    BY <2>1, <2>2, <2>3, <2>4, <2>5
<1> QED
  BY <1>1, <1>2

\* A step of a release gives back what it says.
LEMMA GiveTakes ==
  ASSUME NEW b \in Build, NEW i \in 1 .. LastAt[b]
  PROVE  LET step == ThUndo[b][i]
             left == IF step = "map" THEN ThLeftAt[b][i] ELSE ThLeftAt[b][i] \ {step}
         IN  /\ ThLeftAt[b][1] = ThThings[b]
             /\ i = LastAt[b] => left = {}
             /\ i < LastAt[b] => left = ThLeftAt[b][i + 1]
             /\ i < LastAt[b] /\ step = "map" => Unmapped(b, i + 1)
             /\ i < LastAt[b] /\ step # "map" => (Unmapped(b, i + 1) <=> Unmapped(b, i))
             /\ i = LastAt[b] => Unmapped(b, i) /\ step # "map"
<1> USE DEF LastAt, Build, ThUndo, ThLeftAt, ThThings, Unmapped
<1>1. CASE b = "kernel"
  <2>1. i \in {1, 2, 3, 4}
    BY <1>1
  <2>2. CASE i = 1
    BY <1>1, <2>2
  <2>3. CASE i = 2
    BY <1>1, <2>3
  <2>4. CASE i = 3
    BY <1>1, <2>4
  <2>5. CASE i = 4
    BY <1>1, <2>5
  <2> QED
    BY <2>1, <2>2, <2>3, <2>4, <2>5
<1>2. CASE b = "user"
  <2>1. i \in {1, 2, 3, 4}
    BY <1>2
  <2>2. CASE i = 1
    BY <1>2, <2>2
  <2>3. CASE i = 2
    BY <1>2, <2>3
  <2>4. CASE i = 3
    BY <1>2, <2>4
  <2>5. CASE i = 4
    BY <1>2, <2>5
  <2> QED
    BY <2>1, <2>2, <2>3, <2>4, <2>5
<1>3. CASE b = "lib"
  <2>1. i \in {1, 2}
    BY <1>3
  <2> QED
    BY <1>3, <2>1
<1> QED
  BY <1>1, <1>2, <1>3
\* Nothing is open.
LEMMA ThInitInv == ThInit => ThInv
<1> SUFFICES ASSUME ThInit PROVE ThInv
  OBVIOUS
<1>1. thPc[1] = "closed"
  BY DEF ThInit
<1>2. ThT
  BY <1>1 DEF ThInit, ThT, Build
<1>3. HalvesOk /\ DownloadOk
  BY <1>1 DEF ThInit, HalvesOk, DownloadOk
<1> QED
  BY <1>2, <1>3 DEF ThInv

\* A step of an open that succeeds keeps the invariant.
LEMMA TakeInv == ThInv /\ ThTake => ThInv'
<1> SUFFICES ASSUME ThInv, ThTake PROVE ThInv'
  OBVIOUS
<1> DEFINE b == thBuild
           i == thPc[2]
           step == ThSteps[b][i]
<1>1. /\ b \in Build /\ i \in 1 .. LastAt[b] /\ thPc[1] = "opening" /\ dlPc = "idle" /\ dlHeld = {}
      /\ thHeld = ThMadeAt[b][i] /\ thLost \in Nat
      /\ thMaps = IF Mapped(b, i) THEN thLost + 1 ELSE thLost
  BY DEF ThTake, ThInv, ThT, HalvesOk, DownloadOk
<1>2. UNCHANGED <<thBuild, thLost, dlPc, dlHeld>>
  BY DEF ThTake
<1>3. /\ step = "map" => thMaps' = thMaps + 1 /\ thHeld' = thHeld
      /\ step # "map" => thHeld' = thHeld \cup {step} /\ thMaps' = thMaps
  BY DEF ThTake
<1>4. thPc' = IF i = LastAt[b] THEN <<"open", 0>> ELSE <<"opening", i + 1>>
  BY <1>1, TakeAdds DEF ThTake
<1>5. LastAt[b] \in 1 .. 4 /\ thHeld' = IF i = LastAt[b] THEN ThThings[b] ELSE ThMadeAt[b][i + 1]
  <2> DEFINE has == IF step = "map" THEN ThMadeAt[b][i] ELSE ThMadeAt[b][i] \cup {step}
  <2>1. LastAt[b] \in 1 .. 4 /\ (i = LastAt[b] => has = ThThings[b]) /\ (i < LastAt[b] => has = ThMadeAt[b][i + 1])
    BY <1>1, TakeAdds
  <2>2. thHeld' = has
    BY <1>1, <1>3
  <2>3. i = LastAt[b] \/ i < LastAt[b]
    BY <1>1, <2>1
  <2> QED
    BY <2>1, <2>2, <2>3
<1>6. thMaps' \in {thLost, thLost + 1} /\ (b = "kernel" => thMaps' = thLost)
  <2>1. step = "map" => ~Mapped(b, i) /\ b # "kernel"
    <3>1. b = "kernel" => step # "map"
      BY <1>1 DEF ThSteps, LastAt
    <3> QED
      BY <1>1, <3>1, TakeAdds
  <2>2. b = "kernel" => ~Mapped(b, i)
    BY DEF Mapped
  <2> QED
    BY <1>1, <1>3, <2>1, <2>2
<1>7. CASE i = LastAt[b]
  <2>1. thPc'[1] = "open"
    BY <1>4, <1>7
  <2>2. thMaps' \in IF Unmapped(b, 1) THEN {thLost} ELSE {thLost, thLost + 1}
    BY <1>6 DEF Unmapped
  <2>3. HalvesOk'
    BY <1>2, <1>5, <1>7, <2>1, <2>2 DEF HalvesOk, Unmapped
  <2> QED
    BY <1>1, <1>2, <2>1, <2>3 DEF ThInv, ThT, DownloadOk
<1>8. CASE i # LastAt[b]
  <2>1. thPc'[1] = "opening" /\ thPc'[2] = i + 1 /\ i + 1 \in 1 .. LastAt[b] /\ i < LastAt[b]
    BY <1>1, <1>4, <1>5, <1>8
  <2>2. thMaps' = IF Mapped(b, i + 1) THEN thLost + 1 ELSE thLost
    BY <1>1, <1>3, <2>1, TakeAdds
  <2>3. HalvesOk'
    BY <1>2, <1>5, <1>8, <2>1, <2>2 DEF HalvesOk, Mapped
  <2> QED
    BY <1>1, <1>2, <2>1, <2>3 DEF ThInv, ThT, DownloadOk
<1> QED
  BY <1>7, <1>8

\* So does one that fails, in either way.
LEMMA FailInvTh == ThInv /\ (ThFail \/ ThLibFail) => ThInv'
<1> SUFFICES ASSUME ThInv, ThFail \/ ThLibFail PROVE ThInv'
  OBVIOUS
<1> DEFINE b == thBuild
           i == thPc[2]
<1>1. /\ b \in Build /\ i \in 1 .. LastAt[b] /\ dlPc = "idle" /\ dlHeld = {}
      /\ thHeld = ThMadeAt[b][i] /\ thLost \in Nat
      /\ thMaps = IF Mapped(b, i) THEN thLost + 1 ELSE thLost
      /\ UNCHANGED <<thBuild, thMaps, dlPc, dlHeld>>
  BY DEF ThFail, ThLibFail, ThInv, ThT, HalvesOk, DownloadOk
<1>2. CASE ThFail
  <2>1. /\ b \in {"kernel", "user"} /\ thPc' = <<"closed", 0>>
        /\ thHeld' = thHeld \ GivenBack(ThSteps[b][i])
        /\ thLost' = IF ThSteps[b][i] = "th_ds" /\ b = "user" THEN thLost + 1 ELSE thLost
    BY <1>1, <1>2 DEF ThFail, Build
  <2>2. thHeld' = {} /\ thMaps' = thLost' /\ thLost' \in Nat
    BY <1>1, <2>1, FailGivesBack
  <2>3. thPc'[1] = "closed"
    BY <2>1
  <2> QED
    BY <1>1, <2>2, <2>3 DEF ThInv, ThT, HalvesOk, DownloadOk
<1>3. CASE ThLibFail
  <2>1. /\ b = "lib" /\ UNCHANGED <<thHeld, thLost>>
        /\ thPc' = IF "fd" \in thHeld THEN <<"open", 0>> ELSE <<"closed", 0>>
    BY <1>1, <1>3 DEF ThLibFail
  <2>2. thMaps = thLost /\ thHeld \in {{}, {"fd"}} /\ ThThings[b] = {"fd"}
    <3>1. i \in {1, 2}
      BY <1>1, <2>1 DEF LastAt, Build
    <3>2. thHeld \in {{}, {"fd"}}
      BY <1>1, <2>1, <3>1 DEF ThMadeAt
    <3> QED
      BY <1>1, <2>1, <3>2 DEF Mapped, ThThings
  <2>3. CASE "fd" \in thHeld
    <3>1. thPc'[1] = "open" /\ thHeld' = ThThings[b]
      BY <2>1, <2>2, <2>3
    <3>2. HalvesOk'
      BY <1>1, <2>1, <2>2, <3>1 DEF HalvesOk
    <3> QED
      BY <1>1, <2>1, <3>1, <3>2 DEF ThInv, ThT, DownloadOk
  <2>4. CASE "fd" \notin thHeld
    <3>1. thPc'[1] = "closed" /\ thHeld' = {}
      BY <2>1, <2>2, <2>4
    <3>2. HalvesOk'
      BY <1>1, <2>1, <2>2, <3>1 DEF HalvesOk
    <3> QED
      BY <1>1, <2>1, <3>1, <3>2 DEF ThInv, ThT, DownloadOk
  <2> QED
    BY <2>3, <2>4
<1> QED
  BY <1>2, <1>3

\* A step of a release keeps it.
LEMMA GiveInv == ThInv /\ ThGive => ThInv'
<1> SUFFICES ASSUME ThInv, ThGive PROVE ThInv'
  OBVIOUS
<1> DEFINE b == thBuild
           i == thPc[2]
           step == ThUndo[b][i]
<1>1. /\ b \in Build /\ i \in 1 .. LastAt[b] /\ thPc[1] = "closing" /\ dlPc = "idle" /\ dlHeld = {}
      /\ thHeld = ThLeftAt[b][i] /\ thLost \in Nat
      /\ thMaps \in IF Unmapped(b, i) THEN {thLost} ELSE {thLost, thLost + 1}
  BY DEF ThGive, ThInv, ThT, HalvesOk, DownloadOk
<1>2. UNCHANGED <<thBuild, thLost, dlPc, dlHeld>>
  BY DEF ThGive
<1>3. /\ step = "map" => thMaps' = (IF thMaps > thLost THEN thMaps - 1 ELSE thMaps) /\ thHeld' = thHeld
      /\ step # "map" => thHeld' = thHeld \ {step} /\ thMaps' = thMaps
  BY DEF ThGive
<1>4. thPc' = IF i = LastAt[b] THEN <<"closed", 0>> ELSE <<"closing", i + 1>>
  BY <1>1, TakeAdds DEF ThGive
<1>5. LastAt[b] \in 1 .. 4 /\ thHeld' = IF i = LastAt[b] THEN {} ELSE ThLeftAt[b][i + 1]
  <2> DEFINE left == IF step = "map" THEN ThLeftAt[b][i] ELSE ThLeftAt[b][i] \ {step}
  <2>1. LastAt[b] \in 1 .. 4
    BY <1>1, TakeAdds
  <2>2. (i = LastAt[b] => left = {}) /\ (i < LastAt[b] => left = ThLeftAt[b][i + 1])
    BY <1>1, GiveTakes
  <2>3. thHeld' = left
    BY <1>1, <1>3
  <2>4. i = LastAt[b] \/ i < LastAt[b]
    BY <1>1, <2>1
  <2> QED
    BY <2>1, <2>2, <2>3, <2>4
<1>6. step = "map" => thMaps' = thLost
  BY <1>1, <1>3
<1>7. CASE i = LastAt[b]
  <2>1. thPc'[1] = "closed"
    BY <1>4, <1>7
  <2>2. thMaps' = thLost
    BY <1>1, <1>3, <1>7, GiveTakes
  <2>3. HalvesOk'
    BY <1>2, <1>5, <1>7, <2>1, <2>2 DEF HalvesOk
  <2> QED
    BY <1>1, <1>2, <2>1, <2>3 DEF ThInv, ThT, DownloadOk
<1>8. CASE i # LastAt[b]
  <2>1. thPc'[1] = "closing" /\ thPc'[2] = i + 1 /\ i + 1 \in 1 .. LastAt[b] /\ i < LastAt[b]
    BY <1>1, <1>4, <1>5, <1>8
  <2>2. thMaps' \in IF Unmapped(b, i + 1) THEN {thLost} ELSE {thLost, thLost + 1}
    <3>1. CASE step = "map"
      BY <1>6, <3>1
    <3>2. CASE step # "map"
      BY <1>1, <1>3, <2>1, <3>2, GiveTakes
    <3> QED
      BY <3>1, <3>2
  <2>3. HalvesOk'
    BY <1>2, <1>5, <1>8, <2>1, <2>2 DEF HalvesOk, Unmapped
  <2> QED
    BY <1>1, <1>2, <2>1, <2>3 DEF ThInv, ThT, DownloadOk
<1> QED
  BY <1>7, <1>8

\* Every call on a card's device file keeps it.
LEMMA ThNextInv == ThInv /\ [ThNext]_thVars => ThInv'
<1> SUFFICES ASSUME ThInv, [ThNext]_thVars PROVE ThInv'
  OBVIOUS
<1>1. CASE ThOpen
  <2>1. /\ thPc[1] = "closed" /\ thPc'[1] = "opening" /\ thPc'[2] = 1
        /\ thHeld = {} /\ thMaps = thLost /\ thBuild \in Build
        /\ UNCHANGED <<thBuild, thHeld, thMaps, thLost, dlPc, dlHeld>>
    BY <1>1 DEF ThOpen, ThInv, ThT, HalvesOk
  <2>2. ThMadeAt[thBuild][1] = {} /\ 1 \in 1 .. LastAt[thBuild] /\ ~Mapped(thBuild, 1)
    BY <2>1 DEF ThMadeAt, LastAt, Build, Mapped
  <2>3. HalvesOk'
    BY <2>1, <2>2 DEF HalvesOk, Mapped
  <2> QED
    BY <2>1, <2>3 DEF ThInv, ThT, DownloadOk
<1>2. CASE ThRelease
  <2>1. /\ thPc[1] = "open" /\ thPc'[1] = "closing" /\ thPc'[2] = 1 /\ dlPc = "idle"
        /\ thHeld = ThThings[thBuild] /\ thBuild \in Build
        /\ thMaps \in IF Unmapped(thBuild, 1) THEN {thLost} ELSE {thLost, thLost + 1}
        /\ UNCHANGED <<thBuild, thHeld, thMaps, thLost, dlPc, dlHeld>>
    BY <1>2 DEF ThRelease, ThInv, ThT, HalvesOk
  <2>2. 1 \in 1 .. LastAt[thBuild]
    BY <2>1 DEF LastAt, Build
  <2>3. ThLeftAt[thBuild][1] = ThThings[thBuild]
    BY <2>1, <2>2, GiveTakes
  <2>4. HalvesOk'
    BY <2>1, <2>2, <2>3 DEF HalvesOk, Unmapped
  <2> QED
    BY <2>1, <2>4 DEF ThInv, ThT, DownloadOk
<1>3. CASE DlOpen \/ DlStat \/ DlRead \/ DlLoad
  <2>1. UNCHANGED <<thBuild, thPc, thHeld, thMaps, thLost>> /\ thPc[1] = "open"
    BY <1>3 DEF DlOpen, DlStat, DlRead, DlLoad, ThInv, DownloadOk
  <2>2. ThT' /\ DownloadOk'
    BY <1>3, <2>1 DEF DlOpen, DlStat, DlRead, DlLoad, ThInv, ThT, DownloadOk
  <2>3. HalvesOk'
    BY <2>1 DEF ThInv, HalvesOk, Unmapped, Mapped
  <2> QED
    BY <2>2, <2>3 DEF ThInv
<1>4. CASE UNCHANGED thVars
  BY <1>4 DEF thVars, ThInv, ThT, HalvesOk, DownloadOk, Mapped, Unmapped
<1> QED
  BY <1>1, <1>2, <1>3, <1>4, TakeInv, FailInvTh, GiveInv DEF ThNext

----------------------------------------------------------------------------
\* Seen from outside: an open or a release that is going on has not been, and a
\* download leaves nothing.
ThKept ==
  CASE thPc[1] = "opening" -> {}
    [] thPc[1] = "closing" \/ dlPc # "idle" -> {"open"}
    [] thPc[1] = "open" /\ dlPc = "idle" /\ thHeld = ThThings[thBuild] -> {"open"} \cup dlHeld
    [] OTHER -> thHeld \cup dlHeld \cup (IF thMaps > thLost THEN {"map"} ELSE {})

\* The driver is open or it is not.
LEMMA ThKeptAll == ThInv => ThKept \in {{}, {"open"}}
<1> SUFFICES ASSUME ThInv PROVE ThKept \in {{}, {"open"}}
  OBVIOUS
<1> USE DEF ThInv, ThT, HalvesOk, DownloadOk
<1>1. CASE thPc[1] = "opening"
  BY <1>1 DEF ThKept
<1>2. CASE thPc[1] = "closing" \/ dlPc # "idle"
  BY <1>2 DEF ThKept
<1>3. CASE thPc[1] = "open" /\ dlPc = "idle"
  BY <1>3 DEF ThKept
<1>4. CASE thPc[1] = "closed" /\ dlPc = "idle"
  <2>1. ThKept = thHeld \cup dlHeld \cup (IF thMaps > thLost THEN {"map"} ELSE {})
    BY <1>4 DEF ThKept
  <2>2. thHeld = {} /\ dlHeld = {} /\ ~(thMaps > thLost)
    BY <1>4
  <2> QED
    BY <2>1, <2>2
<1> QED
  BY <1>1, <1>2, <1>3, <1>4

\* A step opens it, closes it or leaves it as it is.
LEMMA ThStep == ThInv /\ [ThNext]_thVars => [ThPromise!Next]_ThKept
<1> SUFFICES ASSUME ThInv, [ThNext]_thVars PROVE [ThPromise!Next]_ThKept
  OBVIOUS
<1>1. ThKept \in {{}, {"open"}}
  BY ThKeptAll
<1>2. ThInv'
  BY ThNextInv
<1>3. (ThKept \in {{}, {"open"}})'
  BY <1>2, ThKeptAll, PTL
<1> QED
  BY <1>1, <1>3 DEF ThPromise!Next, ThPromise!Start, ThPromise!Stop, ThKept

\* Whichever step of an open fails, in every build, memory, file and constructed
\* data are given back, and a release gives back all of an open; the mapping of
\* an open whose constructor fails is what thLost counts.
THEOREM OpenOrNot == ThSpec => ThAllOrNothing
<1>1. ThInit => ThPromise!Init
  <2> SUFFICES ASSUME ThInit PROVE ThKept = {}
    BY DEF ThPromise!Init, ThKept
  <2>1. thPc[1] = "closed" /\ dlPc = "idle" /\ thHeld = {} /\ dlHeld = {} /\ ~(thMaps > thLost)
    BY DEF ThInit
  <2>2. ThThings[thBuild] # {}
    BY DEF ThInit, ThThings
  <2> QED
    BY <2>1, <2>2 DEF ThKept
<1> QED
  BY <1>1, ThInitInv, ThNextInv, ThStep, PTL
  DEF ThSpec, ThAllOrNothing, ThPromise!Spec, ThKept

----------------------------------------------------------------------------
\* The rest of the types of an open: where it stands, and how many mappings
\* there may be.
ThRest == /\ thPc \in {"closed", "opening", "open", "closing"} \X (0 .. 4)
          /\ thLost \in 0 .. MaxLost

\* Every step keeps them.
LEMMA ThRestKept == ThInv /\ ThRest /\ [ThNext]_thVars => ThRest'
<1> SUFFICES ASSUME ThInv, ThRest, [ThNext]_thVars PROVE ThRest'
  OBVIOUS
<1>1. \A b \in Build : LastAt[b] \in 1 .. 4 /\ Len(ThSteps[b]) = LastAt[b] /\ Len(ThUndo[b]) = LastAt[b]
  <2> TAKE b \in Build
  <2>1. 1 \in 1 .. LastAt[b]
    BY DEF Build, LastAt
  <2> QED
    BY <2>1, TakeAdds
<1>2. thBuild \in Build
  BY DEF ThInv, ThT
<1>3. CASE ThOpen \/ ThRelease
  BY <1>3 DEF ThOpen, ThRelease, ThRest
<1>4. CASE ThTake
  <2>1. thPc[2] \in 1 .. LastAt[thBuild]
    BY <1>4 DEF ThTake, ThInv, HalvesOk
  <2>2. thPc' = IF thPc[2] = LastAt[thBuild] THEN <<"open", 0>> ELSE <<"opening", thPc[2] + 1>>
    BY <1>1, <1>2, <1>4 DEF ThTake
  <2>3. thPc[2] = LastAt[thBuild] \/ thPc[2] + 1 \in 0 .. 4
    BY <1>1, <1>2, <2>1
  <2>4. thPc' \in {"closed", "opening", "open", "closing"} \X (0 .. 4)
    BY <2>2, <2>3
  <2> QED
    BY <1>4, <2>4 DEF ThTake, ThRest
<1>5. CASE ThGive
  <2>1. thPc[2] \in 1 .. LastAt[thBuild]
    BY <1>5 DEF ThGive, ThInv, HalvesOk
  <2>2. thPc' = IF thPc[2] = LastAt[thBuild] THEN <<"closed", 0>> ELSE <<"closing", thPc[2] + 1>>
    BY <1>1, <1>2, <1>5 DEF ThGive
  <2>3. thPc[2] = LastAt[thBuild] \/ thPc[2] + 1 \in 0 .. 4
    BY <1>1, <1>2, <2>1
  <2>4. thPc' \in {"closed", "opening", "open", "closing"} \X (0 .. 4)
    BY <2>2, <2>3
  <2> QED
    BY <1>5, <2>4 DEF ThGive, ThRest
<1>6. CASE ThFail
  <2>1. thPc' = <<"closed", 0>>
    BY <1>6 DEF ThFail
  <2>2. thLost' = thLost \/ (thLost < MaxLost /\ thLost' = thLost + 1)
    BY <1>6 DEF ThFail
  <2>3. thLost' \in 0 .. MaxLost
    BY <2>2, LostAssumption DEF ThRest
  <2> QED
    BY <2>1, <2>3 DEF ThRest
<1>7. CASE ThLibFail
  BY <1>7 DEF ThLibFail, ThRest
<1>8. CASE DlOpen \/ DlStat \/ DlRead \/ DlLoad \/ UNCHANGED thVars
  BY <1>8 DEF DlOpen, DlStat, DlRead, DlLoad, thVars, ThRest
<1> QED
  BY <1>3, <1>4, <1>5, <1>6, <1>7, <1>8 DEF ThNext

\* An open holds only what an open driver consists of, and a mapping more than
\* the lost ones at most.
LEMMA ThHeldMaps ==
  ThInv /\ ThRest => thHeld \subseteq ThThings[thBuild] /\ thMaps \in 0 .. MaxLost + 1
<1> SUFFICES ASSUME ThInv, ThRest
             PROVE  thHeld \subseteq ThThings[thBuild] /\ thMaps \in 0 .. MaxLost + 1
  OBVIOUS
<1>1. thBuild \in Build /\ thPc[1] \in {"closed", "opening", "open", "closing"} /\ HalvesOk
  BY DEF ThInv, ThT
<1>2. thMaps \in {thLost, thLost + 1}
  BY <1>1 DEF HalvesOk
<1>3. thMaps \in 0 .. MaxLost + 1
  BY <1>2, LostAssumption DEF ThRest
<1>4. \A b \in Build : \A i \in 1 .. LastAt[b] :
        ThMadeAt[b][i] \subseteq ThThings[b] /\ ThLeftAt[b][i] \subseteq ThThings[b]
  <2> SUFFICES ASSUME NEW b \in Build, NEW i \in 1 .. LastAt[b]
               PROVE  ThMadeAt[b][i] \subseteq ThThings[b] /\ ThLeftAt[b][i] \subseteq ThThings[b]
    OBVIOUS
  <2> USE DEF Build, LastAt, ThMadeAt, ThLeftAt, ThThings
  <2>1. CASE b = "kernel"
    <3>1. i = 1 \/ i = 2 \/ i = 3 \/ i = 4
      BY <2>1
    <3> QED
      BY <2>1, <3>1
  <2>2. CASE b = "user"
    <3>1. i = 1 \/ i = 2 \/ i = 3 \/ i = 4
      BY <2>2
    <3> QED
      BY <2>2, <3>1
  <2>3. CASE b = "lib"
    <3>1. i = 1 \/ i = 2
      BY <2>3
    <3> QED
      BY <2>3, <3>1
  <2> QED
    BY <2>1, <2>2, <2>3
<1>5. thHeld \subseteq ThThings[thBuild]
  BY <1>1, <1>4 DEF HalvesOk
<1> QED
  BY <1>3, <1>5

\* The variables of an open keep their types.
LEMMA ThTypes == ThSpec => []ThTypeOK
<1>1. ThInit => ThRest
  BY LostAssumption DEF ThInit, ThRest
<1>2. ThInv /\ ThRest => ThTypeOK
  <2> SUFFICES ASSUME ThInv, ThRest PROVE ThTypeOK
    OBVIOUS
  <2>1. dlHeld \subseteq {"file", "buf"} /\ dlPc \in {"idle", "stat", "read", "load"}
    BY DEF ThInv, ThT, DownloadOk
  <2> QED
    BY <2>1, ThHeldMaps DEF ThInv, ThT, Build, ThRest, ThTypeOK
<1> QED
  BY <1>1, <1>2, ThInitInv, ThNextInv, ThRestKept, PTL DEF ThSpec
============================================================================
