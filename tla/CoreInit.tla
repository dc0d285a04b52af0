----------------------------- MODULE CoreInit -----------------------------
(***************************************************************************)
(* Loading and unloading the driver core: dmd_init and dmd_exit of         *)
(* pdm/driver/src/dmd.c, with the constructors and destructors they call.  *)
(*                                                                         *)
(* A thing is a pair <<owner, what>>.  dmd_init makes them one after the   *)
(* other; any of them may fail, and then all of dmd_exit runs, over things *)
(* that were made, that were not, and that their own constructor has       *)
(* undone already.                                                         *)
(***************************************************************************)
EXTENDS Integers, Sequences, SequencesExt

CoreDevice == {"main", "sys", "regs", "sifp"}

\* the order of dmd_init
CoreInitOrder ==
  << <<"core", "hw">>, <<"core", "mng">>, <<"core", "region">>, <<"core", "class">>, <<"core", "cb">>,
     <<"main", "cdev">>, <<"main", "node">>, <<"core", "card">>, <<"sys", "cdev">>, <<"sys", "node">>,
     <<"regs", "cdev">>, <<"regs", "node">>, <<"sifp", "cdev">>, <<"sifp", "node">>,
     <<"irq", "driver">>, <<"irq", "line">> >>

\* mutant: the registers are unmapped before the devices are gone
CoreExitOrderHwEarly ==
  << <<"irq", "line">>, <<"irq", "driver">>, <<"sifp", "node">>, <<"sifp", "cdev">>, <<"core", "hw">>,
     <<"regs", "node">>, <<"regs", "cdev">>, <<"sys", "node">>, <<"sys", "cdev">>,
     <<"main", "node">>, <<"main", "cdev">>, <<"core", "card">>, <<"core", "cb">>,
     <<"core", "class">>, <<"core", "region">>, <<"core", "mng">> >>

\* the order of dmd_exit
CoreExitOrder ==
  << <<"irq", "line">>, <<"irq", "driver">>, <<"sifp", "node">>, <<"sifp", "cdev">>,
     <<"regs", "node">>, <<"regs", "cdev">>, <<"sys", "node">>, <<"sys", "cdev">>,
     <<"main", "node">>, <<"main", "cdev">>, <<"core", "card">>, <<"core", "cb">>,
     <<"core", "class">>, <<"core", "region">>, <<"core", "mng">>, <<"core", "hw">> >>

VARIABLES coreMode,   \* where the module stands
          coreStep,   \* the stage of dmd_init or dmd_exit that is next
          coreHeld,   \* the things that exist
          coreReady,  \* devices whose mutex and data are initialised
          coreStray,  \* things undone that did not exist
          coreP2020   \* the build connects the interrupt

coreVars == <<coreMode, coreStep, coreHeld, coreReady, coreStray, coreP2020>>

CoreInit ==
  /\ coreMode = "out" /\ coreStep = 1
  /\ coreHeld = {} /\ coreReady = {} /\ coreStray = {}
  /\ coreP2020 \in BOOLEAN

\* pdm_irq_init and pdm_irq_exit are empty unless built for the p2020.
Connected(t) == t[1] = "irq" => coreP2020

CoreThings == {t \in ToSet(CoreInitOrder) : Connected(t)}

\* insmod: the variables of the module are those of its image.
CoreInsmod ==
  /\ coreMode = "out"
  /\ coreMode' = "init" /\ coreStep' = 1
  /\ coreReady' = {} /\ coreStray' = {}
  /\ UNCHANGED <<coreHeld, coreP2020>>

\* A stage succeeds.  The mutex and the data of a device are initialised
\* before its cdev_add.
CoreMake ==
  LET t == CoreInitOrder[coreStep]
      last == coreStep = Len(CoreInitOrder)
  IN  /\ coreMode = "init"
      /\ coreHeld' = IF Connected(t) THEN coreHeld \cup {t} ELSE coreHeld
      /\ coreReady' = IF t[2] = "cdev" THEN coreReady \cup {t[1]} ELSE coreReady
      /\ coreStep' = IF last THEN 1 ELSE coreStep + 1
      /\ coreMode' = IF last THEN "in" ELSE "init"
      /\ UNCHANGED <<coreStray, coreP2020>>

\* The stages that can fail: pdm_ctor_mng_info cannot, nor can the registration
\* of a type nobody has registered, nor the rest of pdm_card_online.
CoreMayFail(t) ==
  t[1] \in CoreDevice \/ t[2] \in {"hw", "region", "class"} \/ (t[1] = "irq" /\ coreP2020)

\* mutant: class_destroy without looking at the pointer
CheckedNoClass(t) ==
  \/ t[1] = "core" /\ t[2] # "class"
  \/ t = <<"sifp", "node">> \/ ~Connected(t)
  \/ t[1] = "main" /\ <<"core", "card">> \notin coreHeld

\* Undoing a thing that may not exist.  Unchecked: cdev_del, device_destroy
\* except that of the fast path, free_irq, of_unregister_platform_driver.
Checked(t) == \/ t[1] = "core" \/ t = <<"sifp", "node">> \/ ~Connected(t)
              \/ t[1] = "main" /\ <<"core", "card">> \notin coreHeld

Stray(ts) == {t \in ts : t \notin coreHeld /\ ~Checked(t)}

\* mutant: dmd_init returns without dmd_exit when a device fails
CoreFailNoUndo ==
  LET t == CoreInitOrder[coreStep] IN
  /\ coreMode = "init" /\ CoreMayFail(t)
  /\ coreMode' = IF t[2] = "hw" \/ t[1] \in CoreDevice THEN "out" ELSE "fail"
  /\ coreStep' = 1
  /\ UNCHANGED <<coreHeld, coreStray, coreReady, coreP2020>>

\* A stage fails.  A constructor of a device calls its own destructor; then
\* dmd_exit begins, except for the mapping of the registers, the first stage.
CoreFail ==
  LET t == CoreInitOrder[coreStep]
      own == IF t[1] \in CoreDevice THEN {<<t[1], "node">>, <<t[1], "cdev">>} ELSE {}
  IN  /\ coreMode = "init" /\ CoreMayFail(t)
      /\ coreHeld' = coreHeld \ own
      /\ coreStray' = coreStray \cup {s \in own \ coreHeld : s # <<"sifp", "node">>}
      /\ coreMode' = IF t[2] = "hw" THEN "out" ELSE "fail"
      /\ coreStep' = 1
      /\ UNCHANGED <<coreReady, coreP2020>>

\* rmmod: no file is open and no card driver is loaded.
CoreRmmod ==
  /\ coreMode = "in"
  /\ coreMode' = "exit" /\ coreStep' = 1
  /\ UNCHANGED <<coreHeld, coreReady, coreStray, coreP2020>>

\* a stage of dmd_exit
CoreUndo ==
  LET t == CoreExitOrder[coreStep]
      last == coreStep = Len(CoreExitOrder)
  IN  /\ coreMode \in {"fail", "exit"}
      /\ coreHeld' = coreHeld \ {t}
      /\ coreStray' = coreStray \cup Stray({t})
      /\ coreStep' = IF last THEN 1 ELSE coreStep + 1
      /\ coreMode' = IF last THEN "out" ELSE coreMode
      /\ UNCHANGED <<coreReady, coreP2020>>

CoreNext == CoreInsmod \/ CoreMake \/ CoreFail \/ CoreRmmod \/ CoreUndo

CoreSpec == CoreInit /\ [][CoreNext]_coreVars

----------------------------------------------------------------------------
(* Properties *)

CoreTypeOK ==
  /\ coreMode \in {"out", "init", "fail", "in", "exit"}
  /\ coreStep \in 1 .. Len(CoreInitOrder)
  /\ coreHeld \subseteq CoreThings /\ coreStray \subseteq CoreThings
  /\ coreReady \subseteq CoreDevice /\ coreP2020 \in BOOLEAN

\* A device that can be opened has its mutex and data initialised, the
\* registers mapped and the slot table filled, and the interrupt handler
\* likewise; its number and class are still owned.  This holds at every point
\* of dmd_init, of an exit after a failure and of rmmod.
LiveIsReady ==
  /\ \A t \in coreHeld : t[2] \in {"cdev", "line"} =>
       {<<"core", "hw">>, <<"core", "mng">>, <<"core", "region">>} \subseteq coreHeld
  /\ \A d \in CoreDevice : /\ <<d, "cdev">> \in coreHeld => d \in coreReady
                           /\ <<d, "node">> \in coreHeld => <<"core", "class">> \in coreHeld

\* Numbers, class and mapping are given back at most once whichever stage
\* fails, and after a dmd_init that succeeded nothing at all is undone that
\* does not exist: only a failing dmd_init undoes devices twice or in vain.
UndoneOnce ==
  /\ coreMode \in {"in", "exit"} => coreStray = {}
  /\ \A t \in coreStray : t[1] # "core"

\* dmd_init keeps everything or nothing, and dmd_exit after it nothing.  (The
\* interrupt counts as kept by a module that does not connect it.)
CorePromise == INSTANCE AllOrNothing WITH
  Things <- ToSet(CoreInitOrder),
  kept <- CASE coreMode \in {"init", "fail"} -> {}
            [] coreMode = "exit" -> ToSet(CoreInitOrder)
            [] coreMode = "in" -> coreHeld \cup {t \in ToSet(CoreInitOrder) : ~Connected(t)}
            [] coreMode = "out" -> coreHeld

CoreAllOrNothing == CorePromise!Spec
===========================================================================
