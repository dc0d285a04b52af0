------------------------------ MODULE UdfMod ------------------------------
(***************************************************************************)
(* A card driver's module and its device, step by step: udf_drv_mod_init,  *)
(* udf_drv_mod_exit, udf_online, udf_offline (udf_drv.c), udf_main_init,   *)
(* udf_main_exit (file_op.c) and udf_bh_online, udf_bh_offline             *)
(* (udf_dbh_ext.c), with a failure at every step that can fail.            *)
(*                                                                         *)
(* The calls of the core come in under s_card_type_mutex: while one runs   *)
(* (udfPc # "idle") no other begins.  One slot; SlotDrv has the locks and  *)
(* the other actors.                                                       *)
(***************************************************************************)
EXTENDS Integers

VARIABLES udfMod,   \* where the module stands
          udfStep,  \* s_init_step
          udfMade,  \* what the module holds: its numbers, class and callbacks
          udfCard,  \* the core has a card of the driver's type in the slot
          udfPc,    \* the next step of udf_online or udf_offline
          udfHas    \* what the device consists of

udfVars == <<udfMod, udfStep, udfMade, udfCard, udfPc, udfHas>>

\* udf_main_init makes mem, cdev and node; addr and set are the entries of
\* g_udf_hw_addr and g_udf_dev_set, sifp the callbacks given to the fast path.
DevThings == {"addr", "mem", "cdev", "node", "set", "sifp"}
OnlinePc  == {"addr", "mem", "cdev", "node", "sifp"}
OfflinePc == {"unsifp", "unnode", "uncdev", "unmem", "unaddr"}

UdfInit ==
  /\ udfMod = "out" /\ udfStep = 0 /\ udfMade = {} /\ udfHas = {}
  /\ udfCard = FALSE /\ udfPc = "idle"

----------------------------------------------------------------------------
(* The module *)

\* insmod: udf_drv_mod_init begins
UdfInsmod ==
  /\ udfMod = "out" /\ udfPc = "idle"
  /\ udfMod' = "init" /\ udfStep' = 0
  /\ UNCHANGED <<udfMade, udfCard, udfPc, udfHas>>

\* alloc_chrdev_region and class_create
UdfStage ==
  /\ udfMod = "init" /\ udfStep \in {0, 1}
  /\ \/ /\ udfMade' = udfMade \cup {<<"region", "class">>[udfStep + 1]}
        /\ udfStep' = udfStep + 1
        /\ UNCHANGED udfMod
     \/ udfMod' = "fail" /\ UNCHANGED <<udfMade, udfStep>>
  /\ UNCHANGED <<udfCard, udfPc, udfHas>>

\* pdm_reg_online_offline_cb: refused if the type is registered; a card that
\* is there comes online.
UdfReg ==
  /\ udfMod = "init" /\ udfStep = 2 /\ udfPc = "idle"
  /\ IF "cb" \in udfMade
     THEN udfMod' = "fail" /\ UNCHANGED udfPc
     ELSE udfMod' = "reg" /\ udfPc' = IF udfCard THEN "addr" ELSE "idle"
  /\ UNCHANGED <<udfStep, udfMade, udfCard, udfHas>>

\* The callbacks are saved whatever udf_online returned.
UdfRegEnd ==
  /\ udfMod = "reg" /\ udfPc = "idle"
  /\ udfMade' = udfMade \cup {"cb"}
  /\ IF udfCard => udfHas = DevThings
     THEN udfMod' = "in" /\ udfStep' = 3
     ELSE udfMod' = "fail" /\ UNCHANGED udfStep
  /\ UNCHANGED <<udfCard, udfPc, udfHas>>

\* rmmod: udf_drv_mod_exit has the core take the card offline.
UdfRmmod ==
  /\ udfMod = "in" /\ udfPc = "idle"
  /\ udfMod' = "exit"
  /\ udfPc' = IF udfCard THEN "unsifp" ELSE "idle"
  /\ UNCHANGED <<udfStep, udfMade, udfCard, udfHas>>

\* udf_drv_mod_exit undoes the steps that s_init_step counts.
UdfUndo ==
  /\ udfMod \in {"fail", "exit"} /\ udfPc = "idle"
  /\ CASE udfStep = 3 -> udfMade' = udfMade \ {"cb"}
       [] udfStep = 2 -> udfMade' = udfMade \ {"class"}
       [] udfStep = 1 -> udfMade' = udfMade \ {"region"}
       [] udfStep = 0 -> UNCHANGED udfMade
  /\ udfStep' = IF udfStep = 0 THEN 0 ELSE udfStep - 1
  /\ udfMod' = IF udfStep <= 1 THEN "out" ELSE udfMod
  /\ UNCHANGED <<udfCard, udfPc, udfHas>>

----------------------------------------------------------------------------
(* The device *)

\* pdm_card_online: with no driver only the type is noted.  A type whose
\* registration failed still has the callbacks of a module that is gone, and
\* what calls them is out of this model (SlotDrv!RegisteredIsLoaded).
UdfCardOnline ==
  /\ ~udfCard /\ udfPc = "idle" /\ udfMod \in {"out", "init", "in"}
  /\ "cb" \in udfMade => udfMod = "in"
  /\ IF "cb" \in udfMade
     THEN udfPc' = "addr" /\ UNCHANGED udfCard
     ELSE udfCard' = TRUE /\ UNCHANGED udfPc
  /\ UNCHANGED <<udfMod, udfStep, udfMade, udfHas>>

UdfCardOffline ==
  /\ udfCard /\ udfPc = "idle" /\ udfMod \in {"out", "init", "in"}
  /\ "cb" \in udfMade => udfMod = "in"
  /\ IF "cb" \in udfMade
     THEN udfPc' = "unsifp" /\ UNCHANGED udfCard
     ELSE udfCard' = FALSE /\ UNCHANGED udfPc
  /\ UNCHANGED <<udfMod, udfStep, udfMade, udfHas>>

\* udf_online returns an error: g_udf_hw_addr is cleared again unless the
\* error is that it was set.
UdfOnlineFails == udfPc' = "idle" /\ UNCHANGED udfCard

\* g_udf_hw_addr is looked at and set.
UdfAddr ==
  /\ udfPc = "addr"
  /\ IF "addr" \in udfHas
     THEN UdfOnlineFails /\ UNCHANGED udfHas
     ELSE udfHas' = udfHas \cup {"addr"} /\ udfPc' = "mem" /\ UNCHANGED udfCard
  /\ UNCHANGED <<udfMod, udfStep, udfMade>>

\* mutant: g_udf_hw_addr stays after a udf_main_init that failed
UdfMainKeeps ==
  /\ \/ /\ udfPc = "mem" /\ udfHas' = udfHas \cup {"mem"} /\ udfPc' = "cdev" /\ UNCHANGED udfCard
     \/ /\ udfPc = "cdev" /\ udfHas' = udfHas \cup {"cdev"} /\ udfPc' = "node" /\ UNCHANGED udfCard
     \/ /\ udfPc = "node" /\ udfHas' = udfHas \cup {"node", "set"} /\ udfPc' = "sifp" /\ UNCHANGED udfCard
     \/ /\ udfPc \in {"mem", "cdev", "node"} /\ udfHas' = udfHas \ {"mem", "cdev", "node"} /\ UdfOnlineFails
  /\ UNCHANGED <<udfMod, udfStep, udfMade>>

\* udf_main_init: malloc, cdev_add, device_create; one that fails runs
\* udf_main_exit, which looks only for the memory.
UdfMain ==
  /\ \/ udfPc = "mem" /\ udfHas' = udfHas \cup {"mem"} /\ udfPc' = "cdev" /\ UNCHANGED udfCard
     \/ udfPc = "cdev" /\ udfHas' = udfHas \cup {"cdev"} /\ udfPc' = "node" /\ UNCHANGED udfCard
     \/ udfPc = "node" /\ udfHas' = udfHas \cup {"node", "set"} /\ udfPc' = "sifp" /\ UNCHANGED udfCard
     \/ /\ udfPc \in {"mem", "cdev", "node"}
        /\ udfHas' = udfHas \ {"mem", "cdev", "node", "addr"}
        /\ UdfOnlineFails
  /\ UNCHANGED <<udfMod, udfStep, udfMade>>

\* udf_bh_online: the fast path refuses only slots a card is never in.
UdfSifp ==
  /\ udfPc = "sifp"
  /\ udfHas' = udfHas \cup {"sifp"}
  /\ udfPc' = "idle" /\ udfCard' = TRUE
  /\ UNCHANGED <<udfMod, udfStep, udfMade>>

\* udf_offline: udf_bh_offline, udf_main_exit, then both tables.  The core
\* keeps the card in its slot if it is the driver that goes.
UdfOfflineStep ==
  /\ udfPc \in OfflinePc
  /\ CASE udfPc = "unsifp" -> udfPc' = "unnode" /\ udfHas' = udfHas \ {"sifp"} /\ UNCHANGED udfCard
       [] udfPc = "unnode" -> udfPc' = "uncdev" /\ udfHas' = udfHas \ {"node"} /\ UNCHANGED udfCard
       [] udfPc = "uncdev" -> udfPc' = "unmem" /\ udfHas' = udfHas \ {"cdev"} /\ UNCHANGED udfCard
       [] udfPc = "unmem" -> udfPc' = "unaddr" /\ udfHas' = udfHas \ {"mem", "set"} /\ UNCHANGED udfCard
       [] udfPc = "unaddr" -> udfPc' = "idle" /\ udfHas' = udfHas \ {"addr"} /\ udfCard' = (udfMod = "exit")
  /\ UNCHANGED <<udfMod, udfStep, udfMade>>

UdfNext ==
  \/ UdfInsmod \/ UdfStage \/ UdfReg \/ UdfRegEnd \/ UdfRmmod \/ UdfUndo
  \/ UdfCardOnline \/ UdfCardOffline \/ UdfAddr \/ UdfMain \/ UdfSifp \/ UdfOfflineStep

UdfSpec == UdfInit /\ [][UdfNext]_udfVars

----------------------------------------------------------------------------
(* Properties *)

UdfTypeOK ==
  /\ udfMod \in {"out", "init", "reg", "fail", "in", "exit"} /\ udfStep \in 0 .. 3
  /\ udfMade \subseteq {"region", "class", "cb"} /\ udfCard \in BOOLEAN
  /\ udfPc \in {"idle"} \cup OnlinePc \cup OfflinePc /\ udfHas \subseteq DevThings

\* udf_online makes the whole device or none of it, udf_offline takes all of
\* it away again: the slot can come online again after both.
DevPromise == INSTANCE AllOrNothing WITH
  Things <- DevThings,
  kept <- IF udfPc \in OnlinePc THEN {} ELSE IF udfPc \in OfflinePc THEN DevThings ELSE udfHas

\* So do udf_drv_mod_init and udf_drv_mod_exit for the module's numbers and
\* class; no device outlasts them.  (The callbacks are left registered by a
\* registration that failed: SlotDrv!RegisteredIsLoaded.)
ModPromise == INSTANCE AllOrNothing WITH
  Things <- {"region", "class"},
  kept <- CASE udfMod \in {"init", "reg", "fail"} -> {}
            [] udfMod = "exit" -> {"region", "class"}
            [] udfMod = "in" -> udfMade \ {"cb"}
            [] udfMod = "out" -> (udfMade \ {"cb"}) \cup udfHas

\* Both: whichever of the card and the driver comes and goes first, and
\* whichever step fails, nothing is left half made.
UdfAllOrNothing == DevPromise!Spec /\ ModPromise!Spec
===========================================================================
