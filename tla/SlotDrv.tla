------------------------------- MODULE SlotDrv -------------------------------
(***************************************************************************)
(* The kernel driver's table of card types and slots                       *)
(* (pdm/driver/src/pdm_drv_ext.c) and the driver frame that registers with *)
(* it (template/ukcDrvFrame/src/udf_drv.c, file_op.c), at the granularity  *)
(* of their locks and of the accesses made without one:                    *)
(*                                                                         *)
(*   mgr      the manager's on/off-line ioctls: pdm_card_online, _offline; *)
(*            PrcMng shows that it takes a slot offline, and online again, *)
(*            only when the process of the slot has ended                  *)
(*   shell    insmod and rmmod of the card drivers, one at a time          *)
(*            (pdm_drv_ext.h: all in the same shell)                       *)
(*   app[s]   the process of slot s on the device file of its card         *)
(*   irq      the interrupt of a slot and its two work items; connected    *)
(*            only where pdm_irq_hdl.c is built for the p2020              *)
(*                                                                         *)
(* Lock order: s_card_type_mutex, slot_mutex, m_mutex of the device.       *)
(* pdm_request_irq, pdm_free_irq, pdm_enable_int and pdm_disable_int take  *)
(* no lock.  A step goes up to the next access another thread can see.     *)
(***************************************************************************)
EXTENDS Integers, FiniteSets

CONSTANTS
  NSlot,            \* slots that hold cards: those of ETinSlot_t after the
                    \* pseudo slot ETIN_SLOT_PDM
  Type,             \* card types
  NULL,
  MainInitMayFail,  \* udf_main_init can fail
  MaxSpurious       \* bound: interrupts counted after pdm_disable_int

Slot == 0 .. NSlot - 1
Dev  == Type \X Slot            \* the device of a type in a slot
Work == Slot \X {0, 1}          \* slot_info_t.work

ASSUME SlotAssumption ==
  /\ NSlot \in Nat \ {0} /\ NULL \notin Type
  /\ MaxSpurious \in Nat \ {0, 1}
  /\ MainInitMayFail \in BOOLEAN

VARIABLES
  typeLocked,   \* s_card_type_mutex
  slotLocked,   \* slot_mutex: the slots that have it locked
  devLocked,    \* m_mutex of udf_drv_t: the devices that have it locked
  cb,           \* the types whose cb_online, cb_offline are registered
  loaded,       \* the types whose module's code is there
  typeInfo,     \* slot_info_t.type_info
  dev,          \* g_udf_dev_set and g_udf_hw_addr are not NULL
  isr,          \* the slots with slot_info_t.isr not NULL
  arg,          \* slot_info_t.arg: the type of the device it points at
  enabled,      \* the slots with BIT_INT_ENABLED
  masked,       \* the slots whose bit of the interrupt mask register is set
  pData,        \* m_pData is not NULL
  canRead,      \* BIT_CAN_READ
  app,          \* the process of a slot and its open file
  mgr, shell,   \* the two callers of the driver core
  proc,         \* the slots whose process the manager lets run
  line,         \* the slots whose card asserts its interrupt
  irqPc,        \* the slots pdm_handle_slot_int has masked and not scheduled
  workIdx,      \* BIT_WORK_IDX
  pend, work,   \* the work items: pending, and what their handler is doing
  oops,         \* "isr": slot_int_handler called through NULL or with a NULL arg;
                \* "cb": a callback of a module that is gone was called;
                \* "data": udf_isr called the driver's handler with m_pData NULL
  spurious      \* history: interrupts since the last pdm_disable_int returned;
                \* -1 while the interrupt is enabled or being changed

coreVars == <<typeLocked, slotLocked, cb, loaded, typeInfo, dev>>
irqVars  == <<isr, arg, enabled, masked, spurious>>
fileVars == <<devLocked, pData, canRead, app>>
callVars == <<mgr, shell, proc>>
intVars  == <<line, irqPc, workIdx, pend, work, oops>>
vars     == <<coreVars, irqVars, fileVars, callVars, intVars>>

Init ==
  /\ typeLocked = FALSE /\ slotLocked = {} /\ devLocked = {}
  /\ cb = {} /\ loaded = {} /\ dev = {} /\ typeInfo = [s \in Slot |-> NULL]
  /\ isr = {} /\ arg = [s \in Slot |-> NULL] /\ enabled = {} /\ masked \in SUBSET Slot
  /\ pData = {} /\ canRead = {} /\ app = [s \in Slot |-> [pc |-> "idle", type |-> NULL]]
  /\ mgr = [pc |-> "idle", slot |-> 0, type |-> NULL]
  /\ shell = [pc |-> "idle", type |-> NULL, i |-> 0, ok |-> TRUE]
  /\ proc = {}
  /\ line = {} /\ irqPc = {} /\ workIdx = [s \in Slot |-> 0]
  /\ pend = {} /\ work = [w \in Work |-> [pc |-> "idle", arg |-> NULL]]
  /\ oops = "no" /\ spurious = [s \in Slot |-> -1]

----------------------------------------------------------------------------
(* The callbacks a card driver registers *)

\* udf_online: the device is created, with m_pData NULL and m_flags 0.  When
\* udf_main_init fails it leaves nothing behind.  udf_bh_online does not fail
\* for a slot the core accepts (sifp_reg_for_online).
udf_online(d, ok) ==
  \/ d \in dev /\ ok = FALSE /\ UNCHANGED <<dev, pData, canRead>>
  \/ /\ d \notin dev
     /\ ok = TRUE
     /\ dev' = dev \cup {d}
     /\ pData' = pData \ {d} /\ canRead' = canRead \ {d}
  \/ /\ d \notin dev /\ MainInitMayFail
     /\ ok = FALSE
     /\ UNCHANGED <<dev, pData, canRead>>

\* udf_offline: the device is destroyed, whoever has it open, and its memory,
\* m_pData and m_flags included, is given back.
udf_offline(d) ==
  /\ dev' = dev \ {d}
  /\ pData' = pData \ {d} /\ canRead' = canRead \ {d}

----------------------------------------------------------------------------
(* pdm_card_online and pdm_card_offline, called by the manager *)

CallOnline(s, t) ==
  /\ mgr.pc = "idle" /\ ~typeLocked /\ s \notin proc
  /\ typeLocked' = TRUE
  /\ mgr' = [pc |-> "online", slot |-> s, type |-> t]
  /\ UNCHANGED <<slotLocked, cb, loaded, typeInfo, dev, irqVars, fileVars, shell, proc, intVars>>

\* slot_mutex is taken; a slot that has a card refuses (EEXIST).
OnlineLock ==
  LET s == mgr.slot IN
  /\ mgr.pc = "online" /\ s \notin slotLocked
  /\ \/ /\ typeInfo[s] # NULL
        /\ mgr' = [mgr EXCEPT !.pc = "onlineEnd"]
        /\ UNCHANGED slotLocked
     \/ /\ typeInfo[s] = NULL
        /\ slotLocked' = slotLocked \cup {s}
        /\ mgr' = [mgr EXCEPT !.pc = "onlineCb"]
  /\ UNCHANGED <<typeLocked, cb, loaded, typeInfo, dev, irqVars, fileVars, shell, proc, intVars>>

\* cb_online, when a driver is registered; on failure the type is not recorded.
OnlineCb ==
  LET s == mgr.slot  t == mgr.type IN
  /\ mgr.pc = "onlineCb"
  /\ \/ /\ t \in cb \cap loaded
        /\ \E ok \in BOOLEAN :
             /\ udf_online(<<t, s>>, ok)
             /\ mgr' = [mgr EXCEPT !.pc = IF ok THEN "onlineSave" ELSE "onlineEnd"]
             /\ slotLocked' = IF ok THEN slotLocked ELSE slotLocked \ {s}
        /\ UNCHANGED oops
     \/ /\ t \in cb \ loaded
        /\ oops' = "cb"
        /\ UNCHANGED <<dev, pData, canRead, mgr, slotLocked>>
     \/ /\ t \notin cb
        /\ mgr' = [mgr EXCEPT !.pc = "onlineSave"]
        /\ UNCHANGED <<dev, pData, canRead, slotLocked, oops>>
  /\ UNCHANGED <<typeLocked, cb, loaded, typeInfo, irqVars, devLocked, app, shell, proc, line, irqPc, workIdx, pend, work>>

OnlineSave ==
  LET s == mgr.slot IN
  /\ mgr.pc = "onlineSave"
  /\ typeInfo' = [typeInfo EXCEPT ![s] = mgr.type]
  /\ slotLocked' = slotLocked \ {s}
  /\ mgr' = [mgr EXCEPT !.pc = "onlineEnd"]
  /\ UNCHANGED <<typeLocked, cb, loaded, dev, irqVars, fileVars, shell, proc, intVars>>

\* The ioctl returns; the manager starts the process, whatever the result was.
OnlineEnd ==
  /\ mgr.pc = "onlineEnd"
  /\ typeLocked' = FALSE
  /\ proc' = proc \cup {mgr.slot}
  /\ mgr' = [pc |-> "idle", slot |-> 0, type |-> NULL]
  /\ UNCHANGED <<slotLocked, cb, loaded, typeInfo, dev, irqVars, fileVars, shell, intVars>>

\* The process of the slot has ended.
CallOffline(s) ==
  /\ mgr.pc = "idle" /\ ~typeLocked /\ app[s].pc = "idle"
  /\ typeLocked' = TRUE
  /\ proc' = proc \ {s}
  /\ mgr' = [pc |-> "offline", slot |-> s, type |-> NULL]
  /\ UNCHANGED <<slotLocked, cb, loaded, typeInfo, dev, irqVars, fileVars, shell, intVars>>

\* mutant: slot_mutex is not waited for
OfflineNoLock ==
  LET s == mgr.slot IN
  /\ mgr.pc = "offline"
  /\ slotLocked' = IF typeInfo[s] = NULL THEN slotLocked ELSE slotLocked \cup {s}
  /\ mgr' = [mgr EXCEPT !.pc = IF typeInfo[s] = NULL THEN "offlineEnd" ELSE "offlineIrq"]
  /\ UNCHANGED <<typeLocked, cb, loaded, typeInfo, dev, irqVars, fileVars, shell, proc, intVars>>

\* mutant: slot_mutex is kept on the return for an empty slot
OfflineLockLeft ==
  LET s == mgr.slot IN
  /\ mgr.pc = "offline" /\ s \notin slotLocked
  /\ slotLocked' = slotLocked \cup {s}
  /\ mgr' = [mgr EXCEPT !.pc = IF typeInfo[s] = NULL THEN "offlineEnd" ELSE "offlineIrq"]
  /\ UNCHANGED <<typeLocked, cb, loaded, typeInfo, dev, irqVars, fileVars, shell, proc, intVars>>

OfflineLock ==
  LET s == mgr.slot IN
  /\ mgr.pc = "offline" /\ s \notin slotLocked
  /\ slotLocked' = IF typeInfo[s] = NULL THEN slotLocked ELSE slotLocked \cup {s}
  /\ mgr' = [mgr EXCEPT !.pc = IF typeInfo[s] = NULL THEN "offlineEnd" ELSE "offlineIrq"]
  /\ UNCHANGED <<typeLocked, cb, loaded, typeInfo, dev, irqVars, fileVars, shell, proc, intVars>>

\* pdm_disable_int and pdm_free_irq: with slot_mutex held and the process gone
\* nobody else changes or reads these.
OfflineIrq ==
  LET s == mgr.slot IN
  /\ mgr.pc = "offlineIrq"
  /\ enabled' = enabled \ {s}
  /\ masked' = masked \cup {s}
  /\ spurious' = [spurious EXCEPT ![s] = 0]
  /\ isr' = isr \ {s}
  /\ arg' = [arg EXCEPT ![s] = NULL]
  /\ mgr' = [mgr EXCEPT !.pc = "offlineCb"]
  /\ UNCHANGED <<coreVars, fileVars, shell, proc, intVars>>

\* cb_offline, and the slot is empty.
OfflineCb ==
  LET s == mgr.slot  t == typeInfo[s] IN
  /\ mgr.pc = "offlineCb"
  /\ \/ /\ t \in cb \ loaded
        /\ oops' = "cb"
        /\ UNCHANGED <<dev, pData, canRead, typeInfo, slotLocked, mgr>>
     \/ /\ t \notin cb \ loaded
        /\ IF t \in cb THEN udf_offline(<<t, s>>) ELSE UNCHANGED <<dev, pData, canRead>>
        /\ typeInfo' = [typeInfo EXCEPT ![s] = NULL]
        /\ slotLocked' = slotLocked \ {s}
        /\ mgr' = [mgr EXCEPT !.pc = "offlineEnd"]
        /\ UNCHANGED oops
  /\ UNCHANGED <<typeLocked, cb, loaded, irqVars, devLocked, app, shell, proc, line, irqPc, workIdx, pend, work>>

OfflineEnd ==
  /\ mgr.pc = "offlineEnd"
  /\ typeLocked' = FALSE
  /\ mgr' = [pc |-> "idle", slot |-> 0, type |-> NULL]
  /\ UNCHANGED <<slotLocked, cb, loaded, typeInfo, dev, irqVars, fileVars, shell, proc, intVars>>

----------------------------------------------------------------------------
(* insmod: udf_drv_mod_init and pdm_reg_online_offline_cb *)

Insmod(t) ==
  /\ shell.pc = "idle" /\ t \notin loaded
  /\ loaded' = loaded \cup {t}
  /\ shell' = [pc |-> "reg", type |-> t, i |-> 0, ok |-> TRUE]
  /\ UNCHANGED <<typeLocked, slotLocked, cb, typeInfo, dev, irqVars, fileVars, mgr, proc, intVars>>

\* A type that is registered is refused (EEXIST).
RegLock ==
  /\ shell.pc = "reg" /\ ~typeLocked
  /\ IF shell.type \in cb
     THEN shell' = [shell EXCEPT !.pc = "initFail"] /\ UNCHANGED typeLocked
     ELSE shell' = [shell EXCEPT !.pc = "regSlot"] /\ typeLocked' = TRUE
  /\ UNCHANGED <<slotLocked, cb, loaded, typeInfo, dev, irqVars, fileVars, mgr, proc, intVars>>

\* One slot: cb_online where a card of the type is there already.  The result
\* of the last one is the one returned.
RegSlot ==
  LET s == shell.i  t == shell.type IN
  /\ shell.pc = "regSlot" /\ s < NSlot /\ s \notin slotLocked
  /\ \/ /\ typeInfo[s] = t
        /\ \E ok \in BOOLEAN :
             /\ udf_online(<<t, s>>, ok)
             /\ shell' = [shell EXCEPT !.i = s + 1, !.ok = ok]
     \/ /\ typeInfo[s] # t
        /\ shell' = [shell EXCEPT !.i = s + 1]
        /\ UNCHANGED <<dev, pData, canRead>>
  /\ UNCHANGED <<typeLocked, slotLocked, cb, loaded, typeInfo, irqVars, devLocked, app, mgr, proc, intVars>>

\* mutant: not registered for the slots that come online later
RegSaveNot ==
  /\ shell.pc = "regSlot" /\ shell.i = NSlot
  /\ typeLocked' = FALSE
  /\ shell' = IF shell.ok THEN [pc |-> "idle", type |-> NULL, i |-> 0, ok |-> TRUE]
              ELSE [shell EXCEPT !.pc = "initFail", !.i = 0, !.ok = TRUE]
  /\ UNCHANGED <<slotLocked, cb, loaded, typeInfo, dev, irqVars, fileVars, mgr, proc, intVars>>

\* The callbacks are saved whatever the result is.
RegSave ==
  /\ shell.pc = "regSlot" /\ shell.i = NSlot
  /\ cb' = cb \cup {shell.type}
  /\ typeLocked' = FALSE
  /\ shell' = IF shell.ok THEN [pc |-> "idle", type |-> NULL, i |-> 0, ok |-> TRUE]
              ELSE [shell EXCEPT !.pc = "initFail", !.i = 0, !.ok = TRUE]
  /\ UNCHANGED <<slotLocked, loaded, typeInfo, dev, irqVars, fileVars, mgr, proc, intVars>>

\* udf_drv_mod_init fails: udf_drv_mod_exit does not unregister what did not
\* count as registered, and the module's code goes.
InitFail ==
  /\ shell.pc = "initFail"
  /\ loaded' = loaded \ {shell.type}
  /\ shell' = [shell EXCEPT !.pc = "idle", !.type = NULL]
  /\ UNCHANGED <<typeLocked, slotLocked, cb, typeInfo, dev, irqVars, fileVars, mgr, proc, intVars>>

----------------------------------------------------------------------------
(* rmmod: udf_drv_mod_exit and pdm_unreg_online_offline_cb *)

\* The kernel refuses while a device file of the module is open (cdev.owner).
Rmmod(t) ==
  /\ shell.pc = "idle" /\ t \in loaded
  /\ \A s \in Slot : app[s].type # t
  /\ shell' = [pc |-> "unreg", type |-> t, i |-> 0, ok |-> TRUE]
  /\ UNCHANGED <<coreVars, irqVars, fileVars, mgr, proc, intVars>>

UnregLock ==
  /\ shell.pc = "unreg" /\ ~typeLocked
  /\ typeLocked' = TRUE
  /\ cb' = cb \ {shell.type}
  /\ shell' = [shell EXCEPT !.pc = "unregSlot"]
  /\ UNCHANGED <<slotLocked, loaded, typeInfo, dev, irqVars, fileVars, mgr, proc, intVars>>

\* One slot: cb_offline where a card of the type is; the slot stays online.
UnregSlot ==
  LET s == shell.i  t == shell.type IN
  /\ shell.pc = "unregSlot" /\ s < NSlot /\ s \notin slotLocked
  /\ IF typeInfo[s] = t THEN udf_offline(<<t, s>>) ELSE UNCHANGED <<dev, pData, canRead>>
  /\ shell' = [shell EXCEPT !.i = s + 1]
  /\ UNCHANGED <<typeLocked, slotLocked, cb, loaded, typeInfo, irqVars, devLocked, app, mgr, proc, intVars>>

UnregEnd ==
  /\ shell.pc = "unregSlot" /\ shell.i = NSlot
  /\ typeLocked' = FALSE
  /\ loaded' = loaded \ {shell.type}
  /\ shell' = [pc |-> "idle", type |-> NULL, i |-> 0, ok |-> TRUE]
  /\ UNCHANGED <<slotLocked, cb, typeInfo, dev, irqVars, fileVars, mgr, proc, intVars>>

\* try_module_get succeeds for the type.
Live(t) == t \in loaded /\ ~(shell.type = t /\ shell.pc \in {"unreg", "unregSlot"})

----------------------------------------------------------------------------
(* The process of slot s on the device file of its card *)

\* udf_open up to UDF_DRV_OPEN; m_mutex is held until OpenStore.
Open(s, t) ==
  /\ app[s].pc = "idle" /\ s \in proc
  /\ <<t, s>> \in dev /\ Live(t) /\ <<t, s>> \notin devLocked
  /\ devLocked' = devLocked \cup {<<t, s>>}
  /\ app' = [app EXCEPT ![s] = [pc |-> "open", type |-> t]]
  /\ UNCHANGED <<coreVars, irqVars, pData, canRead, callVars, intVars>>

File(s) == <<app[s].type, s>>

\* udf_open: UDF_DRV_OPEN, and the checks of pdm_request_irq.  With data
\* already, without memory or card, or with an isr there, the open fails.
OpenCheck(s) ==
  /\ app[s].pc = "open"
  /\ \/ /\ File(s) \notin pData
        /\ typeInfo[s] # NULL /\ s \notin isr
        /\ pData' = pData \cup {File(s)}
        /\ app' = [app EXCEPT ![s].pc = "openIrq"]
        /\ UNCHANGED devLocked
     \/ /\ devLocked' = devLocked \ {File(s)}
        /\ app' = [app EXCEPT ![s] = [pc |-> "idle", type |-> NULL]]
        /\ UNCHANGED pData
  /\ UNCHANGED <<coreVars, irqVars, canRead, callVars, intVars>>

\* pdm_request_irq stores arg and isr, in either order seen from elsewhere.
OpenStoreOne(s) ==
  /\ app[s].pc = "openIrq"
  /\ app' = [app EXCEPT ![s].pc = "openIrq2"]
  /\ \/ arg' = [arg EXCEPT ![s] = app[s].type] /\ UNCHANGED isr
     \/ isr' = isr \cup {s} /\ UNCHANGED arg
  /\ UNCHANGED <<coreVars, enabled, masked, spurious, devLocked, pData, canRead, callVars, intVars>>

OpenStore(s) ==
  /\ app[s].pc = "openIrq2"
  /\ app' = [app EXCEPT ![s].pc = "file"]
  /\ arg' = [arg EXCEPT ![s] = app[s].type]
  /\ isr' = isr \cup {s}
  /\ devLocked' = devLocked \ {File(s)}
  /\ UNCHANGED <<coreVars, enabled, masked, spurious, pData, canRead, callVars, intVars>>

\* An ioctl or release begins: m_mutex is taken.
Enter(s, pc) ==
  /\ app[s].pc = "file" /\ File(s) \notin devLocked
  /\ devLocked' = devLocked \cup {File(s)}
  /\ app' = [app EXCEPT ![s].pc = pc]
  /\ UNCHANGED <<coreVars, irqVars, pData, canRead, callVars, intVars>>

\* pdm_enable_int: first the bit, then the register.
EnableBit(s) ==
  /\ app[s].pc = "enable"
  /\ enabled' = enabled \cup {s}
  /\ spurious' = [spurious EXCEPT ![s] = -1]
  /\ app' = [app EXCEPT ![s].pc = "enableReg"]
  /\ UNCHANGED <<coreVars, isr, arg, masked, devLocked, pData, canRead, callVars, intVars>>

\* mutant: the register is left alone
EnableRegNot(s) ==
  /\ app[s].pc = "enableReg"
  /\ app' = [app EXCEPT ![s].pc = "file"]
  /\ devLocked' = devLocked \ {File(s)}
  /\ UNCHANGED <<coreVars, isr, arg, enabled, masked, spurious, pData, canRead, callVars, intVars>>

EnableReg(s) ==
  /\ app[s].pc = "enableReg"
  /\ masked' = masked \ {s}
  /\ app' = [app EXCEPT ![s].pc = "file"]
  /\ devLocked' = devLocked \ {File(s)}
  /\ UNCHANGED <<coreVars, isr, arg, enabled, spurious, pData, canRead, callVars, intVars>>

\* mutant: waits until no handler has slot_mutex
DisableBitLocked(s) ==
  /\ app[s].pc \in {"disable", "release"} /\ s \notin slotLocked
  /\ enabled' = enabled \ {s}
  /\ app' = [app EXCEPT ![s].pc = IF @ = "disable" THEN "disableReg" ELSE "releaseReg"]
  /\ UNCHANGED <<coreVars, isr, arg, masked, spurious, devLocked, pData, canRead, callVars, intVars>>

\* pdm_disable_int: first the bit, then the register; from the ioctl or from
\* pdm_free_irq in udf_release.
DisableBit(s) ==
  /\ app[s].pc \in {"disable", "release"}
  /\ enabled' = enabled \ {s}
  /\ app' = [app EXCEPT ![s].pc = IF @ = "disable" THEN "disableReg" ELSE "releaseReg"]
  /\ UNCHANGED <<coreVars, isr, arg, masked, spurious, devLocked, pData, canRead, callVars, intVars>>

DisableReg(s) ==
  /\ app[s].pc \in {"disableReg", "releaseReg"}
  /\ masked' = masked \cup {s}
  /\ spurious' = [spurious EXCEPT ![s] = 0]
  /\ app' = [app EXCEPT ![s].pc = IF @ = "disableReg" THEN "file" ELSE "releaseIrq"]
  /\ devLocked' = IF app[s].pc = "disableReg" THEN devLocked \ {File(s)} ELSE devLocked
  /\ UNCHANGED <<coreVars, isr, arg, enabled, pData, canRead, callVars, intVars>>

\* udf_read, all of it under m_mutex
Read(s) ==
  /\ app[s].pc = "file" /\ File(s) \notin devLocked
  /\ canRead' = canRead \ {File(s)}
  /\ UNCHANGED <<coreVars, irqVars, devLocked, pData, app, callVars, intVars>>

\* pdm_free_irq clears isr and arg, in either order seen from elsewhere.
ReleaseIrqOne(s) ==
  /\ app[s].pc = "releaseIrq"
  /\ app' = [app EXCEPT ![s].pc = "releaseIrq2"]
  /\ \/ arg' = [arg EXCEPT ![s] = NULL] /\ UNCHANGED isr
     \/ isr' = isr \ {s} /\ UNCHANGED arg
  /\ UNCHANGED <<coreVars, enabled, masked, spurious, devLocked, pData, canRead, callVars, intVars>>

\* mutant: the isr stays
ReleaseIrqKeeps(s) ==
  /\ app[s].pc = "releaseIrq2"
  /\ app' = [app EXCEPT ![s].pc = "releaseData"]
  /\ arg' = [arg EXCEPT ![s] = NULL]
  /\ UNCHANGED <<coreVars, isr, enabled, masked, spurious, devLocked, pData, canRead, callVars, intVars>>

ReleaseIrq(s) ==
  /\ app[s].pc = "releaseIrq2"
  /\ app' = [app EXCEPT ![s].pc = "releaseData"]
  /\ arg' = [arg EXCEPT ![s] = NULL]
  /\ isr' = isr \ {s}
  /\ UNCHANGED <<coreVars, enabled, masked, spurious, devLocked, pData, canRead, callVars, intVars>>

\* udf_release: the data is released, m_mutex given back, the file closed.
ReleaseData(s) ==
  /\ app[s].pc = "releaseData"
  /\ pData' = pData \ {File(s)}
  /\ devLocked' = devLocked \ {File(s)}
  /\ app' = [app EXCEPT ![s] = [pc |-> "idle", type |-> NULL]]
  /\ UNCHANGED <<coreVars, irqVars, canRead, callVars, intVars>>

----------------------------------------------------------------------------
(* The interrupt *)

\* The card asserts its line.  It gives it up when it is served, or by itself.
LineChange(s) ==
  /\ line' = IF s \in line THEN line \ {s} ELSE line \cup {s}
  /\ UNCHANGED <<coreVars, irqVars, fileVars, callVars, irqPc, workIdx, pend, work, oops>>

\* pdm_handle_slot_int, for a slot with its bit set in the register
IrqMask(s) ==
  /\ s \in line /\ s \notin masked /\ s \notin irqPc
  /\ masked' = masked \cup {s}
  /\ irqPc' = irqPc \cup {s}
  /\ spurious' = [spurious EXCEPT ![s] = IF @ \in 0 .. MaxSpurious - 1 THEN @ + 1 ELSE @]
  /\ UNCHANGED <<coreVars, isr, arg, enabled, fileVars, callVars, line, workIdx, pend, work, oops>>

\* mutant: the next index, not the other one
IrqScheduleInc(s) ==
  /\ s \in irqPc
  /\ irqPc' = irqPc \ {s}
  /\ workIdx' = [workIdx EXCEPT ![s] = @ + 1]
  /\ pend' = pend \cup {<<s, workIdx[s]>>}
  /\ UNCHANGED <<coreVars, irqVars, fileVars, callVars, line, work, oops>>

\* The work items are used in turn; one that is pending stays so.
IrqSchedule(s) ==
  /\ s \in irqPc
  /\ irqPc' = irqPc \ {s}
  /\ workIdx' = [workIdx EXCEPT ![s] = 1 - @]
  /\ pend' = pend \cup {<<s, workIdx[s]>>}
  /\ UNCHANGED <<coreVars, irqVars, fileVars, callVars, line, work, oops>>

\* slot_int_handler: the work queue takes the item.
WorkStart(w) ==
  /\ w \in pend /\ work[w].pc = "idle"
  /\ pend' = pend \ {w}
  /\ work' = [work EXCEPT ![w].pc = "lock"]
  /\ UNCHANGED <<coreVars, irqVars, fileVars, callVars, line, irqPc, workIdx, oops>>

\* mutant: BIT_INT_ENABLED is not looked at
WorkCheckAlways(w) ==
  LET s == w[1] IN
  /\ work[w].pc = "lock" /\ s \notin slotLocked
  /\ IF s \in isr
     THEN /\ slotLocked' = slotLocked \cup {s}
          /\ work' = [work EXCEPT ![w].pc = "call"]
     ELSE /\ work' = [work EXCEPT ![w].pc = "idle"]
          /\ UNCHANGED slotLocked
  /\ UNCHANGED <<typeLocked, cb, loaded, typeInfo, dev, irqVars, fileVars, callVars, line, irqPc, workIdx, pend, oops>>

\* slot_mutex is taken, BIT_INT_ENABLED and isr are looked at.
WorkCheck(w) ==
  LET s == w[1] IN
  /\ work[w].pc = "lock" /\ s \notin slotLocked
  /\ IF s \in enabled /\ s \in isr
     THEN /\ slotLocked' = slotLocked \cup {s}
          /\ work' = [work EXCEPT ![w].pc = "call"]
     ELSE /\ work' = [work EXCEPT ![w].pc = "idle"]
          /\ UNCHANGED slotLocked
  /\ UNCHANGED <<typeLocked, cb, loaded, typeInfo, dev, irqVars, fileVars, callVars, line, irqPc, workIdx, pend, oops>>

\* isr is called: the pointer checked, or the one there now; arg is read now.
WorkCall(w) ==
  LET s == w[1] IN
  /\ work[w].pc = "call"
  /\ \/ /\ arg[s] # NULL
        /\ work' = [work EXCEPT ![w] = [pc |-> "isr", arg |-> arg[s]]]
        /\ UNCHANGED oops
     \/ (arg[s] = NULL \/ s \notin isr) /\ oops' = "isr" /\ UNCHANGED work
  /\ UNCHANGED <<coreVars, irqVars, fileVars, callVars, line, irqPc, workIdx, pend>>

\* udf_isr, under m_mutex: the card may be served, the file becomes readable.
\* A result greater than 0 lets the handler unmask the interrupt.  m_pData is
\* passed without a test.  When it is NULL, what happens is up to the driver:
\* udf_bh_isr makes no use of it and the call goes on as any other, while the
\* user's udf_int_handler of the kernel build may follow it.
WorkIsr(w) ==
  LET s == w[1]  d == <<work[w].arg, s>> IN
  /\ work[w].pc = "isr" /\ d \notin devLocked
  /\ canRead' = canRead \cup {d}
  /\ line' \in {line, line \ {s}}
  /\ \E again \in BOOLEAN :
       /\ work' = [work EXCEPT ![w] = [pc |-> IF again THEN "unmask" ELSE "idle", arg |-> NULL]]
       /\ slotLocked' = IF again THEN slotLocked ELSE slotLocked \ {s}
  /\ oops' \in IF d \in pData THEN {oops} ELSE {oops, "data"}
  /\ UNCHANGED <<typeLocked, cb, loaded, typeInfo, dev, irqVars, devLocked, pData, app, callVars, irqPc, workIdx, pend>>

WorkUnmask(w) ==
  LET s == w[1] IN
  /\ work[w].pc = "unmask"
  /\ masked' = masked \ {s}
  /\ slotLocked' = slotLocked \ {s}
  /\ work' = [work EXCEPT ![w].pc = "idle"]
  /\ UNCHANGED <<typeLocked, cb, loaded, typeInfo, dev, isr, arg, enabled, spurious, fileVars, callVars, line, irqPc, workIdx, pend, oops>>

----------------------------------------------------------------------------
\* what a call in progress does next
MgrStep == \/ OnlineLock \/ OnlineCb \/ OnlineSave \/ OnlineEnd
           \/ OfflineLock \/ OfflineIrq \/ OfflineCb \/ OfflineEnd

Mgr == MgrStep \/ \E s \in Slot : CallOffline(s) \/ \E t \in Type : CallOnline(s, t)

ShellStep == \/ RegLock \/ RegSlot \/ RegSave \/ InitFail
             \/ UnregLock \/ UnregSlot \/ UnregEnd

Shell == ShellStep \/ \E t \in Type : Insmod(t) \/ Rmmod(t)

AppStep(s) ==
  \/ OpenCheck(s) \/ OpenStoreOne(s) \/ OpenStore(s)
  \/ EnableBit(s) \/ EnableReg(s) \/ DisableBit(s) \/ DisableReg(s)
  \/ ReleaseIrqOne(s) \/ ReleaseIrq(s) \/ ReleaseData(s)

App(s) == \/ \E t \in Type : Open(s, t)
          \/ \E call \in {"enable", "disable", "release"} : Enter(s, call)
          \/ Read(s) \/ AppStep(s)

Irq(s) == LineChange(s) \/ IrqMask(s) \/ IrqSchedule(s)

Handler(w) == WorkStart(w) \/ WorkCheck(w) \/ WorkCall(w) \/ WorkIsr(w) \/ WorkUnmask(w)

\* After a call through a pointer to nothing, nothing more is said.
Next ==
  \/ oops = "no" /\ (Mgr \/ Shell \/ (\E s \in Slot : App(s) \/ Irq(s)) \/ (\E w \in Work : Handler(w)))
  \/ oops # "no" /\ UNCHANGED vars

Spec == Init /\ [][Next]_vars

\* A call in progress goes on; whoever waits for a mutex gets it in the end
\* (the kernel's mutexes queue their waiters); an interrupt that stays is
\* taken, work that is pending is run.  That a call begins, or a card asserts
\* its line, is nobody's duty.
Go(A) == oops = "no" /\ A

Fairness ==
  /\ SF_vars(Go(MgrStep)) /\ SF_vars(Go(ShellStep))
  /\ \A s \in Slot : /\ WF_vars(Go(AppStep(s)))
                     /\ WF_vars(Go(IrqMask(s))) /\ WF_vars(Go(IrqSchedule(s)))
  /\ \A w \in Work : SF_vars(Go(Handler(w)))

FairSpec == Spec /\ Fairness

----------------------------------------------------------------------------
(* Properties *)

\* Every variable has its type.
MgrPc   == {"idle", "online", "onlineCb", "onlineSave", "onlineEnd",
            "offline", "offlineIrq", "offlineCb", "offlineEnd"}
ShellPc == {"idle", "reg", "regSlot", "initFail", "unreg", "unregSlot"}
AppPc   == {"idle", "open", "openIrq", "openIrq2", "file", "enable", "enableReg", "disable",
            "disableReg", "release", "releaseReg", "releaseIrq", "releaseIrq2", "releaseData"}
WorkPc  == {"idle", "lock", "call", "isr", "unmask"}

TypeOK ==
  /\ typeLocked \in BOOLEAN /\ slotLocked \subseteq Slot /\ devLocked \subseteq Dev
  /\ cb \subseteq Type /\ loaded \subseteq Type /\ dev \subseteq Dev
  /\ typeInfo \in [Slot -> Type \cup {NULL}]
  /\ isr \subseteq Slot /\ arg \in [Slot -> Type \cup {NULL}]
  /\ enabled \subseteq Slot /\ masked \subseteq Slot /\ pData \subseteq Dev /\ canRead \subseteq Dev
  /\ app \in [Slot -> [pc : AppPc, type : Type \cup {NULL}]]
  /\ mgr \in [pc : MgrPc, slot : Slot, type : Type \cup {NULL}]
  /\ shell \in [pc : ShellPc, type : Type \cup {NULL}, i : 0 .. NSlot, ok : BOOLEAN]
  /\ proc \subseteq Slot /\ line \subseteq Slot /\ irqPc \subseteq Slot
  /\ workIdx \in [Slot -> {0, 1}] /\ pend \subseteq Work
  /\ work \in [Work -> [pc : WorkPc, arg : Type \cup {NULL}]]
  /\ oops \in {"no", "isr", "cb", "data"}
  /\ spurious \in [Slot -> -1 .. MaxSpurious]

\* Who holds a mutex, the code keeps no owner: s_card_type_mutex, a call of the
\* manager or the loop over the slots of pdm_(un)reg_online_offline_cb;
\* slot_mutex, a call of the manager between lock and unlock or one of the two
\* work items of the slot; m_mutex, a call on the device file.
ShellHasTypes == shell.pc \in {"regSlot", "unregSlot"}
MgrHolds(s)   == mgr.slot = s /\ mgr.pc \in {"onlineCb", "onlineSave", "offlineIrq", "offlineCb"}
WorkHolds(w)  == work[w].pc \in {"call", "isr", "unmask"}

\* Every locked mutex has an owner that is still at work: of the many early
\* returns of the driver core and of the driver frame, none keeps a mutex.
MutexesOwned ==
  /\ typeLocked => mgr.pc # "idle" \/ ShellHasTypes
  /\ \A s \in slotLocked : MgrHolds(s) \/ WorkHolds(<<s, 0>>) \/ WorkHolds(<<s, 1>>)
  /\ \A d \in Dev : d \in devLocked <=> app[d[2]].pc \notin {"idle", "file"} /\ File(d[2]) = d

\* A call on a device file, and the interrupt handler inside udf_isr, work on
\* a device that exists and code that is loaded: neither the manager's offline
\* nor rmmod frees what is in use.  A call on an open file also has the data of
\* the open; a handler in udf_isr may not, see oops.  The driver whose
\* failed initialisation left its callbacks registered (a t \in cb \ loaded) is
\* the exception, and RegisteredIsLoaded says it should not be there.
NoUseAfterFree ==
  /\ \A s \in Slot : app[s].pc # "idle" =>
       File(s) \in dev /\ app[s].type \in loaded \cup cb
  /\ \A s \in Slot : app[s].pc \notin {"idle", "open"} => File(s) \in pData
  /\ \A w \in Work : work[w].pc = "isr" =>
       <<work[w].arg, w[1]>> \in dev /\ work[w].arg \in loaded \cup cb

\* When s_card_type_mutex is free, a driver has a device for exactly the slot
\* that has its card, whether the card came first or the driver, and whatever
\* failed in between; only a driver that is still being loaded, or whose
\* loading failed, may lack one.  (With several slots a failure in one of them
\* is lost: pdm_reg_online_offline_cb returns the result of the last.)
DevAgrees ==
  ~typeLocked => \A t \in Type, s \in Slot :
    /\ <<t, s>> \in dev => typeInfo[s] = t /\ t \in cb
    /\ typeInfo[s] = t /\ t \in cb \cap loaded /\ shell.type # t => <<t, s>> \in dev

\* An isr, its argument and an enabled interrupt belong to the file that is
\* open on the card now in the slot: nothing of a closed file or of the card
\* before is left for a handler, and pdm_request_irq does not refuse the next
\* one for it.
IrqOwned ==
  \A s \in Slot : s \in isr \/ arg[s] # NULL \/ s \in enabled =>
    /\ app[s].pc # "idle"
    /\ app[s].type = typeInfo[s] /\ arg[s] \in {NULL, typeInfo[s]}

\* pdm_disable_int takes no mutex: a handler that looked at BIT_INT_ENABLED
\* before may unmask the interrupt after.  It happens once; the next interrupt
\* finds the bit clear and leaves the slot masked.
SpuriousOnce == \A s \in Slot : spurious[s] <= 1

\* Every call into the driver core and every call on a device file returns,
\* whoever holds s_card_type_mutex, slot_mutex or m_mutex meanwhile.
OpsComplete ==
  /\ mgr.pc # "idle" ~> mgr.pc = "idle" \/ oops # "no"
  /\ shell.pc # "idle" ~> shell.pc = "idle" \/ oops # "no"
  /\ \A s \in Slot : app[s].pc \notin {"idle", "file"} ~> app[s].pc \in {"idle", "file"} \/ oops # "no"

\* A card that asserts its interrupt while pdm_enable_int is being called, and
\* keeps it asserted, makes its file readable, unless the interrupt is
\* disabled again first: no order of enable, a handler already under way and
\* the two work items loses it.
InterruptServed ==
  \A s \in Slot, t \in Type :
    (app[s] = [pc |-> "enableReg", type |-> t] /\ s \in line)
      ~> (<<t, s>> \in canRead \/ s \notin enabled \/ s \notin line)

\* pdm_drv_ext.h: the argument is passed to the isr when it is issued.  The
\* handler tests isr and then reads isr and arg again, while pdm_free_irq, or
\* pdm_request_irq, stores them without slot_mutex.
IsrArgValid == oops # "isr"

\* pdm_drv_ext.h: a cb_online that fails tells the core, which can discover
\* the failure.  A type whose registration failed is registered all the same,
\* with the callbacks of a module that is unloaded for the failure.
RegisteredIsLoaded == cb \subseteq loaded
=============================================================================
