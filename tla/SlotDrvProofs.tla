---------------------------- MODULE SlotDrvProofs ----------------------------
(***************************************************************************)
(* Theorems about the kernel driver's table of card types and slots, for   *)
(* every number of slots and card types.  Nothing here depends on who gets *)
(* a mutex next, nor on the kernel's queueing of waiters: the properties   *)
(* hold for every interleaving of the manager, the shell, the processes,   *)
(* the interrupts and the work queue.                                      *)
(***************************************************************************)
EXTENDS SlotDrv, TLAPS

(* The inductive invariant, in parts.  First who holds which mutex: a thread   *)
(* holds one by where it is (ShellHasTypes, MgrHolds, WorkHolds).              *)

\* s_card_type_mutex: a call of the manager, or the loop over the slots of
\* pdm_reg_online_offline_cb or pdm_unreg_online_offline_cb
TypeMutex ==
  /\ typeLocked <=> mgr.pc # "idle" \/ ShellHasTypes
  /\ ~(mgr.pc # "idle" /\ ShellHasTypes)

\* slot_mutex: whoever holds it has it locked, and alone
SlotMutex ==
  /\ \A s \in Slot : MgrHolds(s) => s \in slotLocked
  /\ \A w \in Work : WorkHolds(w) => w[1] \in slotLocked /\ ~MgrHolds(w[1])
  /\ \A s \in Slot : ~(WorkHolds(<<s, 0>>) /\ WorkHolds(<<s, 1>>))

\* The manager calls for a slot whose process has ended, and lets it run again
\* when the call has returned; a slot being put online is empty.
MgrInv ==
  /\ mgr.pc # "idle" => mgr.slot \notin proc
  /\ mgr.pc \in {"online", "onlineCb", "onlineSave", "onlineEnd"} => mgr.type \in Type
  /\ mgr.pc \in {"onlineCb", "onlineSave"} => typeInfo[mgr.slot] = NULL
  /\ mgr.pc = "onlineSave" /\ mgr.type \in cb => <<mgr.type, mgr.slot>> \in dev

\* What insmod and rmmod know of the type they are about
ShellInv ==
  /\ shell.pc # "idle" => shell.type \in loaded
  /\ shell.pc = "idle" => shell.type = NULL
  /\ shell.pc \in {"unreg", "reg"} => shell.i = 0
  /\ shell.pc = "regSlot" => shell.type \notin cb
  /\ shell.pc = "unregSlot" => shell.type \notin cb
  /\ shell.pc = "initFail" => shell.type \in cb
  /\ shell.pc \in {"unreg", "unregSlot"} => \A s \in Slot : app[s].type # shell.type

\* An open file: the process the manager let run, on the device of the card
AppInv ==
  \A s \in Slot :
    /\ app[s].pc = "idle" <=> app[s].type = NULL
    /\ app[s].pc # "idle" => s \in proc /\ File(s) \in dev

\* A device belongs to the card in its slot, or to the card that is just being
\* put there, and to a driver that is registered, or whose registration has
\* reached, or whose removal has not yet reached, the slot.
DevInv ==
  \A t \in Type, s \in Slot : <<t, s>> \in dev =>
    /\ typeInfo[s] = t \/ (mgr.pc = "onlineSave" /\ mgr.slot = s /\ mgr.type = t)
    /\ \/ t \in cb
       \/ shell.type = t /\ shell.pc = "regSlot" /\ s < shell.i
       \/ shell.type = t /\ shell.pc = "unregSlot" /\ shell.i <= s

\* How far pdm_request_irq, pdm_enable_int, pdm_disable_int and pdm_free_irq are
IrqPc     == {"openIrq2", "file", "enable", "enableReg", "disable", "disableReg", "release",
              "releaseReg", "releaseIrq", "releaseIrq2"}
EnabledPc == {"file", "enable", "enableReg", "disable", "release"}

IrqInv ==
  \A s \in Slot :
    /\ s \in isr \/ arg[s] # NULL => app[s].pc \in IrqPc
    /\ arg[s] # NULL => arg[s] = app[s].type
    /\ s \in enabled => app[s].pc \in EnabledPc

\* The device a handler is in has neither been taken offline nor its driver
\* removed: both take slot_mutex of the slot before.
WorkInv ==
  \A w \in Work : work[w].pc = "isr" =>
    /\ work[w].arg \in loaded \cup cb /\ <<work[w].arg, w[1]>> \in dev
    /\ shell.pc = "unregSlot" /\ work[w].arg = shell.type => shell.i <= w[1]

\* A handler of the slot that has seen BIT_INT_ENABLED
InFlight(s) == \E i \in {0, 1} : WorkHolds(<<s, i>>)

SpuriousInv ==
  \A s \in Slot :
    /\ s \in enabled \/ app[s].pc = "enableReg" => spurious[s] = -1
    /\ spurious[s] <= 1
    /\ spurious[s] = 0 => s \in masked \/ ~InFlight(s)
    /\ spurious[s] = 1 => s \in masked /\ ~InFlight(s)

LockInv == TypeMutex /\ SlotMutex
CallInv == MgrInv /\ ShellInv /\ AppInv /\ DevInv

Inv == TypeOK /\ LockInv /\ CallInv /\ IrqInv /\ WorkInv /\ SpuriousInv

----------------------------------------------------------------------------
(* Types, by the groups of variables the actions leave alone together *)

CoreT == /\ typeLocked \in BOOLEAN /\ slotLocked \subseteq Slot /\ dev \subseteq Dev
         /\ cb \subseteq Type /\ loaded \subseteq Type /\ typeInfo \in [Slot -> Type \cup {NULL}]
IrqT  == /\ isr \subseteq Slot /\ arg \in [Slot -> Type \cup {NULL}] /\ enabled \subseteq Slot
         /\ masked \subseteq Slot /\ spurious \in [Slot -> -1 .. MaxSpurious]
DataT == devLocked \subseteq Dev /\ pData \subseteq Dev /\ canRead \subseteq Dev
FileT == app \in [Slot -> [pc : AppPc, type : Type \cup {NULL}]]
MgrT  == mgr \in [pc : MgrPc, slot : Slot, type : Type \cup {NULL}]
ShellT == shell \in [pc : ShellPc, type : Type \cup {NULL}, i : 0 .. NSlot, ok : BOOLEAN]
LineT == proc \subseteq Slot /\ line \subseteq Slot /\ irqPc \subseteq Slot
WorkT == /\ workIdx \in [Slot -> {0, 1}] /\ pend \subseteq Work
         /\ oops \in {"no", "isr", "cb", "data"}
         /\ work \in [Work -> [pc : WorkPc, arg : Type \cup {NULL}]]

\* The groups make up the type invariant.
LEMMA TypeParts ==
  TypeOK <=> CoreT /\ IrqT /\ DataT /\ FileT /\ MgrT /\ ShellT /\ LineT /\ WorkT
BY DEF TypeOK, CoreT, IrqT, DataT, FileT, MgrT, ShellT, LineT, WorkT

\* A step that leaves the variables of a group alone keeps the group's types.
LEMMA TypeFrame ==
  /\ CoreT /\ UNCHANGED coreVars => CoreT'
  /\ IrqT /\ UNCHANGED irqVars => IrqT'
  /\ DataT /\ UNCHANGED <<devLocked, pData, canRead>> => DataT'
  /\ FileT /\ UNCHANGED app => FileT'
  /\ MgrT /\ UNCHANGED mgr => MgrT'
  /\ ShellT /\ UNCHANGED shell => ShellT'
  /\ LineT /\ UNCHANGED <<proc, line, irqPc>> => LineT'
  /\ WorkT /\ UNCHANGED <<workIdx, pend, work, oops>> => WorkT'
<1>1. CoreT /\ UNCHANGED coreVars => CoreT'  BY DEF CoreT, coreVars
<1>2. IrqT /\ UNCHANGED irqVars => IrqT'  BY DEF IrqT, irqVars
<1>3. DataT /\ UNCHANGED <<devLocked, pData, canRead>> => DataT'  BY DEF DataT
<1>4. /\ FileT /\ UNCHANGED app => FileT'
      /\ MgrT /\ UNCHANGED mgr => MgrT'
      /\ ShellT /\ UNCHANGED shell => ShellT'
  BY DEF FileT, MgrT, ShellT
<1>5. LineT /\ UNCHANGED <<proc, line, irqPc>> => LineT'  BY DEF LineT
<1>6. WorkT /\ UNCHANGED <<workIdx, pend, work, oops>> => WorkT'  BY DEF WorkT
<1> QED BY <1>1, <1>2, <1>3, <1>4, <1>5, <1>6

\* A work item is one of the two of its slot.
LEMMA WorkPair ==
  /\ \A w \in Work : w[1] \in Slot /\ w[2] \in {0, 1} /\ w = <<w[1], w[2]>>
  /\ \A s \in Slot, i \in {0, 1} : <<s, i>> \in Work /\ <<s, i>>[1] = s
BY DEF Work

\* What a call of the manager does keeps the types.
LEMMA TypeMgr == ASSUME Inv, Mgr PROVE TypeOK'
<1>0. /\ CoreT /\ IrqT /\ DataT /\ FileT /\ MgrT /\ ShellT /\ LineT /\ WorkT
      /\ mgr \in [pc : MgrPc, slot : Slot, type : Type \cup {NULL}]
      /\ mgr.slot \in Slot /\ mgr.type \in Type \cup {NULL}
  BY TypeParts DEF Inv, MgrT
<1> SUFFICES CoreT' /\ IrqT' /\ DataT' /\ FileT' /\ MgrT' /\ ShellT' /\ LineT' /\ WorkT'
  BY TypeParts, PTL
<1> USE SlotAssumption DEF fileVars, intVars
<1>1. ASSUME NEW s \in Slot, NEW t \in Type, CallOnline(s, t) PROVE CoreT' /\ MgrT'
  BY <1>0, <1>1 DEF CallOnline, CoreT, MgrT, MgrPc
<1>2. CASE OnlineLock
  <2>1. CoreT'  BY <1>0, <1>2 DEF OnlineLock, CoreT
  <2>2. MgrT'  BY <1>0, <1>2 DEF OnlineLock, MgrT, MgrPc
  <2> QED BY <1>0, <1>2, <2>1, <2>2, TypeFrame DEF OnlineLock
<1>3. CASE OnlineCb
  <2>1. mgr.type \in cb => <<mgr.type, mgr.slot>> \in Dev  BY <1>0 DEF Dev, CoreT
  <2>2. CoreT'  BY <1>0, <1>3, <2>1 DEF OnlineCb, udf_online, CoreT
  <2>3. DataT'  BY <1>0, <1>3 DEF OnlineCb, udf_online, DataT
  <2>4. MgrT'  BY <1>0, <1>3 DEF OnlineCb, MgrT, MgrPc
  <2>5. WorkT' /\ LineT'  BY <1>0, <1>3 DEF OnlineCb, WorkT, LineT
  <2> QED BY <1>0, <1>3, <2>2, <2>3, <2>4, <2>5, TypeFrame DEF OnlineCb
<1>4. CASE OnlineSave
  <2>1. CoreT'  BY <1>0, <1>4 DEF OnlineSave, CoreT
  <2>2. MgrT'  BY <1>0, <1>4 DEF OnlineSave, MgrT, MgrPc
  <2> QED BY <1>0, <1>4, <2>1, <2>2, TypeFrame DEF OnlineSave
<1>5. CASE OnlineEnd
  <2>1. CoreT' /\ LineT'  BY <1>0, <1>5 DEF OnlineEnd, CoreT, LineT
  <2>2. MgrT'  BY <1>0, <1>5 DEF OnlineEnd, MgrT, MgrPc, Slot
  <2> QED BY <1>0, <1>5, <2>1, <2>2, TypeFrame DEF OnlineEnd
<1>6. ASSUME NEW s \in Slot, CallOffline(s) PROVE CoreT' /\ MgrT' /\ LineT'
  <2>1. CoreT' /\ LineT'  BY <1>0, <1>6 DEF CallOffline, CoreT, LineT
  <2>2. MgrT'  BY <1>0, <1>6 DEF CallOffline, MgrT, MgrPc
  <2> QED BY <2>1, <2>2
<1>7. CASE OfflineLock
  <2>1. CoreT'  BY <1>0, <1>7 DEF OfflineLock, CoreT
  <2>2. MgrT'  BY <1>0, <1>7 DEF OfflineLock, MgrT, MgrPc
  <2> QED BY <1>0, <1>7, <2>1, <2>2, TypeFrame DEF OfflineLock
<1>8. CASE OfflineIrq
  <2>1. IrqT'  BY <1>0, <1>8 DEF OfflineIrq, IrqT
  <2>2. MgrT'  BY <1>0, <1>8 DEF OfflineIrq, MgrT, MgrPc
  <2> QED BY <1>0, <1>8, <2>1, <2>2, TypeFrame DEF OfflineIrq
<1>9. CASE OfflineCb
  <2>1. CoreT'  BY <1>0, <1>9 DEF OfflineCb, udf_offline, CoreT
  <2>2. DataT'  BY <1>0, <1>9 DEF OfflineCb, udf_offline, DataT
  <2>3. MgrT'  BY <1>0, <1>9 DEF OfflineCb, MgrT, MgrPc
  <2>4. WorkT' /\ LineT'  BY <1>0, <1>9 DEF OfflineCb, WorkT, LineT
  <2> QED BY <1>0, <1>9, <2>1, <2>2, <2>3, <2>4, TypeFrame DEF OfflineCb
<1>10. CASE OfflineEnd
  <2>1. CoreT'  BY <1>0, <1>10 DEF OfflineEnd, CoreT
  <2>2. MgrT'  BY <1>0, <1>10 DEF OfflineEnd, MgrT, MgrPc, Slot
  <2> QED BY <1>0, <1>10, <2>1, <2>2, TypeFrame DEF OfflineEnd
<1>11. ASSUME NEW s \in Slot, NEW t \in Type, CallOnline(s, t)
       PROVE CoreT' /\ IrqT' /\ DataT' /\ FileT' /\ MgrT' /\ ShellT' /\ LineT' /\ WorkT'
  BY <1>0, <1>1, <1>11, TypeFrame DEF CallOnline
<1>12. ASSUME NEW s \in Slot, CallOffline(s)
       PROVE CoreT' /\ IrqT' /\ DataT' /\ FileT' /\ MgrT' /\ ShellT' /\ LineT' /\ WorkT'
  BY <1>0, <1>6, <1>12, TypeFrame DEF CallOffline
<1> QED BY <1>2, <1>3, <1>4, <1>5, <1>7, <1>8, <1>9, <1>10, <1>11, <1>12 DEF Mgr, MgrStep

\* So does what insmod and rmmod do.
LEMMA TypeShell == ASSUME Inv, Shell PROVE TypeOK'
<1>0. /\ CoreT /\ IrqT /\ DataT /\ FileT /\ MgrT /\ ShellT /\ LineT /\ WorkT
      /\ shell.type \in Type \cup {NULL} /\ shell.i \in 0 .. NSlot
  BY TypeParts DEF Inv, ShellT
<1>00. shell.pc # "idle" => shell.type \in Type
  BY <1>0 DEF Inv, CallInv, ShellInv, CoreT
<1> SUFFICES CoreT' /\ IrqT' /\ DataT' /\ FileT' /\ MgrT' /\ ShellT' /\ LineT' /\ WorkT'
  BY TypeParts, PTL
<1> USE SlotAssumption DEF fileVars, intVars
<1>1. ASSUME NEW t \in Type, Insmod(t)
      PROVE CoreT' /\ IrqT' /\ DataT' /\ FileT' /\ MgrT' /\ ShellT' /\ LineT' /\ WorkT'
  <2>1. CoreT'  BY <1>0, <1>1 DEF Insmod, CoreT
  <2>2. ShellT'  BY <1>0, <1>1 DEF Insmod, ShellT, ShellPc
  <2> QED BY <1>0, <1>1, <2>1, <2>2, TypeFrame DEF Insmod
<1>2. CASE RegLock
  <2>1. CoreT'  BY <1>0, <1>2 DEF RegLock, CoreT
  <2>2. ShellT'  BY <1>0, <1>2 DEF RegLock, ShellT, ShellPc
  <2> QED BY <1>0, <1>2, <2>1, <2>2, TypeFrame DEF RegLock
<1>3. CASE RegSlot
  <2>0. shell.i \in Slot /\ shell.i + 1 \in 0 .. NSlot
    <3>1. shell.i < NSlot /\ shell.i \in 0 .. NSlot  BY <1>0, <1>3 DEF RegSlot
    <3>2. \A i \in 0 .. NSlot : i < NSlot => i \in 0 .. NSlot - 1 /\ i + 1 \in 0 .. NSlot
      OBVIOUS
    <3> QED BY <3>1, <3>2 DEF Slot
  <2>1. <<shell.type, shell.i>> \in Dev  BY <1>00, <1>3, <2>0 DEF RegSlot, Dev
  <2>2. CoreT'  BY <1>0, <1>3, <2>1 DEF RegSlot, udf_online, CoreT
  <2>3. DataT'  BY <1>0, <1>3 DEF RegSlot, udf_online, DataT
  <2>4. ShellT'
    <3>1. \E ok \in BOOLEAN : shell' = [shell EXCEPT !.i = shell.i + 1, !.ok = ok]
             \/ shell' = [shell EXCEPT !.i = shell.i + 1]
      BY <1>3 DEF RegSlot
    <3> HIDE SlotAssumption
    <3> QED BY <1>0, <2>0, <3>1 DEF ShellT
  <2>5. LineT'  BY <1>0, <1>3 DEF RegSlot, LineT
  <2> QED BY <1>0, <1>3, <2>2, <2>3, <2>4, <2>5, TypeFrame DEF RegSlot
<1>4. CASE RegSave
  <2>1. CoreT'  BY <1>0, <1>00, <1>4 DEF RegSave, CoreT
  <2>2. ShellT'
    <3>1. 0 \in 0 .. NSlot  OBVIOUS
    <3>2. CASE shell.ok  BY <1>0, <1>4, <3>1, <3>2 DEF RegSave, ShellT, ShellPc
    <3>3. CASE ~shell.ok  BY <1>0, <1>4, <3>1, <3>3 DEF RegSave, ShellT, ShellPc
    <3> QED BY <3>2, <3>3
  <2> QED BY <1>0, <1>4, <2>1, <2>2, TypeFrame DEF RegSave
<1>5. CASE InitFail
  <2>1. CoreT'  BY <1>0, <1>5 DEF InitFail, CoreT
  <2>2. ShellT'  BY <1>0, <1>5 DEF InitFail, ShellT, ShellPc
  <2> QED BY <1>0, <1>5, <2>1, <2>2, TypeFrame DEF InitFail
<1>6. ASSUME NEW t \in Type, Rmmod(t)
      PROVE CoreT' /\ IrqT' /\ DataT' /\ FileT' /\ MgrT' /\ ShellT' /\ LineT' /\ WorkT'
  <2>1. ShellT'  BY <1>0, <1>6 DEF Rmmod, ShellT, ShellPc
  <2> QED BY <1>0, <1>6, <2>1, TypeFrame DEF Rmmod
<1>7. CASE UnregLock
  <2>1. CoreT'  BY <1>0, <1>7 DEF UnregLock, CoreT
  <2>2. ShellT'  BY <1>0, <1>7 DEF UnregLock, ShellT, ShellPc
  <2> QED BY <1>0, <1>7, <2>1, <2>2, TypeFrame DEF UnregLock
<1>8. CASE UnregSlot
  <2>1. CoreT'  BY <1>0, <1>8 DEF UnregSlot, udf_offline, CoreT
  <2>2. DataT'  BY <1>0, <1>8 DEF UnregSlot, udf_offline, DataT
  <2>3. ShellT'  BY <1>0, <1>8 DEF UnregSlot, ShellT, ShellPc
  <2>4. LineT'  BY <1>0, <1>8 DEF UnregSlot, LineT
  <2> QED BY <1>0, <1>8, <2>1, <2>2, <2>3, <2>4, TypeFrame DEF UnregSlot
<1>9. CASE UnregEnd
  <2>1. CoreT'  BY <1>0, <1>9 DEF UnregEnd, CoreT
  <2>2. ShellT'  BY <1>0, <1>9 DEF UnregEnd, ShellT, ShellPc
  <2> QED BY <1>0, <1>9, <2>1, <2>2, TypeFrame DEF UnregEnd
<1> QED BY <1>1, <1>2, <1>3, <1>4, <1>5, <1>6, <1>7, <1>8, <1>9 DEF Shell, ShellStep

\* So does what a process does with its device file.
LEMMA TypeApp == ASSUME Inv, NEW s \in Slot, App(s) PROVE TypeOK'
<1>0. /\ CoreT /\ IrqT /\ DataT /\ FileT /\ MgrT /\ ShellT /\ LineT /\ WorkT
      /\ app[s].type \in Type \cup {NULL} /\ app[s] \in [pc : AppPc, type : Type \cup {NULL}]
  BY TypeParts DEF Inv, FileT
<1>00. app[s].pc # "idle" => File(s) \in Dev
  BY <1>0 DEF Inv, CallInv, AppInv, CoreT
<1> SUFFICES IrqT' /\ DataT' /\ FileT' /\ UNCHANGED <<coreVars, callVars, intVars>>
  <2>1. CoreT' /\ MgrT' /\ ShellT' /\ LineT' /\ WorkT'
    BY <1>0, TypeFrame DEF callVars, intVars
  <2> QED BY <2>1, TypeParts, PTL
<1> USE SlotAssumption
<1>1. ASSUME NEW t \in Type, Open(s, t)
      PROVE IrqT' /\ DataT' /\ FileT' /\ UNCHANGED <<coreVars, callVars, intVars>>
  <2>1. <<t, s>> \in Dev  BY <1>1 DEF Dev
  <2>2. DataT'  BY <1>0, <1>1, <2>1 DEF Open, DataT
  <2>3. FileT'  BY <1>0, <1>1 DEF Open, FileT, AppPc
  <2> QED BY <1>0, <1>1, <2>2, <2>3, TypeFrame DEF Open
<1>2. CASE OpenCheck(s)
  <2>1. DataT'  BY <1>0, <1>00, <1>2 DEF OpenCheck, DataT
  <2>2. FileT'  BY <1>0, <1>2 DEF OpenCheck, FileT, AppPc
  <2> QED BY <1>0, <1>2, <2>1, <2>2, TypeFrame DEF OpenCheck
<1>3. CASE OpenStoreOne(s)
  <2>1. IrqT'  BY <1>0, <1>3 DEF OpenStoreOne, IrqT
  <2>2. FileT'  BY <1>0, <1>3 DEF OpenStoreOne, FileT, AppPc
  <2> QED BY <1>0, <1>3, <2>1, <2>2, TypeFrame DEF OpenStoreOne
<1>4. CASE OpenStore(s)
  <2>1. IrqT'  BY <1>0, <1>4 DEF OpenStore, IrqT
  <2>2. FileT'  BY <1>0, <1>4 DEF OpenStore, FileT, AppPc
  <2>3. DataT'  BY <1>0, <1>4 DEF OpenStore, DataT
  <2> QED BY <1>4, <2>1, <2>2, <2>3 DEF OpenStore
<1>5. ASSUME NEW pc \in {"enable", "disable", "release"}, Enter(s, pc)
      PROVE IrqT' /\ DataT' /\ FileT' /\ UNCHANGED <<coreVars, callVars, intVars>>
  <2>1. DataT'  BY <1>0, <1>00, <1>5 DEF Enter, DataT
  <2>2. FileT'  BY <1>0, <1>5 DEF Enter, FileT, AppPc
  <2> QED BY <1>0, <1>5, <2>1, <2>2, TypeFrame DEF Enter
<1>6. CASE EnableBit(s)
  <2>1. IrqT'  BY <1>0, <1>6 DEF EnableBit, IrqT
  <2>2. FileT'  BY <1>0, <1>6 DEF EnableBit, FileT, AppPc
  <2> QED BY <1>0, <1>6, <2>1, <2>2, TypeFrame DEF EnableBit
<1>7. CASE EnableReg(s)
  <2>1. IrqT'  BY <1>0, <1>7 DEF EnableReg, IrqT
  <2>2. FileT'  BY <1>0, <1>7 DEF EnableReg, FileT, AppPc
  <2>3. DataT'  BY <1>0, <1>7 DEF EnableReg, DataT
  <2> QED BY <1>7, <2>1, <2>2, <2>3 DEF EnableReg
<1>8. CASE DisableBit(s)
  <2>1. IrqT'  BY <1>0, <1>8 DEF DisableBit, IrqT
  <2>2. FileT'  BY <1>0, <1>8 DEF DisableBit, FileT, AppPc
  <2> QED BY <1>0, <1>8, <2>1, <2>2, TypeFrame DEF DisableBit
<1>9. CASE DisableReg(s)
  <2>1. IrqT'  BY <1>0, <1>9 DEF DisableReg, IrqT
  <2>2. FileT'  BY <1>0, <1>9 DEF DisableReg, FileT, AppPc
  <2>3. DataT'  BY <1>0, <1>9 DEF DisableReg, DataT
  <2> QED BY <1>9, <2>1, <2>2, <2>3 DEF DisableReg
<1>10. CASE Read(s)
  <2>1. DataT'  BY <1>0, <1>10 DEF Read, DataT
  <2> QED BY <1>0, <1>10, <2>1, TypeFrame DEF Read
<1>11. CASE ReleaseIrqOne(s)
  <2>1. IrqT'  BY <1>0, <1>11 DEF ReleaseIrqOne, IrqT
  <2>2. FileT'  BY <1>0, <1>11 DEF ReleaseIrqOne, FileT, AppPc
  <2> QED BY <1>0, <1>11, <2>1, <2>2, TypeFrame DEF ReleaseIrqOne
<1>12. CASE ReleaseIrq(s)
  <2>1. IrqT'  BY <1>0, <1>12 DEF ReleaseIrq, IrqT
  <2>2. FileT'  BY <1>0, <1>12 DEF ReleaseIrq, FileT, AppPc
  <2> QED BY <1>0, <1>12, <2>1, <2>2, TypeFrame DEF ReleaseIrq
<1>13. CASE ReleaseData(s)
  <2>1. DataT'  BY <1>0, <1>13 DEF ReleaseData, DataT
  <2>2. FileT'  BY <1>0, <1>13 DEF ReleaseData, FileT, AppPc
  <2> QED BY <1>0, <1>13, <2>1, <2>2, TypeFrame DEF ReleaseData
<1> QED BY <1>1, <1>2, <1>3, <1>4, <1>5, <1>6, <1>7, <1>8, <1>9, <1>10, <1>11, <1>12, <1>13
        DEF App, AppStep

\* So does an interrupt.
LEMMA TypeIrq == ASSUME Inv, NEW s \in Slot, Irq(s) PROVE TypeOK'
<1>0. CoreT /\ IrqT /\ DataT /\ FileT /\ MgrT /\ ShellT /\ LineT /\ WorkT
  BY TypeParts DEF Inv
<1> SUFFICES IrqT' /\ LineT' /\ WorkT' /\ UNCHANGED <<coreVars, fileVars, mgr, shell>>
  <2>1. CoreT' /\ DataT' /\ FileT' /\ MgrT' /\ ShellT'  BY <1>0, TypeFrame DEF fileVars
  <2> QED BY <2>1, TypeParts, PTL
<1> USE SlotAssumption DEF callVars
<1>1. CASE LineChange(s)
  <2>1. LineT'  BY <1>0, <1>1 DEF LineChange, LineT
  <2> QED BY <1>0, <1>1, <2>1, TypeFrame DEF LineChange
<1>2. CASE IrqMask(s)
  <2>1. LineT'  BY <1>0, <1>2 DEF IrqMask, LineT
  <2>2. spurious' \in [Slot -> -1 .. MaxSpurious]
    <3>1. \A n \in -1 .. MaxSpurious : n \in 0 .. MaxSpurious - 1 => n + 1 \in -1 .. MaxSpurious
      OBVIOUS
    <3> QED BY <1>0, <1>2, <3>1 DEF IrqMask, IrqT
  <2>3. IrqT'  BY <1>0, <1>2, <2>2 DEF IrqMask, IrqT
  <2> QED BY <1>0, <1>2, <2>1, <2>3, TypeFrame DEF IrqMask
<1>3. CASE IrqSchedule(s)
  <2>1. workIdx[s] \in {0, 1} /\ <<s, workIdx[s]>> \in Work  BY <1>0, WorkPair DEF WorkT
  <2>2. workIdx' \in [Slot -> {0, 1}]  BY <1>0, <1>3, <2>1 DEF IrqSchedule, WorkT
  <2>3. WorkT'  BY <1>0, <1>3, <2>1, <2>2 DEF IrqSchedule, WorkT
  <2>4. LineT'  BY <1>0, <1>3 DEF IrqSchedule, LineT
  <2> QED BY <1>0, <1>3, <2>3, <2>4, TypeFrame DEF IrqSchedule
<1> QED BY <1>1, <1>2, <1>3 DEF Irq

\* So does the handler of a work item.
LEMMA TypeHandler == ASSUME Inv, NEW w \in Work, Handler(w) PROVE TypeOK'
<1>0. /\ CoreT /\ IrqT /\ DataT /\ FileT /\ MgrT /\ ShellT /\ LineT /\ WorkT
      /\ w[1] \in Slot
  BY TypeParts, WorkPair DEF Inv
<1> SUFFICES CoreT' /\ IrqT' /\ DataT' /\ LineT' /\ WorkT' /\ UNCHANGED <<app, mgr, shell>>
  <2>1. FileT' /\ MgrT' /\ ShellT'  BY <1>0, TypeFrame
  <2> QED BY <2>1, TypeParts, PTL
<1> USE DEF callVars, fileVars
<1>1. CASE WorkStart(w)
  <2>1. WorkT'  BY <1>0, <1>1 DEF WorkStart, WorkT, WorkPc
  <2> QED BY <1>0, <1>1, <2>1, TypeFrame DEF WorkStart
<1>2. CASE WorkCheck(w)
  <2>1. WorkT'  BY <1>0, <1>2 DEF WorkCheck, WorkT, WorkPc
  <2>2. CoreT'  BY <1>0, <1>2 DEF WorkCheck, CoreT
  <2> QED BY <1>0, <1>2, <2>1, <2>2, TypeFrame DEF WorkCheck
<1>3. CASE WorkCall(w)
  <2>1. arg[w[1]] \in Type \cup {NULL}  BY <1>0 DEF IrqT
  <2>2. WorkT'  BY <1>0, <1>3, <2>1 DEF WorkCall, WorkT, WorkPc
  <2> QED BY <1>0, <1>3, <2>2, TypeFrame DEF WorkCall
<1>4. CASE WorkIsr(w)
  <2>1. <<work[w].arg, w[1]>> \in Dev  BY <1>0, <1>4 DEF WorkIsr, Inv, WorkInv, CoreT
  <2>2. DataT'  BY <1>0, <1>4, <2>1 DEF WorkIsr, DataT
  <2>3. LineT'  BY <1>0, <1>4 DEF WorkIsr, LineT
  <2>4. WorkT'  BY <1>0, <1>4 DEF WorkIsr, WorkT, WorkPc
  <2>5. CoreT'  BY <1>0, <1>4 DEF WorkIsr, CoreT
  <2> QED BY <1>0, <1>4, <2>2, <2>3, <2>4, <2>5, TypeFrame DEF WorkIsr
<1>5. CASE WorkUnmask(w)
  <2>1. WorkT'  BY <1>0, <1>5 DEF WorkUnmask, WorkT, WorkPc
  <2>2. CoreT'  BY <1>0, <1>5 DEF WorkUnmask, CoreT
  <2>3. IrqT'  BY <1>0, <1>5 DEF WorkUnmask, IrqT
  <2> QED BY <1>0, <1>5, <2>1, <2>2, <2>3, TypeFrame DEF WorkUnmask
<1> QED BY <1>1, <1>2, <1>3, <1>4, <1>5 DEF Handler

----------------------------------------------------------------------------
(* What each actor leaves alone *)

\* the manager's calls
LEMMA MgrFrame ==
  Mgr => UNCHANGED <<shell, app, work, devLocked, cb, loaded, line, irqPc, workIdx, pend>>
<1> SUFFICES ASSUME Mgr
             PROVE UNCHANGED <<shell, app, work, devLocked, cb, loaded, line, irqPc, workIdx, pend>>
  OBVIOUS
<1> USE DEF coreVars, fileVars, intVars
<1>1. ASSUME NEW s \in Slot, NEW t \in Type, CallOnline(s, t)
      PROVE UNCHANGED <<shell, app, work, devLocked, cb, loaded, line, irqPc, workIdx, pend>>
  BY <1>1 DEF CallOnline
<1>2. ASSUME NEW s \in Slot, CallOffline(s)
      PROVE UNCHANGED <<shell, app, work, devLocked, cb, loaded, line, irqPc, workIdx, pend>>
  BY <1>2 DEF CallOffline
<1>3. CASE OnlineLock  BY <1>3 DEF OnlineLock
<1>4. CASE OnlineCb  BY <1>4 DEF OnlineCb
<1>5. CASE OnlineSave  BY <1>5 DEF OnlineSave
<1>6. CASE OnlineEnd  BY <1>6 DEF OnlineEnd
<1>7. CASE OfflineLock  BY <1>7 DEF OfflineLock
<1>8. CASE OfflineIrq  BY <1>8 DEF OfflineIrq
<1>9. CASE OfflineCb  BY <1>9 DEF OfflineCb
<1>10. CASE OfflineEnd  BY <1>10 DEF OfflineEnd
<1> QED BY <1>1, <1>2, <1>3, <1>4, <1>5, <1>6, <1>7, <1>8, <1>9, <1>10 DEF Mgr, MgrStep

\* insmod and rmmod
LEMMA ShellFrame ==
  Shell => UNCHANGED <<mgr, proc, app, irqVars, devLocked, typeInfo, slotLocked, intVars>>
<1> SUFFICES ASSUME Shell
             PROVE UNCHANGED <<mgr, proc, app, irqVars, devLocked, typeInfo, slotLocked, intVars>>
  OBVIOUS
<1> USE DEF coreVars, fileVars
<1>1. ASSUME NEW t \in Type, Insmod(t) \/ Rmmod(t)
      PROVE UNCHANGED <<mgr, proc, app, irqVars, devLocked, typeInfo, slotLocked, intVars>>
  BY <1>1 DEF Insmod, Rmmod
<1>2. CASE RegLock  BY <1>2 DEF RegLock
<1>3. CASE RegSlot  BY <1>3 DEF RegSlot
<1>4. CASE RegSave  BY <1>4 DEF RegSave
<1>5. CASE InitFail  BY <1>5 DEF InitFail
<1>6. CASE UnregLock  BY <1>6 DEF UnregLock
<1>7. CASE UnregSlot  BY <1>7 DEF UnregSlot
<1>8. CASE UnregEnd  BY <1>8 DEF UnregEnd
<1> QED BY <1>1, <1>2, <1>3, <1>4, <1>5, <1>6, <1>7, <1>8 DEF Shell, ShellStep

\* a process on its device file
LEMMA AppFrame == \A s \in Slot : App(s) => UNCHANGED <<coreVars, callVars, intVars>>
<1> SUFFICES ASSUME NEW s \in Slot, App(s) PROVE UNCHANGED <<coreVars, callVars, intVars>>
  OBVIOUS
<1>1. ASSUME NEW t \in Type, Open(s, t) PROVE UNCHANGED <<coreVars, callVars, intVars>>
  BY <1>1 DEF Open
<1>2. ASSUME NEW pc, Enter(s, pc) PROVE UNCHANGED <<coreVars, callVars, intVars>>
  BY <1>2 DEF Enter
<1>3. CASE OpenCheck(s) \/ OpenStoreOne(s) \/ OpenStore(s)
  BY <1>3 DEF OpenCheck, OpenStoreOne, OpenStore
<1>4. CASE EnableBit(s) \/ EnableReg(s) \/ DisableBit(s) \/ DisableReg(s) \/ Read(s)
  BY <1>4 DEF EnableBit, EnableReg, DisableBit, DisableReg, Read
<1>5. CASE ReleaseIrqOne(s) \/ ReleaseIrq(s) \/ ReleaseData(s)
  BY <1>5 DEF ReleaseIrqOne, ReleaseIrq, ReleaseData
<1> QED BY <1>1, <1>2, <1>3, <1>4, <1>5 DEF App, AppStep

\* an interrupt
LEMMA IrqFrame ==
  \A s \in Slot : Irq(s) => UNCHANGED <<coreVars, fileVars, callVars, isr, arg, enabled, work, oops>>
BY DEF Irq, LineChange, IrqMask, IrqSchedule, irqVars

\* the handler of a work item
LEMMA HandlerFrame ==
  \A w \in Work : Handler(w) =>
    UNCHANGED <<typeLocked, cb, loaded, typeInfo, dev, isr, arg, enabled, spurious, devLocked, pData,
                app, callVars>>
<1> SUFFICES ASSUME NEW w \in Work, Handler(w)
             PROVE UNCHANGED <<typeLocked, cb, loaded, typeInfo, dev, isr, arg, enabled, spurious,
                               devLocked, pData, app, callVars>>
  OBVIOUS
<1> USE DEF coreVars, irqVars, fileVars
<1>1. CASE WorkStart(w)  BY <1>1 DEF WorkStart
<1>2. CASE WorkCheck(w)  BY <1>2 DEF WorkCheck
<1>3. CASE WorkCall(w)  BY <1>3 DEF WorkCall
<1>4. CASE WorkIsr(w)  BY <1>4 DEF WorkIsr
<1>5. CASE WorkUnmask(w)  BY <1>5 DEF WorkUnmask
<1> QED BY <1>1, <1>2, <1>3, <1>4, <1>5 DEF Handler

----------------------------------------------------------------------------
(* The mutexes *)

\* s_card_type_mutex through a call of the manager
LEMMA TypeMutexMgr == ASSUME Inv, Mgr PROVE TypeMutex'
<1>0. TypeMutex /\ mgr \in [pc : MgrPc, slot : Slot, type : Type \cup {NULL}] /\ UNCHANGED shell
  BY MgrFrame, TypeParts DEF Inv, LockInv, MgrT
<1>1. ASSUME NEW s \in Slot, NEW t \in Type, CallOnline(s, t) PROVE TypeMutex'
  BY <1>0, <1>1 DEF CallOnline, TypeMutex, ShellHasTypes
<1>2. ASSUME NEW s \in Slot, CallOffline(s) PROVE TypeMutex'
  BY <1>0, <1>2 DEF CallOffline, TypeMutex, ShellHasTypes
<1>3. ASSUME mgr.pc # "idle", mgr'.pc # "idle", UNCHANGED typeLocked PROVE TypeMutex'
  BY <1>0, <1>3 DEF TypeMutex, ShellHasTypes
<1>4. CASE OnlineLock  BY <1>0, <1>3, <1>4 DEF OnlineLock
<1>5. CASE OnlineCb  BY <1>0, <1>3, <1>5 DEF OnlineCb
<1>6. CASE OnlineSave  BY <1>0, <1>3, <1>6 DEF OnlineSave
<1>7. CASE OfflineLock  BY <1>0, <1>3, <1>7 DEF OfflineLock
<1>8. CASE OfflineIrq  BY <1>0, <1>3, <1>8 DEF OfflineIrq, coreVars
<1>9. CASE OfflineCb  BY <1>0, <1>3, <1>9 DEF OfflineCb
<1>10. CASE OnlineEnd \/ OfflineEnd
  BY <1>0, <1>10 DEF OnlineEnd, OfflineEnd, TypeMutex, ShellHasTypes
<1> QED BY <1>1, <1>2, <1>4, <1>5, <1>6, <1>7, <1>8, <1>9, <1>10 DEF Mgr, MgrStep

\* and through insmod and rmmod
LEMMA TypeMutexShell == ASSUME Inv, Shell PROVE TypeMutex'
<1>0. /\ TypeMutex /\ UNCHANGED mgr
      /\ shell \in [pc : ShellPc, type : Type \cup {NULL}, i : 0 .. NSlot, ok : BOOLEAN]
  BY ShellFrame, TypeParts DEF Inv, LockInv, ShellT
<1>1. ASSUME ShellHasTypes' <=> ShellHasTypes, UNCHANGED typeLocked PROVE TypeMutex'
  BY <1>0, <1>1 DEF TypeMutex
<1>2. ASSUME NEW t \in Type, Insmod(t) PROVE TypeMutex'
  BY <1>0, <1>1, <1>2 DEF Insmod, ShellHasTypes
<1>3. ASSUME NEW t \in Type, Rmmod(t) PROVE TypeMutex'
  BY <1>0, <1>1, <1>3 DEF Rmmod, ShellHasTypes, coreVars
<1>4. CASE RegLock  BY <1>0, <1>4 DEF RegLock, TypeMutex, ShellHasTypes
<1>5. CASE RegSlot  BY <1>0, <1>1, <1>5 DEF RegSlot, ShellHasTypes
<1>6. CASE RegSave  BY <1>0, <1>6 DEF RegSave, TypeMutex, ShellHasTypes
<1>7. CASE InitFail  BY <1>0, <1>1, <1>7 DEF InitFail, ShellHasTypes
<1>8. CASE UnregLock  BY <1>0, <1>8 DEF UnregLock, TypeMutex, ShellHasTypes
<1>9. CASE UnregSlot  BY <1>0, <1>1, <1>9 DEF UnregSlot, ShellHasTypes
<1>10. CASE UnregEnd  BY <1>0, <1>10 DEF UnregEnd, TypeMutex, ShellHasTypes
<1> QED BY <1>2, <1>3, <1>4, <1>5, <1>6, <1>7, <1>8, <1>9, <1>10 DEF Shell, ShellStep

\* slot_mutex through a call of the manager
LEMMA SlotMutexMgr == ASSUME Inv, Mgr PROVE SlotMutex'
<1>0. /\ SlotMutex /\ mgr \in [pc : MgrPc, slot : Slot, type : Type \cup {NULL}]
      /\ UNCHANGED work /\ mgr.slot \in Slot
  BY MgrFrame, TypeParts DEF Inv, LockInv, MgrT
<1>1. \A w \in Work : WorkHolds(w)' <=> WorkHolds(w)  BY <1>0 DEF WorkHolds
<1>2. \A s \in Slot : ~(WorkHolds(<<s, 0>>)' /\ WorkHolds(<<s, 1>>)')
  BY <1>0 DEF SlotMutex, WorkHolds
<1>3. ASSUME UNCHANGED slotLocked, \A s \in Slot : MgrHolds(s)' <=> MgrHolds(s)
      PROVE SlotMutex'
  BY <1>0, <1>1, <1>2, <1>3, WorkPair DEF SlotMutex
<1>4. ASSUME mgr.slot \notin slotLocked, slotLocked' = slotLocked \cup {mgr.slot},
             mgr'.slot = mgr.slot
      PROVE SlotMutex'
  BY <1>0, <1>1, <1>2, <1>4, WorkPair DEF SlotMutex, MgrHolds
<1>5. ASSUME MgrHolds(mgr.slot), slotLocked' = slotLocked \ {mgr.slot},
             \A s \in Slot : ~MgrHolds(s)'
      PROVE SlotMutex'
  BY <1>0, <1>1, <1>2, <1>5, WorkPair DEF SlotMutex
<1>6. ASSUME NEW s \in Slot, NEW t \in Type, CallOnline(s, t) PROVE SlotMutex'
  BY <1>0, <1>3, <1>6 DEF CallOnline, MgrHolds
<1>7. ASSUME NEW s \in Slot, CallOffline(s) PROVE SlotMutex'
  BY <1>0, <1>3, <1>7 DEF CallOffline, MgrHolds
<1>8. CASE OnlineLock
  <2>1. CASE typeInfo[mgr.slot] # NULL  BY <1>0, <1>3, <1>8, <2>1 DEF OnlineLock, MgrHolds
  <2>2. CASE typeInfo[mgr.slot] = NULL  BY <1>0, <1>4, <1>8, <2>2 DEF OnlineLock
  <2> QED BY <2>1, <2>2
<1>9. CASE OnlineCb
  <2>1. CASE mgr'.pc = "onlineEnd"
    <3>1. slotLocked' = slotLocked \ {mgr.slot}  BY <1>0, <1>9, <2>1 DEF OnlineCb
    <3> QED BY <1>0, <1>5, <1>9, <2>1, <3>1 DEF OnlineCb, MgrHolds
  <2>2. CASE mgr'.pc # "onlineEnd"
    <3>1. UNCHANGED slotLocked /\ mgr'.slot = mgr.slot /\ mgr'.pc \in {"onlineCb", "onlineSave"}
      BY <1>0, <1>9, <2>2 DEF OnlineCb
    <3> QED BY <1>0, <1>3, <1>9, <3>1 DEF OnlineCb, MgrHolds
  <2> QED BY <2>1, <2>2
<1>10. CASE OnlineSave  BY <1>0, <1>5, <1>10 DEF OnlineSave, MgrHolds
<1>11. CASE OnlineEnd \/ OfflineEnd  BY <1>0, <1>3, <1>11 DEF OnlineEnd, OfflineEnd, MgrHolds
<1>12. CASE OfflineLock
  <2>1. CASE typeInfo[mgr.slot] # NULL  BY <1>0, <1>4, <1>12, <2>1 DEF OfflineLock
  <2>2. CASE typeInfo[mgr.slot] = NULL  BY <1>0, <1>3, <1>12, <2>2 DEF OfflineLock, MgrHolds
  <2> QED BY <2>1, <2>2
<1>13. CASE OfflineIrq  BY <1>0, <1>3, <1>13 DEF OfflineIrq, MgrHolds, coreVars
<1>14. CASE OfflineCb
  <2>1. CASE mgr'.pc = "offlineEnd"
    <3>1. slotLocked' = slotLocked \ {mgr.slot}  BY <1>0, <1>14, <2>1 DEF OfflineCb
    <3> QED BY <1>0, <1>5, <1>14, <2>1, <3>1 DEF OfflineCb, MgrHolds
  <2>2. CASE mgr'.pc # "offlineEnd"
    <3>1. UNCHANGED slotLocked /\ mgr' = mgr  BY <1>0, <1>14, <2>2 DEF OfflineCb
    <3> QED BY <1>0, <1>3, <3>1 DEF MgrHolds
  <2> QED BY <2>1, <2>2
<1> QED BY <1>6, <1>7, <1>8, <1>9, <1>10, <1>11, <1>12, <1>13, <1>14 DEF Mgr, MgrStep

\* and through the handler of a work item
LEMMA SlotMutexHandler == ASSUME Inv, NEW w \in Work, Handler(w) PROVE SlotMutex'
<1>0. /\ SlotMutex /\ UNCHANGED mgr /\ w[1] \in Slot
      /\ work \in [Work -> [pc : WorkPc, arg : Type \cup {NULL}]]
  BY HandlerFrame, TypeParts, WorkPair DEF Inv, LockInv, WorkT, callVars
<1>1. \A s \in Slot : MgrHolds(s)' <=> MgrHolds(s)  BY <1>0 DEF MgrHolds
<1>2. \A u \in Work : u # w => work'[u] = work[u]
  BY <1>0 DEF Handler, WorkStart, WorkCheck, WorkCall, WorkIsr, WorkUnmask
<1>3. \A u \in Work : u # w => (WorkHolds(u)' <=> WorkHolds(u))  BY <1>2 DEF WorkHolds
<1>4. ASSUME UNCHANGED slotLocked, WorkHolds(w)' => WorkHolds(w) PROVE SlotMutex'
  BY <1>0, <1>1, <1>3, <1>4, WorkPair DEF SlotMutex
<1>5. ASSUME w[1] \notin slotLocked, slotLocked' = slotLocked \cup {w[1]} PROVE SlotMutex'
  <2>1. \A u \in Work : u[1] = w[1] => ~WorkHolds(u)  BY <1>0, <1>5 DEF SlotMutex
  <2>2. ~MgrHolds(w[1])  BY <1>0, <1>5 DEF SlotMutex
  <2> QED BY <1>0, <1>1, <1>3, <1>5, <2>1, <2>2, WorkPair DEF SlotMutex
<1>6. ASSUME WorkHolds(w), ~WorkHolds(w)', slotLocked' = slotLocked \ {w[1]} PROVE SlotMutex'
  <2>1. \A u \in Work : u # w /\ u[1] = w[1] => ~WorkHolds(u)
    <3> SUFFICES ASSUME NEW u \in Work, u # w, u[1] = w[1], WorkHolds(u) PROVE FALSE
      OBVIOUS
    <3>1. {u, w} = {<<w[1], 0>>, <<w[1], 1>>}  BY WorkPair
    <3> QED BY <1>0, <1>6, <3>1 DEF SlotMutex
  <2>2. ~MgrHolds(w[1])  BY <1>0, <1>6 DEF SlotMutex
  <2> QED BY <1>0, <1>1, <1>3, <1>6, <2>1, <2>2, WorkPair DEF SlotMutex
<1>7. CASE WorkStart(w)  BY <1>0, <1>4, <1>7 DEF WorkStart, WorkHolds, coreVars
<1>8. CASE WorkCheck(w)
  <2>1. CASE w[1] \in enabled /\ w[1] \in isr  BY <1>0, <1>5, <1>8, <2>1 DEF WorkCheck
  <2>2. CASE ~(w[1] \in enabled /\ w[1] \in isr)
    BY <1>0, <1>4, <1>8, <2>2 DEF WorkCheck, WorkHolds
  <2> QED BY <2>1, <2>2
<1>9. CASE WorkCall(w)  BY <1>0, <1>4, <1>9 DEF WorkCall, WorkHolds, coreVars
<1>10. CASE WorkIsr(w)
  <2>1. PICK again \in BOOLEAN :
          /\ work' = [work EXCEPT ![w] = [pc |-> IF again THEN "unmask" ELSE "idle", arg |-> NULL]]
          /\ slotLocked' = IF again THEN slotLocked ELSE slotLocked \ {w[1]}
    BY <1>10 DEF WorkIsr
  <2>2. WorkHolds(w)  BY <1>10 DEF WorkIsr, WorkHolds
  <2>3. CASE again  BY <1>4, <2>1, <2>2, <2>3
  <2>4. CASE ~again  BY <1>0, <1>6, <2>1, <2>2, <2>4 DEF WorkHolds
  <2> QED BY <2>3, <2>4
<1>11. CASE WorkUnmask(w)  BY <1>0, <1>6, <1>11 DEF WorkUnmask, WorkHolds
<1> QED BY <1>7, <1>8, <1>9, <1>10, <1>11 DEF Handler

----------------------------------------------------------------------------
(* The manager's calls *)

\* MgrInv through a call of the manager
LEMMA MgrInvMgr == ASSUME Inv, Mgr PROVE MgrInv'
<1>0. /\ MgrInv /\ mgr \in [pc : MgrPc, slot : Slot, type : Type \cup {NULL}]
      /\ mgr.slot \in Slot /\ UNCHANGED cb /\ typeInfo \in [Slot -> Type \cup {NULL}]
  BY MgrFrame, TypeParts DEF Inv, CallInv, MgrT, CoreT
<1>1. ASSUME NEW s \in Slot, NEW t \in Type, CallOnline(s, t) PROVE MgrInv'
  BY <1>0, <1>1 DEF CallOnline, MgrInv
<1>2. ASSUME NEW s \in Slot, CallOffline(s) PROVE MgrInv'
  BY <1>0, <1>2 DEF CallOffline, MgrInv
<1>3. CASE OnlineLock  BY <1>0, <1>3 DEF OnlineLock, MgrInv
<1>4. CASE OnlineCb
  <2>1. /\ mgr'.slot = mgr.slot /\ mgr'.type = mgr.type /\ UNCHANGED <<proc, typeInfo>>
        /\ mgr'.pc \in {"onlineCb", "onlineSave", "onlineEnd"} /\ mgr.pc = "onlineCb"
    BY <1>0, <1>4 DEF OnlineCb
  <2>2. mgr'.pc = "onlineSave" /\ mgr.type \in cb => <<mgr.type, mgr.slot>> \in dev'
    BY <1>0, <1>4 DEF OnlineCb, udf_online
  <2> QED BY <1>0, <2>1, <2>2 DEF MgrInv
<1>5. CASE OnlineSave  BY <1>0, <1>5 DEF OnlineSave, MgrInv
<1>6. CASE OnlineEnd \/ OfflineEnd  BY <1>0, <1>6 DEF OnlineEnd, OfflineEnd, MgrInv
<1>7. CASE OfflineLock  BY <1>0, <1>7 DEF OfflineLock, MgrInv
<1>8. CASE OfflineIrq  BY <1>0, <1>8 DEF OfflineIrq, MgrInv
<1>9. CASE OfflineCb  BY <1>0, <1>9 DEF OfflineCb, MgrInv
<1> QED BY <1>1, <1>2, <1>3, <1>4, <1>5, <1>6, <1>7, <1>8, <1>9 DEF Mgr, MgrStep

\* While the manager is in a call, insmod and rmmod leave cb and dev alone.
LEMMA MgrInvShell == ASSUME Inv, Shell PROVE MgrInv'
<1>0. MgrInv /\ TypeMutex /\ UNCHANGED <<mgr, proc, typeInfo>>
  BY ShellFrame DEF Inv, CallInv, LockInv
<1>1. mgr.pc # "idle" => UNCHANGED <<cb, dev>>
  <2> SUFFICES ASSUME mgr.pc # "idle" PROVE UNCHANGED <<cb, dev>>  OBVIOUS
  <2>1. typeLocked /\ shell.pc # "regSlot" /\ shell.pc # "unregSlot"
    BY <1>0 DEF TypeMutex, ShellHasTypes
  <2>2. RegLock \/ InitFail \/ \E t \in Type : Insmod(t) \/ Rmmod(t)
    BY <2>1 DEF Shell, ShellStep, RegSlot, RegSave, UnregLock, UnregSlot, UnregEnd
  <2> QED BY <2>2 DEF RegLock, InitFail, Insmod, Rmmod, coreVars
<1> QED BY <1>0, <1>1 DEF MgrInv

----------------------------------------------------------------------------
(* insmod and rmmod *)

\* ShellInv through insmod and rmmod
LEMMA ShellInvShell == ASSUME Inv, Shell PROVE ShellInv'
<1>0. /\ ShellInv /\ shell \in [pc : ShellPc, type : Type \cup {NULL}, i : 0 .. NSlot, ok : BOOLEAN]
      /\ UNCHANGED app
  BY ShellFrame, TypeParts DEF Inv, CallInv, ShellT
<1>1. ASSUME NEW t \in Type, Insmod(t) PROVE ShellInv'
  BY <1>0, <1>1 DEF Insmod, ShellInv
<1>2. ASSUME NEW t \in Type, Rmmod(t) PROVE ShellInv'
  BY <1>0, <1>2 DEF Rmmod, ShellInv, coreVars
<1>3. CASE RegLock  BY <1>0, <1>3 DEF RegLock, ShellInv
<1>4. CASE RegSlot
  <2>1. shell'.pc = shell.pc /\ shell'.type = shell.type /\ shell.pc = "regSlot"
    BY <1>0, <1>4 DEF RegSlot
  <2> QED BY <1>0, <1>4, <2>1 DEF RegSlot, ShellInv
<1>5. CASE RegSave
  <2>1. CASE shell.ok  BY <1>0, <1>5, <2>1 DEF RegSave, ShellInv
  <2>2. CASE ~shell.ok  BY <1>0, <1>5, <2>2 DEF RegSave, ShellInv
  <2> QED BY <2>1, <2>2
<1>6. CASE InitFail  BY <1>0, <1>6 DEF InitFail, ShellInv
<1>7. CASE UnregLock  BY <1>0, <1>7 DEF UnregLock, ShellInv
<1>8. CASE UnregSlot
  <2>1. shell'.pc = shell.pc /\ shell'.type = shell.type /\ shell.pc = "unregSlot"
    BY <1>0, <1>8 DEF UnregSlot
  <2> QED BY <1>0, <1>8, <2>1 DEF UnregSlot, ShellInv
<1>9. CASE UnregEnd  BY <1>0, <1>9 DEF UnregEnd, ShellInv
<1> QED BY <1>1, <1>2, <1>3, <1>4, <1>5, <1>6, <1>7, <1>8, <1>9 DEF Shell, ShellStep

----------------------------------------------------------------------------
(* Open files *)

\* Only opening a device file, or closing it, changes the file's type: a type
\* being removed is not opened.
LEMMA AppTypes ==
  ASSUME Inv, NEW s \in Slot, App(s)
  PROVE  /\ \A r \in Slot : r # s => app'[r] = app[r]
         /\ \/ app'[s].type = app[s].type /\ app'[s].pc # "idle" /\ app[s].pc # "idle"
            \/ app'[s].type = NULL /\ app'[s].pc = "idle"
            \/ /\ app[s].pc = "idle" /\ app'[s].pc # "idle" /\ s \in proc
               /\ app'[s].type \in Type /\ <<app'[s].type, s>> \in dev /\ Live(app'[s].type)
            \/ UNCHANGED app
<1>0. app \in [Slot -> [pc : AppPc, type : Type \cup {NULL}]]  BY TypeParts DEF Inv, FileT
<1> DEFINE Goal == /\ \A r \in Slot : r # s => app'[r] = app[r]
                   /\ \/ app'[s].type = app[s].type /\ app'[s].pc # "idle" /\ app[s].pc # "idle"
                      \/ app'[s].type = NULL /\ app'[s].pc = "idle"
                      \/ /\ app[s].pc = "idle" /\ app'[s].pc # "idle" /\ s \in proc
                         /\ app'[s].type \in Type /\ <<app'[s].type, s>> \in dev /\ Live(app'[s].type)
                      \/ UNCHANGED app
<1>1. ASSUME NEW t \in Type, Open(s, t) PROVE Goal  BY <1>0, <1>1 DEF Open
<1>2. CASE OpenCheck(s)  BY <1>0, <1>2 DEF OpenCheck
<1>3. CASE OpenStoreOne(s)  BY <1>0, <1>3 DEF OpenStoreOne
<1>4. CASE OpenStore(s)  BY <1>0, <1>4 DEF OpenStore
<1>5. ASSUME NEW pc \in {"enable", "disable", "release"}, Enter(s, pc) PROVE Goal
  BY <1>0, <1>5 DEF Enter
<1>6. CASE EnableBit(s)  BY <1>0, <1>6 DEF EnableBit
<1>7. CASE EnableReg(s)  BY <1>0, <1>7 DEF EnableReg
<1>8. CASE DisableBit(s)  BY <1>0, <1>8 DEF DisableBit
<1>9. CASE DisableReg(s)  BY <1>0, <1>9 DEF DisableReg
<1>10. CASE Read(s)  BY <1>0, <1>10 DEF Read
<1>11. CASE ReleaseIrqOne(s)  BY <1>0, <1>11 DEF ReleaseIrqOne
<1>12. CASE ReleaseIrq(s)  BY <1>0, <1>12 DEF ReleaseIrq
<1>13. CASE ReleaseData(s)  BY <1>0, <1>13 DEF ReleaseData
<1> QED BY <1>1, <1>2, <1>3, <1>4, <1>5, <1>6, <1>7, <1>8, <1>9, <1>10, <1>11, <1>12, <1>13
        DEF App, AppStep

\* What insmod and rmmod know, through what a process does with its file
LEMMA ShellInvApp == ASSUME Inv, NEW s \in Slot, App(s) PROVE ShellInv'
<1>0. ShellInv /\ UNCHANGED <<shell, loaded, cb>> /\ (shell.pc # "idle" => shell.type \in Type)
  BY AppFrame, TypeParts DEF Inv, CallInv, ShellInv, CoreT, coreVars, callVars
<1>1. shell.pc \in {"unreg", "unregSlot"} => \A r \in Slot : app'[r].type # shell.type
  BY <1>0, AppTypes, SlotAssumption DEF ShellInv, Live
<1> QED BY <1>0, <1>1 DEF ShellInv

\* AppInv through what a process does with its file
LEMMA AppInvApp == ASSUME Inv, NEW s \in Slot, App(s) PROVE AppInv'
<1>0. AppInv /\ UNCHANGED <<proc, dev>>
  BY AppFrame DEF Inv, CallInv, coreVars, callVars
<1> QED BY <1>0, AppTypes, SlotAssumption DEF AppInv, File

\* through the manager's calls: they are for a slot whose process has ended
LEMMA AppInvMgr == ASSUME Inv, Mgr PROVE AppInv'
<1>0. /\ AppInv /\ MgrInv /\ UNCHANGED app /\ mgr.slot \in Slot
      /\ dev \subseteq Dev
  BY MgrFrame, TypeParts DEF Inv, CallInv, MgrT, CoreT
<1>1. ASSUME \A s \in Slot : app[s].pc # "idle" => s \in proc',
             \A s \in Slot : app[s].pc # "idle" => File(s) \in dev'
      PROVE AppInv'
  BY <1>0, <1>1 DEF AppInv, File
<1>2. ASSUME proc \subseteq proc', dev \subseteq dev' PROVE AppInv'
  BY <1>0, <1>1, <1>2 DEF AppInv
<1>3. ASSUME NEW s \in Slot, NEW t \in Type, CallOnline(s, t) PROVE AppInv'
  BY <1>2, <1>3 DEF CallOnline
<1>4. ASSUME NEW s \in Slot, CallOffline(s) PROVE AppInv'
  BY <1>0, <1>1, <1>4 DEF CallOffline, AppInv
<1>5. CASE OnlineLock  BY <1>2, <1>5 DEF OnlineLock
<1>6. CASE OnlineCb  BY <1>2, <1>6 DEF OnlineCb, udf_online
<1>7. CASE OnlineSave  BY <1>2, <1>7 DEF OnlineSave
<1>8. CASE OnlineEnd \/ OfflineEnd  BY <1>2, <1>8 DEF OnlineEnd, OfflineEnd
<1>9. CASE OfflineLock  BY <1>2, <1>9 DEF OfflineLock
<1>10. CASE OfflineIrq  BY <1>2, <1>10 DEF OfflineIrq, coreVars
<1>11. CASE OfflineCb
  <2>1. UNCHANGED proc /\ dev \ {<<typeInfo[mgr.slot], mgr.slot>>} \subseteq dev'
    BY <1>11 DEF OfflineCb, udf_offline
  <2>2. app[mgr.slot].pc = "idle"  BY <1>0, <1>11 DEF OfflineCb, MgrInv, AppInv
  <2>3. \A s \in Slot : app[s].pc # "idle" => File(s) \in dev'
    BY <1>0, <2>1, <2>2 DEF AppInv, File
  <2> QED BY <1>0, <1>1, <2>1, <2>3 DEF AppInv
<1> QED BY <1>3, <1>4, <1>5, <1>6, <1>7, <1>8, <1>9, <1>10, <1>11 DEF Mgr, MgrStep

\* through insmod and rmmod: no file of the type being removed is open
LEMMA AppInvShell == ASSUME Inv, Shell PROVE AppInv'
<1>0. AppInv /\ ShellInv /\ UNCHANGED <<app, proc>>
  BY ShellFrame DEF Inv, CallInv
<1>1. dev \subseteq dev' \/ (UnregSlot /\ dev \ {<<shell.type, shell.i>>} \subseteq dev')
  <2>1. CASE RegSlot  BY <2>1 DEF RegSlot, udf_online
  <2>2. CASE UnregSlot  BY <2>2 DEF UnregSlot, udf_offline
  <2>3. ASSUME NEW t \in Type, Insmod(t) \/ Rmmod(t) PROVE UNCHANGED dev
    BY <2>3 DEF Insmod, Rmmod, coreVars
  <2>4. CASE RegLock \/ RegSave \/ InitFail \/ UnregLock \/ UnregEnd
    BY <2>4 DEF RegLock, RegSave, InitFail, UnregLock, UnregEnd
  <2> QED BY <2>1, <2>2, <2>3, <2>4 DEF Shell, ShellStep
<1>2. UnregSlot => \A s \in Slot : app[s].type # shell.type
  BY <1>0 DEF UnregSlot, ShellInv
<1>3. \A s \in Slot : app[s].pc # "idle" => File(s) \in dev'
  BY <1>0, <1>1, <1>2 DEF AppInv, File
<1> QED BY <1>0, <1>3 DEF AppInv, File

----------------------------------------------------------------------------
(* Devices *)

\* DevInv through the manager's calls
LEMMA DevInvMgr == ASSUME Inv, Mgr PROVE DevInv'
<1>0. /\ DevInv /\ MgrInv /\ UNCHANGED <<cb, shell>> /\ mgr.slot \in Slot
      /\ mgr \in [pc : MgrPc, slot : Slot, type : Type \cup {NULL}]
      /\ typeInfo \in [Slot -> Type \cup {NULL}]
  BY MgrFrame, TypeParts DEF Inv, CallInv, MgrT, CoreT
<1>1. ASSUME dev' \subseteq dev, mgr.pc # "onlineSave", UNCHANGED typeInfo PROVE DevInv'
  BY <1>0, <1>1 DEF DevInv
<1>2. ASSUME NEW s \in Slot, NEW t \in Type, CallOnline(s, t) PROVE DevInv'
  BY <1>1, <1>2 DEF CallOnline
<1>3. ASSUME NEW s \in Slot, CallOffline(s) PROVE DevInv'
  BY <1>1, <1>3 DEF CallOffline
<1>4. CASE OnlineLock  BY <1>1, <1>4 DEF OnlineLock
<1>5. CASE OnlineCb
  <2>1. CASE dev' \subseteq dev  BY <1>1, <1>5, <2>1 DEF OnlineCb
  <2>2. CASE ~(dev' \subseteq dev)
    <3>1. /\ dev' = dev \cup {<<mgr.type, mgr.slot>>} /\ mgr.type \in cb /\ UNCHANGED typeInfo
          /\ mgr.pc = "onlineCb" /\ mgr' = [mgr EXCEPT !.pc = "onlineSave"]
      BY <1>5, <2>2 DEF OnlineCb, udf_online
    <3>2. mgr'.pc = "onlineSave" /\ mgr'.slot = mgr.slot /\ mgr'.type = mgr.type
      BY <1>0, <3>1
    <3> QED BY <1>0, <3>1, <3>2 DEF DevInv
  <2> QED BY <2>1, <2>2
<1>6. CASE OnlineSave
  <2>1. /\ UNCHANGED dev /\ typeInfo[mgr.slot] = NULL /\ mgr.pc = "onlineSave"
        /\ typeInfo' = [typeInfo EXCEPT ![mgr.slot] = mgr.type]
    BY <1>0, <1>6 DEF OnlineSave, MgrInv
  <2>2. \A t \in Type, s \in Slot : <<t, s>> \in dev => typeInfo'[s] = t
    BY <1>0, <2>1, SlotAssumption DEF DevInv
  <2> QED BY <1>0, <2>1, <2>2 DEF DevInv
<1>7. CASE OnlineEnd \/ OfflineEnd  BY <1>1, <1>7 DEF OnlineEnd, OfflineEnd
<1>8. CASE OfflineLock  BY <1>1, <1>8 DEF OfflineLock
<1>9. CASE OfflineIrq  BY <1>1, <1>9 DEF OfflineIrq, coreVars
<1>10. CASE OfflineCb
  <2>1. CASE UNCHANGED typeInfo
    <3>1. dev' \subseteq dev  BY <1>10 DEF OfflineCb, udf_offline
    <3> QED BY <1>1, <1>10, <2>1, <3>1 DEF OfflineCb
  <2>2. CASE typeInfo' # typeInfo
    <3>1. /\ typeInfo' = [typeInfo EXCEPT ![mgr.slot] = NULL] /\ mgr.pc = "offlineCb"
          /\ dev' \subseteq dev
          /\ typeInfo[mgr.slot] \in cb => <<typeInfo[mgr.slot], mgr.slot>> \notin dev'
      BY <1>10, <2>2 DEF OfflineCb, udf_offline
    <3>2. ~ShellHasTypes  BY <3>1 DEF Inv, LockInv, TypeMutex
    <3>3. \A t \in Type : <<t, mgr.slot>> \notin dev'
      BY <1>0, <3>1, <3>2 DEF DevInv, ShellHasTypes
    <3> QED BY <1>0, <3>1, <3>3 DEF DevInv
  <2> QED BY <2>1, <2>2
<1> QED BY <1>2, <1>3, <1>4, <1>5, <1>6, <1>7, <1>8, <1>9, <1>10 DEF Mgr, MgrStep

\* and through insmod and rmmod
LEMMA DevInvShell == ASSUME Inv, Shell PROVE DevInv'
<1>0. /\ DevInv /\ ShellInv /\ UNCHANGED <<mgr, typeInfo>> /\ shell.i \in 0 .. NSlot
      /\ shell \in [pc : ShellPc, type : Type \cup {NULL}, i : 0 .. NSlot, ok : BOOLEAN]
  BY ShellFrame, TypeParts DEF Inv, CallInv, ShellT
<1>1. \A s \in Slot, i \in 0 .. NSlot :
        /\ s \in Int /\ i \in Int /\ (s < i => s < i + 1) /\ (i = 0 => i <= s /\ ~(s < i))
        /\ (i = NSlot => ~(i <= s) /\ s < i) /\ (i <= s /\ s # i => i + 1 <= s) /\ i < i + 1
  <2>1. NSlot \in Int  BY SlotAssumption
  <2>2. \A s \in 0 .. NSlot - 1 : s \in Int /\ 0 <= s /\ s < NSlot  BY <2>1
  <2>3. \A i \in 0 .. NSlot : i \in Int  OBVIOUS
  <2> QED BY <2>1, <2>2, <2>3 DEF Slot
<1>2. ASSUME dev' \subseteq dev,
             \A t \in Type, s \in Slot : <<t, s>> \in dev' =>
               \/ t \in cb'
               \/ shell'.type = t /\ shell'.pc = "regSlot" /\ s < shell'.i
               \/ shell'.type = t /\ shell'.pc = "unregSlot" /\ shell'.i <= s
      PROVE DevInv'
  BY <1>0, <1>2 DEF DevInv
<1>3. ASSUME UNCHANGED <<dev, cb>>, shell.pc \notin {"regSlot", "unregSlot"} PROVE DevInv'
  BY <1>0, <1>2, <1>3 DEF DevInv
<1>4. ASSUME NEW t \in Type, Insmod(t) PROVE DevInv'  BY <1>3, <1>4 DEF Insmod
<1>5. ASSUME NEW t \in Type, Rmmod(t) PROVE DevInv'  BY <1>3, <1>5 DEF Rmmod, coreVars
<1>6. CASE RegLock  BY <1>3, <1>6 DEF RegLock
<1>7. CASE RegSlot
  <2>1. /\ shell'.type = shell.type /\ shell'.pc = "regSlot" /\ shell'.i = shell.i + 1
        /\ shell.pc = "regSlot" /\ UNCHANGED cb
    BY <1>0, <1>7 DEF RegSlot
  <2>2. \A t \in Type, s \in Slot : <<t, s>> \in dev' => <<t, s>> \in dev \/
          (t = shell.type /\ s = shell.i /\ typeInfo[s] = t)
    <3>1. \/ UNCHANGED dev
          \/ typeInfo[shell.i] = shell.type /\ dev' = dev \cup {<<shell.type, shell.i>>}
      BY <1>7 DEF RegSlot, udf_online
    <3> QED BY <3>1
  <2> QED BY <1>0, <1>1, <2>1, <2>2 DEF DevInv
<1>8. CASE RegSave
  <2>1. UNCHANGED dev /\ cb' = cb \cup {shell.type} /\ shell.pc = "regSlot"  BY <1>8 DEF RegSave
  <2> QED BY <1>0, <1>2, <2>1 DEF DevInv
<1>9. CASE InitFail  BY <1>3, <1>9 DEF InitFail
<1>10. CASE UnregLock
  <2>1. /\ UNCHANGED dev /\ cb' = cb \ {shell.type} /\ shell.pc = "unreg" /\ shell.i = 0
        /\ shell'.type = shell.type /\ shell'.pc = "unregSlot" /\ shell'.i = 0
    BY <1>0, <1>10 DEF UnregLock, ShellInv
  <2> QED BY <1>0, <1>1, <1>2, <2>1 DEF DevInv
<1>11. CASE UnregSlot
  <2>1. /\ shell'.type = shell.type /\ shell'.pc = "unregSlot" /\ shell'.i = shell.i + 1
        /\ shell.pc = "unregSlot" /\ UNCHANGED cb /\ dev' \subseteq dev
    BY <1>0, <1>11 DEF UnregSlot, udf_offline
  <2>2. typeInfo[shell.i] = shell.type => <<shell.type, shell.i>> \notin dev'
    BY <1>11 DEF UnregSlot, udf_offline
  <2>3. mgr.pc = "idle"
    BY <2>1 DEF Inv, LockInv, TypeMutex, ShellHasTypes
  <2>4. \A t \in Type, s \in Slot : <<t, s>> \in dev' => typeInfo[s] = t
    BY <1>0, <2>1, <2>3 DEF DevInv
  <2> QED BY <1>0, <1>1, <1>2, <2>1, <2>2, <2>4 DEF DevInv
<1>12. CASE UnregEnd
  <2>1. UNCHANGED <<dev, cb>> /\ shell.pc = "unregSlot" /\ shell.i = NSlot
    BY <1>12 DEF UnregEnd
  <2> QED BY <1>0, <1>1, <1>2, <2>1 DEF DevInv
<1> QED BY <1>4, <1>5, <1>6, <1>7, <1>8, <1>9, <1>10, <1>11, <1>12 DEF Shell, ShellStep

----------------------------------------------------------------------------
(* The interrupt of a slot *)

\* What a process does with its file leaves the interrupts of the other slots
\* alone.
LEMMA AppIrq ==
  ASSUME Inv, NEW s \in Slot, App(s)
  PROVE  \A r \in Slot : r # s =>
           /\ arg'[r] = arg[r] /\ spurious'[r] = spurious[r]
           /\ (r \in isr' <=> r \in isr) /\ (r \in enabled' <=> r \in enabled)
           /\ (r \in masked' <=> r \in masked)
<1>0. arg \in [Slot -> Type \cup {NULL}] /\ spurious \in [Slot -> -1 .. MaxSpurious]
  BY TypeParts DEF Inv, IrqT
<1> DEFINE Goal == \A r \in Slot : r # s =>
                     /\ arg'[r] = arg[r] /\ spurious'[r] = spurious[r]
                     /\ (r \in isr' <=> r \in isr) /\ (r \in enabled' <=> r \in enabled)
                     /\ (r \in masked' <=> r \in masked)
<1>1. ASSUME UNCHANGED irqVars PROVE Goal  BY <1>1 DEF irqVars
<1>2. ASSUME NEW t \in Type, Open(s, t) PROVE Goal  BY <1>1, <1>2 DEF Open
<1>3. ASSUME NEW pc \in {"enable", "disable", "release"}, Enter(s, pc) PROVE Goal
  BY <1>1, <1>3 DEF Enter
<1>4. CASE OpenCheck(s) \/ Read(s) \/ ReleaseData(s)
  BY <1>1, <1>4 DEF OpenCheck, Read, ReleaseData
<1>5. CASE OpenStoreOne(s)  BY <1>0, <1>5 DEF OpenStoreOne
<1>6. CASE OpenStore(s)  BY <1>0, <1>6 DEF OpenStore
<1>7. CASE EnableBit(s)  BY <1>0, <1>7 DEF EnableBit
<1>8. CASE EnableReg(s)  BY <1>0, <1>8 DEF EnableReg
<1>9. CASE DisableBit(s)  BY <1>0, <1>9 DEF DisableBit
<1>10. CASE DisableReg(s)  BY <1>0, <1>10 DEF DisableReg
<1>11. CASE ReleaseIrqOne(s)  BY <1>0, <1>11 DEF ReleaseIrqOne
<1>12. CASE ReleaseIrq(s)  BY <1>0, <1>12 DEF ReleaseIrq
<1> QED BY <1>2, <1>3, <1>4, <1>5, <1>6, <1>7, <1>8, <1>9, <1>10, <1>11, <1>12 DEF App, AppStep

\* IrqInv through what a process does with its file
LEMMA IrqInvApp == ASSUME Inv, NEW s \in Slot, App(s) PROVE IrqInv'
<1>0. /\ IrqInv /\ app \in [Slot -> [pc : AppPc, type : Type \cup {NULL}]]
      /\ isr \subseteq Slot /\ arg \in [Slot -> Type \cup {NULL}] /\ enabled \subseteq Slot
  BY TypeParts DEF Inv, FileT, IrqT
<1> DEFINE One(r) == /\ r \in isr \/ arg[r] # NULL => app[r].pc \in IrqPc
                     /\ arg[r] # NULL => arg[r] = app[r].type
                     /\ r \in enabled => app[r].pc \in EnabledPc
<1>00. \A r \in Slot : One(r)  BY <1>0 DEF IrqInv
<1>000. \A r \in Slot : r # s => /\ app'[r] = app[r] /\ arg'[r] = arg[r]
                                 /\ (r \in isr' <=> r \in isr) /\ (r \in enabled' <=> r \in enabled)
  BY AppTypes, AppIrq
<1> SUFFICES One(s)'  BY <1>00, <1>000 DEF IrqInv
<1>1. ASSUME NEW t \in Type, Open(s, t) PROVE One(s)'
  BY <1>0, <1>00, <1>1 DEF Open, irqVars, IrqPc, EnabledPc
<1>2. CASE OpenCheck(s)  BY <1>0, <1>00, <1>2 DEF OpenCheck, irqVars, IrqPc, EnabledPc
<1>3. CASE OpenStoreOne(s)  BY <1>0, <1>00, <1>3 DEF OpenStoreOne, IrqPc, EnabledPc
<1>4. CASE OpenStore(s)  BY <1>0, <1>00, <1>4 DEF OpenStore, IrqPc, EnabledPc
<1>5. ASSUME NEW pc \in {"enable", "disable", "release"}, Enter(s, pc) PROVE One(s)'
  BY <1>0, <1>00, <1>5 DEF Enter, irqVars, IrqPc, EnabledPc
<1>6. CASE EnableBit(s)  BY <1>0, <1>00, <1>6 DEF EnableBit, IrqPc, EnabledPc
<1>7. CASE EnableReg(s)  BY <1>0, <1>00, <1>7 DEF EnableReg, IrqPc, EnabledPc
<1>8. CASE DisableBit(s)  BY <1>0, <1>00, <1>8 DEF DisableBit, IrqPc, EnabledPc
<1>9. CASE DisableReg(s)  BY <1>0, <1>00, <1>9 DEF DisableReg, IrqPc, EnabledPc
<1>10. CASE Read(s)  BY <1>0, <1>00, <1>10 DEF Read, irqVars, IrqPc, EnabledPc
<1>11. CASE ReleaseIrqOne(s)  BY <1>0, <1>00, <1>11 DEF ReleaseIrqOne, IrqPc, EnabledPc
<1>12. CASE ReleaseIrq(s)  BY <1>0, <1>00, <1>12 DEF ReleaseIrq, IrqPc, EnabledPc
<1>13. CASE ReleaseData(s)  BY <1>0, <1>00, <1>13 DEF ReleaseData, irqVars, IrqPc, EnabledPc
<1> QED BY <1>1, <1>2, <1>3, <1>4, <1>5, <1>6, <1>7, <1>8, <1>9, <1>10, <1>11, <1>12, <1>13
        DEF App, AppStep

\* Of the manager's calls only OfflineIrq touches it, and takes away.
LEMMA MgrIrq ==
  Mgr => \/ UNCHANGED irqVars
         \/ OfflineIrq
<1> SUFFICES ASSUME Mgr, ~OfflineIrq PROVE UNCHANGED irqVars  OBVIOUS
<1>1. ASSUME NEW s \in Slot, CallOffline(s) PROVE UNCHANGED irqVars
  BY <1>1 DEF CallOffline
<1>2. ASSUME NEW s \in Slot, NEW t \in Type, CallOnline(s, t) PROVE UNCHANGED irqVars
  BY <1>2 DEF CallOnline
<1> QED BY <1>1, <1>2 DEF Mgr, MgrStep, OnlineLock, OnlineCb, OnlineSave, OnlineEnd, OfflineLock,
                          OfflineCb, OfflineEnd

\* IrqInv through a call of the manager
LEMMA IrqInvMgr == ASSUME Inv, Mgr PROVE IrqInv'
<1>0. /\ IrqInv /\ UNCHANGED app
      /\ isr \subseteq Slot /\ arg \in [Slot -> Type \cup {NULL}] /\ enabled \subseteq Slot
  BY MgrFrame, TypeParts DEF Inv, IrqT
<1>1. CASE UNCHANGED irqVars  BY <1>0, <1>1 DEF IrqInv, irqVars
<1>2. CASE OfflineIrq  BY <1>0, <1>2 DEF IrqInv, OfflineIrq
<1> QED BY <1>1, <1>2, MgrIrq

----------------------------------------------------------------------------
(* The handler's device *)

\* WorkInv through the handler of a work item
LEMMA WorkInvHandler == ASSUME Inv, NEW w \in Work, Handler(w) PROVE WorkInv'
<1>0. /\ WorkInv /\ work \in [Work -> [pc : WorkPc, arg : Type \cup {NULL}]]
      /\ UNCHANGED <<loaded, cb, dev, shell>> /\ w[1] \in Slot
      /\ arg \in [Slot -> Type \cup {NULL}]
  BY HandlerFrame, TypeParts, WorkPair DEF Inv, WorkT, IrqT, callVars
<1>1. \A u \in Work : u # w => work'[u] = work[u]
  BY <1>0 DEF Handler, WorkStart, WorkCheck, WorkCall, WorkIsr, WorkUnmask
<1>2. ASSUME work'[w].pc # "isr" PROVE WorkInv'
  BY <1>0, <1>1, <1>2 DEF WorkInv
<1>3. CASE WorkStart(w)  BY <1>0, <1>2, <1>3 DEF WorkStart
<1>4. CASE WorkCheck(w)  BY <1>0, <1>2, <1>4 DEF WorkCheck
<1>5. CASE WorkCall(w)
  <2>1. CASE UNCHANGED work  BY <1>0, <2>1 DEF WorkInv
  <2>2. CASE arg[w[1]] # NULL /\ work' = [work EXCEPT ![w] = [pc |-> "isr", arg |-> arg[w[1]]]]
    <3>1. app[w[1]].pc # "idle" /\ arg[w[1]] = app[w[1]].type /\ arg[w[1]] \in Type
      BY <1>0, <2>2 DEF Inv, IrqInv, IrqPc
    <3>2. <<arg[w[1]], w[1]>> \in dev
      BY <1>0, <3>1 DEF Inv, CallInv, AppInv, File
    <3>3. arg[w[1]] \in loaded \cup cb
      BY <1>0, <3>1, <3>2 DEF Inv, CallInv, DevInv, ShellInv
    <3>4. shell.pc = "unregSlot" => arg[w[1]] # shell.type
      BY <1>0, <3>1 DEF Inv, CallInv, ShellInv
    <3>5. work'[w].arg = arg[w[1]]  BY <1>0, <2>2
    <3> QED BY <1>0, <1>1, <3>2, <3>3, <3>4, <3>5 DEF WorkInv
  <2> QED BY <1>5, <2>1, <2>2 DEF WorkCall
<1>6. CASE WorkIsr(w)  BY <1>0, <1>2, <1>6 DEF WorkIsr
<1>7. CASE WorkUnmask(w)  BY <1>0, <1>2, <1>7 DEF WorkUnmask
<1> QED BY <1>3, <1>4, <1>5, <1>6, <1>7 DEF Handler

\* through the manager's calls: cb_offline holds slot_mutex
LEMMA WorkInvMgr == ASSUME Inv, Mgr PROVE WorkInv'
<1>0. WorkInv /\ UNCHANGED <<work, loaded, cb, shell>>  BY MgrFrame DEF Inv
<1>1. ASSUME dev \subseteq dev' PROVE WorkInv'  BY <1>0, <1>1 DEF WorkInv
<1>2. ASSUME NEW s \in Slot, NEW t \in Type, CallOnline(s, t) PROVE WorkInv'
  BY <1>1, <1>2 DEF CallOnline
<1>3. ASSUME NEW s \in Slot, CallOffline(s) PROVE WorkInv'
  BY <1>1, <1>3 DEF CallOffline
<1>4. CASE OnlineLock \/ OnlineCb \/ OnlineSave \/ OnlineEnd
  BY <1>1, <1>4 DEF OnlineLock, OnlineCb, OnlineSave, OnlineEnd, udf_online
<1>5. CASE OfflineLock \/ OfflineIrq \/ OfflineEnd
  BY <1>1, <1>5 DEF OfflineLock, OfflineIrq, OfflineEnd, coreVars
<1>6. CASE OfflineCb
  <2>1. dev \ {<<typeInfo[mgr.slot], mgr.slot>>} \subseteq dev' /\ MgrHolds(mgr.slot)
    BY <1>6 DEF OfflineCb, udf_offline, MgrHolds
  <2>2. \A w \in Work : work[w].pc = "isr" => w[1] # mgr.slot
    BY <2>1 DEF Inv, LockInv, SlotMutex, WorkHolds
  <2>3. \A w \in Work : work[w].pc = "isr" => <<work[w].arg, w[1]>> \in dev'
    BY <1>0, <2>1, <2>2 DEF WorkInv
  <2> QED BY <1>0, <2>3 DEF WorkInv
<1> QED BY <1>2, <1>3, <1>4, <1>5, <1>6 DEF Mgr, MgrStep

\* through insmod and rmmod: pdm_unreg_online_offline_cb waits for slot_mutex,
\* and a type whose registration failed keeps its callbacks
LEMMA WorkInvShell == ASSUME Inv, Shell PROVE WorkInv'
<1>0. /\ WorkInv /\ ShellInv /\ UNCHANGED work
      /\ shell.i \in 0 .. NSlot /\ \A w \in Work : w[1] \in Slot
      /\ shell \in [pc : ShellPc, type : Type \cup {NULL}, i : 0 .. NSlot, ok : BOOLEAN]
  BY ShellFrame, TypeParts, WorkPair DEF Inv, CallInv, ShellT, intVars
<1>1. \A s \in Slot, i \in 0 .. NSlot :
        /\ (i = 0 => i <= s) /\ (i = NSlot => ~(i <= s)) /\ (i <= s /\ s # i => i + 1 <= s)
  <2>1. NSlot \in Int  BY SlotAssumption
  <2>2. \A s \in 0 .. NSlot - 1 : s \in Int /\ 0 <= s /\ s < NSlot  BY <2>1
  <2>3. \A i \in 0 .. NSlot : i \in Int  OBVIOUS
  <2> QED BY <2>1, <2>2, <2>3 DEF Slot
<1>2. ASSUME loaded \cup cb \subseteq loaded' \cup cb', dev \subseteq dev', shell'.pc # "unregSlot"
      PROVE WorkInv'
  BY <1>0, <1>2 DEF WorkInv
<1>3. ASSUME NEW t \in Type, Insmod(t) PROVE WorkInv'  BY <1>2, <1>3 DEF Insmod
<1>4. ASSUME NEW t \in Type, Rmmod(t) PROVE WorkInv'  BY <1>2, <1>4 DEF Rmmod, coreVars
<1>5. CASE RegLock  BY <1>0, <1>2, <1>5 DEF RegLock
<1>6. CASE RegSlot
  <2>1. dev \subseteq dev' /\ UNCHANGED <<loaded, cb>> /\ shell.pc = "regSlot"
    BY <1>6 DEF RegSlot, udf_online
  <2>2. shell'.pc = shell.pc  BY <1>0, <1>6 DEF RegSlot
  <2> QED BY <1>2, <2>1, <2>2
<1>7. CASE RegSave
  <2>1. loaded \cup cb \subseteq loaded' \cup cb' /\ UNCHANGED dev  BY <1>7 DEF RegSave
  <2>2. shell'.pc # "unregSlot"  BY <1>0, <1>7 DEF RegSave
  <2> QED BY <1>2, <2>1, <2>2
<1>8. CASE InitFail
  <2>1. shell.type \in cb /\ UNCHANGED <<cb, dev>> /\ loaded' = loaded \ {shell.type}
        /\ shell'.pc # "unregSlot"
    BY <1>0, <1>8 DEF InitFail, ShellInv
  <2> QED BY <1>2, <2>1
<1>9. CASE UnregLock
  <2>1. /\ shell.type \in loaded /\ shell'.i = 0 /\ UNCHANGED <<loaded, dev>>
        /\ cb' = cb \ {shell.type}
    BY <1>0, <1>9 DEF UnregLock, ShellInv
  <2>2. \A w \in Work : 0 <= w[1]  BY <1>0, SlotAssumption DEF Slot
  <2>3. loaded \cup cb \subseteq loaded' \cup cb'  BY <2>1
  <2> QED BY <1>0, <2>1, <2>2, <2>3 DEF WorkInv
<1>10. CASE UnregSlot
  <2>1. /\ shell.pc = "unregSlot" /\ shell.i \in Slot /\ shell.i \notin slotLocked
        /\ UNCHANGED <<loaded, cb>> /\ dev \ {<<shell.type, shell.i>>} \subseteq dev'
    <3>1. shell.i \in Slot
      <4>1. \A i \in 0 .. NSlot : i < NSlot => i \in 0 .. NSlot - 1  BY SlotAssumption
      <4>2. shell.i < NSlot  BY <1>10 DEF UnregSlot
      <4> QED BY <1>0, <4>1, <4>2 DEF Slot
    <3> QED BY <1>10, <3>1 DEF UnregSlot, udf_offline
  <2>2. shell'.type = shell.type /\ shell'.i = shell.i + 1  BY <1>0, <1>10 DEF UnregSlot
  <2>3. \A w \in Work : work[w].pc = "isr" => w[1] # shell.i
    BY <2>1 DEF Inv, LockInv, SlotMutex, WorkHolds
  <2>4. \A w \in Work : work[w].pc = "isr" => <<work[w].arg, w[1]>> \in dev'
    BY <1>0, <2>1, <2>3 DEF WorkInv
  <2>5. \A w \in Work : work[w].pc = "isr" /\ work[w].arg = shell.type => shell.i + 1 <= w[1]
    BY <1>0, <1>1, <2>1, <2>3 DEF WorkInv
  <2> QED BY <1>0, <2>1, <2>2, <2>4, <2>5 DEF WorkInv
<1>11. CASE UnregEnd
  <2>1. /\ shell.pc = "unregSlot" /\ shell.i = NSlot /\ UNCHANGED <<cb, dev>>
        /\ loaded' = loaded \ {shell.type} /\ shell'.pc = "idle"
    BY <1>11 DEF UnregEnd
  <2>2. \A w \in Work : work[w].pc = "isr" => work[w].arg # shell.type
    BY <1>0, <1>1, <2>1 DEF WorkInv
  <2> QED BY <1>0, <2>1, <2>2 DEF WorkInv
<1> QED BY <1>3, <1>4, <1>5, <1>6, <1>7, <1>8, <1>9, <1>10, <1>11 DEF Shell, ShellStep

----------------------------------------------------------------------------
(* Interrupts after pdm_disable_int *)

\* SpuriousInv through what a process does with its file
LEMMA SpuriousApp == ASSUME Inv, NEW s \in Slot, App(s) PROVE SpuriousInv'
<1>0. /\ SpuriousInv /\ app \in [Slot -> [pc : AppPc, type : Type \cup {NULL}]]
      /\ spurious \in [Slot -> -1 .. MaxSpurious] /\ UNCHANGED work
      /\ (s \in enabled => app[s].pc \in EnabledPc)
      /\ enabled \subseteq Slot /\ masked \subseteq Slot
  BY AppFrame, TypeParts DEF Inv, FileT, IrqT, IrqInv, intVars
<1> DEFINE One(r) == /\ r \in enabled \/ app[r].pc = "enableReg" => spurious[r] = -1
                     /\ spurious[r] <= 1
                     /\ spurious[r] = 0 => r \in masked \/ ~InFlight(r)
                     /\ spurious[r] = 1 => r \in masked /\ ~InFlight(r)
<1>1. \A r \in Slot : One(r)  BY <1>0 DEF SpuriousInv
<1>2. \A r \in Slot : InFlight(r)' <=> InFlight(r)  BY <1>0 DEF InFlight, WorkHolds
<1>3. \A r \in Slot : r # s => /\ app'[r] = app[r] /\ spurious'[r] = spurious[r]
                               /\ (r \in enabled' <=> r \in enabled) /\ (r \in masked' <=> r \in masked)
  BY AppTypes, AppIrq
<1> SUFFICES One(s)'  BY <1>1, <1>2, <1>3 DEF SpuriousInv
<1>4. ASSUME UNCHANGED <<spurious, masked>>, s \in enabled' => s \in enabled,
             app'[s].pc # "enableReg"
      PROVE One(s)'
  BY <1>1, <1>2, <1>4
<1>5. ASSUME NEW t \in Type, Open(s, t) PROVE One(s)'  BY <1>0, <1>4, <1>5 DEF Open, irqVars
<1>6. CASE OpenCheck(s)  BY <1>0, <1>4, <1>6 DEF OpenCheck, irqVars
<1>7. CASE OpenStoreOne(s)  BY <1>0, <1>4, <1>7 DEF OpenStoreOne
<1>8. CASE OpenStore(s)  BY <1>0, <1>4, <1>8 DEF OpenStore
<1>9. ASSUME NEW pc \in {"enable", "disable", "release"}, Enter(s, pc) PROVE One(s)'
  BY <1>0, <1>4, <1>9 DEF Enter, irqVars
<1>10. CASE EnableBit(s)  BY <1>0, <1>10 DEF EnableBit
<1>11. CASE EnableReg(s)  BY <1>0, <1>1, <1>11 DEF EnableReg
<1>12. CASE DisableBit(s)  BY <1>0, <1>4, <1>12 DEF DisableBit
<1>13. CASE DisableReg(s)  BY <1>0, <1>13 DEF DisableReg, EnabledPc
<1>14. CASE Read(s)  BY <1>1, <1>2, <1>14 DEF Read, irqVars
<1>15. CASE ReleaseIrqOne(s)  BY <1>0, <1>4, <1>15 DEF ReleaseIrqOne
<1>16. CASE ReleaseIrq(s)  BY <1>0, <1>4, <1>16 DEF ReleaseIrq
<1>17. CASE ReleaseData(s)  BY <1>0, <1>4, <1>17 DEF ReleaseData, irqVars
<1> QED BY <1>5, <1>6, <1>7, <1>8, <1>9, <1>10, <1>11, <1>12, <1>13, <1>14, <1>15, <1>16, <1>17
        DEF App, AppStep

\* through a call of the manager: the file of the slot is closed
LEMMA SpuriousMgr == ASSUME Inv, Mgr PROVE SpuriousInv'
<1>0. /\ SpuriousInv /\ UNCHANGED <<app, work>> /\ mgr.slot \in Slot
      /\ spurious \in [Slot -> -1 .. MaxSpurious]
  BY MgrFrame, TypeParts DEF Inv, IrqT, MgrT
<1>1. \A s \in Slot : InFlight(s)' <=> InFlight(s)  BY <1>0 DEF InFlight, WorkHolds
<1>2. CASE UNCHANGED irqVars  BY <1>0, <1>1, <1>2 DEF SpuriousInv, irqVars
<1>3. CASE OfflineIrq
  <2>1. app[mgr.slot].pc # "enableReg"
    BY <1>0, <1>3 DEF OfflineIrq, Inv, CallInv, MgrInv, AppInv
  <2> QED BY <1>0, <1>1, <1>3, <2>1 DEF OfflineIrq, SpuriousInv
<1> QED BY <1>2, <1>3, MgrIrq

\* through an interrupt: one that is counted a second time would find the slot
\* not masked, and no handler was there to unmask it
LEMMA SpuriousIrq == ASSUME Inv, NEW s \in Slot, Irq(s) PROVE SpuriousInv'
<1>0. /\ SpuriousInv /\ UNCHANGED <<app, work, enabled>>
      /\ spurious \in [Slot -> -1 .. MaxSpurious]
  BY IrqFrame, TypeParts DEF Inv, IrqT, fileVars
<1>1. \A r \in Slot : InFlight(r)' <=> InFlight(r)  BY <1>0 DEF InFlight, WorkHolds
<1>2. CASE UNCHANGED irqVars  BY <1>0, <1>1, <1>2 DEF SpuriousInv, irqVars
<1>3. CASE IrqMask(s)
  <2>1. s \notin masked /\ masked' = masked \cup {s}  BY <1>3 DEF IrqMask
  <2>2. \A r \in Slot : r # s => spurious'[r] = spurious[r]  BY <1>0, <1>3 DEF IrqMask
  <2>3. spurious[s] \in Int /\ spurious[s] # 1  BY <1>0, <2>1 DEF SpuriousInv
  <2>4. spurious[s] # 0 => spurious'[s] = spurious[s]
    <3>1. spurious[s] < 0 \/ spurious[s] = 0  BY <1>0, <2>3 DEF SpuriousInv
    <3> QED BY <1>0, <1>3, <2>3, <3>1 DEF IrqMask
  <2>5. spurious[s] = 0 => ~InFlight(s) /\ spurious'[s] = 1
    <3>1. 0 \in 0 .. MaxSpurious - 1 /\ 0 + 1 = 1  BY SlotAssumption
    <3> QED BY <1>0, <1>3, <2>1, <3>1 DEF SpuriousInv, IrqMask
  <2> QED BY <1>0, <1>1, <2>1, <2>2, <2>3, <2>4, <2>5 DEF SpuriousInv
<1> QED BY <1>2, <1>3 DEF Irq, LineChange, IrqSchedule

\* through the handler of a work item: it goes on only where the interrupt is
\* enabled, and only one of the two unmasks it later
LEMMA SpuriousHandler == ASSUME Inv, NEW w \in Work, Handler(w) PROVE SpuriousInv'
<1>0. /\ SpuriousInv /\ UNCHANGED <<app, spurious, enabled>> /\ w[1] \in Slot
      /\ work \in [Work -> [pc : WorkPc, arg : Type \cup {NULL}]]
  BY HandlerFrame, TypeParts, WorkPair DEF Inv, WorkT
<1>1. \A u \in Work : u # w => work'[u] = work[u]
  BY <1>0 DEF Handler, WorkStart, WorkCheck, WorkCall, WorkIsr, WorkUnmask
<1>2. \A r \in Slot : r # w[1] => (InFlight(r)' <=> InFlight(r))
  BY <1>1, WorkPair DEF InFlight, WorkHolds
<1>3. ASSUME UNCHANGED masked, WorkHolds(w)' => WorkHolds(w) PROVE SpuriousInv'
  <2>1. InFlight(w[1])' => InFlight(w[1])
    BY <1>0, <1>1, <1>3, WorkPair DEF InFlight, WorkHolds
  <2> QED BY <1>0, <1>2, <1>3, <2>1 DEF SpuriousInv
<1>4. CASE WorkStart(w)  BY <1>0, <1>3, <1>4 DEF WorkStart, WorkHolds, irqVars
<1>5. CASE WorkCheck(w)
  <2>1. CASE w[1] \in enabled
    <3>1. spurious[w[1]] = -1 /\ UNCHANGED masked
      BY <1>0, <1>5, <2>1 DEF WorkCheck, SpuriousInv, irqVars
    <3> QED BY <1>0, <1>2, <3>1 DEF SpuriousInv
  <2>2. CASE w[1] \notin enabled
    BY <1>0, <1>3, <1>5, <2>2 DEF WorkCheck, WorkHolds, irqVars
  <2> QED BY <2>1, <2>2
<1>6. CASE WorkCall(w)  BY <1>0, <1>3, <1>6 DEF WorkCall, WorkHolds, irqVars
<1>7. CASE WorkIsr(w)  BY <1>0, <1>3, <1>7 DEF WorkIsr, WorkHolds, irqVars
<1>8. CASE WorkUnmask(w)
  <2>1. /\ WorkHolds(w) /\ ~WorkHolds(w)' /\ masked' = masked \ {w[1]}
    BY <1>0, <1>8 DEF WorkUnmask, WorkHolds
  <2>2. \A u \in Work : u # w /\ u[1] = w[1] => ~WorkHolds(u)
    <3> SUFFICES ASSUME NEW u \in Work, u # w, u[1] = w[1], WorkHolds(u) PROVE FALSE
      OBVIOUS
    <3>1. {u, w} = {<<w[1], 0>>, <<w[1], 1>>}  BY WorkPair
    <3> QED BY <1>0, <2>1, <3>1 DEF Inv, LockInv, SlotMutex
  <2>3. InFlight(w[1]) /\ ~InFlight(w[1])'
    BY <1>0, <1>1, <2>1, <2>2, WorkPair DEF InFlight, WorkHolds
  <2> QED BY <1>0, <1>2, <2>1, <2>3 DEF SpuriousInv
<1> QED BY <1>4, <1>5, <1>6, <1>7, <1>8 DEF Handler

----------------------------------------------------------------------------
(* The invariant *)

\* It holds of an empty table with no module loaded.
LEMMA InitInv == Init => Inv
<1> SUFFICES ASSUME Init PROVE Inv  OBVIOUS
<1> USE SlotAssumption DEF Init
<1>1. TypeOK
  <2>1. CoreT /\ DataT /\ LineT  BY DEF CoreT, DataT, LineT
  <2>2. -1 \in -1 .. MaxSpurious /\ 0 \in Slot /\ 0 \in 0 .. NSlot  BY DEF Slot
  <2>3. IrqT  BY <2>2 DEF IrqT
  <2>4. FileT /\ WorkT  BY DEF FileT, WorkT, AppPc, WorkPc
  <2>5. MgrT /\ ShellT  BY <2>2 DEF MgrT, ShellT, MgrPc, ShellPc
  <2> QED BY <2>1, <2>3, <2>4, <2>5, TypeParts
<1>2. LockInv  BY WorkPair DEF LockInv, TypeMutex, SlotMutex, ShellHasTypes, MgrHolds, WorkHolds
<1>3. CallInv  BY DEF CallInv, MgrInv, ShellInv, AppInv, DevInv
<1>4. IrqInv /\ WorkInv  BY DEF IrqInv, WorkInv
<1>5. SpuriousInv
  <2>1. \A s \in Slot : spurious[s] = -1 /\ ~InFlight(s)
    BY WorkPair DEF InFlight, WorkHolds
  <2> QED BY <2>1 DEF SpuriousInv
<1> QED BY <1>1, <1>2, <1>3, <1>4, <1>5 DEF Inv

\* No step of any actor disturbs it.
LEMMA NextInv == Inv /\ [Next]_vars => Inv'
<1> SUFFICES ASSUME Inv, [Next]_vars PROVE Inv'  OBVIOUS
<1>1. CASE Mgr
  <2>1. ShellInv'  BY <1>1, MgrFrame DEF Inv, CallInv, ShellInv
  <2> QED BY <1>1, <2>1, TypeMgr, TypeMutexMgr, SlotMutexMgr, MgrInvMgr, AppInvMgr, DevInvMgr,
             IrqInvMgr, WorkInvMgr, SpuriousMgr DEF Inv, LockInv, CallInv
<1>2. CASE Shell
  <2>1. SlotMutex' /\ IrqInv' /\ SpuriousInv'
    BY <1>2, ShellFrame
    DEF Inv, LockInv, SlotMutex, MgrHolds, WorkHolds, IrqInv, SpuriousInv, InFlight, irqVars, intVars
  <2> QED BY <1>2, <2>1, TypeShell, TypeMutexShell, MgrInvShell, ShellInvShell, AppInvShell,
             DevInvShell, WorkInvShell DEF Inv, LockInv, CallInv
<1>3. ASSUME NEW s \in Slot, App(s) PROVE Inv'
  <2>1. UNCHANGED <<coreVars, callVars, intVars>>  BY <1>3, AppFrame
  <2>2. LockInv' /\ MgrInv' /\ DevInv' /\ WorkInv'
    BY <2>1 DEF Inv, LockInv, CallInv, TypeMutex, ShellHasTypes, SlotMutex, MgrHolds, WorkHolds,
       MgrInv, DevInv, WorkInv, coreVars, callVars, intVars
  <2> QED BY <1>3, <2>2, TypeApp, ShellInvApp, AppInvApp, IrqInvApp, SpuriousApp DEF Inv, CallInv
<1>4. ASSUME NEW s \in Slot, Irq(s) PROVE Inv'
  <2>1. UNCHANGED <<coreVars, fileVars, callVars, isr, arg, enabled, work, oops>>
    BY <1>4, IrqFrame
  <2>2. LockInv'
    BY <2>1 DEF Inv, LockInv, TypeMutex, ShellHasTypes, SlotMutex, MgrHolds, WorkHolds,
       coreVars, callVars
  <2>3. CallInv'
    BY <2>1 DEF Inv, CallInv, MgrInv, ShellInv, AppInv, File, DevInv, coreVars, callVars, fileVars
  <2>4. IrqInv' /\ WorkInv'
    BY <2>1 DEF Inv, IrqInv, WorkInv, coreVars, callVars, fileVars
  <2> QED BY <1>4, <2>2, <2>3, <2>4, TypeIrq, SpuriousIrq DEF Inv
<1>5. ASSUME NEW w \in Work, Handler(w) PROVE Inv'
  <2>1. UNCHANGED <<typeLocked, cb, loaded, typeInfo, dev, isr, arg, enabled, app, callVars>>
    BY <1>5, HandlerFrame
  <2>2. TypeMutex' /\ IrqInv'
    BY <2>1 DEF Inv, LockInv, TypeMutex, ShellHasTypes, IrqInv, callVars
  <2>3. CallInv'
    BY <2>1 DEF Inv, CallInv, MgrInv, ShellInv, AppInv, File, DevInv, callVars
  <2> QED BY <1>5, <2>2, <2>3, TypeHandler, SlotMutexHandler, WorkInvHandler, SpuriousHandler
          DEF Inv, LockInv
<1>6. CASE UNCHANGED vars
  <2>1. UNCHANGED <<typeLocked, slotLocked, cb, loaded, typeInfo, dev, isr, arg, enabled, masked,
                    spurious, devLocked, pData, canRead, app, mgr, shell, proc, line, irqPc,
                    workIdx, pend, work, oops>>
    BY <1>6 DEF vars, coreVars, irqVars, fileVars, callVars, intVars
  <2>2. TypeOK'  BY <2>1 DEF Inv, TypeOK
  <2>3. LockInv'  BY <2>1 DEF Inv, LockInv, TypeMutex, ShellHasTypes, SlotMutex, MgrHolds, WorkHolds
  <2>4. CallInv'  BY <2>1 DEF Inv, CallInv, MgrInv, ShellInv, AppInv, File, DevInv
  <2>5. IrqInv' /\ WorkInv'  BY <2>1 DEF Inv, IrqInv, WorkInv
  <2>6. SpuriousInv'  BY <2>1 DEF Inv, SpuriousInv, InFlight, WorkHolds
  <2> QED BY <2>2, <2>3, <2>4, <2>5, <2>6 DEF Inv
<1> QED BY <1>1, <1>2, <1>3, <1>4, <1>5, <1>6 DEF Next

\* The inductive invariant holds in every behaviour.
THEOREM InvHolds == Spec => []Inv
BY InitInv, NextInv, PTL DEF Spec

----------------------------------------------------------------------------
(* What follows from it *)

\* Every variable of the slot table keeps its type: no index, mutex or pointer
\* leaves its range, whatever the actors do.
THEOREM TypeCorrect == Spec => []TypeOK
<1>1. Inv => TypeOK  BY DEF Inv
<1> QED BY <1>1, InvHolds, PTL

\* who must not be there together
Exclusion ==
  /\ ~(mgr.pc # "idle" /\ ShellHasTypes)
  /\ \A s \in Slot : /\ ~(MgrHolds(s) /\ InFlight(s))
                     /\ ~(WorkHolds(<<s, 0>>) /\ WorkHolds(<<s, 1>>))

\* slot_mutex and s_card_type_mutex exclude: pdm_card_online, pdm_card_offline
\* and the two handlers of a slot never work on it at the same time, nor do the
\* manager and a loop of insmod or rmmod over the slots.
THEOREM MutexesExclude == Spec => []Exclusion
<1>1. Inv => Exclusion
  BY WorkPair DEF Inv, LockInv, TypeMutex, SlotMutex, Exclusion, InFlight
<1> QED BY <1>1, InvHolds, PTL

\* From the end of UDF_DRV_OPEN to that of udf_release the file has its data.
DataStands == \A s \in Slot : app[s].pc \notin {"idle", "open"} => File(s) \in pData

\* through what a process does with its file
LEMMA DataStandsApp == ASSUME Inv, DataStands, NEW s \in Slot, App(s) PROVE DataStands'
<1>0. app \in [Slot -> [pc : AppPc, type : Type \cup {NULL}]]  BY TypeParts DEF Inv, FileT
<1> DEFINE One == app[s].pc \notin {"idle", "open"} => File(s) \in pData
<1>1. ASSUME One',
             UNCHANGED pData \/ pData' = pData \cup {File(s)} \/ pData' = pData \ {File(s)}
      PROVE DataStands'
  <2>1. \A r \in Slot : r # s => app'[r] = app[r]  BY AppTypes
  <2>2. \A r \in Slot : r # s => File(r) # File(s)  BY DEF File
  <2> QED BY <1>1, <2>1, <2>2 DEF DataStands, File
<1>2. ASSUME UNCHANGED pData, app'[s].type = app[s].type, app[s].pc \notin {"idle", "open"}
      PROVE DataStands'
  BY <1>1, <1>2 DEF DataStands, File
<1>3. ASSUME NEW t \in Type, Open(s, t) PROVE DataStands'  BY <1>0, <1>1, <1>3 DEF Open
<1>4. CASE OpenCheck(s)
  <2>1. CASE app'[s].pc = "idle"
    <3>1. UNCHANGED pData  BY <1>0, <1>4, <2>1 DEF OpenCheck
    <3> QED BY <1>1, <2>1, <3>1
  <2>2. CASE app'[s].pc # "idle"
    <3>1. pData' = pData \cup {File(s)} /\ app'[s].type = app[s].type
      BY <1>0, <1>4, <2>2 DEF OpenCheck
    <3> QED BY <1>1, <3>1 DEF File
  <2> QED BY <2>1, <2>2
<1>5. CASE OpenStoreOne(s)  BY <1>0, <1>2, <1>5 DEF OpenStoreOne
<1>6. CASE OpenStore(s)  BY <1>0, <1>2, <1>6 DEF OpenStore
<1>7. ASSUME NEW pc \in {"enable", "disable", "release"}, Enter(s, pc) PROVE DataStands'
  BY <1>0, <1>2, <1>7 DEF Enter
<1>8. CASE EnableBit(s) \/ EnableReg(s)  BY <1>0, <1>2, <1>8 DEF EnableBit, EnableReg
<1>9. CASE DisableBit(s) \/ DisableReg(s)  BY <1>0, <1>2, <1>9 DEF DisableBit, DisableReg
<1>10. CASE Read(s)  BY <1>0, <1>2, <1>10 DEF Read
<1>11. CASE ReleaseIrqOne(s) \/ ReleaseIrq(s)
  BY <1>0, <1>2, <1>11 DEF ReleaseIrqOne, ReleaseIrq
<1>12. CASE ReleaseData(s)  BY <1>0, <1>1, <1>12 DEF ReleaseData
<1> QED BY <1>3, <1>4, <1>5, <1>6, <1>7, <1>8, <1>9, <1>10, <1>11, <1>12 DEF App, AppStep

\* Nobody else takes the data of an open file away: udf_online clears that of a
\* device it has just made, the manager takes a slot offline without a process,
\* rmmod removes a driver none of whose files is open.
LEMMA NextDataStands == Inv /\ DataStands /\ [Next]_vars => DataStands'
<1> SUFFICES ASSUME Inv, DataStands, [Next]_vars PROVE DataStands'  OBVIOUS
<1>0. \A s \in Slot : app[s].pc # "idle" => File(s) \in dev  BY DEF Inv, CallInv, AppInv
<1>1. ASSUME UNCHANGED app, NEW d, pData \ {d} \subseteq pData',
             \A s \in Slot : app[s].pc # "idle" => File(s) # d
      PROVE DataStands'
  BY <1>1 DEF DataStands, File
<1>2. ASSUME UNCHANGED <<app, pData>> PROVE DataStands'  BY <1>2 DEF DataStands, File
<1>3. CASE Mgr
  <2>1. UNCHANGED app  BY <1>3, MgrFrame
  <2>2. CASE OnlineCb
    <3>1. UNCHANGED pData \/ (<<mgr.type, mgr.slot>> \notin dev
                              /\ pData' = pData \ {<<mgr.type, mgr.slot>>})
      BY <2>2 DEF OnlineCb, udf_online
    <3> QED BY <1>0, <1>1, <1>2, <2>1, <3>1
  <2>3. CASE OfflineCb
    <3>1. UNCHANGED pData \/ pData' = pData \ {<<typeInfo[mgr.slot], mgr.slot>>}
      BY <2>3 DEF OfflineCb, udf_offline
    <3>2. app[mgr.slot].pc = "idle"
      BY <2>3, TypeParts DEF OfflineCb, Inv, CallInv, MgrInv, AppInv, MgrT
    <3>3. \A s \in Slot : app[s].pc # "idle" => File(s) # <<typeInfo[mgr.slot], mgr.slot>>
      BY <3>2 DEF File
    <3> QED BY <1>1, <1>2, <2>1, <3>1, <3>3
  <2>4. CASE OnlineLock \/ OnlineSave \/ OnlineEnd \/ OfflineLock \/ OfflineIrq \/ OfflineEnd
    BY <1>2, <2>1, <2>4 DEF OnlineLock, OnlineSave, OnlineEnd, OfflineLock, OfflineIrq, OfflineEnd,
                            fileVars
  <2>5. ASSUME NEW s \in Slot, CallOffline(s) \/ \E t \in Type : CallOnline(s, t)
        PROVE UNCHANGED pData
    BY <2>5 DEF CallOffline, CallOnline, fileVars
  <2> QED BY <1>2, <1>3, <2>1, <2>2, <2>3, <2>4, <2>5 DEF Mgr, MgrStep
<1>4. CASE Shell
  <2>1. UNCHANGED app  BY <1>4, ShellFrame
  <2>2. CASE RegSlot
    <3>1. UNCHANGED pData \/ (<<shell.type, shell.i>> \notin dev
                              /\ pData' = pData \ {<<shell.type, shell.i>>})
      BY <2>2 DEF RegSlot, udf_online
    <3> QED BY <1>0, <1>1, <1>2, <2>1, <3>1
  <2>3. CASE UnregSlot
    <3>1. UNCHANGED pData \/ pData' = pData \ {<<shell.type, shell.i>>}
      BY <2>3 DEF UnregSlot, udf_offline
    <3>2. \A s \in Slot : File(s) # <<shell.type, shell.i>>
      BY <2>3 DEF UnregSlot, Inv, CallInv, ShellInv, File
    <3> QED BY <1>1, <1>2, <2>1, <3>1, <3>2
  <2>4. CASE RegLock \/ RegSave \/ InitFail \/ UnregLock \/ UnregEnd
    BY <1>2, <2>1, <2>4 DEF RegLock, RegSave, InitFail, UnregLock, UnregEnd, fileVars
  <2>5. ASSUME NEW t \in Type, Insmod(t) \/ Rmmod(t) PROVE UNCHANGED pData
    BY <2>5 DEF Insmod, Rmmod, fileVars
  <2> QED BY <1>2, <1>4, <2>1, <2>2, <2>3, <2>4, <2>5 DEF Shell, ShellStep
<1>5. ASSUME NEW s \in Slot, App(s) PROVE DataStands'  BY <1>5, DataStandsApp
<1>6. ASSUME NEW s \in Slot, Irq(s) PROVE DataStands'  BY <1>2, <1>6, IrqFrame DEF fileVars
<1>7. ASSUME NEW w \in Work, Handler(w) PROVE DataStands'  BY <1>2, <1>7, HandlerFrame
<1>8. CASE UNCHANGED vars  BY <1>2, <1>8 DEF vars, fileVars
<1> QED BY <1>3, <1>4, <1>5, <1>6, <1>7, <1>8 DEF Next

LEMMA DataStandsHolds == Spec => []DataStands
<1>1. Init => DataStands  BY DEF Init, DataStands
<1> QED BY <1>1, InvHolds, NextDataStands, PTL DEF Spec

\* A call on a device file, and a handler inside udf_isr, work on a device that
\* exists and code that is there: neither the manager's offline nor rmmod frees
\* what is in use.  A call on an open file has its data too; of the data a
\* handler is given nothing is said here, see DataFaultNeedsClose.
THEOREM NothingFreedInUse == Spec => []NoUseAfterFree
<1>1. Inv /\ DataStands => NoUseAfterFree
  <2> SUFFICES ASSUME Inv, DataStands PROVE NoUseAfterFree  OBVIOUS
  <2>1. app \in [Slot -> [pc : AppPc, type : Type \cup {NULL}]]
    BY TypeParts DEF Inv, FileT
  <2>2. \A s \in Slot : app[s].pc # "idle" =>
          app[s].type \in Type /\ File(s) \in dev
    BY <2>1 DEF Inv, CallInv, AppInv
  <2>3. \A s \in Slot : app[s].pc # "idle" => app[s].type \in loaded \cup cb
    BY <2>2 DEF Inv, CallInv, DevInv, ShellInv, File
  <2>4. \A w \in Work : work[w].pc = "isr" =>
          <<work[w].arg, w[1]>> \in dev /\ work[w].arg \in loaded \cup cb
    BY DEF Inv, WorkInv
  <2> QED BY <2>2, <2>3, <2>4 DEF NoUseAfterFree, DataStands
<1> QED BY <1>1, InvHolds, DataStandsHolds, PTL

\* An isr, its argument and an enabled interrupt belong to the file that is open
\* on the card now in the slot: nothing of a closed file or of the card before
\* is left for a handler.
THEOREM InterruptsOwned == Spec => []IrqOwned
<1>1. Inv => IrqOwned
  <2> SUFFICES ASSUME Inv, NEW s \in Slot, s \in isr \/ arg[s] # NULL \/ s \in enabled
               PROVE  /\ app[s].pc # "idle"
                      /\ app[s].type = typeInfo[s] /\ arg[s] \in {NULL, typeInfo[s]}
    BY DEF IrqOwned
  <2>1. app[s].pc # "idle" /\ arg[s] \in {NULL, app[s].type}
    BY DEF Inv, IrqInv, IrqPc, EnabledPc
  <2>2. s \in proc /\ <<app[s].type, s>> \in dev /\ app[s].type \in Type
    <3>1. app[s].type \in Type \cup {NULL}  BY TypeParts DEF Inv, FileT
    <3> QED BY <2>1, <3>1 DEF Inv, CallInv, AppInv, File
  <2>3. ~(mgr.pc = "onlineSave" /\ mgr.slot = s)  BY <2>2 DEF Inv, CallInv, MgrInv
  <2>4. app[s].type = typeInfo[s]  BY <2>2, <2>3 DEF Inv, CallInv, DevInv
  <2> QED BY <2>1, <2>4
<1> QED BY <1>1, InvHolds, PTL

\* After pdm_disable_int has returned at most one more interrupt of the slot is
\* taken until the next pdm_enable_int.
THEOREM OneSpurious == Spec => []SpuriousOnce
<1>1. Inv => SpuriousOnce  BY DEF Inv, SpuriousInv, SpuriousOnce
<1> QED BY <1>1, InvHolds, PTL

----------------------------------------------------------------------------
(* Which slots a driver has devices for                                    *)
(*                                                                         *)
(* That no device is without its card follows from Inv.  That no card is   *)
(* without its device needs two facts more, and an assumption: with several *)
(* slots pdm_reg_online_offline_cb forgets the failure of all but the last. *)

FailureIsKept == NSlot = 1 \/ ~MainInitMayFail

\* The loop of pdm_reg_online_offline_cb has not passed over a card without
\* creating its device, unless a failure stopped it and is still known.
RegInv ==
  shell.pc = "regSlot" =>
    \A s \in Slot : s < shell.i /\ typeInfo[s] = shell.type =>
      <<shell.type, s>> \in dev \/ (MainInitMayFail /\ ~shell.ok)

\* A driver that is registered and loaded has a device for each of its cards;
\* this holds also while s_card_type_mutex is held.
CardHasDev ==
  \A t \in Type, s \in Slot :
    typeInfo[s] = t /\ t \in cb \cap loaded /\ shell.type # t => <<t, s>> \in dev

\* The loop, from slot to slot
LEMMA RegInvShell == ASSUME FailureIsKept, Inv, RegInv, Shell PROVE RegInv'
<1>0. /\ ShellInv /\ UNCHANGED typeInfo /\ shell.i \in 0 .. NSlot
      /\ shell \in [pc : ShellPc, type : Type \cup {NULL}, i : 0 .. NSlot, ok : BOOLEAN]
  BY ShellFrame, TypeParts DEF Inv, CallInv, ShellT
<1>1. ASSUME shell'.pc # "regSlot" PROVE RegInv'  BY <1>1 DEF RegInv
<1>2. ASSUME NEW t \in Type, Insmod(t) PROVE RegInv'  BY <1>1, <1>2 DEF Insmod
<1>3. ASSUME NEW t \in Type, Rmmod(t) PROVE RegInv'  BY <1>1, <1>3 DEF Rmmod
<1>4. CASE RegLock
  <2>1. shell.i = 0 /\ shell'.i = 0  BY <1>0, <1>4 DEF RegLock, ShellInv
  <2>2. \A s \in Slot : ~(s < 0)  BY SlotAssumption DEF Slot
  <2> QED BY <2>1, <2>2 DEF RegInv
<1>5. CASE RegSlot
  <2> DEFINE d == <<shell.type, shell.i>>
  <2>1. /\ shell.pc = "regSlot" /\ shell'.pc = "regSlot" /\ shell'.type = shell.type
        /\ shell'.i = shell.i + 1 /\ dev \subseteq dev' /\ shell.i < NSlot
    BY <1>0, <1>5 DEF RegSlot, udf_online
  <2>2. typeInfo[shell.i] = shell.type => d \in dev' \/ (MainInitMayFail /\ ~shell'.ok)
    <3> SUFFICES ASSUME typeInfo[shell.i] = shell.type, ~(d \in dev')
                 PROVE  MainInitMayFail /\ ~shell'.ok
      OBVIOUS
    <3>1. PICK ok \in BOOLEAN : /\ udf_online(d, ok)
                                /\ shell' = [shell EXCEPT !.i = shell.i + 1, !.ok = ok]
      BY <1>5 DEF RegSlot
    <3>2. MainInitMayFail /\ ok = FALSE  BY <3>1 DEF udf_online
    <3>3. shell'.ok = ok  BY <1>0, <3>1
    <3> QED BY <3>2, <3>3
  <2>3. \A s \in Slot : s < shell.i /\ typeInfo[s] = shell.type => <<shell.type, s>> \in dev
    <3>1. CASE NSlot = 1
      <4>1. \A i \in 0 .. 1 : i < 1 => i = 0  OBVIOUS
      <4>2. shell.i = 0  BY <1>0, <2>1, <3>1, <4>1
      <4>3. \A s \in Slot : ~(s < 0)  BY SlotAssumption DEF Slot
      <4> QED BY <4>2, <4>3
    <3>2. CASE ~MainInitMayFail  BY <2>1, <3>2 DEF RegInv
    <3> QED BY <3>1, <3>2 DEF FailureIsKept
  <2>4. \A s \in Slot : s < shell.i + 1 => s < shell.i \/ s = shell.i
    <3>1. \A s \in Slot : s \in Int  BY SlotAssumption DEF Slot
    <3>2. shell.i \in Int  BY <1>0
    <3> QED BY <3>1, <3>2
  <2> QED BY <1>0, <2>1, <2>2, <2>3, <2>4 DEF RegInv
<1>6. CASE RegSave  BY <1>0, <1>1, <1>6 DEF RegSave
<1>7. CASE InitFail  BY <1>0, <1>1, <1>7 DEF InitFail
<1>8. CASE UnregLock  BY <1>0, <1>1, <1>8 DEF UnregLock
<1>9. CASE UnregSlot  BY <1>0, <1>1, <1>9 DEF UnregSlot
<1>10. CASE UnregEnd  BY <1>0, <1>1, <1>10 DEF UnregEnd
<1> QED BY <1>2, <1>3, <1>4, <1>5, <1>6, <1>7, <1>8, <1>9, <1>10 DEF Shell, ShellStep

\* While the loop runs the manager is in no call: the table stays as it is.
LEMMA RegInvMgr == ASSUME Inv, RegInv, Mgr PROVE RegInv'
<1>0. UNCHANGED shell /\ TypeMutex  BY MgrFrame DEF Inv, LockInv
<1>1. ASSUME shell.pc = "regSlot" PROVE UNCHANGED <<typeInfo, dev>>
  <2>1. mgr.pc = "idle" /\ typeLocked  BY <1>0, <1>1 DEF TypeMutex, ShellHasTypes
  <2> QED BY <2>1 DEF Mgr, MgrStep, CallOnline, CallOffline, OnlineLock, OnlineCb, OnlineSave,
                      OnlineEnd, OfflineLock, OfflineIrq, OfflineCb, OfflineEnd
<1> QED BY <1>0, <1>1 DEF RegInv

\* CardHasDev through the manager's calls
LEMMA CardHasDevMgr == ASSUME Inv, CardHasDev, Mgr PROVE CardHasDev'
<1>0. /\ UNCHANGED <<shell, cb, loaded>> /\ MgrInv /\ mgr.slot \in Slot
      /\ typeInfo \in [Slot -> Type \cup {NULL}]
  BY MgrFrame, TypeParts DEF Inv, CallInv, MgrT, CoreT
<1>1. ASSUME UNCHANGED typeInfo, dev \subseteq dev' PROVE CardHasDev'
  BY <1>0, <1>1 DEF CardHasDev
<1>2. ASSUME NEW s \in Slot, NEW t \in Type, CallOnline(s, t) PROVE CardHasDev'
  BY <1>1, <1>2 DEF CallOnline
<1>3. ASSUME NEW s \in Slot, CallOffline(s) PROVE CardHasDev'
  BY <1>1, <1>3 DEF CallOffline
<1>4. CASE OnlineLock \/ OnlineEnd \/ OfflineLock \/ OfflineEnd
  BY <1>1, <1>4 DEF OnlineLock, OnlineEnd, OfflineLock, OfflineEnd
<1>5. CASE OnlineCb  BY <1>1, <1>5 DEF OnlineCb, udf_online
<1>6. CASE OfflineIrq  BY <1>1, <1>6 DEF OfflineIrq, coreVars
<1>7. CASE OnlineSave
  <2>1. mgr.type \in cb => <<mgr.type, mgr.slot>> \in dev  BY <1>0, <1>7 DEF OnlineSave, MgrInv
  <2> QED BY <1>0, <1>7, <2>1 DEF OnlineSave, CardHasDev
<1>8. CASE OfflineCb
  <2>1. CASE oops' # oops  BY <1>1, <1>8, <2>1 DEF OfflineCb
  <2>2. CASE UNCHANGED oops
    <3>1. \/ UNCHANGED <<typeInfo, dev>>
          \/ /\ typeInfo' = [typeInfo EXCEPT ![mgr.slot] = NULL]
             /\ dev \ {<<typeInfo[mgr.slot], mgr.slot>>} \subseteq dev'
      BY <1>8 DEF OfflineCb, udf_offline
    <3> QED BY <1>0, <1>1, <3>1, SlotAssumption DEF CardHasDev
  <2> QED BY <2>1, <2>2
<1> QED BY <1>2, <1>3, <1>4, <1>5, <1>6, <1>7, <1>8 DEF Mgr, MgrStep

\* and through insmod and rmmod
LEMMA CardHasDevShell ==
  ASSUME FailureIsKept, Inv, RegInv, CardHasDev, Shell PROVE CardHasDev'
<1>0. /\ ShellInv /\ UNCHANGED typeInfo
      /\ shell \in [pc : ShellPc, type : Type \cup {NULL}, i : 0 .. NSlot, ok : BOOLEAN]
  BY ShellFrame, TypeParts DEF Inv, CallInv, ShellT
<1>1. ASSUME dev \subseteq dev', cb' \cap loaded' \subseteq cb \cap loaded,
             UNCHANGED shell.type \/ shell.type = NULL \/ shell.type \notin cb' \cap loaded'
      PROVE CardHasDev'
  BY <1>0, <1>1, SlotAssumption DEF CardHasDev
<1>2. ASSUME NEW t \in Type, Insmod(t) PROVE CardHasDev'
  BY <1>0, <1>2, SlotAssumption DEF Insmod, ShellInv, CardHasDev
<1>3. ASSUME NEW t \in Type, Rmmod(t) PROVE CardHasDev'
  BY <1>0, <1>3, SlotAssumption DEF Rmmod, ShellInv, CardHasDev, coreVars
<1>4. CASE RegLock  BY <1>0, <1>1, <1>4 DEF RegLock
<1>5. CASE RegSlot
  <2>1. shell'.type = shell.type /\ dev \subseteq dev' /\ UNCHANGED <<cb, loaded>>
    BY <1>0, <1>5 DEF RegSlot, udf_online
  <2> QED BY <1>1, <2>1
<1>6. CASE RegSave
  <2>1. /\ UNCHANGED <<dev, loaded>> /\ cb' = cb \cup {shell.type} /\ shell.pc = "regSlot"
        /\ shell.i = NSlot
    BY <1>6 DEF RegSave
  <2>2. CASE shell.ok
    <3>1. \A s \in Slot : s < NSlot
      <4>1. \A s \in 0 .. NSlot - 1 : s < NSlot  BY SlotAssumption
      <4> QED BY <4>1 DEF Slot
    <3>2. \A s \in Slot : typeInfo[s] = shell.type => <<shell.type, s>> \in dev
      BY <2>1, <2>2, <3>1 DEF RegInv
    <3> QED BY <1>0, <2>1, <3>2 DEF CardHasDev
  <2>3. CASE ~shell.ok
    <3>1. shell'.type = shell.type  BY <1>0, <1>6, <2>3 DEF RegSave
    <3> QED BY <1>0, <2>1, <3>1 DEF CardHasDev
  <2> QED BY <2>2, <2>3
<1>7. CASE InitFail  BY <1>0, <1>1, <1>7 DEF InitFail
<1>8. CASE UnregLock  BY <1>0, <1>1, <1>8 DEF UnregLock
<1>9. CASE UnregSlot
  <2>1. /\ shell'.type = shell.type /\ dev \ {<<shell.type, shell.i>>} \subseteq dev'
        /\ UNCHANGED <<cb, loaded>>
    BY <1>0, <1>9 DEF UnregSlot, udf_offline
  <2> QED BY <1>0, <2>1 DEF CardHasDev
<1>10. CASE UnregEnd  BY <1>0, <1>1, <1>10 DEF UnregEnd
<1> QED BY <1>2, <1>3, <1>4, <1>5, <1>6, <1>7, <1>8, <1>9, <1>10 DEF Shell, ShellStep

\* When s_card_type_mutex is free, a driver has a device for exactly the slots
\* that have its card, in whatever order card and driver came and whatever
\* failed in between; only a driver being loaded, or whose loading failed, may
\* lack one.
THEOREM DevicesAgree == ASSUME FailureIsKept PROVE Spec => []DevAgrees
<1> DEFINE J == RegInv /\ CardHasDev
<1>1. Init => J  BY SlotAssumption DEF Init, RegInv, CardHasDev
<1>2. Inv /\ J /\ [Next]_vars => J'
  <2> SUFFICES ASSUME Inv, J, [Next]_vars PROVE J'  OBVIOUS
  <2>1. CASE Mgr  BY <2>1, RegInvMgr, CardHasDevMgr
  <2>2. CASE Shell  BY <2>2, RegInvShell, CardHasDevShell
  <2>3. ASSUME UNCHANGED <<cb, loaded, typeInfo, dev, shell>> PROVE J'
    BY <2>3 DEF RegInv, CardHasDev
  <2>4. ASSUME NEW s \in Slot, App(s) \/ Irq(s) PROVE J'
    BY <2>3, <2>4, AppFrame, IrqFrame DEF coreVars, callVars
  <2>5. ASSUME NEW w \in Work, Handler(w) PROVE J'
    BY <2>3, <2>5, HandlerFrame DEF callVars
  <2>6. CASE UNCHANGED vars  BY <2>3, <2>6 DEF vars, coreVars, callVars
  <2> QED BY <2>1, <2>2, <2>4, <2>5, <2>6 DEF Next
<1>3. Inv /\ J => DevAgrees
  BY DEF Inv, LockInv, CallInv, TypeMutex, ShellHasTypes, DevInv, CardHasDev, DevAgrees
<1> QED BY <1>1, <1>2, <1>3, InvHolds, PTL DEF Spec

----------------------------------------------------------------------------
(* What holds of the table whatever fails *)

\* no device without its card, nor without the callbacks that destroy it
NoStrayDevice ==
  ~typeLocked => \A t \in Type, s \in Slot : <<t, s>> \in dev => typeInfo[s] = t /\ t \in cb

\* Whatever failed before, a device is never without its card, nor without the
\* callbacks that destroy it, when s_card_type_mutex is free.
THEOREM DevicesHaveCards == Spec => []NoStrayDevice
<1>1. Inv => NoStrayDevice
  BY DEF Inv, LockInv, CallInv, TypeMutex, ShellHasTypes, DevInv, NoStrayDevice
<1> QED BY <1>1, InvHolds, PTL

\* a registration that goes on, or has succeeded
Registering ==
  /\ cb \subseteq loaded
  /\ shell.pc # "initFail" /\ shell.ok = TRUE
  /\ shell.pc = "reg" => shell.type \notin cb
  /\ oops # "cb"

\* Nothing but a failing udf_main_init makes a registration fail.
LEMMA RegisteringShell ==
  ASSUME ~MainInitMayFail, Inv, Registering, Shell PROVE Registering'
<1>0. /\ ShellInv /\ DevInv /\ TypeMutex /\ shell.i \in 0 .. NSlot /\ UNCHANGED oops
      /\ shell \in [pc : ShellPc, type : Type \cup {NULL}, i : 0 .. NSlot, ok : BOOLEAN]
      /\ (shell.pc # "idle" => shell.type \in Type)
  BY ShellFrame, TypeParts DEF Inv, CallInv, LockInv, ShellT, ShellInv, CoreT, intVars
<1>1. ASSUME NEW t \in Type, Insmod(t) PROVE Registering'
  BY <1>0, <1>1 DEF Insmod, Registering
<1>2. ASSUME NEW t \in Type, Rmmod(t) PROVE Registering'
  BY <1>0, <1>2 DEF Rmmod, Registering, coreVars
<1>3. CASE RegLock  BY <1>0, <1>3 DEF RegLock, Registering
<1>4. CASE RegSlot
  <2>1. shell.pc = "regSlot" /\ shell'.pc = "regSlot" /\ UNCHANGED <<cb, loaded>>
    BY <1>0, <1>4 DEF RegSlot
  <2>2. <<shell.type, shell.i>> \notin dev
    <3>1. shell.i \in Slot
      <4>1. \A i \in 0 .. NSlot : i < NSlot => i \in 0 .. NSlot - 1  BY SlotAssumption
      <4>2. shell.i < NSlot  BY <1>4 DEF RegSlot
      <4> QED BY <1>0, <4>1, <4>2 DEF Slot
    <3>2. shell.type \notin cb /\ ~(shell.i < shell.i)  BY <1>0, <2>1 DEF ShellInv
    <3> QED BY <1>0, <2>1, <3>1, <3>2 DEF DevInv
  <2>3. shell'.ok = TRUE
    <3>1. CASE typeInfo[shell.i] = shell.type
      <4>1. PICK ok \in BOOLEAN : /\ udf_online(<<shell.type, shell.i>>, ok)
                                  /\ shell' = [shell EXCEPT !.i = shell.i + 1, !.ok = ok]
        BY <1>4, <3>1 DEF RegSlot
      <4>2. ok = TRUE  BY <2>2, <4>1 DEF udf_online
      <4>3. shell'.ok = ok  BY <1>0, <4>1
      <4> QED BY <4>2, <4>3
    <3>2. CASE typeInfo[shell.i] # shell.type
      BY <1>0, <1>4, <3>2 DEF RegSlot, Registering
    <3> QED BY <3>1, <3>2
  <2> QED BY <1>0, <2>1, <2>3 DEF Registering
<1>5. CASE RegSave
  <2>1. shell.pc = "regSlot" /\ shell.type \in loaded  BY <1>0, <1>5 DEF RegSave, ShellInv
  <2> QED BY <1>0, <1>5, <2>1 DEF RegSave, Registering
<1>6. CASE InitFail  BY <1>6 DEF InitFail, Registering
<1>7. CASE UnregLock  BY <1>0, <1>7 DEF UnregLock, Registering
<1>8. CASE UnregSlot  BY <1>0, <1>8 DEF UnregSlot, Registering
<1>9. CASE UnregEnd
  <2>1. shell.type \notin cb  BY <1>0, <1>9 DEF UnregEnd, ShellInv
  <2> QED BY <1>0, <1>9, <2>1 DEF UnregEnd, Registering
<1> QED BY <1>1, <1>2, <1>3, <1>4, <1>5, <1>6, <1>7, <1>8, <1>9 DEF Shell, ShellStep

\* Where udf_main_init cannot fail, what is registered is loaded, and no
\* callback of a module that is gone is ever called.
THEOREM GoneNeedsFailure ==
  ASSUME ~MainInitMayFail PROVE Spec => []RegisteredIsLoaded /\ [](oops # "cb")
<1>1. Init => Registering  BY DEF Init, Registering
<1>2. Inv /\ Registering /\ [Next]_vars => Registering'
  <2> SUFFICES ASSUME Inv, Registering, [Next]_vars PROVE Registering'  OBVIOUS
  <2>1. ASSUME UNCHANGED <<cb, loaded, shell>>, oops' # "cb" PROVE Registering'
    BY <2>1 DEF Registering
  <2>2. CASE Mgr
    <3>1. oops' # "cb"
      <4>1. CASE OnlineCb  BY <4>1 DEF OnlineCb, Registering
      <4>2. CASE OfflineCb  BY <4>2 DEF OfflineCb, Registering
      <4>3. ASSUME NEW s \in Slot, CallOffline(s) \/ \E t \in Type : CallOnline(s, t)
            PROVE UNCHANGED oops
        BY <4>3 DEF CallOffline, CallOnline, intVars
      <4>4. CASE OnlineLock \/ OnlineSave \/ OnlineEnd \/ OfflineLock \/ OfflineIrq \/ OfflineEnd
        BY <4>4 DEF OnlineLock, OnlineSave, OnlineEnd, OfflineLock, OfflineIrq, OfflineEnd,
                    intVars, Registering
      <4> QED BY <2>2, <4>1, <4>2, <4>3, <4>4 DEF Mgr, MgrStep, Registering
    <3> QED BY <2>1, <2>2, <3>1, MgrFrame
  <2>3. CASE Shell  BY <2>3, RegisteringShell
  <2>4. ASSUME NEW s \in Slot, App(s) PROVE Registering'
    BY <2>1, <2>4, AppFrame DEF coreVars, callVars, intVars, Registering
  <2>5. ASSUME NEW s \in Slot, Irq(s) PROVE Registering'
    BY <2>1, <2>5, IrqFrame DEF coreVars, callVars, Registering
  <2>6. ASSUME NEW w \in Work, Handler(w) PROVE Registering'
    <3>1. oops' # "cb"
      BY <2>6 DEF Handler, WorkStart, WorkCheck, WorkCall, WorkIsr, WorkUnmask, Registering
    <3> QED BY <2>1, <2>6, <3>1, HandlerFrame DEF callVars
  <2>7. CASE UNCHANGED vars
    BY <2>1, <2>7 DEF vars, coreVars, callVars, intVars, Registering
  <2> QED BY <2>2, <2>3, <2>4, <2>5, <2>6, <2>7 DEF Next
<1>3. Registering => RegisteredIsLoaded /\ oops # "cb"  BY DEF Registering, RegisteredIsLoaded
<1> QED BY <1>1, <1>2, <1>3, InvHolds, PTL DEF Spec

----------------------------------------------------------------------------
(* No mutex is left behind: MutexesOwned is inductive together with Inv.    *)

SlotOwned == \A s \in slotLocked : MgrHolds(s) \/ WorkHolds(<<s, 0>>) \/ WorkHolds(<<s, 1>>)
DevOwned  == \A d \in Dev :
  d \in devLocked <=> app[d[2]].pc \notin {"idle", "file"} /\ File(d[2]) = d

\* slot_mutex through a call of the manager: each return after the lock unlocks.
LEMMA SlotOwnedMgr == ASSUME Inv, SlotOwned, Mgr PROVE SlotOwned'
<1>0. /\ mgr \in [pc : MgrPc, slot : Slot, type : Type \cup {NULL}]
      /\ UNCHANGED work /\ slotLocked \subseteq Slot
  BY MgrFrame, TypeParts DEF Inv, MgrT, CoreT
<1>1. \A w : WorkHolds(w)' <=> WorkHolds(w)  BY <1>0 DEF WorkHolds
<1>2. ASSUME UNCHANGED slotLocked, \A s \in Slot : MgrHolds(s) => MgrHolds(s)' PROVE SlotOwned'
  BY <1>0, <1>1, <1>2 DEF SlotOwned
<1>3. ASSUME slotLocked' = slotLocked \cup {mgr.slot}, mgr'.slot = mgr.slot,
             mgr'.pc \in {"onlineCb", "offlineIrq"}, \A s \in Slot : ~MgrHolds(s)
      PROVE SlotOwned'
  <2>1. \A s \in Slot : s = mgr.slot => MgrHolds(s)'  BY <1>3 DEF MgrHolds
  <2> QED BY <1>0, <1>1, <1>3, <2>1 DEF SlotOwned
<1>4. ASSUME slotLocked' = slotLocked \ {mgr.slot} PROVE SlotOwned'
  BY <1>0, <1>1, <1>4 DEF SlotOwned, MgrHolds
<1>5. ASSUME NEW s \in Slot, NEW t \in Type, CallOnline(s, t) PROVE SlotOwned'
  BY <1>2, <1>5 DEF CallOnline, MgrHolds
<1>6. ASSUME NEW s \in Slot, CallOffline(s) PROVE SlotOwned'
  BY <1>2, <1>6 DEF CallOffline, MgrHolds
<1>7. CASE OnlineLock
  <2>1. CASE typeInfo[mgr.slot] # NULL  BY <1>0, <1>2, <1>7, <2>1 DEF OnlineLock, MgrHolds
  <2>2. CASE typeInfo[mgr.slot] = NULL
    <3>1. mgr'.slot = mgr.slot /\ mgr'.pc = "onlineCb"  BY <1>0, <1>7, <2>2 DEF OnlineLock
    <3>2. \A s \in Slot : ~MgrHolds(s)  BY <1>7 DEF OnlineLock, MgrHolds
    <3> QED BY <1>3, <1>7, <2>2, <3>1, <3>2 DEF OnlineLock
  <2> QED BY <2>1, <2>2
<1>8. CASE OnlineCb
  <2>1. CASE mgr'.pc = "onlineEnd"
    <3>1. slotLocked' = slotLocked \ {mgr.slot}  BY <1>0, <1>8, <2>1 DEF OnlineCb
    <3> QED BY <1>4, <3>1
  <2>2. CASE mgr'.pc # "onlineEnd"
    <3>1. UNCHANGED slotLocked /\ mgr'.slot = mgr.slot /\ mgr'.pc \in {"onlineCb", "onlineSave"}
      BY <1>0, <1>8, <2>2 DEF OnlineCb
    <3> QED BY <1>2, <3>1 DEF MgrHolds
  <2> QED BY <2>1, <2>2
<1>9. CASE OnlineSave  BY <1>4, <1>9 DEF OnlineSave
<1>10. CASE OnlineEnd \/ OfflineEnd  BY <1>2, <1>10 DEF OnlineEnd, OfflineEnd, MgrHolds
<1>11. CASE OfflineLock
  <2>1. CASE typeInfo[mgr.slot] # NULL
    <3>1. mgr'.slot = mgr.slot /\ mgr'.pc = "offlineIrq"  BY <1>0, <1>11, <2>1 DEF OfflineLock
    <3>2. \A s \in Slot : ~MgrHolds(s)  BY <1>11 DEF OfflineLock, MgrHolds
    <3> QED BY <1>3, <1>11, <2>1, <3>1, <3>2 DEF OfflineLock
  <2>2. CASE typeInfo[mgr.slot] = NULL  BY <1>2, <1>11, <2>2 DEF OfflineLock, MgrHolds
  <2> QED BY <2>1, <2>2
<1>12. CASE OfflineIrq
  <2>1. mgr'.slot = mgr.slot /\ mgr'.pc = "offlineCb" /\ UNCHANGED slotLocked
    BY <1>0, <1>12 DEF OfflineIrq, coreVars
  <2> QED BY <1>2, <2>1 DEF MgrHolds
<1>13. CASE OfflineCb
  <2>1. CASE mgr'.pc = "offlineEnd"
    <3>1. slotLocked' = slotLocked \ {mgr.slot}  BY <1>0, <1>13, <2>1 DEF OfflineCb
    <3> QED BY <1>4, <3>1
  <2>2. CASE mgr'.pc # "offlineEnd"
    <3>1. UNCHANGED slotLocked /\ mgr' = mgr  BY <1>0, <1>13, <2>2 DEF OfflineCb
    <3> QED BY <1>2, <3>1 DEF MgrHolds
  <2> QED BY <2>1, <2>2
<1> QED BY <1>5, <1>6, <1>7, <1>8, <1>9, <1>10, <1>11, <1>12, <1>13 DEF Mgr, MgrStep

\* slot_mutex through the handler of a work item
LEMMA SlotOwnedHandler == ASSUME Inv, SlotOwned, NEW w \in Work, Handler(w) PROVE SlotOwned'
<1>0. /\ UNCHANGED mgr /\ w[1] \in Slot /\ slotLocked \subseteq Slot
      /\ (w = <<w[1], 0>> \/ w = <<w[1], 1>>)
      /\ work \in [Work -> [pc : WorkPc, arg : Type \cup {NULL}]]
  BY HandlerFrame, TypeParts, WorkPair DEF Inv, WorkT, CoreT, callVars
<1>1. \A s \in Slot : MgrHolds(s)' <=> MgrHolds(s)  BY <1>0 DEF MgrHolds
<1>2. \A u \in Work : u # w => work'[u] = work[u]
  BY <1>0 DEF Handler, WorkStart, WorkCheck, WorkCall, WorkIsr, WorkUnmask
<1>3. \A u \in Work : u # w => (WorkHolds(u)' <=> WorkHolds(u))  BY <1>2 DEF WorkHolds
<1>4. ASSUME UNCHANGED slotLocked, WorkHolds(w) => WorkHolds(w)' PROVE SlotOwned'
  <2>1. \A u \in Work : WorkHolds(u) => WorkHolds(u)'  BY <1>3, <1>4
  <2>2. \A s \in Slot, i \in {0, 1} : WorkHolds(<<s, i>>) => WorkHolds(<<s, i>>)'
    BY <2>1, WorkPair
  <2> QED BY <1>0, <1>1, <1>4, <2>2 DEF SlotOwned
<1>5. ASSUME slotLocked' = slotLocked \cup {w[1]}, WorkHolds(w)', ~WorkHolds(w) PROVE SlotOwned'
  <2>1. \A u \in Work : WorkHolds(u) => WorkHolds(u)'  BY <1>3, <1>5
  <2>2. \A s \in Slot, i \in {0, 1} : WorkHolds(<<s, i>>) => WorkHolds(<<s, i>>)'
    BY <2>1, WorkPair
  <2>3. WorkHolds(<<w[1], 0>>)' \/ WorkHolds(<<w[1], 1>>)'  BY <1>0, <1>5
  <2> QED BY <1>0, <1>1, <1>5, <2>2, <2>3 DEF SlotOwned
<1>6. ASSUME slotLocked' = slotLocked \ {w[1]} PROVE SlotOwned'
  <2>1. \A s \in Slot, i \in {0, 1} : s # w[1] => <<s, i>> # w  OBVIOUS
  <2> QED BY <1>0, <1>1, <1>3, <1>6, <2>1, WorkPair DEF SlotOwned
<1>7. CASE WorkStart(w)  BY <1>0, <1>4, <1>7 DEF WorkStart, WorkHolds, coreVars
<1>8. CASE WorkCheck(w)
  <2>1. CASE w[1] \in enabled /\ w[1] \in isr  BY <1>0, <1>5, <1>8, <2>1 DEF WorkCheck, WorkHolds
  <2>2. CASE ~(w[1] \in enabled /\ w[1] \in isr)
    BY <1>0, <1>4, <1>8, <2>2 DEF WorkCheck, WorkHolds
  <2> QED BY <2>1, <2>2
<1>9. CASE WorkCall(w)  BY <1>0, <1>4, <1>9 DEF WorkCall, WorkHolds, coreVars
<1>10. CASE WorkIsr(w)
  <2>1. PICK again \in BOOLEAN :
          /\ work' = [work EXCEPT ![w] = [pc |-> IF again THEN "unmask" ELSE "idle", arg |-> NULL]]
          /\ slotLocked' = IF again THEN slotLocked ELSE slotLocked \ {w[1]}
    BY <1>10 DEF WorkIsr
  <2>2. CASE again  BY <1>0, <1>4, <2>1, <2>2 DEF WorkHolds
  <2>3. CASE ~again  BY <1>6, <2>1, <2>3
  <2> QED BY <2>2, <2>3
<1>11. CASE WorkUnmask(w)  BY <1>6, <1>11 DEF WorkUnmask
<1> QED BY <1>7, <1>8, <1>9, <1>10, <1>11 DEF Handler

\* m_mutex through a call on a device file: each return unlocks.
LEMMA DevOwnedApp == ASSUME Inv, DevOwned, NEW s \in Slot, App(s) PROVE DevOwned'
<1>0. /\ app \in [Slot -> [pc : AppPc, type : Type \cup {NULL}]]
      /\ devLocked \subseteq Dev
      /\ \A d \in Dev : d[2] \in Slot /\ d = <<d[1], d[2]>>
  BY TypeParts DEF Inv, FileT, DataT, Dev
<1>1. \A r \in Slot : r # s => app'[r] = app[r]  BY AppTypes
<1> DEFINE AtWork(r) == app[r].pc \notin {"idle", "file"}
<1>2. ASSUME UNCHANGED devLocked, app'[s].type = app[s].type, AtWork(s)' <=> AtWork(s)
      PROVE DevOwned'
  BY <1>0, <1>1, <1>2 DEF DevOwned, File
<1>3. ASSUME devLocked' = devLocked \ {File(s)}, ~AtWork(s)' PROVE DevOwned'
  <2>1. \A d \in Dev : d[2] = s => (d \in devLocked => d = File(s))  BY <1>0 DEF DevOwned
  <2>2. \A d \in Dev : d[2] # s => d # File(s)  BY DEF File
  <2> QED BY <1>0, <1>1, <1>3, <2>1, <2>2 DEF DevOwned, File
<1>4. ASSUME NEW t \in Type, devLocked' = devLocked \cup {<<t, s>>}, ~AtWork(s), AtWork(s)',
             app'[s].type = t
      PROVE DevOwned'
  <2>1. \A d \in Dev : d[2] = s => d \notin devLocked  BY <1>4 DEF DevOwned
  <2> QED BY <1>0, <1>1, <1>4, <2>1 DEF DevOwned, File
<1>5. ASSUME NEW t \in Type, Open(s, t) PROVE DevOwned'
  BY <1>0, <1>4, <1>5 DEF Open
<1>6. CASE OpenCheck(s)
  <2>1. CASE app'[s].pc = "idle"
    <3>1. devLocked' = devLocked \ {File(s)}  BY <1>0, <1>6, <2>1 DEF OpenCheck
    <3> QED BY <1>3, <2>1, <3>1
  <2>2. CASE app'[s].pc # "idle"
    <3>1. /\ UNCHANGED devLocked /\ app'[s].pc = "openIrq" /\ app[s].pc = "open"
          /\ app'[s].type = app[s].type
      BY <1>0, <1>6, <2>2 DEF OpenCheck
    <3> QED BY <1>2, <3>1
  <2> QED BY <2>1, <2>2
<1>7. CASE OpenStoreOne(s)  BY <1>0, <1>2, <1>7 DEF OpenStoreOne
<1>8. CASE OpenStore(s)  BY <1>0, <1>3, <1>8 DEF OpenStore
<1>9. ASSUME NEW pc \in {"enable", "disable", "release"}, Enter(s, pc) PROVE DevOwned'
  <2>1. app[s].type \in Type
    BY <1>0, <1>9 DEF Enter, Inv, CallInv, AppInv
  <2>2. /\ devLocked' = devLocked \cup {<<app[s].type, s>>} /\ app'[s].pc = pc
        /\ app'[s].type = app[s].type /\ app[s].pc = "file"
    BY <1>0, <1>9 DEF Enter, File
  <2> QED BY <1>4, <1>9, <2>1, <2>2
<1>10. CASE EnableBit(s)  BY <1>0, <1>2, <1>10 DEF EnableBit
<1>11. CASE EnableReg(s)  BY <1>0, <1>3, <1>11 DEF EnableReg
<1>12. CASE DisableBit(s)  BY <1>0, <1>2, <1>12 DEF DisableBit
<1>13. CASE DisableReg(s)
  <2>1. CASE app[s].pc = "disableReg"  BY <1>0, <1>3, <1>13, <2>1 DEF DisableReg
  <2>2. CASE app[s].pc # "disableReg"  BY <1>0, <1>2, <1>13, <2>2 DEF DisableReg
  <2> QED BY <2>1, <2>2
<1>14. CASE Read(s)  BY <1>0, <1>2, <1>14 DEF Read
<1>15. CASE ReleaseIrqOne(s)  BY <1>0, <1>2, <1>15 DEF ReleaseIrqOne
<1>16. CASE ReleaseIrq(s)  BY <1>0, <1>2, <1>16 DEF ReleaseIrq
<1>17. CASE ReleaseData(s)  BY <1>0, <1>3, <1>17 DEF ReleaseData
<1> QED BY <1>5, <1>6, <1>7, <1>8, <1>9, <1>10, <1>11, <1>12, <1>13, <1>14, <1>15, <1>16, <1>17
        DEF App, AppStep

\* Nobody else touches a mutex that is not his.
LEMMA NextOwned ==
  Inv /\ SlotOwned /\ DevOwned /\ [Next]_vars => SlotOwned' /\ DevOwned'
<1> SUFFICES ASSUME Inv, SlotOwned, DevOwned, [Next]_vars PROVE SlotOwned' /\ DevOwned'  OBVIOUS
<1>1. ASSUME UNCHANGED <<slotLocked, mgr, work>> PROVE SlotOwned'
  BY <1>1 DEF SlotOwned, MgrHolds, WorkHolds
<1>2. ASSUME UNCHANGED <<devLocked, app>> PROVE DevOwned'  BY <1>2 DEF DevOwned, File
<1>3. CASE Mgr  BY <1>2, <1>3, MgrFrame, SlotOwnedMgr
<1>4. CASE Shell  BY <1>1, <1>2, <1>4, ShellFrame DEF intVars
<1>5. ASSUME NEW s \in Slot, App(s) PROVE SlotOwned' /\ DevOwned'
  BY <1>1, <1>5, AppFrame, DevOwnedApp DEF coreVars, callVars, intVars
<1>6. ASSUME NEW s \in Slot, Irq(s) PROVE SlotOwned' /\ DevOwned'
  BY <1>1, <1>2, <1>6, IrqFrame DEF coreVars, fileVars, callVars
<1>7. ASSUME NEW w \in Work, Handler(w) PROVE SlotOwned' /\ DevOwned'
  BY <1>2, <1>7, HandlerFrame, SlotOwnedHandler
<1>8. CASE UNCHANGED vars
  BY <1>1, <1>2, <1>8 DEF vars, coreVars, fileVars, callVars, intVars
<1> QED BY <1>3, <1>4, <1>5, <1>6, <1>7, <1>8 DEF Next

\* Every locked mutex has an owner that is still at work: of the many early
\* returns of the driver core and of the driver frame, none keeps a mutex.
THEOREM MutexesHaveOwners == Spec => []MutexesOwned
<1>1. Init => SlotOwned /\ DevOwned  BY DEF Init, SlotOwned, DevOwned, Dev
<1>2. Inv /\ SlotOwned /\ DevOwned => MutexesOwned
  BY DEF Inv, LockInv, TypeMutex, MutexesOwned, SlotOwned, DevOwned
<1> QED BY <1>1, <1>2, InvHolds, NextOwned, PTL DEF Spec

\* Who waits for a mutex: the first step of a call of the manager, a loop of
\* insmod or rmmod for the table or for its next slot, a handler for its slot
\* or, in udf_isr, for the device.  A call on a device file waits for nothing
\* once it has m_mutex.
MgrWaits    == mgr.pc \in {"online", "offline"} /\ mgr.slot \in slotLocked
ShellWaits  == \/ shell.pc \in {"reg", "unreg"} /\ typeLocked
               \/ ShellHasTypes /\ shell.i \in slotLocked
WorkWaits(w) == \/ work[w].pc = "lock" /\ w[1] \in slotLocked
                \/ work[w].pc = "isr" /\ <<work[w].arg, w[1]>> \in devLocked

SomeOwnerGoesOn ==
  typeLocked \/ slotLocked # {} \/ devLocked # {} =>
    \/ mgr.pc # "idle" /\ ~MgrWaits
    \/ ShellHasTypes /\ ~ShellWaits
    \/ \E w \in Work : WorkHolds(w) /\ ~WorkWaits(w)
    \/ \E s \in Slot : app[s].pc \notin {"idle", "file"}

\* No deadlock: whenever one of the mutexes of the core or of a device is
\* locked, an owner of one is at a step that waits for no mutex.  The order
\* s_card_type_mutex, slot_mutex, m_mutex, which pdm_drv_ext.c and file_op.c
\* keep without stating it, is why.
THEOREM NeverAllWait == Spec => []SomeOwnerGoesOn
<1>1. ASSUME Inv, MutexesOwned, devLocked # {}
      PROVE  \E s \in Slot : app[s].pc \notin {"idle", "file"}
  <2>1. PICK d \in Dev : d \in devLocked  BY <1>1, TypeParts DEF Inv, DataT
  <2> QED BY <1>1, <2>1 DEF MutexesOwned, Dev
<1>2. ASSUME Inv, MutexesOwned, slotLocked # {} PROVE SomeOwnerGoesOn
  <2>1. PICK s \in Slot : s \in slotLocked  BY <1>2, TypeParts DEF Inv, CoreT
  <2>2. CASE MgrHolds(s)  BY <2>2 DEF MgrHolds, MgrWaits, SomeOwnerGoesOn
  <2>3. ASSUME NEW i \in {0, 1}, WorkHolds(<<s, i>>) PROVE SomeOwnerGoesOn
    <3>1. CASE WorkWaits(<<s, i>>)
      <4>1. devLocked # {}  BY <2>3, <3>1 DEF WorkHolds, WorkWaits
      <4> QED BY <1>1, <1>2, <4>1 DEF SomeOwnerGoesOn
    <3>2. CASE ~WorkWaits(<<s, i>>)  BY <2>3, <3>2, WorkPair DEF SomeOwnerGoesOn
    <3> QED BY <3>1, <3>2
  <2> QED BY <1>2, <2>1, <2>2, <2>3 DEF MutexesOwned
<1>3. ASSUME Inv, MutexesOwned PROVE SomeOwnerGoesOn
  <2>1. CASE slotLocked # {}  BY <1>2, <1>3, <2>1
  <2>2. CASE slotLocked = {}
    <3>1. ~MgrWaits  BY <2>2 DEF MgrWaits
    <3>2. ShellHasTypes => ~ShellWaits  BY <2>2 DEF ShellWaits, ShellHasTypes
    <3> QED BY <1>1, <1>3, <2>2, <3>1, <3>2 DEF MutexesOwned, SomeOwnerGoesOn
  <2> QED BY <2>1, <2>2
<1> QED BY <1>3, InvHolds, MutexesHaveOwners, PTL

----------------------------------------------------------------------------
(* What the faults of slot_int_handler and of udf_isr need *)

\* From the end of udf_open to the stores of pdm_free_irq the slot has an isr
\* and its argument.
Served == {"file", "enable", "enableReg", "disable", "disableReg", "release", "releaseReg",
           "releaseIrq"}
IsrStands == \A s \in Slot : app[s].pc \in Served => s \in isr /\ arg[s] # NULL

\* through what a process does with its file
LEMMA IsrStandsApp == ASSUME Inv, IsrStands, NEW s \in Slot, App(s) PROVE IsrStands'
<1>0. /\ app \in [Slot -> [pc : AppPc, type : Type \cup {NULL}]]
      /\ isr \subseteq Slot /\ arg \in [Slot -> Type \cup {NULL}]
      /\ (app[s].pc # "idle" => app[s].type # NULL)
  BY TypeParts DEF Inv, FileT, IrqT, CallInv, AppInv
<1>1. \A r \in Slot : r # s => app'[r] = app[r] /\ arg'[r] = arg[r] /\ (r \in isr' <=> r \in isr)
  BY AppTypes, AppIrq
<1> DEFINE One == app[s].pc \in Served => s \in isr /\ arg[s] # NULL
<1>2. One  BY DEF IsrStands
<1> SUFFICES One'  BY <1>1 DEF IsrStands
<1>3. ASSUME app'[s].pc \notin Served PROVE One'  BY <1>3
<1>4. ASSUME UNCHANGED <<isr, arg>>, app[s].pc \in Served PROVE One'  BY <1>2, <1>4
<1>5. ASSUME NEW t \in Type, Open(s, t) PROVE One'  BY <1>0, <1>3, <1>5 DEF Open, Served
<1>6. CASE OpenCheck(s)  BY <1>0, <1>3, <1>6 DEF OpenCheck, Served
<1>7. CASE OpenStoreOne(s)  BY <1>0, <1>3, <1>7 DEF OpenStoreOne, Served
<1>8. CASE OpenStore(s)  BY <1>0, <1>8 DEF OpenStore
<1>9. ASSUME NEW pc \in {"enable", "disable", "release"}, Enter(s, pc) PROVE One'
  BY <1>4, <1>9 DEF Enter, Served, irqVars
<1>10. CASE EnableBit(s)  BY <1>4, <1>10 DEF EnableBit, Served
<1>11. CASE EnableReg(s)  BY <1>4, <1>11 DEF EnableReg, Served
<1>12. CASE DisableBit(s)  BY <1>4, <1>12 DEF DisableBit, Served
<1>13. CASE DisableReg(s)  BY <1>4, <1>13 DEF DisableReg, Served
<1>14. CASE Read(s)  BY <1>4, <1>14 DEF Read, Served, irqVars
<1>15. CASE ReleaseIrqOne(s)  BY <1>0, <1>3, <1>15 DEF ReleaseIrqOne, Served
<1>16. CASE ReleaseIrq(s)  BY <1>0, <1>3, <1>16 DEF ReleaseIrq, Served
<1>17. CASE ReleaseData(s)  BY <1>0, <1>3, <1>17 DEF ReleaseData, Served
<1> QED BY <1>5, <1>6, <1>7, <1>8, <1>9, <1>10, <1>11, <1>12, <1>13, <1>14, <1>15, <1>16, <1>17
        DEF App, AppStep

\* Nobody else takes an isr away, but the manager, of a slot whose process is gone.
LEMMA NextIsrStands == Inv /\ IsrStands /\ [Next]_vars => IsrStands'
<1> SUFFICES ASSUME Inv, IsrStands, [Next]_vars PROVE IsrStands'  OBVIOUS
<1>1. ASSUME UNCHANGED <<app, isr, arg>> PROVE IsrStands'  BY <1>1 DEF IsrStands
<1>2. CASE Mgr
  <2>1. UNCHANGED app  BY <1>2, MgrFrame
  <2>2. CASE UNCHANGED irqVars  BY <1>1, <2>1, <2>2 DEF irqVars
  <2>3. CASE OfflineIrq
    <3>1. /\ app[mgr.slot].pc = "idle" /\ isr' = isr \ {mgr.slot}
          /\ arg' = [arg EXCEPT ![mgr.slot] = NULL]
          /\ mgr.slot \in Slot /\ arg \in [Slot -> Type \cup {NULL}]
      BY <2>3, TypeParts DEF OfflineIrq, Inv, CallInv, MgrInv, AppInv, MgrT, IrqT
    <3> QED BY <2>1, <3>1 DEF IsrStands, Served
  <2> QED BY <1>2, <2>2, <2>3, MgrIrq
<1>3. CASE Shell  BY <1>1, <1>3, ShellFrame DEF irqVars
<1>4. ASSUME NEW s \in Slot, App(s) PROVE IsrStands'  BY <1>4, IsrStandsApp
<1>5. ASSUME NEW s \in Slot, Irq(s) PROVE IsrStands'  BY <1>1, <1>5, IrqFrame DEF fileVars
<1>6. ASSUME NEW w \in Work, Handler(w) PROVE IsrStands'  BY <1>1, <1>6, HandlerFrame
<1>7. CASE UNCHANGED vars  BY <1>1, <1>7 DEF vars, irqVars, fileVars
<1> QED BY <1>2, <1>3, <1>4, <1>5, <1>6, <1>7 DEF Next

\* The faults are those of the handler: of the others only a callback can fail.
LEMMA FaultSteps ==
  ASSUME Next, oops = "no"
  PROVE  /\ oops' = "isr" => \E w \in Work : WorkCall(w)
         /\ oops' = "data" => \E w \in Work : WorkIsr(w) /\ <<work[w].arg, w[1]>> \notin pData
<1>1. CASE Mgr
  <2>1. OnlineCb \/ OfflineCb => UNCHANGED oops \/ oops' = "cb"  BY DEF OnlineCb, OfflineCb
  <2>2. ASSUME NEW s \in Slot, NEW t \in Type, CallOnline(s, t) PROVE UNCHANGED oops
    BY <2>2 DEF CallOnline, intVars
  <2>3. ASSUME NEW s \in Slot, CallOffline(s) PROVE UNCHANGED oops
    BY <2>3 DEF CallOffline, intVars
  <2>4. OnlineLock \/ OnlineSave \/ OnlineEnd => UNCHANGED oops
    BY DEF OnlineLock, OnlineSave, OnlineEnd, intVars
  <2>5. OfflineLock \/ OfflineIrq \/ OfflineEnd => UNCHANGED oops
    BY DEF OfflineLock, OfflineIrq, OfflineEnd, intVars
  <2>6. UNCHANGED oops \/ oops' = "cb"
    BY <1>1, <2>1, <2>2, <2>3, <2>4, <2>5 DEF Mgr, MgrStep
  <2> QED BY <2>6
<1>2. CASE Shell  BY <1>2, ShellFrame DEF intVars
<1>3. ASSUME NEW s \in Slot, App(s) PROVE UNCHANGED oops  BY <1>3, AppFrame DEF intVars
<1>4. ASSUME NEW s \in Slot, Irq(s) PROVE UNCHANGED oops  BY <1>4, IrqFrame
<1>5. ASSUME NEW w \in Work, Handler(w)
      PROVE  /\ oops' = "isr" => WorkCall(w)
             /\ oops' = "data" => WorkIsr(w) /\ <<work[w].arg, w[1]>> \notin pData
  <2>1. CASE WorkIsr(w)  BY <2>1 DEF WorkIsr
  <2>2. CASE WorkCall(w)  BY <2>2 DEF WorkCall
  <2>3. CASE WorkStart(w) \/ WorkCheck(w) \/ WorkUnmask(w)
    BY <2>3 DEF WorkStart, WorkCheck, WorkUnmask
  <2> QED BY <1>5, <2>1, <2>2, <2>3 DEF Handler
<1>6. CASE UNCHANGED vars  BY <1>6 DEF vars, intVars
<1> QED BY <1>1, <1>2, <1>3, <1>4, <1>5, <1>6 DEF Next

\* a handler of a slot whose file is not there with its isr: it is closed,
\* being closed, or being opened again
LateCall == \E w \in Work : work[w].pc = "call" /\ app[w[1]].pc \notin Served

\* slot_int_handler calls through NULL, or an isr with a NULL argument (what
\* IsrArgValid denies), only for a slot whose file has been closed, or is being
\* closed, since the handler looked at BIT_INT_ENABLED: in every other state
\* the two reads it makes without a lock agree.
THEOREM IsrFaultNeedsClose == Spec => [][oops = "no" /\ oops' = "isr" => LateCall]_vars
<1> DEFINE Fault == oops = "no" /\ oops' = "isr"
<1>1. Inv /\ IsrStands /\ [Next]_vars => [Fault => LateCall]_vars
  <2> SUFFICES ASSUME Inv, IsrStands, Next, Fault PROVE LateCall  OBVIOUS
  <2>1. PICK w \in Work : WorkCall(w)  BY FaultSteps
  <2>2. work[w].pc = "call" /\ (arg[w[1]] = NULL \/ w[1] \notin isr)  BY <2>1 DEF WorkCall
  <2> QED BY <2>2, WorkPair DEF LateCall, IsrStands
<1>2. Init => IsrStands  BY DEF Init, IsrStands, Served
<1> QED BY <1>1, <1>2, InvHolds, NextIsrStands, PTL DEF Spec

\* a handler that gets m_mutex in udf_isr after the file of its slot was closed
LateIsr == \E w \in Work :
  work[w].pc = "isr" /\ <<work[w].arg, w[1]>> \notin devLocked /\ app[w[1]].pc = "idle"

\* udf_isr calls the driver's handler with m_pData NULL, which no test
\* in it prevents, only when udf_release has ended since the handler entered udf_isr:
\* never while a file of the slot is open, being opened or being closed.
THEOREM DataFaultNeedsClose == Spec => [][oops = "no" /\ oops' = "data" => LateIsr]_vars
<1> DEFINE Fault == oops = "no" /\ oops' = "data"
<1>1. Inv /\ DataStands /\ MutexesOwned /\ [Next]_vars => [Fault => LateIsr]_vars
  <2> SUFFICES ASSUME Inv, DataStands, MutexesOwned, Next, Fault PROVE LateIsr  OBVIOUS
  <2>1. PICK w \in Work : WorkIsr(w) /\ <<work[w].arg, w[1]>> \notin pData  BY FaultSteps
  <2> DEFINE s == w[1]
             d == <<work[w].arg, s>>
  <2>2. work[w].pc = "isr" /\ d \notin devLocked /\ d \notin pData /\ s \in Slot
    BY <2>1, WorkPair DEF WorkIsr
  <2>3. d \in dev /\ d \in Dev /\ work[w].arg \in Type
    BY <2>2, TypeParts DEF Inv, WorkInv, CoreT, Dev
  <2>4. typeInfo[s] = work[w].arg
    <3>1. ~MgrHolds(s)  BY <2>2 DEF Inv, LockInv, SlotMutex, WorkHolds
    <3> QED BY <2>2, <2>3, <3>1 DEF Inv, CallInv, DevInv, MgrHolds
  <2>5. ASSUME app[s].pc # "idle" PROVE File(s) = d
    <3>1. app[s].type \in Type /\ File(s) \in dev
      BY <2>2, <2>5, TypeParts DEF Inv, CallInv, AppInv, FileT
    <3>2. typeInfo[s] = app[s].type
      <4>1. ~MgrHolds(s)  BY <2>2 DEF Inv, LockInv, SlotMutex, WorkHolds
      <4> QED BY <2>2, <3>1, <4>1 DEF Inv, CallInv, DevInv, MgrHolds, File
    <3> QED BY <2>4, <3>2 DEF File
  <2>6. app[s].pc = "open" => File(s) # d
    BY <2>2, <2>3 DEF MutexesOwned
  <2> QED BY <2>2, <2>5, <2>6 DEF LateIsr, DataStands
<1> QED BY <1>1, InvHolds, DataStandsHolds, MutexesHaveOwners, PTL DEF Spec
=============================================================================
