------------------------------ MODULE MainDev ------------------------------
(***************************************************************************)
(* The manager's device file (pdm/driver/src/file_op.c): every ioctl and   *)
(* the test commands that can be written to it, each under the m_mutex of  *)
(* the device, over the slot table of the core (SlotDrv has that table     *)
(* under its own locks).  Slot 0 is the core itself, a card of type PDM    *)
(* whose device is this file.  Nothing is ever queued to be read.          *)
(***************************************************************************)
EXTENDS Integers

CONSTANTS SlotMax,  \* ETIN_SLOT_MAX
          TypeMax   \* ETINDEV_MAX

ASSUME MaxAssumption == SlotMax \in Nat \ {0, 1} /\ TypeMax \in Nat \ {0, 1}

NoCard == -1        \* ETINDEV_NULL
PdmType == 0        \* ETINDEV_PDM
MioType == 1        \* ETINDEV_MIO
CpuSlot == 0        \* ETIN_SLOT_PDM
SelfSlot == 1       \* ETIN_SLOT_SELF

VARIABLES mdSlot,   \* type_info of each slot
          mdSeen,   \* m_cardData: the types last reported
          mdCall    \* the last call and its result

mdVars == <<mdSlot, mdSeen, mdCall>>

\* after dmd_init
MdInit ==
  /\ mdSlot = [s \in 0 .. SlotMax - 1 |-> IF s = CpuSlot THEN PdmType ELSE NoCard]
  /\ mdSeen = [s \in 0 .. SlotMax - 1 |-> NoCard]
  /\ mdCall = [op |-> "none", slot |-> 0, type |-> NoCard, ok |-> TRUE]

MdReturn(op, s, t, ok) == mdCall' = [op |-> op, slot |-> s, type |-> t, ok |-> ok]

\* pdm_drv_main_init, the cb_online of type PDM, takes slot 0 only; that of a
\* card driver may fail, and there may be no driver.
CoreOnline(op, s, t) ==
  IF mdSlot[s] # NoCard \/ (t = PdmType /\ s # CpuSlot)
  THEN MdReturn(op, s, t, FALSE) /\ UNCHANGED mdSlot
  ELSE \/ mdSlot' = [mdSlot EXCEPT ![s] = t] /\ MdReturn(op, s, t, TRUE)
       \/ UNCHANGED mdSlot /\ MdReturn(op, s, t, FALSE)

\* mutant: m_slot is not looked at
OnOffLineAny(op, s, t) ==
  IF s \notin 0 .. SlotMax - 1 \/ (t # NoCard /\ t \notin 0 .. TypeMax - 1)
  THEN MdReturn(op, s, t, FALSE) /\ UNCHANGED mdSlot
  ELSE \/ t = NoCard /\ mdSlot' = [mdSlot EXCEPT ![s] = NoCard] /\ MdReturn(op, s, t, TRUE)
       \/ t # NoCard /\ CoreOnline(op, s, t)

\* pdm_ioctl_card_on_off_line
OnOffLine(op, s, t) ==
  IF s \notin 0 .. SlotMax - 1 \/ s = CpuSlot \/ (t # NoCard /\ t \notin 0 .. TypeMax - 1)
  THEN MdReturn(op, s, t, FALSE) /\ UNCHANGED mdSlot
  ELSE \/ t = NoCard /\ mdSlot' = [mdSlot EXCEPT ![s] = NoCard] /\ MdReturn(op, s, t, TRUE)
       \/ t # NoCard /\ CoreOnline(op, s, t)

\* The ioctl of the manager, with whatever arguments.
MdIoctlOnOff ==
  /\ \E s \in -1 .. SlotMax, t \in -2 .. TypeMax : OnOffLine("ioctl", s, t)
  /\ UNCHANGED mdSeen

\* The test command "e1 mio", "e1 nul" or another name, which counts as "nul":
\* with " r" after it the card is put on or off line, else only simulated,
\* which does nothing.
MdWriteOnOff ==
  /\ \E t \in {MioType, NoCard}, real \in BOOLEAN :
       IF real THEN OnOffLine("write", SelfSlot, t)
       ELSE MdReturn("write", SelfSlot, t, TRUE) /\ UNCHANGED mdSlot
  /\ UNCHANGED mdSeen

\* pdm_ioctl_get_all_card_type, also of the test command "d"
MdGetAll ==
  /\ mdSeen' = [s \in 0 .. SlotMax - 1 |-> IF s = CpuSlot THEN PdmType ELSE MioType]
  /\ MdReturn("get", 0, NoCard, TRUE)
  /\ UNCHANGED mdSlot

\* The other ioctls and commands, read and poll change nothing.
MdOther ==
  /\ MdReturn("other", 0, NoCard, TRUE)
  /\ UNCHANGED <<mdSlot, mdSeen>>

MdNext == MdIoctlOnOff \/ MdWriteOnOff \/ MdGetAll \/ MdOther

MdSpec == MdInit /\ [][MdNext]_mdVars

MdTypeOK ==
  /\ mdSlot \in [0 .. SlotMax - 1 -> -1 .. TypeMax - 1]
  /\ mdSeen \in [0 .. SlotMax - 1 -> -1 .. TypeMax - 1]
  /\ mdCall \in [op : {"none", "ioctl", "write", "get", "other"}, slot : -1 .. SlotMax,
                 type : -2 .. TypeMax, ok : BOOLEAN]

----------------------------------------------------------------------------
\* No call on the device takes the device itself off line, or puts the type of
\* the core into a slot of a card, whatever slot and type it names; and a call
\* that succeeds leaves the slot as it said.
MainSlots ==
  /\ mdSlot[CpuSlot] = PdmType
  /\ \A s \in 1 .. SlotMax - 1 : mdSlot[s] # PdmType
  /\ mdCall.op = "ioctl" /\ mdCall.ok => mdSlot[mdCall.slot] = mdCall.type
===========================================================================
