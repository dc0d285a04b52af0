------------------------------- MODULE Sifp -------------------------------
(***************************************************************************)
(* The slot information fast path (pdm/driver/src/slot_info_fast_path.c)   *)
(* of one slot: card drivers register callbacks when their card comes on   *)
(* line (udf_bh_online) and take them back when it goes (udf_bh_offline),  *)
(* while processes have them called through the device file of the core,   *)
(* which keeps no card driver loaded.  On and off line come one at a time, *)
(* under s_card_type_mutex.                                                *)
(***************************************************************************)
EXTENDS Integers

CONSTANTS CbType,  \* types of cards, each with its driver
          CbKind,  \* read_cb and the callbacks of the ioctls
          CbUser,  \* processes
          NoType

ASSUME SifpAssumption == NoType \notin CbType

VARIABLES spLock,  \* m_mutex of the slot
          spInfo,  \* slot_info: whose callbacks, and which are not NULL
          spDev,   \* the type whose device is there, and with it the code
          spMgr,   \* the step of udf_online or udf_offline
          spUser   \* what a process does

spVars == <<spLock, spInfo, spDev, spMgr, spUser>>

NoInfo == [type |-> NoType, kinds |-> {}]
NoCall == [pc |-> "idle", kind |-> "none", type |-> NoType]

SpInit ==
  /\ spLock = FALSE /\ spInfo = NoInfo /\ spDev = NoType /\ spMgr = "idle"
  /\ spUser = [u \in CbUser |-> NoCall]

\* A card is put on line: udf_main_init has made the device.
SpOnline(t) ==
  /\ spMgr = "idle" /\ spDev = NoType
  /\ spDev' = t /\ spMgr' = "reg"
  /\ UNCHANGED <<spLock, spInfo, spUser>>

\* sifp_reg_for_online: the driver has filled in the callbacks it has.
SpReg ==
  /\ spMgr = "reg" /\ ~spLock
  /\ \E ks \in SUBSET CbKind : spInfo' = [type |-> spDev, kinds |-> ks]
  /\ spMgr' = "idle"
  /\ UNCHANGED <<spLock, spDev, spUser>>

SpOffline ==
  /\ spMgr = "idle" /\ spDev # NoType
  /\ spMgr' = "unreg"
  /\ UNCHANGED <<spLock, spInfo, spDev, spUser>>

\* mutant: the callbacks are cleared without the mutex
SpUnregNoLock ==
  /\ spMgr = "unreg"
  /\ spInfo' = NoInfo /\ spMgr' = "exit"
  /\ UNCHANGED <<spLock, spDev, spUser>>

\* sifp_unreg_for_offline
SpUnreg ==
  /\ spMgr = "unreg" /\ ~spLock
  /\ spInfo' = NoInfo /\ spMgr' = "exit"
  /\ UNCHANGED <<spLock, spDev, spUser>>

\* udf_main_exit; the driver may be removed after it.
SpExit ==
  /\ spMgr = "exit"
  /\ spDev' = NoType /\ spMgr' = "idle"
  /\ UNCHANGED <<spLock, spInfo, spUser>>

\* sifp_drv_read or sifp_drv_ioctl takes the mutex and looks at the pointer.
SpCall(u) ==
  /\ spUser[u].pc = "idle" /\ ~spLock
  /\ \E k \in spInfo.kinds : spUser' = [spUser EXCEPT ![u] = [pc |-> "callback", kind |-> k, type |-> spInfo.type]]
  /\ spLock' = TRUE
  /\ UNCHANGED <<spInfo, spDev, spMgr>>

\* The callback returns.
SpReturn(u) ==
  /\ spUser[u].pc = "callback"
  /\ spUser' = [spUser EXCEPT ![u] = NoCall] /\ spLock' = FALSE
  /\ UNCHANGED <<spInfo, spDev, spMgr>>

SpNext ==
  \/ (\E t \in CbType : SpOnline(t)) \/ SpReg \/ SpOffline \/ SpUnreg \/ SpExit
  \/ (\E u \in CbUser : SpCall(u) \/ SpReturn(u))

SpSpec == SpInit /\ [][SpNext]_spVars

SpTypeOK ==
  /\ spLock \in BOOLEAN /\ spDev \in CbType \cup {NoType}
  /\ spInfo \in [type : CbType \cup {NoType}, kinds : SUBSET CbKind]
  /\ spMgr \in {"idle", "reg", "unreg", "exit"}
  /\ spUser \in [CbUser -> [pc : {"idle", "callback"}, kind : CbKind \cup {"none"}, type : CbType \cup {NoType}]]

----------------------------------------------------------------------------
\* A callback runs only for the card that is in the slot, and while its driver
\* has its device: never after udf_main_exit, nor for the card before.  No
\* callback stays registered without it.
CallbackLive ==
  /\ spInfo.type # NoType => spInfo.type = spDev
  /\ \A u \in CbUser : spUser[u].pc = "callback" => spUser[u].type = spDev /\ spLock
===========================================================================
