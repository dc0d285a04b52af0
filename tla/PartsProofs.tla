----------------------------- MODULE PartsProofs -----------------------------
(***************************************************************************)
(* Theorems about the parts of the driver core and of the driver frame     *)
(* that share no state with each other: the fast path (Sifp), the          *)
(* manager's device file (MainDev), the FPGA loader (FpgaLoader), the      *)
(* delays (TimeSpec), the raw registers (RegsInfo), the system function    *)
(* device (SysFunc) and an interrupt on its way to the process (UserIrq).  *)
(* With those of StartStopProofs and CPListProofs they hold of PartsSpec,  *)
(* where the parts take turns (MCParts).                                   *)
(***************************************************************************)
EXTENDS MCParts, StartStopProofs, CPListProofs, FiniteSetTheorems, TLAPS

----------------------------------------------------------------------------
(* Sifp: the fast path calls no callback of a card that has gone. *)

\* One process at a time is in a callback, with the mutex, and for a card that
\* is neither coming nor gone.
CallsOk ==
  /\ \A u, v \in CbUser : spUser[u].pc = "callback" /\ spUser[v].pc = "callback" => u = v
  /\ \A u \in CbUser : spUser[u].pc = "callback" =>
       /\ spLock /\ spUser[u].type = spDev /\ spUser[u].type # NoType
       /\ spMgr \in {"idle", "unreg"}

\* What is registered is the driver's that has its device.
InfoOk ==
  /\ spInfo.type # NoType => spInfo.type = spDev /\ spMgr \in {"idle", "unreg"}
  /\ spInfo.kinds # {} => spInfo.type # NoType
  /\ spMgr = "reg" => spDev # NoType

SpInv == SpTypeOK /\ CallsOk /\ InfoOk

\* The fast path starts with nothing registered and nobody in a call.
LEMMA SpInitInv == SpInit => SpInv
<1> SUFFICES ASSUME SpInit PROVE SpInv
  OBVIOUS
<1> USE DEF SpInit, NoInfo, NoCall
<1>1. SpTypeOK
  BY DEF SpTypeOK
<1>2. CallsOk
  <2>1. \A u \in CbUser : spUser[u].pc = "idle"
    OBVIOUS
  <2> QED
    BY <2>1 DEF CallsOk
<1>3. InfoOk
  BY DEF InfoOk
<1> QED
  BY <1>1, <1>2, <1>3 DEF SpInv

\* Every step of the core and of the processes keeps the invariant.
LEMMA SpNextInv == SpInv /\ [SpNext]_spVars => SpInv'
<1> SUFFICES ASSUME SpInv, [SpNext]_spVars PROVE SpInv'
  OBVIOUS
<1> USE DEF SpInv, SpTypeOK, CallsOk, InfoOk, NoInfo, NoCall
<1>1. ASSUME NEW t \in CbType, SpOnline(t) PROVE SpInv'
  \* the slot was empty, so nobody is in a callback
  BY <1>1, SifpAssumption DEF SpOnline
<1>2. CASE SpReg
  BY <1>2 DEF SpReg
<1>3. CASE SpOffline
  BY <1>3 DEF SpOffline
<1>4. CASE SpUnreg
  \* the mutex is free, so nobody is in a callback
  BY <1>4 DEF SpUnreg
<1>5. CASE SpExit
  BY <1>5 DEF SpExit
<1>6. ASSUME NEW u \in CbUser, SpCall(u) PROVE SpInv'
  BY <1>6 DEF SpCall
<1>7. ASSUME NEW u \in CbUser, SpReturn(u) PROVE SpInv'
  BY <1>7 DEF SpReturn
<1>8. CASE UNCHANGED spVars
  BY <1>8 DEF spVars
<1> QED
  BY <1>1, <1>2, <1>3, <1>4, <1>5, <1>6, <1>7, <1>8 DEF SpNext

\* A process in sifp_drv_read or sifp_drv_ioctl never has a callback of a card
\* that is off line called, and none stays registered.
THEOREM CallbacksLive == SpSpec => []CallbackLive
<1>1. SpInv => CallbackLive
  BY DEF SpInv, SpTypeOK, CallsOk, InfoOk, CallbackLive
<1> QED
  BY <1>1, SpInitInv, SpNextInv, PTL DEF SpSpec
----------------------------------------------------------------------------
(* MainDev: no call on the manager's device file takes the core itself off *)
(* line or puts its type into the slot of a card.                          *)

MdInv == MdTypeOK /\ MainSlots

\* dmd_init puts the core on line in its slot, and nothing in the others.
LEMMA MdInitInv == MdInit => MdInv
<1> SUFFICES ASSUME MdInit PROVE MdInv
  OBVIOUS
<1>1. mdSlot = [s \in 0 .. SlotMax - 1 |-> IF s = 0 THEN 0 ELSE -1]
  BY DEF MdInit, NoCard, PdmType, CpuSlot
<1>2. MdTypeOK
  <2>1. mdSlot \in [0 .. SlotMax - 1 -> -1 .. TypeMax - 1]
    BY <1>1, MaxAssumption
  <2>2. mdSeen \in [0 .. SlotMax - 1 -> -1 .. TypeMax - 1]
    BY MaxAssumption DEF MdInit, NoCard
  <2>3. mdCall = [op |-> "none", slot |-> 0, type |-> -1, ok |-> TRUE]
    BY DEF MdInit, NoCard
  <2> QED
    BY <2>1, <2>2, <2>3, MaxAssumption DEF MdTypeOK
<1>3. mdSlot[0] = 0
  BY <1>1, MaxAssumption
<1>4. ASSUME NEW s \in 1 .. SlotMax - 1 PROVE mdSlot[s] # 0
  <2>1. s \in 0 .. SlotMax - 1 /\ s # 0
    BY MaxAssumption
  <2> QED
    BY <1>1, <2>1
<1>5. mdCall.op # "ioctl"
  BY DEF MdInit
<1> QED
  BY <1>2, <1>3, <1>4, <1>5 DEF MdInv, MainSlots, PdmType, CpuSlot

\* pdm_ioctl_card_on_off_line keeps the invariant, for every slot and type
\* that it may be given and whoever calls it.
LEMMA OnOffLineInv ==
  ASSUME MdInv, MdTypeOK', UNCHANGED mdSeen,
         NEW op \in {"ioctl", "write"}, NEW s \in -1 .. SlotMax, NEW t \in -2 .. TypeMax,
         OnOffLine(op, s, t)
  PROVE  MainSlots'
<1> USE MaxAssumption DEF MdInv, MdTypeOK, MainSlots, MdReturn, NoCard, PdmType, CpuSlot
<1>1. CASE s \notin 0 .. SlotMax - 1 \/ s = CpuSlot \/ (t # NoCard /\ t \notin 0 .. TypeMax - 1)
  BY <1>1 DEF OnOffLine
<1>2. CASE ~(s \notin 0 .. SlotMax - 1 \/ s = CpuSlot \/ (t # NoCard /\ t \notin 0 .. TypeMax - 1))
  <2>1. CASE t = NoCard /\ mdSlot' = [mdSlot EXCEPT ![s] = NoCard] /\ MdReturn(op, s, t, TRUE)
    BY <1>2, <2>1
  <2>2. CASE t # NoCard /\ CoreOnline(op, s, t)
    <3>1. CASE UNCHANGED mdSlot /\ MdReturn(op, s, t, FALSE)
      BY <3>1
    <3>2. CASE /\ ~(t = PdmType /\ s # CpuSlot)
               /\ mdSlot' = [mdSlot EXCEPT ![s] = t] /\ MdReturn(op, s, t, TRUE)
      BY <1>2, <3>2
    <3> QED
      BY <2>2, <3>1, <3>2 DEF CoreOnline
  <2> QED
    BY <1>2, <2>1, <2>2 DEF OnOffLine
<1> QED
  BY <1>1, <1>2

\* The types of slots and results after pdm_ioctl_card_on_off_line.
LEMMA OnOffLineType ==
  ASSUME MdInv, UNCHANGED mdSeen,
         NEW op \in {"ioctl", "write"}, NEW s \in -1 .. SlotMax, NEW t \in -2 .. TypeMax,
         OnOffLine(op, s, t)
  PROVE  MdTypeOK'
<1>1. mdSlot' \in [0 .. SlotMax - 1 -> -1 .. TypeMax - 1]
  <2>1. mdSlot \in [0 .. SlotMax - 1 -> -1 .. TypeMax - 1]
    BY DEF MdInv, MdTypeOK
  <2>2. \/ mdSlot' = mdSlot
        \/ /\ t = NoCard \/ t \in 0 .. TypeMax - 1
           /\ mdSlot' = [mdSlot EXCEPT ![s] = t]
    BY DEF OnOffLine, CoreOnline
  <2>3. t = NoCard \/ t \in 0 .. TypeMax - 1 => t \in -1 .. TypeMax - 1
    BY MaxAssumption DEF NoCard
  <2> QED
    BY <2>1, <2>2, <2>3
<1>2. \E ok \in BOOLEAN : mdCall' = [op |-> op, slot |-> s, type |-> t, ok |-> ok]
  BY DEF OnOffLine, CoreOnline, MdReturn
<1>3. mdSeen' \in [0 .. SlotMax - 1 -> -1 .. TypeMax - 1]
  BY DEF MdInv, MdTypeOK
<1> QED
  BY <1>1, <1>2, <1>3 DEF MdTypeOK

\* Every call keeps the invariant.
LEMMA MdNextInv == MdInv /\ [MdNext]_mdVars => MdInv'
<1> SUFFICES ASSUME MdInv, [MdNext]_mdVars PROVE MdInv'
  OBVIOUS
<1>1. CASE MdIoctlOnOff
  <2> PICK s \in -1 .. SlotMax, t \in -2 .. TypeMax : OnOffLine("ioctl", s, t)
    BY <1>1 DEF MdIoctlOnOff
  <2> QED
    BY <1>1, OnOffLineInv, OnOffLineType DEF MdIoctlOnOff, MdInv
<1>2. CASE MdWriteOnOff
  <2>1. PICK t \in {MioType, NoCard}, real \in BOOLEAN :
          IF real THEN OnOffLine("write", SelfSlot, t)
          ELSE MdReturn("write", SelfSlot, t, TRUE) /\ UNCHANGED mdSlot
    BY <1>2 DEF MdWriteOnOff
  <2>2. SelfSlot \in -1 .. SlotMax /\ t \in -2 .. TypeMax
    BY <2>1, MaxAssumption DEF SelfSlot, MioType, NoCard
  <2>3. CASE real
    BY <1>2, <2>1, <2>2, <2>3, OnOffLineInv, OnOffLineType DEF MdWriteOnOff, MdInv
  <2>4. CASE ~real
    <3>1. /\ UNCHANGED <<mdSlot, mdSeen>>
          /\ mdCall' = [op |-> "write", slot |-> SelfSlot, type |-> t, ok |-> TRUE]
      BY <1>2, <2>1, <2>4 DEF MdWriteOnOff, MdReturn
    <3>2. MdTypeOK'
      BY <2>2, <3>1 DEF MdInv, MdTypeOK
    <3>3. MainSlots'
      BY <3>1 DEF MdInv, MainSlots
    <3> QED
      BY <3>2, <3>3 DEF MdInv
  <2> QED
    BY <2>3, <2>4
<1>3. CASE MdGetAll
  BY <1>3, MaxAssumption DEF MdGetAll, MdInv, MdTypeOK, MainSlots, MdReturn, NoCard, PdmType, MioType, CpuSlot
<1>4. CASE MdOther
  BY <1>4, MaxAssumption DEF MdOther, MdInv, MdTypeOK, MainSlots, MdReturn, NoCard
<1>5. CASE UNCHANGED mdVars
  BY <1>5 DEF mdVars, MdInv, MdTypeOK, MainSlots
<1> QED
  BY <1>1, <1>2, <1>3, <1>4, <1>5 DEF MdNext

\* Whatever the manager, or a test command, asks of the device file, slot 0
\* stays the core's and the other slots are for cards, and a call that
\* succeeded did what it said.
THEOREM SlotsKept == MdSpec => []MainSlots
<1>1. MdInv => MainSlots
  BY DEF MdInv
<1> QED
  BY <1>1, MdInitInv, MdNextInv, PTL DEF MdSpec
----------------------------------------------------------------------------
(* FpgaLoader: what a load reports is what the FPGA is. *)

\* What the FPGA can be at each point of the call: PROG and the clock are on
\* only for their steps, and nothing of the image is there before it is sent.
LoaderAt ==
  /\ flProg <=> flPc = "clearing"
  /\ flClk <=> flPc = "send"
  /\ flPc = "idle" => flFpga # "loading" /\ (flRet = 1 => flFpga # "new")
  /\ flPc \in {"clearing", "cleared"} => flFpga \in {"old", "clear"} /\ flLeft = flBytes
  /\ flPc = "cleared" /\ flFpga = "old" => flCut
  /\ flPc = "send" => \/ flFpga = "clear" /\ flLeft = flBytes
                      \/ flFpga = "loading" /\ flLeft < flBytes
                      \/ flFpga = "old" /\ flCut /\ flDone # 0
  /\ flPc = "wait" => /\ flLeft = 0
                      /\ \/ flFpga = "clear"
                         \/ flFpga = "new" /\ flBytes > 0
                         \/ flFpga = "old" /\ flCut /\ (flDone = 0 => flPoll > 0)

FlInv == FlTypeOK /\ LoaderAt /\ LoadResult

\* Where the loader stands, and what it has switched on.
FlT1 == /\ flPc \in {"idle", "clearing", "cleared", "send", "wait"}
        /\ flProg \in BOOLEAN /\ flClk \in BOOLEAN
        /\ flFpga \in {"old", "clear", "loading", "new"}
        /\ flRet \in {-1, 0, 1} /\ flCut \in BOOLEAN

\* Its counters.
FlT2 == /\ flBytes \in 0 .. MaxBytes /\ flLeft \in 0 .. flBytes /\ flPoll \in 0 .. MaxPoll
        /\ flDone \in -1 .. MaxPoll + 1

\* The two are the type invariant.
LEMMA FlTypes == FlTypeOK <=> FlT1 /\ FlT2
BY DEF FlTypeOK, FlT1, FlT2

\* Nothing is loaded at first.
LEMMA FlInitInv == FlInit => FlInv
<1> SUFFICES ASSUME FlInit PROVE FlInv
  OBVIOUS
<1>1. FlT1
  BY DEF FlInit, FlT1
<1>2. FlT2
  BY LoaderAssumption DEF FlInit, FlT2
<1>3. LoaderAt /\ LoadResult
  BY DEF FlInit, LoaderAt, LoadResult
<1> QED
  BY <1>1, <1>2, <1>3, FlTypes DEF FlInv

\* No step of the loader leaves the range of a counter.
LEMMA FlCounters == FlT2 /\ [FlNext]_flVars => FlT2'
<1> SUFFICES ASSUME FlT2, [FlNext]_flVars PROVE FlT2'
  OBVIOUS
<1> USE LoaderAssumption DEF FlT2
<1>1. CASE FlClear
  BY <1>1 DEF FlClear
<1>2. CASE FlRelease
  BY <1>2 DEF FlRelease, Later
<1>3. CASE FlStart
  BY <1>3 DEF FlStart
<1>4. CASE FlSend
  BY <1>4 DEF FlSend
<1>5. CASE FlSent
  BY <1>5 DEF FlSent
<1>6. CASE FlWait
  BY <1>6 DEF FlWait
<1>7. CASE FlAgain
  BY <1>7 DEF FlAgain, Later
<1>8. CASE UNCHANGED flVars
  BY <1>8 DEF flVars
<1> QED
  BY <1>1, <1>2, <1>3, <1>4, <1>5, <1>6, <1>7, <1>8 DEF FlNext

\* Every step of the loader keeps the invariant.
LEMMA FlNextInv == FlInv /\ [FlNext]_flVars => FlInv'
<1> SUFFICES ASSUME FlT1, FlT2, LoaderAt, LoadResult, [FlNext]_flVars
             PROVE  FlT1' /\ LoaderAt' /\ LoadResult'
  BY FlCounters, FlTypes DEF FlInv, FlTypeOK, FlT1, FlT2
<1> USE LoaderAssumption DEF FlT1, LoaderAt, LoadResult, FlReturn, Configured
<1>1. CASE flRet = 1 /\ FlClear
  <2>1. flPc = "idle" /\ flFpga \in {"old", "clear"} /\ ~flClk
    BY <1>1 DEF FlClear
  <2>2. /\ flPc' = "clearing" /\ flProg' /\ flLeft' = flBytes' /\ flCut' \in BOOLEAN
        /\ UNCHANGED <<flClk, flFpga, flDone, flRet>>
    BY <1>1 DEF FlClear
  <2> QED
    BY <2>1, <2>2
<1>2. CASE FlRelease
  <2>1. flPc = "clearing" /\ flFpga \in {"old", "clear"} /\ flLeft = flBytes /\ ~flClk
    BY <1>2 DEF FlRelease
  <2>2. /\ flPc' = "cleared" /\ flProg' = FALSE
        /\ UNCHANGED <<flBytes, flLeft, flPoll, flClk, flRet>>
    BY <1>2 DEF FlRelease
  <2>3. flFpga' \in {"old", "clear"} /\ flCut' \in BOOLEAN /\ (flFpga' = "old" => flCut')
    BY <1>2, <2>1 DEF FlRelease
  <2>4. ~flClk' /\ flLeft' = flBytes'
    BY <2>1, <2>2
  <2>5. FlT1' /\ LoaderAt'
    BY <2>2, <2>3, <2>4
  <2>6. LoadResult'
    BY <2>2
  <2> QED
    BY <2>5, <2>6
<1>3. CASE FlStart
  <2>1. /\ flPc = "cleared" /\ flLeft = flBytes /\ flFpga \in {"old", "clear"} /\ ~flProg /\ ~flClk
        /\ UNCHANGED <<flBytes, flLeft, flPoll, flProg, flFpga, flDone, flCut>>
        /\ (flFpga = "old" => flCut)
    BY <1>3 DEF FlStart
  <2>2. CASE Configured
    <3>1. flPc' = "idle" /\ flRet' = -1 /\ flClk' = flClk /\ flFpga = "old"
      BY <1>3, <2>1, <2>2 DEF FlStart
    <3> QED
      BY <2>1, <3>1
  <2>3. CASE ~Configured
    <3>1. /\ flPc' = "send" /\ flClk' /\ flRet' = flRet
          /\ flFpga = "clear" \/ (flFpga = "old" /\ flCut /\ flDone # 0)
      BY <1>3, <2>1, <2>3 DEF FlStart
    <3> QED
      BY <2>1, <3>1
  <2> QED
    BY <2>2, <2>3
<1>4. CASE FlSend
  <2>1. /\ flPc = "send" /\ flPc' = "send" /\ flLeft' = flLeft - 1
        /\ \/ flFpga \in {"clear", "loading"} /\ flFpga' = "loading"
           \/ flFpga = "old" /\ flFpga' = "old" /\ flCut /\ flDone # 0
        /\ UNCHANGED <<flBytes, flPoll, flProg, flClk, flDone, flRet, flCut>>
    BY <1>4 DEF FlSend
  <2>2. flLeft' < flBytes'
    BY <2>1 DEF FlT2
  <2> QED
    BY <2>1, <2>2
<1>5. CASE FlSent
  BY <1>5 DEF FlSent, FlT2
<1>6. CASE FlWait
  <2>1. /\ flPc = "wait" /\ flLeft = 0 /\ ~flProg /\ ~flClk
        /\ \/ flFpga = "clear"
           \/ flFpga = "new" /\ flBytes > 0
           \/ flFpga = "old" /\ flCut /\ (flDone = 0 => flPoll > 0)
        /\ UNCHANGED <<flBytes, flLeft, flProg, flClk, flFpga, flCut>>
    BY <1>6 DEF FlWait
  <2>2. CASE flPoll >= MaxPoll
    <3>1. flPc' = "idle" /\ flRet' = -1 /\ flPoll' = flPoll /\ flPoll = MaxPoll
      BY <1>6, <2>2 DEF FlWait, FlT2
    <3> QED
      BY <2>1, <3>1
  <2>3. CASE flPoll < MaxPoll /\ Configured
    <3>1. /\ flPc' = "idle" /\ flRet' = 0 /\ flDone' = flDone /\ flPoll' = flPoll
          /\ flDone = 0 /\ flFpga \in {"old", "new"}
      BY <1>6, <2>1, <2>3 DEF FlWait, FlT2
    <3> QED
      BY <2>1, <3>1
  <2>4. CASE flPoll < MaxPoll /\ ~Configured
    <3>1. flPc' = "wait" /\ flRet' = flRet /\ flPoll' > 0
      BY <1>6, <2>1, <2>4 DEF FlWait, FlT2
    <3> QED
      BY <2>1, <3>1
  <2> QED
    BY <2>2, <2>3, <2>4 DEF FlT2
<1>7. CASE FlAgain
  <2>1. flPc = "idle" /\ flPc' = "idle" /\ flRet' = 1 /\ ~flProg /\ ~flClk
        /\ flFpga' \in {"old", "clear"} /\ flCut' \in BOOLEAN
    BY <1>7 DEF FlAgain
  <2>2. UNCHANGED <<flProg, flClk>>
    BY <1>7 DEF FlAgain
  <2> QED
    BY <2>1, <2>2
<1>8. CASE UNCHANGED flVars
  BY <1>8 DEF flVars
<1> QED
  BY <1>1, <1>2, <1>3, <1>4, <1>5, <1>6, <1>7, <1>8 DEF FlNext

\* For an image of any size and any number of looks at DONE, a load succeeds
\* only with this image running, all of it, and leaves PROG and the clock off
\* in any case.
THEOREM LoadTold == FlSpec => []LoadResult
<1>1. FlInv => LoadResult
  BY DEF FlInv
<1> QED
  BY <1>1, FlInitInv, FlNextInv, PTL DEF FlSpec

----------------------------------------------------------------------------
(* TimeSpec: a delay lasts its amount. *)

\* A second has some nanoseconds; how many matters in IncIsTime only.
LEMMA SecondIsNat == NsecPerSec \in Nat
BY SMT DEF NsecPerSec

\* What a time and a call are.
IsTime(t) == t.sec \in Nat /\ t.nsec \in Nat
IsCall(c) == c[1] \in {"s", "ms", "us", "ns"} /\ c[2] \in Nat

\* A second that is carried is one second more and its nanoseconds less.
CarryOk(t) ==
  t.nsec - tsStart.nsec = TsInc.nsec - (t.sec - tsStart.sec - TsInc.sec) * NsecPerSec

TsAt ==
  /\ tsPc \in {"add", "norm", "sleep"} => IsCall(tsCall) /\ IsTime(tsStart)
  /\ tsPc \in {"norm", "sleep"} => IsTime(tsDue) /\ CarryOk(tsDue)
  /\ tsPc = "sleep" => tsDue.nsec < NsecPerSec

TsInv == TsAt /\ SleepFull

\* The readings of the clock are times.
LEMMA StartsAreTimes == ASSUME NEW t \in SleepStarts PROVE IsTime(t)
<1>1. t \in [sec : Nat, nsec : 0 .. NsecPerSec - 1]
  BY SleepAssumption
<1>2. t.sec \in Nat /\ t.nsec \in 0 .. NsecPerSec - 1
  BY <1>1
<1> QED
  BY <1>2, SecondIsNat DEF IsTime

\* The calls are calls.
LEMMA CallsAreCalls == ASSUME NEW c \in SleepCalls PROVE IsCall(c)
<1>1. c \in (DOMAIN Unit) \X Nat
  BY SleepAssumption
<1>2. DOMAIN Unit = {"s", "ms", "us", "ns"}
  BY DEF Unit
<1>3. (DOMAIN Unit) \X Nat = {"s", "ms", "us", "ns"} \X Nat
  BY <1>2, Zenon
<1>4. c \in {"s", "ms", "us", "ns"} \X Nat
  BY <1>1, <1>3, Zenon
<1>5. c[1] \in {"s", "ms", "us", "ns"} /\ c[2] \in Nat
  BY <1>4
<1> QED
  BY <1>5 DEF IsCall

\* The amount of a call, split, is a time.
LEMMA IncIsTime == ASSUME IsCall(tsCall) PROVE IsTime(TsInc)
<1> DEFINE n == tsCall[2]
<1>1. tsCall[1] \in {"s", "ms", "us", "ns"} /\ n \in Nat
  BY DEF IsCall
<1>2. PICK per \in Nat : per > 0 /\ per = Unit[tsCall[1]] /\ NsecPerSec \div per \in Nat
  <2>1. CASE tsCall[1] = "s"
    BY <2>1, SMT DEF Unit, NsecPerSec
  <2>2. CASE tsCall[1] = "ms"
    BY <2>2, SMT DEF Unit, NsecPerSec
  <2>3. CASE tsCall[1] = "us"
    BY <2>3, SMT DEF Unit, NsecPerSec
  <2>4. CASE tsCall[1] = "ns"
    BY <2>4, SMT DEF Unit, NsecPerSec
  <2> QED
    BY <1>1, <2>1, <2>2, <2>3, <2>4
<1>3. TsInc = [sec |-> n \div per, nsec |-> (n % per) * (NsecPerSec \div per)]
  BY <1>2 DEF TsInc
<1>4. n \div per \in Nat /\ n % per \in Nat
  BY <1>1, <1>2
<1>5. (n % per) * (NsecPerSec \div per) \in Nat
  BY <1>2, <1>4
<1> QED
  BY <1>3, <1>4, <1>5 DEF IsTime

\* No delay has been asked for at first.
LEMMA TsInitInv == TsInit => TsInv
BY DEF TsInit, TsInv, TsAt, SleepFull, NoWake

\* The sum of the clock and the amount carries nothing yet.
LEMMA SumCarries ==
  ASSUME NEW a, NEW b, NEW t, IsTime(a), IsTime(b),
         t = [sec |-> a.sec + b.sec, nsec |-> a.nsec + b.nsec]
  PROVE  IsTime(t) /\ t.nsec - a.nsec = b.nsec - (t.sec - a.sec - b.sec) * NsecPerSec
<1>1. t.sec = a.sec + b.sec /\ t.nsec = a.nsec + b.nsec
  OBVIOUS
<1>2. a.sec \in Nat /\ a.nsec \in Nat /\ b.sec \in Nat /\ b.nsec \in Nat
  BY DEF IsTime
<1>3. t.sec - a.sec - b.sec = 0 /\ t.nsec - a.nsec = b.nsec
  BY <1>1, <1>2
<1>4. IsTime(t)
  BY <1>1, <1>2 DEF IsTime
<1> QED
  BY <1>2, <1>3, <1>4, SecondIsNat

\* A turn of the loop carries one second.
LEMMA TurnCarries ==
  ASSUME NEW a, NEW b, NEW t, NEW u, IsTime(a), IsTime(b), IsTime(t), t.nsec >= NsecPerSec,
         t.nsec - a.nsec = b.nsec - (t.sec - a.sec - b.sec) * NsecPerSec,
         u = [sec |-> t.sec + 1, nsec |-> t.nsec - NsecPerSec]
  PROVE  IsTime(u) /\ u.nsec - a.nsec = b.nsec - (u.sec - a.sec - b.sec) * NsecPerSec
<1>1. u.sec = t.sec + 1 /\ u.nsec = t.nsec - NsecPerSec
  OBVIOUS
<1>2. /\ a.sec \in Nat /\ a.nsec \in Nat /\ b.sec \in Nat /\ b.nsec \in Nat
      /\ t.sec \in Nat /\ t.nsec \in Nat
  BY DEF IsTime
<1>3. IsTime(u)
  BY <1>1, <1>2, SecondIsNat DEF IsTime
<1> DEFINE d == t.sec - a.sec - b.sec
<1>4. u.sec - a.sec - b.sec = d + 1
  BY <1>1, <1>2
<1>5. t.nsec - a.nsec = b.nsec - d * NsecPerSec
  OBVIOUS
<1> HIDE DEF d
<1> DEFINE m == d * NsecPerSec
<1>4a. d \in Int
  BY <1>2 DEF d
<1>6. (d + 1) * NsecPerSec = m + NsecPerSec /\ m \in Int
  BY <1>4a, SecondIsNat, SMT DEF NsecPerSec
<1>7. t.nsec - a.nsec = b.nsec - m
  BY <1>5
<1> HIDE DEF m
<1>8. u.nsec - a.nsec = b.nsec - (m + NsecPerSec)
  BY <1>1, <1>2, <1>6, <1>7, SecondIsNat
<1>9. u.nsec - a.nsec = b.nsec - (d + 1) * NsecPerSec
  BY <1>6, <1>8
<1> QED
  BY <1>3, <1>4, <1>9

\* Every step of a delay keeps the invariant.
LEMMA TsNextInv == TsInv /\ [TsNext]_tsVars => TsInv'
<1> SUFFICES ASSUME TsAt, SleepFull, [TsNext]_tsVars PROVE TsAt' /\ SleepFull'
  BY DEF TsInv
<1>1. CASE TsBegin
  <2>1. tsCall' \in SleepCalls /\ tsStart' \in SleepStarts
    BY <1>1 DEF TsBegin
  <2>2. IsCall(tsCall') /\ IsTime(tsStart')
    BY <2>1, StartsAreTimes, CallsAreCalls
  <2>3. tsPc' = "add" /\ tsWoke' = NoWake
    BY <1>1 DEF TsBegin
  <2>4. TsAt'
    BY <2>2, <2>3 DEF TsAt
  <2>5. tsWoke'.why = "none"
    BY <2>3 DEF NoWake
  <2>6. SleepFull'
    BY <2>5 DEF SleepFull
  <2> QED
    BY <2>4, <2>6
<1>2. CASE TsAdd
  <2>1. /\ tsPc = "add" /\ UNCHANGED <<tsCall, tsStart>>
        /\ IsCall(tsCall) /\ IsTime(tsStart)
    BY <1>2 DEF TsAdd, TsAt
  <2>2. CASE TsReturn("no clock", tsStart) /\ UNCHANGED tsDue
    <3>1. tsPc' = "done" /\ tsWoke'.why = "no clock"
      BY <2>2 DEF TsReturn
    <3> QED
      BY <3>1 DEF TsAt, SleepFull
  <2>3. CASE /\ tsDue' = [sec |-> tsStart.sec + TsInc.sec, nsec |-> tsStart.nsec + TsInc.nsec]
             /\ tsPc' = "norm" /\ UNCHANGED tsWoke
    <3>1. TsInc' = TsInc
      BY <2>1 DEF TsInc
    <3>2. IsTime(tsDue') /\ CarryOk(tsDue)'
      BY <2>1, <2>3, <3>1, IncIsTime, SumCarries DEF CarryOk
    <3>3. SleepFull'
      BY <2>1, <2>3 DEF SleepFull
    <3> QED
      BY <2>1, <2>3, <3>2, <3>3 DEF TsAt
  <2> QED
    BY <1>2, <2>2, <2>3 DEF TsAdd
<1>3. CASE TsNorm
  <2>1. /\ tsPc = "norm" /\ UNCHANGED <<tsCall, tsStart, tsWoke>>
        /\ IsCall(tsCall) /\ IsTime(tsStart) /\ IsTime(tsDue) /\ CarryOk(tsDue)
    BY <1>3 DEF TsNorm, TsAt
  <2>2. TsInc' = TsInc
    BY <2>1 DEF TsInc
  <2>3. SleepFull'
    BY <2>1 DEF SleepFull
  <2>4. CASE tsDue.nsec >= NsecPerSec
    <3>1. tsDue' = [sec |-> tsDue.sec + 1, nsec |-> tsDue.nsec - NsecPerSec] /\ tsPc' = "norm"
      BY <1>3, <2>1, <2>4 DEF TsNorm
    <3>2. IsTime(tsDue') /\ CarryOk(tsDue)'
      BY <2>1, <2>2, <2>4, <3>1, IncIsTime, TurnCarries DEF CarryOk
    <3> QED
      BY <2>1, <2>3, <3>1, <3>2 DEF TsAt
  <2>5. CASE ~(tsDue.nsec >= NsecPerSec)
    <3>1. tsDue' = tsDue /\ tsPc' = "sleep"
      BY <1>3, <2>1, <2>5 DEF TsNorm
    <3>2. tsDue'.nsec < NsecPerSec
      BY <2>1, <2>5, <3>1, SecondIsNat DEF IsTime
    <3>3. IsTime(tsDue') /\ CarryOk(tsDue)'
      BY <2>1, <2>2, <3>1 DEF CarryOk
    <3> QED
      BY <2>1, <2>3, <3>1, <3>2, <3>3 DEF TsAt
  <2> QED
    BY <2>4, <2>5
<1>4. CASE TsSleep
  <2>1. /\ tsPc = "sleep" /\ UNCHANGED <<tsCall, tsStart, tsDue>>
        /\ IsTime(tsDue) /\ tsDue.nsec < NsecPerSec /\ CarryOk(tsDue)
    BY <1>4 DEF TsSleep, TsAt
  <2>2. tsDue.nsec \in 0 .. NsecPerSec - 1
    BY <2>1, SecondIsNat DEF IsTime
  <2>3. TsReturn("slept", tsDue) \/ TsReturn("signal", tsStart)
    BY <1>4, <2>2 DEF TsSleep
  <2>4. tsPc' = "done"
    BY <2>3 DEF TsReturn
  <2>5. TsAt'
    BY <2>1, <2>4 DEF TsAt
  <2>6. CASE TsReturn("slept", tsDue)
    <3>1. tsWoke'.why = "slept" /\ tsWoke'.sec = tsDue.sec /\ tsWoke'.nsec = tsDue.nsec
      BY <2>6 DEF TsReturn
    <3>2. /\ TsInc.sec = tsCall[2] \div Unit[tsCall[1]]
          /\ TsInc.nsec = (tsCall[2] % Unit[tsCall[1]]) * (NsecPerSec \div Unit[tsCall[1]])
      BY DEF TsInc
    <3>3. tsDue.nsec - tsStart.nsec = (tsCall[2] % Unit[tsCall[1]]) * (NsecPerSec \div Unit[tsCall[1]])
                - (tsDue.sec - tsStart.sec - tsCall[2] \div Unit[tsCall[1]]) * NsecPerSec
      BY <2>1, <3>2 DEF CarryOk
    <3> QED
      BY <2>1, <2>5, <3>1, <3>3 DEF SleepFull
  <2>7. CASE TsReturn("signal", tsStart)
    <3>1. tsWoke'.why = "signal"
      BY <2>7 DEF TsReturn
    <3> QED
      BY <2>5, <3>1 DEF SleepFull
  <2> QED
    BY <2>3, <2>6, <2>7
<1>5. CASE UNCHANGED tsVars
  BY <1>5 DEF tsVars, TsAt, SleepFull, CarryOk, TsInc
<1> QED
  BY <1>1, <1>2, <1>3, <1>4, <1>5 DEF TsNext

\* For every amount in every unit and every reading of the clock, a delay that
\* no signal cuts short lasts its amount exactly, and clock_nanosleep never
\* refuses the time that it is given.
THEOREM DelaysLast == TsSpec => []SleepFull
<1>1. TsInv => SleepFull
  BY DEF TsInv
<1> QED
  BY <1>1, TsInitInv, TsNextInv, PTL DEF TsSpec

\* What TsTypeOK asks more of a delay: its call and its clock were given to it,
\* and what is left to carry is at most what two times below a second have.
TsRest ==
  /\ tsPc \in {"add", "norm", "sleep", "done"}
  /\ tsPc # "done" \/ tsWoke # NoWake => tsCall \in SleepCalls /\ tsStart \in SleepStarts
  /\ tsDue.sec \in Nat /\ tsDue.nsec \in 0 .. 2 * NsecPerSec
  /\ tsWoke.why \in {"none", "slept", "signal", "refused", "no clock"}

\* The nanoseconds of an amount are less than a second.
LEMMA IncBelowSecond == ASSUME IsCall(tsCall) PROVE TsInc.nsec < NsecPerSec
<1> DEFINE n == tsCall[2]
<1>1. tsCall[1] \in {"s", "ms", "us", "ns"} /\ n \in Nat
  BY DEF IsCall
<1>2. TsInc.nsec = (n % Unit[tsCall[1]]) * (NsecPerSec \div Unit[tsCall[1]])
  BY DEF TsInc
<1>3. CASE tsCall[1] = "s"
  BY <1>1, <1>2, <1>3, SMT DEF Unit, NsecPerSec
<1>4. CASE tsCall[1] = "ms"
  BY <1>1, <1>2, <1>4, SMT DEF Unit, NsecPerSec
<1>5. CASE tsCall[1] = "us"
  BY <1>1, <1>2, <1>5, SMT DEF Unit, NsecPerSec
<1>6. CASE tsCall[1] = "ns"
  BY <1>1, <1>2, <1>6, SMT DEF Unit, NsecPerSec
<1> QED
  BY <1>1, <1>3, <1>4, <1>5, <1>6

\* A reading of the clock is a time below a second.
LEMMA StartsBelowSecond == ASSUME NEW t \in SleepStarts PROVE t.nsec < NsecPerSec
<1>1. t \in [sec : Nat, nsec : 0 .. NsecPerSec - 1]
  BY SleepAssumption
<1>2. t.nsec \in 0 .. NsecPerSec - 1
  BY <1>1
<1> QED
  BY <1>2, SecondIsNat

\* Every step of a delay keeps these types.
LEMMA TsRestKept == TsInv /\ TsRest /\ [TsNext]_tsVars => TsRest'
<1> SUFFICES ASSUME TsInv, TsRest, [TsNext]_tsVars PROVE TsRest'
  OBVIOUS
<1>1. CASE TsBegin
  <2>1. tsCall' \in SleepCalls /\ tsStart' \in SleepStarts /\ tsDue' = tsStart'
    BY <1>1 DEF TsBegin
  <2>2. IsTime(tsStart') /\ tsStart'.nsec < NsecPerSec
    BY <2>1, StartsAreTimes, StartsBelowSecond
  <2>3. tsDue'.sec \in Nat /\ tsDue'.nsec \in 0 .. 2 * NsecPerSec
    BY <2>1, <2>2, SecondIsNat DEF IsTime
  <2>4. tsPc' = "add" /\ tsWoke'.why = "none"
    BY <1>1 DEF TsBegin, NoWake
  <2> QED
    BY <2>1, <2>3, <2>4 DEF TsRest
<1>2. CASE TsAdd
  <2>1. /\ tsPc = "add" /\ UNCHANGED <<tsCall, tsStart>>
        /\ tsCall \in SleepCalls /\ tsStart \in SleepStarts
    BY <1>2 DEF TsAdd, TsRest
  <2>2. CASE TsReturn("no clock", tsStart) /\ UNCHANGED tsDue
    <3>1. tsPc' = "done" /\ tsWoke'.why = "no clock"
      BY <2>2 DEF TsReturn
    <3> QED
      BY <2>1, <2>2, <3>1 DEF TsRest
  <2>3. CASE /\ tsDue' = [sec |-> tsStart.sec + TsInc.sec, nsec |-> tsStart.nsec + TsInc.nsec]
             /\ tsPc' = "norm" /\ UNCHANGED tsWoke
    <3>1. IsTime(tsStart) /\ tsStart.nsec < NsecPerSec /\ IsTime(TsInc) /\ TsInc.nsec < NsecPerSec
      BY <2>1, StartsAreTimes, StartsBelowSecond, CallsAreCalls, IncIsTime, IncBelowSecond
    <3>2. tsDue'.sec = tsStart.sec + TsInc.sec /\ tsDue'.nsec = tsStart.nsec + TsInc.nsec
      BY <2>3
    <3>3. tsDue'.sec \in Nat
      BY <3>1, <3>2 DEF IsTime
    <3>4. tsDue'.nsec \in 0 .. 2 * NsecPerSec
      BY <3>1, <3>2, SecondIsNat DEF IsTime
    <3> QED
      BY <2>1, <2>3, <3>3, <3>4 DEF TsRest
  <2> QED
    BY <1>2, <2>2, <2>3 DEF TsAdd
<1>3. CASE TsNorm
  <2>1. tsPc = "norm" /\ UNCHANGED <<tsCall, tsStart, tsWoke>> /\ tsPc' \in {"norm", "sleep"}
    BY <1>3 DEF TsNorm
  <2>2. \/ tsDue' = tsDue
        \/ /\ tsDue.nsec >= NsecPerSec
           /\ tsDue'.sec = tsDue.sec + 1 /\ tsDue'.nsec = tsDue.nsec - NsecPerSec
    BY <1>3 DEF TsNorm
  <2>3. tsDue.sec \in Nat /\ tsDue.nsec \in 0 .. 2 * NsecPerSec
    BY DEF TsRest
  <2>4. tsDue'.sec \in Nat
    BY <2>2, <2>3
  <2>5. tsDue'.nsec \in 0 .. 2 * NsecPerSec
    BY <2>2, <2>3, SecondIsNat
  <2> QED
    BY <2>1, <2>4, <2>5 DEF TsRest
<1>4. CASE TsSleep
  <2>1. tsPc = "sleep" /\ UNCHANGED <<tsCall, tsStart, tsDue>>
    BY <1>4 DEF TsSleep
  <2>2. tsPc' = "done" /\ tsWoke'.why \in {"slept", "signal", "refused"}
    BY <1>4 DEF TsSleep, TsReturn
  <2> QED
    BY <2>1, <2>2 DEF TsRest
<1>5. CASE UNCHANGED tsVars
  BY <1>5 DEF tsVars, TsRest, NoWake
<1> QED
  BY <1>1, <1>2, <1>3, <1>4, <1>5 DEF TsNext

\* The variables of a delay keep their types, for calls of any amount.
LEMMA TsTypes == TsSpec => []TsTypeOK
<1>1. TsInit => TsRest
  <2> SUFFICES ASSUME TsInit PROVE TsRest
    OBVIOUS
  <2>1. tsPc = "done" /\ tsWoke = NoWake /\ tsDue.sec = 0 /\ tsDue.nsec = 0
    BY DEF TsInit
  <2>2. 0 \in 0 .. 2 * NsecPerSec
    BY SecondIsNat
  <2> QED
    BY <2>1, <2>2 DEF TsRest, NoWake
<1>2. TsRest => TsTypeOK
  BY DEF TsRest, TsTypeOK
<1> QED
  BY <1>1, <1>2, TsInitInv, TsNextInv, TsRestKept, PTL DEF TsSpec

----------------------------------------------------------------------------
(* RegsInfo: raw reads and writes touch the card's registers only. *)

\* What a read or write of len bytes at from may touch, and where its copy
\* begins and ends.
Wanted(from, len) == {a \in WinBase .. WinBase + WinSize - 1 : a \in from .. from + len - 1}
FirstOf(from) == IF from > WinBase THEN from ELSE WinBase
LastOf(from, len) == IF len - 1 + from < WinBase + WinSize - 1
                     THEN len - 1 + from ELSE WinBase + WinSize - 1

\* What RegsBounds asks of a copy.
CopyOk(from, len, copy) ==
  /\ Wanted(from, len) \subseteq {c[2] : c \in copy}
  /\ \A c \in copy : c[1] = c[2] - from
  /\ \A a \in {c[2] : c \in copy} \ Wanted(from, len) :
       a - 1 \in Wanted(from, len) /\ Cardinality(Wanted(from, len)) % 2 = 1

RiInv == riPos \in Nat /\ RegsBounds

\* The registers asked for are an interval.
LEMMA WantedIs ==
  ASSUME NEW p \in Nat, NEW n \in Nat
  PROVE  /\ FirstOf(p) \in Nat /\ LastOf(p, n) \in Int
         /\ Wanted(p, n) = FirstOf(p) .. LastOf(p, n)
BY RawAssumption DEF Wanted, FirstOf, LastOf

\* A copy of nothing is in order when nothing is asked for.
LEMMA NothingCopied == ASSUME NEW p \in Nat PROVE CopyOk(p, 0, {})
<1>1. Wanted(p, 0) = {}
  BY RawAssumption DEF Wanted
<1> QED
  BY <1>1 DEF CopyOk

\* The copy of pdm_raw_reg_read and pdm_raw_reg_write is in order.
LEMMA TransferOk == ASSUME riPos \in Nat, NEW n \in Nat PROVE CopyOk(riPos, n, Transfer(n))
<1> DEFINE first == FirstOf(riPos)
           last == LastOf(riPos, n)
           over == (last - first + 1) % 2
           end == last + over
<1>1. first \in Nat /\ last \in Int /\ Wanted(riPos, n) = first .. last
  BY WantedIs
<1>2. Transfer(n) = IF last >= first THEN {<<a - riPos, a>> : a \in first .. end} ELSE {}
  BY DEF Transfer, FirstOf, LastOf
<1>3. CASE last >= first
  <2>1. over \in {0, 1}
    BY <1>1
  <2>2. Cardinality(first .. last) = last - first + 1
    BY <1>1, <1>3, FS_Interval
  <2> HIDE DEF over, first, last
  <2>3. end \in Int /\ (end = last \/ (end = last + 1 /\ over = 1))
    BY <1>1, <2>1
  <2>4. Cardinality(Wanted(riPos, n)) % 2 = over
    BY <1>1, <2>2 DEF over
  <2> HIDE DEF end
  <2>5. {c[2] : c \in Transfer(n)} = first .. end
    <3>1. ASSUME NEW a \in first .. end PROVE a \in {c[2] : c \in Transfer(n)}
      <4>1. <<a - riPos, a>> \in Transfer(n)
        BY <1>2, <1>3
      <4>2. <<a - riPos, a>>[2] = a
        OBVIOUS
      <4> QED
        BY <4>1, <4>2
    <3>2. ASSUME NEW c \in Transfer(n) PROVE c[2] \in first .. end
      <4>1. PICK a \in first .. end : c = <<a - riPos, a>>
        BY <1>2, <1>3
      <4> QED
        BY <4>1
    <3> QED
      BY <3>1, <3>2
  <2>6. ASSUME NEW c \in Transfer(n) PROVE c[1] = c[2] - riPos
    <3>1. PICK a \in first .. end : c = <<a - riPos, a>>
      BY <1>2, <1>3
    <3> QED
      BY <3>1
  <2>7. first .. last \subseteq first .. end
    BY <1>1, <2>3
  <2>8. ASSUME NEW a \in (first .. end) \ (first .. last)
        PROVE  a - 1 \in first .. last /\ over = 1
    BY <1>1, <1>3, <2>3
  <2> QED
    BY <1>1, <2>4, <2>5, <2>6, <2>7, <2>8 DEF CopyOk
<1>4. CASE ~(last >= first)
  <2> HIDE DEF over, first, last
  <2>1. Wanted(riPos, n) = {} /\ Transfer(n) = {}
    BY <1>1, <1>2, <1>4
  <2> QED
    BY <2>1 DEF CopyOk
<1> QED
  BY <1>3, <1>4

\* RegsBounds is about the last call and its copy.
LEMMA BoundsAreCopy ==
  RegsBounds <=> (riOp = "seek" => riPos \in 0 .. RawSize - 1) /\ CopyOk(riFrom, riLen, riCopy)
BY DEF RegsBounds, CopyOk, Wanted

\* A file that has been opened has copied nothing.
LEMMA RiInitInv == RiInit => RiInv
<1> SUFFICES ASSUME RiInit PROVE RiInv
  OBVIOUS
<1>1. riPos \in Nat /\ riOp # "seek" /\ riFrom = 0 /\ riLen = 0 /\ riCopy = {}
  BY DEF RiInit
<1>2. CopyOk(riFrom, riLen, riCopy)
  BY <1>1, NothingCopied
<1> QED
  BY <1>1, <1>2, BoundsAreCopy DEF RiInv

\* Every call keeps the position natural and its copy in order.
LEMMA RiNextInv == RiInv /\ [RiNext]_riVars => RiInv'
<1> SUFFICES ASSUME RiInv, [RiNext]_riVars PROVE riPos' \in Nat /\ RegsBounds'
  BY DEF RiInv
<1>1. riPos \in Nat
  BY DEF RiInv
<1>2. CASE RiSeek
  <2>1. PICK off \in -RawSize .. RawSize, whence \in {"set", "cur", "end", "data"} :
          /\ riPos' = IF SeekOk(off, whence) THEN SeekTo(off, whence) ELSE riPos
          /\ riOp' = IF SeekOk(off, whence) THEN "seek" ELSE "refused"
    BY <1>2 DEF RiSeek
  <2>2. riFrom' = riPos /\ riLen' = 0 /\ riCopy' = {}
    BY <1>2 DEF RiSeek
  <2>3. CopyOk(riFrom', riLen', riCopy')
    BY <1>1, <2>2, NothingCopied
  <2>4. riPos' \in Nat /\ (riOp' = "seek" => riPos' \in 0 .. RawSize - 1)
    <3>1. CASE SeekOk(off, whence)
      <4>1. SeekTo(off, whence) \in 0 .. RawSize - 1
        BY <3>1 DEF SeekOk
      <4> QED
        BY <2>1, <3>1, <4>1, RawAssumption
    <3>2. CASE ~SeekOk(off, whence)
      BY <1>1, <2>1, <3>2
    <3> QED
      BY <3>1, <3>2
  <2> QED
    BY <2>3, <2>4 DEF RegsBounds, CopyOk, Wanted
<1>3. CASE RiRead \/ RiWrite
  <2>1. PICK n \in 0 .. MaxRawLen :
          /\ riPos' \in {riPos, riPos + n}
          /\ riOp' \in {"read", "write"} /\ riFrom' = riPos /\ riLen' = n /\ riCopy' = Transfer(n)
    BY <1>3 DEF RiRead, RiWrite
  <2>2. n \in Nat
    BY RawAssumption
  <2>3. CopyOk(riFrom', riLen', riCopy')
    BY <1>1, <2>1, <2>2, TransferOk
  <2>4. riPos' \in Nat /\ riOp' # "seek"
    BY <1>1, <2>1, <2>2
  <2> QED
    BY <2>3, <2>4 DEF RegsBounds, CopyOk, Wanted
<1>4. CASE UNCHANGED riVars
  BY <1>1, <1>4 DEF riVars, RiInv, RegsBounds
<1> QED
  BY <1>2, <1>3, <1>4 DEF RiNext

\* For any window, wherever it lies, every accepted seek stays in the file, and
\* every read and write copies the registers it covers, each to its place, and
\* at most the byte after an odd number of them.
THEOREM RawWithinWindow == RiSpec => []RegsBounds
<1>1. RiInv => RegsBounds
  BY DEF RiInv
<1> QED
  BY <1>1, RiInitInv, RiNextInv, PTL DEF RiSpec
\* A copy is of the buffer and of the part of the file that it may reach.
LEMMA TransferTypes ==
  ASSUME riPos \in Nat, NEW n \in Nat
  PROVE  Transfer(n) \subseteq (0 .. n + 1) \X (0 .. riPos + n + 1)
<1> DEFINE first == FirstOf(riPos)
           last == LastOf(riPos, n)
           over == (last - first + 1) % 2
<1>1. first \in Nat /\ first >= riPos /\ last \in Int /\ last <= n - 1 + riPos
  BY RawAssumption DEF FirstOf, LastOf
<1>2. Transfer(n) = IF last >= first THEN {<<a - riPos, a>> : a \in first .. last + over} ELSE {}
  BY DEF Transfer, FirstOf, LastOf
<1>3. over \in {0, 1}
  BY <1>1
<1> HIDE DEF over, first, last
<1>4. ASSUME NEW a \in first .. last + over PROVE a - riPos \in 0 .. n + 1 /\ a \in 0 .. riPos + n + 1
  BY <1>1, <1>3
<1> QED
  BY <1>2, <1>4

\* Every call keeps the types.
LEMMA RiTypesKept == RiTypeOK /\ [RiNext]_riVars => RiTypeOK'
<1> SUFFICES ASSUME RiTypeOK, [RiNext]_riVars PROVE RiTypeOK'
  OBVIOUS
<1>1. riPos \in 0 .. MaxRawPos /\ riPos \in Nat
  BY RawAssumption DEF RiTypeOK
<1>2. CASE RiSeek
  <2>1. riPos' \in 0 .. MaxRawPos
    <3>1. PICK off \in -RawSize .. RawSize, whence \in {"set", "cur", "end", "data"} :
            riPos' = IF SeekOk(off, whence) THEN SeekTo(off, whence) ELSE riPos
      BY <1>2 DEF RiSeek
    <3>2. SeekOk(off, whence) => SeekTo(off, whence) \in 0 .. RawSize - 1
      BY DEF SeekOk
    <3>3. CASE SeekOk(off, whence)
      BY <3>1, <3>2, <3>3, RawAssumption
    <3>4. CASE ~SeekOk(off, whence)
      BY <1>1, <3>1, <3>4
    <3> QED
      BY <3>3, <3>4
  <2>2. riOp' \in {"seek", "refused"} /\ riFrom' = riPos /\ riLen' = 0 /\ riCopy' = {}
    BY <1>2 DEF RiSeek
  <2> QED
    BY <1>1, <2>1, <2>2, RawAssumption DEF RiTypeOK
<1>3. CASE RiRead \/ RiWrite
  <2>1. PICK n \in 0 .. MaxRawLen :
          /\ riPos' = riPos \/ (riPos + n <= MaxRawPos /\ riPos' = riPos + n)
          /\ riOp' \in {"read", "write"} /\ riFrom' = riPos /\ riLen' = n /\ riCopy' = Transfer(n)
    BY <1>3 DEF RiRead, RiWrite
  <2>2. n \in Nat /\ n <= MaxRawLen
    BY RawAssumption
  <2>3. riPos' \in 0 .. MaxRawPos
    BY <1>1, <2>1, <2>2, RawAssumption
  <2>4. Transfer(n) \subseteq (0 .. n + 1) \X (0 .. riPos + n + 1)
    BY <1>1, <2>2, TransferTypes
  <2>5. (0 .. n + 1) \subseteq (0 .. MaxRawLen + 1)
    BY <2>2, RawAssumption
  <2>6. (0 .. riPos + n + 1) \subseteq (0 .. MaxRawPos + MaxRawLen + 1)
    BY <1>1, <2>2, RawAssumption
  <2>7. riCopy' \subseteq (0 .. MaxRawLen + 1) \X (0 .. MaxRawPos + MaxRawLen + 1)
    BY <2>1, <2>4, <2>5, <2>6
  <2> QED
    BY <1>1, <2>1, <2>3, <2>7 DEF RiTypeOK
<1>4. CASE UNCHANGED riVars
  BY <1>4 DEF riVars, RiTypeOK
<1> QED
  BY <1>2, <1>3, <1>4 DEF RiNext

\* The position and what is copied keep their types, and a copy its place in
\* the caller's buffer: one byte at most behind it.
LEMMA RiTypes == RiSpec => []RiTypeOK
<1>1. RiInit => RiTypeOK
  BY RawAssumption DEF RiInit, RiTypeOK
<1> QED
  BY <1>1, RiTypesKept, PTL DEF RiSpec

----------------------------------------------------------------------------
(* SysFunc: no process sleeps through a notification. *)

SfInv == SfTypeOK /\ NoneSleepsOnBits

\* Nothing has been notified at first.
LEMMA SfInitInv == SfInit => SfInv
BY DEF SfInit, SfInv, SfTypeOK, NoneSleepsOnBits

\* Whatever is notified and read, in whatever order, keeps the invariant.
LEMMA SfNextInv == SfInv /\ [SfNext]_sfVars => SfInv'
<1> SUFFICES ASSUME SfInv, [SfNext]_sfVars PROVE SfInv'
  OBVIOUS
<1> USE DEF SfInv, SfTypeOK, NoneSleepsOnBits
<1>1. ASSUME NEW bs \in SUBSET OffBit, SfNotify(bs) PROVE SfInv'
  \* who slept polls again
  BY <1>1 DEF SfNotify
<1>2. ASSUME NEW p \in OffProc, SfPoll(p) PROVE SfInv'
  BY <1>2 DEF SfPoll
<1>3. ASSUME NEW p \in OffProc, SfRead(p) PROVE SfInv'
  BY <1>3 DEF SfRead
<1>4. CASE SfSetReg
  <2>1. PICK r \in {"blank", "iic"}, v \in 0 .. 1 : sfReg' = [sfReg EXCEPT ![r] = v]
    BY <1>4 DEF SfSetReg
  <2>2. sfReg' \in [blank : 0 .. 1, iic : 0 .. 1]
    BY <2>1
  <2> QED
    BY <1>4, <2>2 DEF SfSetReg
<1>5. CASE UNCHANGED sfVars
  BY <1>5 DEF sfVars
<1> QED
  BY <1>1, <1>2, <1>3, <1>4, <1>5 DEF SfNext, SfLoop

\* For any number of processes and bits, and whichever of them takes the bits,
\* no process sleeps in poll while there is one to read.
THEOREM NotificationsWake == SfSpec => []NoneSleepsOnBits
<1>1. SfInv => NoneSleepsOnBits
  BY DEF SfInv
<1> QED
  BY <1>1, SfInitInv, SfNextInv, PTL DEF SfSpec

----------------------------------------------------------------------------
(* UserIrq: an interrupt is never left with nobody to go on with it. *)

\* Who goes on.  More than IrqNotForgotten in three places: a work item unmasks
\* only what its isr finds, so the card must still assert; the bit may be left
\* from the file before, so a process that opened sleeps as little as one that
\* polls; and data is what the file that is open has got.
IrqAgent ==
  /\ uiPc \in {"handle", "data", "enable"} => uiBuild = "user"
  /\ Enabled /\ ~uiBad /\ uiMasked =>
       \/ uiUnmask
       \/ uiSrc /\ (uiPend # {} \/ (uiBuild = "user" /\ (uiCanRead \/ uiPc = "handle")))
       \/ uiPc \in {"data", "enable"}
  /\ uiPc = "sleep" => ~uiCanRead
  /\ uiPc = "open" => ~uiData
  /\ uiData /\ Enabled => IF uiBuild = "user" THEN uiPc = "data" ELSE uiCanRead

UiInv == UiTypeOK /\ IrqAgent

\* The device is closed at first.
LEMMA UiInitInv == UiInit => UiInv
BY DEF UiInit, UiInv, UiTypeOK, IrqAgent, Enabled

\* The types are kept.
LEMMA UiTypes == UiTypeOK /\ [UiNext]_uiVars => UiTypeOK'
<1> SUFFICES ASSUME UiTypeOK, [UiNext]_uiVars PROVE UiTypeOK'
  OBVIOUS
<1> USE DEF UiTypeOK
<1>1. CASE UiAssert \/ UiVanish \/ UiOpen \/ UiEnable \/ UiClose
  BY <1>1 DEF UiAssert, UiVanish, UiOpen, UiEnable, UiClose
<1>2. CASE UiIrq
  BY <1>2 DEF UiIrq
<1>3. ASSUME NEW w \in {0, 1}, UiWork(w) PROVE UiTypeOK'
  BY <1>3 DEF UiWork
<1>4. CASE UiWorkUnmask \/ UiPoll \/ UiRead \/ UiHandle \/ UiTake
  BY <1>4 DEF UiWorkUnmask, UiPoll, UiRead, UiHandle, UiTake
<1>5. CASE UNCHANGED uiVars
  BY <1>5 DEF uiVars
<1> QED
  BY <1>1, <1>2, <1>3, <1>4, <1>5 DEF UiNext

\* So is who goes on, in either build.
LEMMA UiAgent == UiInv /\ [UiNext]_uiVars => IrqAgent'
<1> SUFFICES ASSUME UiTypeOK, IrqAgent, [UiNext]_uiVars PROVE IrqAgent'
  BY DEF UiInv
<1> USE DEF UiTypeOK, IrqAgent, Enabled
<1>1. CASE UiAssert
  BY <1>1 DEF UiAssert
<1>2. CASE UiVanish
  BY <1>2 DEF UiVanish
<1>3. CASE UiIrq
  BY <1>3 DEF UiIrq
<1>4. ASSUME NEW w \in {0, 1}, UiWork(w) PROVE IrqAgent'
  BY <1>4 DEF UiWork
<1>5. CASE UiWorkUnmask
  BY <1>5 DEF UiWorkUnmask
<1>6. CASE UiOpen
  BY <1>6 DEF UiOpen
<1>7. CASE UiEnable
  BY <1>7 DEF UiEnable
<1>8. CASE UiPoll
  BY <1>8 DEF UiPoll
<1>9. CASE UiRead
  BY <1>9 DEF UiRead
<1>10. CASE UiHandle
  BY <1>10 DEF UiHandle
<1>11. CASE UiTake
  BY <1>11 DEF UiTake
<1>12. CASE UiClose
  BY <1>12 DEF UiClose
<1>13. CASE UNCHANGED uiVars
  BY <1>13 DEF uiVars
<1> QED
  BY <1>1, <1>2, <1>3, <1>4, <1>5, <1>6, <1>7, <1>8, <1>9, <1>10, <1>11, <1>12, <1>13 DEF UiNext

\* The invariant is inductive.
LEMMA UiNextInv == UiInv /\ [UiNext]_uiVars => UiInv'
BY UiTypes, UiAgent DEF UiInv

\* In either build and at every moment between interrupt, work item, handler and
\* process, an interrupt that is masked has somebody on his way to unmask it,
\* and what it reported a process that will read it.
THEOREM IrqsAreLookedAfter == UiSpec => []IrqNotForgotten
<1>1. UiInv => IrqNotForgotten
  BY DEF UiInv, UiTypeOK, IrqAgent, IrqNotForgotten, Enabled
<1> QED
  BY <1>1, UiInitInv, UiNextInv, PTL DEF UiSpec

----------------------------------------------------------------------------
(* MCParts: a behaviour of the parts is one of each part, so each theorem    *)
(* about a part holds of the specification that is model-checked.            *)

\* A step of the parts is one of the part whose turn it is, and none of the
\* others.
LEMMA StepOfOne ==
  [PartsNext]_partVars =>
    /\ [CoreNext]_coreVars /\ [UdfNext]_udfVars /\ [ThNext]_thVars /\ [CpNext]_cpVars
    /\ [FlNext]_flVars /\ [TsNext]_tsVars /\ [RiNext]_riVars /\ [SfNext]_sfVars
    /\ [SpNext]_spVars /\ [UiNext]_uiVars /\ [MdNext]_mdVars
<1> SUFFICES ASSUME [PartsNext]_partVars
             PROVE  /\ [CoreNext]_coreVars /\ [UdfNext]_udfVars /\ [ThNext]_thVars /\ [CpNext]_cpVars
                    /\ [FlNext]_flVars /\ [TsNext]_tsVars /\ [RiNext]_riVars /\ [SfNext]_sfVars
                    /\ [SpNext]_spVars /\ [UiNext]_uiVars /\ [MdNext]_mdVars
  OBVIOUS
<1>1. CASE UNCHANGED partVars
  BY <1>1 DEF partVars
<1>2. CASE CoreNext /\ Runs("core")
  BY <1>2 DEF Runs
<1>3. CASE UdfNext /\ Runs("udf")
  BY <1>3 DEF Runs
<1>4. CASE ThNext /\ Runs("th")
  BY <1>4 DEF Runs
<1>5. CASE CpNext /\ Runs("list")
  BY <1>5 DEF Runs
<1>6. CASE FlNext /\ Runs("fpga")
  BY <1>6 DEF Runs
<1>7. CASE TsNext /\ Runs("delay")
  BY <1>7 DEF Runs
<1>8. CASE RiNext /\ Runs("regs")
  BY <1>8 DEF Runs
<1>9. CASE SfNext /\ Runs("sys")
  BY <1>9 DEF Runs
<1>10. CASE SpNext /\ Runs("sifp")
  BY <1>10 DEF Runs
<1>11. CASE UiNext /\ Runs("irq")
  BY <1>11 DEF Runs
<1>12. CASE MdNext /\ Runs("main")
  BY <1>12 DEF Runs
<1> QED
  BY <1>1, <1>2, <1>3, <1>4, <1>5, <1>6, <1>7, <1>8, <1>9, <1>10, <1>11, <1>12 DEF PartsNext

\* The specification of the parts implements that of each part.
LEMMA EachPart ==
  PartsSpec => /\ CoreSpec /\ UdfSpec /\ ThSpec /\ CpSpec /\ FlSpec /\ TsSpec /\ RiSpec
               /\ SfSpec /\ SpSpec /\ UiSpec /\ MdSpec
<1>1. PartsInit => /\ CoreInit /\ UdfInit /\ ThInit /\ CpInit /\ FlInit /\ TsInit /\ RiInit
                   /\ SfInit /\ SpInit /\ UiInit /\ MdInit
  BY DEF PartsInit
<1> QED
  BY <1>1, StepOfOne, PTL
  DEF PartsSpec, CoreSpec, UdfSpec, ThSpec, CpSpec, FlSpec, TsSpec, RiSpec, SfSpec, SpSpec, UiSpec, MdSpec

\* The variables of every part keep their types.
THEOREM PartsTypes == PartsSpec => []PartsTypeOK
<1>1. UInv => UdfTypeOK
  BY DEF UInv
<1>2. FlInv => FlTypeOK
  BY DEF FlInv
<1>3. SfInv => SfTypeOK
  BY DEF SfInv
<1>4. SpInv => SpTypeOK
  BY DEF SpInv
<1>5. UiInv => UiTypeOK
  BY DEF UiInv
<1>6. MdInv => MdTypeOK
  BY DEF MdInv
<1>7. UdfSpec => []UdfTypeOK
  BY <1>1, UdfInitInv, UdfNextInv, PTL DEF UdfSpec
<1>8. FlSpec => []FlTypeOK
  BY <1>2, FlInitInv, FlNextInv, PTL DEF FlSpec
<1>9. SfSpec => []SfTypeOK
  BY <1>3, SfInitInv, SfNextInv, PTL DEF SfSpec
<1>10. SpSpec => []SpTypeOK
  BY <1>4, SpInitInv, SpNextInv, PTL DEF SpSpec
<1>11. UiSpec => []UiTypeOK
  BY <1>5, UiInitInv, UiNextInv, PTL DEF UiSpec
<1>12. MdSpec => []MdTypeOK
  BY <1>6, MdInitInv, MdNextInv, PTL DEF MdSpec
<1>13. /\ CoreTypeOK /\ UdfTypeOK /\ ThTypeOK /\ CpTypeOK /\ FlTypeOK /\ TsTypeOK /\ RiTypeOK
       /\ SfTypeOK /\ SpTypeOK /\ UiTypeOK /\ MdTypeOK
       => PartsTypeOK
  BY DEF PartsTypeOK
<1> QED
  BY <1>7, <1>8, <1>9, <1>10, <1>11, <1>12, <1>13, EachPart,
     CoreTypes, ThTypes, CpTypes, TsTypes, RiTypes, PTL

\* While the parts take their turns in any order, each keeps all that it keeps
\* alone: the invariants of the run hold, and the promises are kept.
THEOREM PartsKeepAll ==
  PartsSpec =>
    /\ [](LiveIsReady /\ UndoneOnce /\ LoopSeesAll /\ LoadResult /\ SleepFull /\ RegsBounds
          /\ CallbackLive /\ MainSlots /\ NoneSleepsOnBits /\ IrqNotForgotten)
    /\ CoreAllOrNothing /\ UdfAllOrNothing /\ ThAllOrNothing /\ CpRefinesLists
BY EachPart, DevicesReady, OnceUndone, LoopsSeeAll, LoadTold, DelaysLast, RawWithinWindow,
   CallbacksLive, SlotsKept, NotificationsWake, IrqsAreLookedAfter,
   CoreAllThereOrNot, NothingHalfMade, OpenOrNot, PointersAreLists, PTL
=============================================================================
