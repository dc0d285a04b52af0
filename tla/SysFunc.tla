------------------------------ MODULE SysFunc ------------------------------
(***************************************************************************)
(* The system function device (pdm/driver/src/sys_func_set.c): bits that   *)
(* tell the process of a card that it is going off line, notified by a     *)
(* write and waited for with poll, and two registers set by ioctl or write. *)
(* m_mutex covers each of poll, read, ioctl and the notification; write    *)
(* does not take it around the notification, which takes it itself.        *)
(***************************************************************************)
EXTENDS Integers

CONSTANTS OffBit,   \* bits of hrm_offline_int
          OffProc   \* processes that wait for them

VARIABLES sfBits,   \* hrm_offline_int
          sfPc,     \* what a process does: poll, sleep in poll, or read
          sfGot,    \* what its last read returned
          sfReg     \* the registers blank_reg and iic

sfVars == <<sfBits, sfPc, sfGot, sfReg>>

SfInit ==
  /\ sfBits = {} /\ sfPc = [p \in OffProc |-> "poll"] /\ sfGot = [p \in OffProc |-> {}]
  /\ sfReg = [blank |-> 0, iic |-> 0]

\* mutant: nobody is woken
SfNotifyNoWake(bs) ==
  /\ sfBits' = sfBits \cup bs
  /\ UNCHANGED <<sfPc, sfGot, sfReg>>

\* sys_func_offline_int_notify: the write "i<bits>", or another driver
SfNotify(bs) ==
  /\ sfBits' = sfBits \cup bs
  /\ sfPc' = IF sfBits' = {} THEN sfPc
             ELSE [p \in OffProc |-> IF sfPc[p] = "sleep" THEN "poll" ELSE sfPc[p]]
  /\ UNCHANGED <<sfGot, sfReg>>

\* sys_func_drv_poll, with the process on the queue before it looks
SfPoll(p) ==
  /\ sfPc[p] = "poll"
  /\ sfPc' = [sfPc EXCEPT ![p] = IF sfBits # {} THEN "read" ELSE "sleep"]
  /\ UNCHANGED <<sfBits, sfGot, sfReg>>

\* sys_func_drv_read: whoever comes first gets the bits.  (A buffer too small
\* for them is refused and nothing changes.)
SfRead(p) ==
  /\ sfPc[p] = "read"
  /\ sfGot' = [sfGot EXCEPT ![p] = sfBits]
  /\ sfBits' = {}
  /\ sfPc' = [sfPc EXCEPT ![p] = "poll"]
  /\ UNCHANGED sfReg

\* sys_func_ioctl_blank_set (also the write "b"), sys_func_ioctl_iic_sel
SfSetReg ==
  /\ \E r \in {"blank", "iic"}, v \in 0 .. 1 : sfReg' = [sfReg EXCEPT ![r] = v]
  /\ UNCHANGED <<sfBits, sfPc, sfGot>>

SfLoop(p) == SfPoll(p) \/ SfRead(p)

SfNext == (\E bs \in SUBSET OffBit : SfNotify(bs)) \/ (\E p \in OffProc : SfLoop(p)) \/ SfSetReg

SfSpec == SfInit /\ [][SfNext]_sfVars

SfTypeOK ==
  /\ sfBits \subseteq OffBit /\ sfPc \in [OffProc -> {"poll", "sleep", "read"}]
  /\ sfGot \in [OffProc -> SUBSET OffBit] /\ sfReg \in [blank : 0 .. 1, iic : 0 .. 1]

----------------------------------------------------------------------------
\* No notification is slept through: nobody sleeps in poll while there are bits,
\* whatever the others read between the look of a process and its sleep.  What
\* makes OfflineNotified possible.
NoneSleepsOnBits == sfBits # {} => \A p \in OffProc : sfPc[p] # "sleep"

\* A bit that is notified is read by one of the processes that wait for it,
\* whichever of them takes the bits that woke the others.
OfflineNotified ==
  \A b \in OffBit : b \in sfBits ~> \E p \in OffProc : b \in sfGot[p] /\ b \notin sfBits
===========================================================================
