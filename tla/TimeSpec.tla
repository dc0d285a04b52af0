----------------------------- MODULE TimeSpec -----------------------------
(***************************************************************************)
(* The delays of the driver frame in a process (ukc_usr/ukc_delay.c): the  *)
(* amount is split into seconds and nanoseconds, added to the clock,       *)
(* normalised in a loop, and slept until.  clock_nanosleep reports errors  *)
(* as positive numbers, so "while (ret < 0)" never repeats it.             *)
(***************************************************************************)
EXTENDS Integers

CONSTANTS SleepCalls,  \* bound: <<unit, amount>>, with unit in Unit
          SleepStarts  \* bound: readings of the clock

NsecPerSec == 1000000000

\* how many of a unit make a second
Unit == [s |-> 1, ms |-> 1000, us |-> 1000000, ns |-> NsecPerSec]

\* the amount is an unsigned int, and a clock's reading is normalised
ASSUME SleepAssumption ==
  /\ SleepCalls \subseteq (DOMAIN Unit) \X Nat
  /\ SleepStarts \subseteq [sec : Nat, nsec : 0 .. NsecPerSec - 1]

VARIABLES tsPc,     \* where the call stands
          tsCall,   \* the call
          tsStart,  \* ts_cur
          tsDue,    \* the sum, and then ts
          tsWoke    \* the clock when the call returned, and why it did

tsVars == <<tsPc, tsCall, tsStart, tsDue, tsWoke>>

NoWake == [why |-> "none", sec |-> 0, nsec |-> 0]

TsInit ==
  /\ tsPc = "done" /\ tsCall = <<"s", 0>> /\ tsStart = [sec |-> 0, nsec |-> 0]
  /\ tsDue = tsStart /\ tsWoke = NoWake

\* A process calls ukc_ssleep, ukc_mssleep, ukc_ussleep or ukc_nssleep.
TsBegin ==
  /\ tsPc = "done"
  /\ tsPc' = "add" /\ tsCall' \in SleepCalls /\ tsStart' \in SleepStarts
  /\ tsDue' = tsStart' /\ tsWoke' = NoWake

TsReturn(why, t) ==
  /\ tsPc' = "done" /\ tsWoke' = [why |-> why, sec |-> t.sec, nsec |-> t.nsec]

\* ts_inc, as ukc_ssleep, ukc_mssleep, ukc_ussleep and ukc_nssleep compute it
TsInc == LET per == Unit[tsCall[1]]
         IN  [sec |-> tsCall[2] \div per, nsec |-> (tsCall[2] % per) * (NsecPerSec \div per)]

\* clock_gettime fails, or the two times are added.
TsAdd ==
  /\ tsPc = "add"
  /\ \/ TsReturn("no clock", tsStart) /\ UNCHANGED tsDue
     \/ /\ tsDue' = [sec |-> tsStart.sec + TsInc.sec, nsec |-> tsStart.nsec + TsInc.nsec]
        /\ tsPc' = "norm" /\ UNCHANGED tsWoke
  /\ UNCHANGED <<tsCall, tsStart>>

\* mutant: a whole second of nanoseconds is let through
TsNormLax ==
  /\ tsPc = "norm"
  /\ IF tsDue.nsec > NsecPerSec
     THEN tsDue' = [sec |-> tsDue.sec + 1, nsec |-> tsDue.nsec - NsecPerSec] /\ UNCHANGED tsPc
     ELSE tsPc' = "sleep" /\ UNCHANGED tsDue
  /\ UNCHANGED <<tsCall, tsStart, tsWoke>>

\* A turn of the first loop of set_normalized_timespec, or its end.  A sum
\* of two times is never negative, so the second loop is not entered.
TsNorm ==
  /\ tsPc = "norm"
  /\ IF tsDue.nsec >= NsecPerSec
     THEN tsDue' = [sec |-> tsDue.sec + 1, nsec |-> tsDue.nsec - NsecPerSec] /\ UNCHANGED tsPc
     ELSE tsPc' = "sleep" /\ UNCHANGED tsDue
  /\ UNCHANGED <<tsCall, tsStart, tsWoke>>

\* clock_nanosleep: a time that is not normalised is refused, a signal ends
\* the sleep, or the time has come.
TsSleep ==
  /\ tsPc = "sleep"
  /\ IF tsDue.nsec \in 0 .. NsecPerSec - 1
     THEN TsReturn("slept", tsDue) \/ TsReturn("signal", tsStart)
     ELSE TsReturn("refused", tsStart)
  /\ UNCHANGED <<tsCall, tsStart, tsDue>>

TsNext == TsBegin \/ TsAdd \/ TsNorm \/ TsSleep

TsSpec == TsInit /\ [][TsNext]_tsVars

----------------------------------------------------------------------------
(* Properties *)

TsTypeOK ==
  /\ tsPc \in {"add", "norm", "sleep", "done"}
  /\ tsWoke # NoWake => tsCall \in SleepCalls /\ tsStart \in SleepStarts
  /\ tsDue.sec \in Nat /\ tsDue.nsec \in 0 .. 2 * NsecPerSec
  /\ tsWoke.why \in {"none", "slept", "signal", "refused", "no clock"}

\* A delay that no signal cuts short lasts its amount exactly, whatever
\* carries from the nanoseconds, and clock_nanosleep takes every time it is
\* given: a refusal would return at once, as a delay of nothing.
SleepFull ==
  /\ tsWoke.why # "refused"
  /\ tsWoke.why = "slept" =>
       LET per == Unit[tsCall[1]]
           late == tsWoke.sec - tsStart.sec - tsCall[2] \div per
       IN  tsWoke.nsec - tsStart.nsec = (tsCall[2] % per) * (NsecPerSec \div per) - late * NsecPerSec
===========================================================================
