---------------------------- MODULE FpgaLoader ----------------------------
(***************************************************************************)
(* udf_download_fpga_imp (fpga/fpga_loader.c) and the FPGA it loads, over  *)
(* the registers of the board's CPLD.  Time passes in ukc_ussleep only,    *)
(* and a sleep in a process may be cut short (TimeSpec).  Of the FPGA the  *)
(* model knows what the loader relies on: PROG held for its time clears    *)
(* it, a whole image clocked into a cleared FPGA makes it DONE after some  *)
(* time or, when the image is not good, never.                             *)
(***************************************************************************)
EXTENDS Integers

CONSTANTS MaxPoll,  \* 500 in the code
          MaxBytes  \* bound: the size of an image

ASSUME LoaderAssumption == MaxPoll \in Nat \ {0} /\ MaxBytes \in Nat

VARIABLES flPc,     \* where the loader stands
          flBytes,  \* nBytes of the image
          flLeft,   \* bytes not yet written
          flPoll,   \* i
          flProg,   \* FPGA_PROG_H is 0 and FPGA_PROG_L is 1
          flClk,    \* CCLK_EN
          flFpga,   \* the FPGA: an image of before, cleared, being loaded, this image
          flDone,   \* waits until the image is DONE; -1 is never
          flRet,    \* the result
          flCut     \* history: the sleep with PROG asserted was cut short

flVars == <<flPc, flBytes, flLeft, flPoll, flProg, flClk, flFpga, flDone, flRet, flCut>>

FlInit ==
  /\ flPc = "idle" /\ flBytes = 0 /\ flLeft = 0 /\ flPoll = 0
  /\ flProg = FALSE /\ flClk = FALSE
  /\ flFpga \in {"old", "clear"} /\ flDone = IF flFpga = "old" THEN 0 ELSE -1
  /\ flRet = 1 /\ flCut = FALSE

\* FPGA_DONE as it is read
Configured == flFpga \in {"old", "new"} /\ flDone = 0

\* Some time passes: an image that was starting may be DONE.
Later == flDone' \in IF flDone > 0 THEN 0 .. flDone ELSE {flDone}

FlReturn(r) == flPc' = "idle" /\ flRet' = r

\* The call, up to the first sleep: PROG is asserted.
FlClear ==
  /\ flPc = "idle"
  /\ \E n \in 0 .. MaxBytes : flBytes' = n /\ flLeft' = n
  /\ flProg' = TRUE /\ flPc' = "clearing" /\ flPoll' = 0 /\ flCut' = FALSE
  /\ UNCHANGED <<flClk, flFpga, flDone, flRet>>

\* The sleep ends: PROG has cleared the FPGA unless the sleep was cut short.
FlRelease ==
  /\ flPc = "clearing"
  /\ flCut' \in BOOLEAN
  /\ \/ flFpga' = "clear" /\ flDone' = -1
     \/ flCut' /\ UNCHANGED flFpga /\ Later
  /\ flProg' = FALSE /\ flPc' = "cleared"
  /\ UNCHANGED <<flBytes, flLeft, flPoll, flClk, flRet>>

\* mutant: whether the FPGA was cleared is not asked
FlStartBlind ==
  /\ flPc = "cleared"
  /\ flClk' = TRUE /\ flPc' = "send" /\ UNCHANGED flRet
  /\ UNCHANGED <<flBytes, flLeft, flPoll, flProg, flFpga, flDone, flCut>>

\* An FPGA that is done already has not been cleared.
FlStart ==
  /\ flPc = "cleared"
  /\ IF Configured
     THEN FlReturn(-1) /\ UNCHANGED flClk
     ELSE flClk' = TRUE /\ flPc' = "send" /\ UNCHANGED flRet
  /\ UNCHANGED <<flBytes, flLeft, flPoll, flProg, flFpga, flDone, flCut>>

\* A byte is written; an FPGA that was not cleared takes none.
FlSend ==
  /\ flPc = "send" /\ flLeft > 0
  /\ flLeft' = flLeft - 1
  /\ flFpga' = IF flClk /\ flFpga = "clear" THEN "loading" ELSE flFpga
  /\ UNCHANGED <<flPc, flBytes, flPoll, flProg, flClk, flDone, flRet, flCut>>

\* The clock is disabled; the FPGA that got an image starts it.
FlSent ==
  /\ flPc = "send" /\ flLeft = 0
  /\ flClk' = FALSE /\ flPc' = "wait"
  /\ IF flFpga = "loading"
     THEN flFpga' = "new" /\ flDone' \in -1 .. MaxPoll + 1
     ELSE UNCHANGED <<flFpga, flDone>>
  /\ UNCHANGED <<flBytes, flLeft, flPoll, flProg, flRet, flCut>>

\* One look at DONE and one sleep, MaxPoll times at most.
FlWait ==
  /\ flPc = "wait"
  /\ \/ flPoll >= MaxPoll /\ FlReturn(-1) /\ UNCHANGED <<flPoll, flDone>>
     \/ flPoll < MaxPoll /\ Configured /\ FlReturn(0) /\ UNCHANGED <<flPoll, flDone>>
     \/ /\ flPoll < MaxPoll /\ ~Configured
        /\ flPoll' = flPoll + 1
        /\ flDone' = IF flDone > 0 THEN flDone - 1 ELSE flDone
        /\ UNCHANGED <<flPc, flRet>>
  /\ UNCHANGED <<flBytes, flLeft, flProg, flClk, flFpga, flCut>>

\* The caller takes the result.  For the next call the image, DONE, starting or
\* not good, is one of before.
FlAgain ==
  /\ flPc = "idle" /\ flRet # 1
  /\ flRet' = 1 /\ flBytes' = 0 /\ flLeft' = 0 /\ flPoll' = 0 /\ flCut' = FALSE
  /\ flFpga' = IF flFpga = "new" THEN "old" ELSE flFpga
  /\ Later
  /\ UNCHANGED <<flPc, flProg, flClk>>

FlNext == \/ flRet = 1 /\ FlClear
          \/ FlRelease \/ FlStart \/ FlSend \/ FlSent \/ FlWait \/ FlAgain

FlSpec == FlInit /\ [][FlNext]_flVars

----------------------------------------------------------------------------
(* Properties *)

FlTypeOK ==
  /\ flPc \in {"idle", "clearing", "cleared", "send", "wait"}
  /\ flBytes \in 0 .. MaxBytes /\ flLeft \in 0 .. flBytes /\ flPoll \in 0 .. MaxPoll
  /\ flProg \in BOOLEAN /\ flClk \in BOOLEAN
  /\ flFpga \in {"old", "clear", "loading", "new"} /\ flDone \in -1 .. MaxPoll + 1
  /\ flRet \in {-1, 0, 1} /\ flCut \in BOOLEAN

\* A load reports success only of an FPGA that is DONE with this image, all of
\* it, and of one that runs an image of before only where the sleep that clears
\* was cut short and that image, on which the load before gave up, became DONE
\* during the waits; it reports failure of one that is DONE only where it could
\* not clear it, or after the last of its MaxPoll looks.  Neither leaves PROG or
\* the clock on.
LoadResult ==
  flPc = "idle" /\ flRet # 1 =>
    /\ flRet = 0 => /\ Configured /\ flLeft = 0
                    /\ (flFpga = "new" /\ flBytes > 0) \/ (flCut /\ flPoll > 0)
    /\ flRet = -1 /\ Configured => flCut \/ flPoll = MaxPoll
    /\ ~flProg /\ ~flClk
===========================================================================
