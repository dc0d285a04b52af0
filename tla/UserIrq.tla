------------------------------ MODULE UserIrq ------------------------------
(***************************************************************************)
(* An interrupt on its way from the card to the process, in the two builds *)
(* of the driver frame.  In "kernel" udf_isr runs the user's handler,      *)
(* which serves the card and has the core unmask the interrupt.  In "user" *)
(* udf_isr only wakes the process, whose udf_th_read runs the handler and  *)
(* enables the interrupt again.  One card and one process, which opens the *)
(* device, enables the interrupt and then polls and reads; SlotDrv has the *)
(* locks.  slot_int_handler is one step up to the return of the isr, and   *)
(* one to unmask, under slot_mutex (uiUnmask).                             *)
(***************************************************************************)
EXTENDS Integers

VARIABLES uiBuild,   \* "kernel" or "user"
          uiSrc,     \* the card asserts its interrupt
          uiMasked,  \* the bit of the mask register
          uiIdx,     \* BIT_WORK_IDX
          uiPend,    \* work items that are pending
          uiUnmask,  \* slot_int_handler is about to unmask
          uiCanRead,    \* BIT_CAN_READ
          uiData,    \* the handler has data for udf_read_int_data
          uiPc,      \* the process
          uiBad      \* the handler found no source though the card had asserted
                     \* one, or there was no data to read

uiVars == <<uiBuild, uiSrc, uiMasked, uiIdx, uiPend, uiUnmask, uiCanRead, uiData, uiPc, uiBad>>

UiInit ==
  /\ uiBuild \in {"kernel", "user"}
  /\ uiSrc = FALSE /\ uiMasked = TRUE /\ uiIdx = 0 /\ uiPend = {} /\ uiUnmask = FALSE
  /\ uiCanRead = FALSE /\ uiData = FALSE /\ uiPc = "closed" /\ uiBad = FALSE

\* The card has something to report.
UiAssert ==
  /\ ~uiSrc /\ uiSrc' = TRUE
  /\ UNCHANGED <<uiBuild, uiMasked, uiIdx, uiPend, uiUnmask, uiCanRead, uiData, uiPc, uiBad>>

\* The source is gone before anybody found it.
UiVanish ==
  /\ uiSrc /\ uiSrc' = FALSE /\ uiBad' = TRUE
  /\ UNCHANGED <<uiBuild, uiMasked, uiIdx, uiPend, uiUnmask, uiCanRead, uiData, uiPc>>

\* pdm_handle_slot_int
UiIrq ==
  /\ uiSrc /\ ~uiMasked
  /\ uiMasked' = TRUE /\ uiPend' = uiPend \cup {uiIdx} /\ uiIdx' = 1 - uiIdx
  /\ UNCHANGED <<uiBuild, uiSrc, uiUnmask, uiCanRead, uiData, uiPc, uiBad>>

Enabled == uiPc \notin {"closed", "open"}

\* mutant: udf_isr does not wake the process
UiWorkNoWake(w) ==
  /\ w \in uiPend /\ ~uiUnmask
  /\ uiPend' = uiPend \ {w}
  /\ IF Enabled
     THEN /\ uiCanRead' = TRUE
          /\ UNCHANGED uiPc
          /\ IF uiBuild = "kernel"
             THEN uiUnmask' = uiSrc /\ uiData' = (uiData \/ uiSrc) /\ uiSrc' = FALSE
             ELSE UNCHANGED <<uiUnmask, uiData, uiSrc>>
     ELSE UNCHANGED <<uiCanRead, uiPc, uiUnmask, uiData, uiSrc>>
  /\ UNCHANGED <<uiBuild, uiMasked, uiIdx, uiBad>>

\* slot_int_handler with udf_isr: in the kernel udf_int_handler serves the
\* card, with a result greater than 0 if it found it; udf_bh_isr is 0.
UiWork(w) ==
  /\ w \in uiPend /\ ~uiUnmask
  /\ uiPend' = uiPend \ {w}
  /\ IF Enabled
     THEN /\ uiCanRead' = TRUE
          /\ uiPc' = IF uiPc = "sleep" THEN "poll" ELSE uiPc
          /\ IF uiBuild = "kernel"
             THEN uiUnmask' = uiSrc /\ uiData' = (uiData \/ uiSrc) /\ uiSrc' = FALSE
             ELSE UNCHANGED <<uiUnmask, uiData, uiSrc>>
     ELSE UNCHANGED <<uiCanRead, uiPc, uiUnmask, uiData, uiSrc>>
  /\ UNCHANGED <<uiBuild, uiMasked, uiIdx, uiBad>>

UiWorkUnmask ==
  /\ uiUnmask
  /\ uiMasked' = FALSE /\ uiUnmask' = FALSE
  /\ UNCHANGED <<uiBuild, uiSrc, uiIdx, uiPend, uiCanRead, uiData, uiPc, uiBad>>

----------------------------------------------------------------------------
(* The process *)

\* udf_open: the data is new, BIT_CAN_READ is that of the file before.
UiOpen ==
  /\ uiPc = "closed"
  /\ uiPc' = "open" /\ uiData' = FALSE /\ uiBad' = FALSE
  /\ UNCHANGED <<uiBuild, uiSrc, uiMasked, uiIdx, uiPend, uiUnmask, uiCanRead>>

\* udf_enable_int, by the process itself or at the end of udf_th_read
UiEnable ==
  /\ uiPc \in {"open", "enable"}
  /\ uiPc' = "poll" /\ uiMasked' = FALSE
  /\ UNCHANGED <<uiBuild, uiSrc, uiIdx, uiPend, uiUnmask, uiCanRead, uiData, uiBad>>

\* udf_poll: on the queue, and then it looks
UiPoll ==
  /\ uiPc = "poll"
  /\ uiPc' = IF uiCanRead THEN "read" ELSE "sleep"
  /\ UNCHANGED <<uiBuild, uiSrc, uiMasked, uiIdx, uiPend, uiUnmask, uiCanRead, uiData, uiBad>>

\* udf_read, the kernel's part: the bit is cleared first.
UiRead ==
  /\ uiPc = "read"
  /\ uiCanRead' = FALSE
  /\ uiPc' = IF uiBuild = "user" THEN "handle" ELSE "poll"
  /\ uiData' = (uiBuild = "user" /\ uiData)
  /\ UNCHANGED <<uiBuild, uiSrc, uiMasked, uiIdx, uiPend, uiUnmask, uiBad>>

\* udf_th_read in the process: udf_int_handler.  Without a source it is the
\* result, and the interrupt stays as it is.
UiHandle ==
  /\ uiPc = "handle"
  /\ uiPc' = IF uiSrc THEN "data" ELSE "poll"
  /\ uiData' = uiSrc /\ uiSrc' = FALSE
  /\ UNCHANGED <<uiBuild, uiMasked, uiIdx, uiPend, uiUnmask, uiCanRead, uiBad>>

\* udf_read_int_data; after an error the interrupt is not enabled.
UiTake ==
  /\ uiPc = "data"
  /\ uiData' = FALSE
  /\ \/ uiPc' = "enable" /\ UNCHANGED uiBad
     \/ uiPc' = "poll" /\ uiBad' = TRUE
  /\ UNCHANGED <<uiBuild, uiSrc, uiMasked, uiIdx, uiPend, uiUnmask, uiCanRead>>

\* udf_release: pdm_free_irq disables the interrupt.
UiClose ==
  /\ Enabled
  /\ uiPc' = "closed" /\ uiMasked' = TRUE
  /\ UNCHANGED <<uiBuild, uiSrc, uiIdx, uiPend, uiUnmask, uiCanRead, uiData, uiBad>>

\* The loop of the process, which needs no one but the interrupt to go on.
UiLoop == (Enabled /\ UiEnable) \/ UiPoll \/ UiRead \/ UiHandle \/ UiTake

UiNext ==
  \/ UiAssert \/ UiVanish \/ UiIrq \/ (\E w \in {0, 1} : UiWork(w)) \/ UiWorkUnmask
  \/ UiOpen \/ UiEnable \/ UiPoll \/ UiRead \/ UiHandle \/ UiTake \/ UiClose

UiSpec == UiInit /\ [][UiNext]_uiVars

UiTypeOK ==
  /\ uiBuild \in {"kernel", "user"} /\ uiIdx \in {0, 1} /\ uiPend \subseteq {0, 1}
  /\ {uiSrc, uiMasked, uiUnmask, uiCanRead, uiData, uiBad} \subseteq BOOLEAN
  /\ uiPc \in {"closed", "open", "poll", "sleep", "read", "handle", "data", "enable"}

----------------------------------------------------------------------------
\* While the interrupt is enabled and none of it went unfound, whatever is to be
\* done next has somebody on his way to do it: a masked interrupt one who will
\* unmask it (a work item, the handler after its isr, or the process between
\* its poll and its enabling), a readable file a process that is not asleep,
\* data a process that will read it.  What makes IrqReachesProcess possible.
IrqNotForgotten ==
  Enabled /\ ~uiBad =>
    /\ uiMasked => \/ uiPend # {} \/ uiUnmask
                   \/ uiBuild = "user" /\ (uiCanRead \/ uiPc \in {"handle", "data", "enable"})
    /\ uiCanRead => uiPc # "sleep"
    /\ uiData => uiCanRead \/ uiPc = "data"

\* While the process keeps the device open and its interrupt enabled, every
\* interrupt of the card is served, and what it reported is read: in either
\* build, whatever the work items left by the file before do, and whether or
\* not poll reported data that was not there (BIT_CAN_READ of that file).
\* Only a source nobody finds, or data that cannot be read, may leave the
\* interrupt off, as the driver's readme says.
IrqReachesProcess ==
  /\ (uiSrc /\ Enabled) ~> (~uiSrc \/ ~Enabled \/ uiBad)
  /\ (uiData /\ Enabled) ~> (~uiData \/ ~Enabled)
===========================================================================
