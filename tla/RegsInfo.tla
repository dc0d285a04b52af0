----------------------------- MODULE RegsInfo -----------------------------
(***************************************************************************)
(* The device file through which the registers are read and written raw:   *)
(* regs_info_drv_llseek, _read and _write (regs_info_dev.c) with           *)
(* pdm_raw_reg_read and pdm_raw_reg_write (pdm_drv_hw.c).  The file is the *)
(* physical address space; of it only the card's window is registers,      *)
(* which are copied two bytes at a time.  Slot 0 has no window.            *)
(***************************************************************************)
EXTENDS Integers, FiniteSets

CONSTANTS RawSize,    \* m_size: 2^32 in the code
          WinBase,    \* phy_addr and
          WinSize,    \* addr_space of the card
          MaxRawPos,  \* bound: the position
          MaxRawLen   \* bound: nBytes

\* the bound lets reads take the position past the end of the file
ASSUME RawAssumption ==
  /\ RawSize \in Nat /\ WinBase \in Nat /\ WinSize \in Nat
  /\ MaxRawPos \in Nat /\ MaxRawLen \in Nat
  /\ MaxRawPos >= RawSize

VARIABLES riPos,   \* f_pos
          riOp,    \* the last call
          riFrom,  \* the position it started at
          riLen,   \* its nBytes
          riCopy   \* <<index into the caller's buffer, address of the register>> per byte copied

riVars == <<riPos, riOp, riFrom, riLen, riCopy>>

RiInit == riPos = 0 /\ riOp = "open" /\ riFrom = 0 /\ riLen = 0 /\ riCopy = {}

\* the position a seek asks for; a whence that the switch does not know is
\* the beginning
SeekTo(off, whence) ==
  CASE whence = "set" -> off
    [] whence = "cur" -> riPos + off
    [] whence = "end" -> RawSize + off
    [] whence = "data" -> 0

\* mutant: the position SEEK_CUR comes to is not looked at
SeekOkCur(off, whence) ==
  /\ whence = "cur" => RawSize - riPos > off
  /\ whence = "end" => off < 0
  /\ whence # "cur" => SeekTo(off, whence) \in 0 .. RawSize - 1

\* what regs_info_drv_llseek accepts
SeekOk(off, whence) ==
  /\ whence = "cur" => RawSize - riPos > off
  /\ whence = "end" => off < 0
  /\ SeekTo(off, whence) \in 0 .. RawSize - 1

\* regs_info_drv_llseek
RiSeek ==
  \E off \in -RawSize .. RawSize, whence \in {"set", "cur", "end", "data"} :
    /\ riPos' = IF SeekOk(off, whence) THEN SeekTo(off, whence) ELSE riPos
    /\ riOp' = IF SeekOk(off, whence) THEN "seek" ELSE "refused"
    /\ riFrom' = riPos /\ riLen' = 0 /\ riCopy' = {}

\* mutant: the last byte of the window counts as outside
TransferShort(n) ==
  LET first == IF riPos > WinBase THEN riPos ELSE WinBase
      last == IF n - 1 + riPos < WinBase + WinSize - 1 THEN n - 1 + riPos ELSE WinBase + WinSize - 2
  IN  {<<a - riPos, a>> : a \in first .. last + ((last - first + 1) % 2)}

\* The copy of pdm_raw_reg_read and pdm_raw_reg_write: j = 0, 2, ... while
\* j < tmpLen, two bytes each.
Transfer(n) ==
  LET first == IF riPos > WinBase THEN riPos ELSE WinBase
      last == IF n - 1 + riPos < WinBase + WinSize - 1 THEN n - 1 + riPos ELSE WinBase + WinSize - 1
  IN  IF last >= first THEN {<<a - riPos, a>> : a \in first .. last + ((last - first + 1) % 2)} ELSE {}

\* regs_info_drv_read: the position moves on, past the end of the file too.
RiRead ==
  \E n \in 0 .. MaxRawLen :
    /\ riPos + n <= MaxRawPos
    /\ riPos' = riPos + n
    /\ riOp' = "read" /\ riFrom' = riPos /\ riLen' = n /\ riCopy' = Transfer(n)

\* regs_info_drv_write: the position stays.
RiWrite ==
  \E n \in 0 .. MaxRawLen :
    /\ riOp' = "write" /\ riFrom' = riPos /\ riLen' = n /\ riCopy' = Transfer(n)
    /\ UNCHANGED riPos

RiNext == RiSeek \/ RiRead \/ RiWrite

RiSpec == RiInit /\ [][RiNext]_riVars

----------------------------------------------------------------------------
(* Properties *)

RiTypeOK ==
  /\ riPos \in 0 .. MaxRawPos /\ riOp \in {"open", "seek", "refused", "read", "write"}
  /\ riFrom \in 0 .. MaxRawPos /\ riLen \in 0 .. MaxRawLen
  /\ riCopy \subseteq (0 .. MaxRawLen + 1) \X (0 .. MaxRawPos + MaxRawLen + 1)

\* Wherever reads have left the position, a seek that is accepted leaves it in
\* the file.  A read or write copies every byte of the request that is a
\* register, to its own place in the buffer, and of other bytes only the one
\* after them when they are odd in number: a caller that asks for even
\* lengths at even positions gets nothing else.
RegsBounds ==
  /\ riOp = "seek" => riPos \in 0 .. RawSize - 1
  /\ LET wanted == {a \in WinBase .. WinBase + WinSize - 1 : a \in riFrom .. riFrom + riLen - 1}
         copied == {c[2] : c \in riCopy}
     IN  /\ wanted \subseteq copied
         /\ \A c \in riCopy : c[1] = c[2] - riFrom
         /\ \A a \in copied \ wanted : a - 1 \in wanted /\ Cardinality(wanted) % 2 = 1
===========================================================================
