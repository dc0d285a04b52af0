------------------------------- MODULE ThBh -------------------------------
(***************************************************************************)
(* Opening and closing a card driver through its top and bottom half, in   *)
(* the three ways the driver frame builds them:                            *)
(*   "kernel": both halves in the kernel (th/udf_dth.c, bh/udf_dbh.c),     *)
(*   "user":   the top half in the process, over bh_lib/udf_dbh.c,         *)
(*   "lib":    only th_lib/udf_dth.c in the process.                       *)
(* Each step of an open that fails must give back what the steps before it *)
(* took.  In "lib" one mapping is remembered for all opens                 *)
(* (g_store_cpld_info); the model has one file open at a time.             *)
(*                                                                         *)
(* udf_download_fpga_encap (th/udf_dth_uif.c) is here too: a call on the   *)
(* open driver that opens, reads and closes a file of its own.             *)
(***************************************************************************)
EXTENDS Integers, Sequences, SequencesExt

CONSTANT MaxLost  \* bound: mappings left behind

ASSUME LostAssumption == MaxLost \in Nat

VARIABLES thBuild, \* which build
          thPc,    \* closed, open, or the step of an open or a release
          thHeld,  \* memory, files and constructed data; not the mapping
          thMaps,  \* mappings of the card's registers
          thLost,  \* opens that failed after their mmap
          dlPc,    \* the step of a download
          dlHeld   \* the download's file and buffer

thVars == <<thBuild, thPc, thHeld, thMaps, thLost, dlPc, dlHeld>>

\* what an open driver consists of: the memory and the user's data (ds) of
\* each half, or the file that stands for the half in the kernel
ThThings == [kernel |-> {"th", "bh", "bh_ds", "th_ds"},
             user   |-> {"th", "fd", "th_ds"},
             lib    |-> {"fd"}]

ThSteps == [kernel |-> <<"th", "bh", "bh_ds", "th_ds">>,
            user   |-> <<"th", "fd", "map", "th_ds">>,
            lib    |-> <<"fd", "map">>]

\* udf_th_release
ThUndo == [kernel |-> <<"th_ds", "bh_ds", "bh", "th">>,
           user   |-> <<"th_ds", "map", "fd", "th">>,
           lib    |-> <<"map", "fd">>]

ThInit ==
  /\ thBuild \in {"kernel", "user", "lib"}
  /\ thPc = <<"closed", 0>> /\ thHeld = {} /\ thMaps = 0 /\ thLost = 0
  /\ dlPc = "idle" /\ dlHeld = {}

ThOpen ==
  /\ thPc[1] = "closed"
  /\ thPc' = <<"opening", 1>>
  /\ UNCHANGED <<thBuild, thHeld, thMaps, thLost, dlPc, dlHeld>>

\* A step of the open succeeds.
ThTake ==
  LET step == ThSteps[thBuild][thPc[2]] IN
  /\ thPc[1] = "opening"
  /\ IF step = "map"
     THEN thMaps' = thMaps + 1 /\ UNCHANGED thHeld
     ELSE thHeld' = thHeld \cup {step} /\ UNCHANGED thMaps
  /\ thPc' = IF thPc[2] = Len(ThSteps[thBuild]) THEN <<"open", 0>> ELSE <<"opening", thPc[2] + 1>>
  /\ UNCHANGED <<thBuild, thLost, dlPc, dlHeld>>

\* mutant: a th constructor that fails leaves the bottom half open
GivenBackTh(step) ==
  CASE step \in {"th", "fd", "bh"} -> {"th"}
    [] step = "bh_ds" -> {"bh", "th"}
    [] step \in {"map", "th_ds"} -> {"th"}

\* What udf_bh_open and the labels err_exit2 and err_exit of udf_th_open give
\* back when a step fails: never the mapping.
GivenBack(step) ==
  CASE step \in {"th", "fd", "bh"} -> {"th"}
    [] step = "bh_ds" -> {"bh", "th"}
    [] step \in {"map", "th_ds"} -> {"fd", "bh_ds", "bh", "th"}

\* A step of udf_th_open fails.
ThFail ==
  LET step == ThSteps[thBuild][thPc[2]] IN
  /\ thPc[1] = "opening" /\ thBuild # "lib"
  /\ step = "th_ds" /\ thBuild = "user" => thLost < MaxLost
  /\ thHeld' = thHeld \ GivenBack(step)
  /\ thLost' = IF step = "th_ds" /\ thBuild = "user" THEN thLost + 1 ELSE thLost
  /\ thPc' = <<"closed", 0>>
  /\ UNCHANGED <<thBuild, thMaps, dlPc, dlHeld>>

\* udf_th_open of th_lib: open or mmap fails.  The mapping is tried, and
\* remembered as NULL, in either case; only the file is the caller's result.
ThLibFail ==
  /\ thPc[1] = "opening" /\ thBuild = "lib"
  /\ thPc' = IF "fd" \in thHeld THEN <<"open", 0>> ELSE <<"closed", 0>>
  /\ UNCHANGED <<thBuild, thHeld, thMaps, thLost, dlPc, dlHeld>>

ThRelease ==
  /\ thPc[1] = "open" /\ dlPc = "idle"
  /\ thPc' = <<"closing", 1>>
  /\ UNCHANGED <<thBuild, thHeld, thMaps, thLost, dlPc, dlHeld>>

\* A step of udf_th_release.  The munmap of th_lib takes NULL where the mapping
\* failed, which unmaps nothing only where the process has nothing in the first
\* mem_size bytes of its address space.  That is taken of the p2020 board.
ThGive ==
  LET step == ThUndo[thBuild][thPc[2]] IN
  /\ thPc[1] = "closing"
  /\ IF step = "map"
     THEN thMaps' = (IF thMaps > thLost THEN thMaps - 1 ELSE thMaps) /\ UNCHANGED thHeld
     ELSE thHeld' = thHeld \ {step} /\ UNCHANGED thMaps
  /\ thPc' = IF thPc[2] = Len(ThUndo[thBuild]) THEN <<"closed", 0>> ELSE <<"closing", thPc[2] + 1>>
  /\ UNCHANGED <<thBuild, thLost, dlPc, dlHeld>>

----------------------------------------------------------------------------
(* udf_download_fpga_encap, in the builds with a process *)

DlOpen ==
  /\ thPc[1] = "open" /\ thBuild # "kernel" /\ dlPc = "idle"
  /\ \/ dlPc' = "stat" /\ dlHeld' = {"file"}
     \/ UNCHANGED <<dlPc, dlHeld>>
  /\ UNCHANGED <<thBuild, thPc, thHeld, thMaps, thLost>>

\* fstat and malloc; either may fail
DlStat ==
  /\ dlPc = "stat"
  /\ \/ dlPc' = "read" /\ dlHeld' = dlHeld \cup {"buf"}
     \/ dlPc' = "idle" /\ dlHeld' = dlHeld \ {"file"}
  /\ UNCHANGED <<thBuild, thPc, thHeld, thMaps, thLost>>

DlRead ==
  /\ dlPc = "read"
  /\ \/ dlPc' = "load" /\ dlHeld' = dlHeld \ {"file"}
     \/ dlPc' = "idle" /\ dlHeld' = dlHeld \ {"file", "buf"}
  /\ UNCHANGED <<thBuild, thPc, thHeld, thMaps, thLost>>

\* The FPGA is loaded (FpgaLoader), whatever the result.
DlLoad ==
  /\ dlPc = "load"
  /\ dlPc' = "idle" /\ dlHeld' = dlHeld \ {"buf"}
  /\ UNCHANGED <<thBuild, thPc, thHeld, thMaps, thLost>>

ThNext == \/ ThOpen \/ ThTake \/ ThFail \/ ThLibFail \/ ThRelease \/ ThGive
          \/ DlOpen \/ DlStat \/ DlRead \/ DlLoad

ThSpec == ThInit /\ [][ThNext]_thVars

----------------------------------------------------------------------------
(* Properties *)

ThTypeOK ==
  /\ thBuild \in {"kernel", "user", "lib"}
  /\ thPc \in {"closed", "opening", "open", "closing"} \X (0 .. 4)
  /\ thHeld \subseteq ThThings[thBuild]
  /\ thMaps \in 0 .. MaxLost + 1 /\ thLost \in 0 .. MaxLost
  /\ dlPc \in {"idle", "stat", "read", "load"} /\ dlHeld \subseteq {"file", "buf"}

\* Whichever step of an open fails, memory, file and constructed data of both
\* halves are given back, and a release gives back all of an open, its mapping
\* too; a download leaves neither file nor buffer.  What is not given back is
\* the mapping of an open whose constructor fails (thLost): err_exit2 forgets
\* it.
ThPromise == INSTANCE AllOrNothing WITH
  Things <- {"open"},
  kept <- CASE thPc[1] = "opening" -> {}
            [] thPc[1] = "closing" \/ dlPc # "idle" -> {"open"}
            [] thPc[1] = "open" /\ dlPc = "idle" /\ thHeld = ThThings[thBuild] -> {"open"} \cup dlHeld
            [] OTHER -> thHeld \cup dlHeld \cup (IF thMaps > thLost THEN {"map"} ELSE {})

ThAllOrNothing == ThPromise!Spec
===========================================================================
