------------------------------ MODULE MCParts ------------------------------
(***************************************************************************)
(* The parts of the system that share no state with the manager, with the  *)
(* slot table or with each other: a behaviour is one of one part, chosen   *)
(* at the beginning, and the others stay where they start.                 *)
(***************************************************************************)
EXTENDS CoreInit, UdfMod, ThBh, CPList, FpgaLoader, TimeSpec, RegsInfo,
        SysFunc, Sifp, UserIrq, MainDev

VARIABLE part

partVars == <<part, coreVars, udfVars, thVars, cpVars, flVars, tsVars, riVars,
              sfVars, spVars, uiVars, mdVars>>

\* amounts on both sides of every carry, from a clock about to carry
MCSleepCalls ==
  {"s"} \X {0, 2} \cup {"ms"} \X {0, 1, 999, 1000, 1999} \cup
  {"us"} \X {1, 999999, 1000000, 1999999} \cup {"ns"} \X {1, 999999999, 1000000000, 1000000001}

MCSleepStarts == {[sec |-> 5, nsec |-> n] : n \in {0, 1, 999000000, 999999999}}

Part == {"core", "udf", "th", "list", "fpga", "delay", "regs", "sys", "sifp", "irq", "main"}

PartsInit ==
  /\ part \in Part
  /\ CoreInit /\ UdfInit /\ ThInit /\ CpInit /\ FlInit /\ TsInit /\ RiInit
  /\ SfInit /\ SpInit /\ UiInit /\ MdInit
  \* a part that does not run starts in one state
  /\ part # "core" => ~coreP2020
  /\ part # "th" => thBuild = "kernel"
  /\ part # "fpga" => flFpga = "old"
  /\ part # "irq" => uiBuild = "kernel"

\* It is p's turn, and the other parts stand still.
Runs(p) ==
  /\ part = p /\ UNCHANGED part
  /\ p # "core" => UNCHANGED coreVars
  /\ p # "udf" => UNCHANGED udfVars
  /\ p # "th" => UNCHANGED thVars
  /\ p # "list" => UNCHANGED cpVars
  /\ p # "fpga" => UNCHANGED flVars
  /\ p # "delay" => UNCHANGED tsVars
  /\ p # "regs" => UNCHANGED riVars
  /\ p # "sys" => UNCHANGED sfVars
  /\ p # "sifp" => UNCHANGED spVars
  /\ p # "irq" => UNCHANGED uiVars
  /\ p # "main" => UNCHANGED mdVars

PartsNext ==
  \/ CoreNext /\ Runs("core")
  \/ UdfNext /\ Runs("udf")
  \/ ThNext /\ Runs("th")
  \/ CpNext /\ Runs("list")
  \/ FlNext /\ Runs("fpga")
  \/ TsNext /\ Runs("delay")
  \/ RiNext /\ Runs("regs")
  \/ SfNext /\ Runs("sys")
  \/ SpNext /\ Runs("sifp")
  \/ UiNext /\ Runs("irq")
  \/ MdNext /\ Runs("main")

\* A process goes on in its loop, an interrupt that stays is taken, work that
\* is pending is run.  Nobody has to notify, assert, open or close.
PartsFairness ==
  /\ \A p \in OffProc : WF_sfVars(part = "sys" /\ SfLoop(p))
  /\ WF_uiVars(part = "irq" /\ UiIrq)
  /\ \A w \in {0, 1} : WF_uiVars(part = "irq" /\ UiWork(w))
  /\ WF_uiVars(part = "irq" /\ UiWorkUnmask)
  /\ WF_uiVars(part = "irq" /\ UiLoop)

PartsSpec == PartsInit /\ [][PartsNext]_partVars /\ PartsFairness

\* The variables of every part keep their types.
PartsTypeOK ==
  /\ CoreTypeOK /\ UdfTypeOK /\ ThTypeOK /\ CpTypeOK /\ FlTypeOK /\ TsTypeOK /\ RiTypeOK
  /\ SfTypeOK /\ SpTypeOK /\ UiTypeOK /\ MdTypeOK
============================================================================
