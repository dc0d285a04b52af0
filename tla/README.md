# Verification of linux-drv

linux-drv drives the interface cards of a rack. A card sits in a slot; a kernel
driver core (`pdm/driver`) keeps a table of slots and card types; each card type
has a driver of its own, made from one frame (`template/ukcDrvFrame`); and a
user-space manager (`pdm/src`) watches the slots, tells the core which card is
online, and starts and supervises the process that uses it.

    card readings                 signals: SIGCHLD, hello answers
         |                                   |
    +----v-----------------------------------v----+  fork, SIGTERM, SIGKILL
    |  manager: CProcessPdm, CRtPrcInfo,          |------------> card process
    |  CStaticPrcMngInfo, CDynamicPrcMngInfo      |<------------ (one per slot)
    +----------------------+----------------------+                  |
          on/off-line ioctl|                    open, read, ioctl,   |
    -----------------------|------------------------release----------|-- kernel
    +----------------------v----------------------+   +--------------v-------+
    |  core: pdm_drv_ext.c, dmd.c, file_op.c      |-->|  card driver:        |
    |  slots, card types, interrupts, work items  |<--|  udf_drv.c, file_op.c|
    +---------------------------------------------+   +----------------------+
         cb_online, cb_offline, isr -->    <-- register, request_irq, enable_int

The project checks finite instances with TLC and proves, with TLAPS, for every
number of units, processes, slots and card types, that the manager's and the kernel
driver's safety properties hold, that the manager implements the abstract
supervision of `Supervisor`, and the safety properties of the driver's parts.
Paths below are relative to `src/`.

## Inventory

| component | state it keeps | operations | hard part |
|---|---|---|---|
| Process and card manager (`pdm/src/{rt_prc_info,prc_mng_info,static_prc_info,dynamic_prc_info,pdm_main}.cpp`) | four lists of run-time objects, each object's state, pid and hello counters; which unit owns which object; the start queue; the timers; for each slot the known card type, the candidate and the filter counter | timers (hello, supervision, SIGTERM timeout, SIGKILL timeout, start, card poll), signals (SIGCHLD, hello answer), `Stop` | children end at any time, signals coalesce, three paths reap; card and process of a slot change at different times; everything is a callback, so mistakes show only over long sequences |
| Intrusive lists (`pdm/include/cplist.h`) | links of a node | `addTail`, `del`, `accept`, first, last, iteration | a node that is unlinked twice, or never was linked; loops that unlink the node they are at |
| Slots and card types of the core (`pdm/driver/src/pdm_drv_ext.c`) | per type the callbacks; per slot card type, isr, argument, flags, two work items; two levels of mutex | online, offline, register, unregister, request and free irq, enable and disable interrupt, interrupt, work item | interrupt operations take no lock; the order of registration and online; failure of a callback |
| Driver frame (`template/ukcDrvFrame/src/{udf_drv,file_op}.c`) | per slot the device, its data, its flags and mutex; how far initialisation went | load, unload, online, offline, open, release, read, poll, mmap, ioctl, isr | unload or offline against an open file and against a handler; failure half way |
| Top and bottom halves (`src/th`, `src/bh`, `th_lib`, `bh_lib`) | data of an open file, its mapping, a download's file and buffer | open, release, read, isr, download | what each failing step gives back; who unmasks the interrupt |
| Module start and stop of the core (`dmd.c`) | stage reached | init, exit, interrupt entry | any failure runs the whole exit; scheduled work is not waited for |
| Manager's device file (`pdm/driver/src/file_op.c`) | the card types last reported | open, read, write, poll, ioctl | its debug write can take a slot on or off line behind the manager's back |
| System function device (`sys_func_set.c`) | offline bits, two registers | notification, poll, read, ioctls, write | several processes wait for the same bits, and the first reader takes them |
| Slot information fast path (`slot_info_fast_path.c`) | callbacks of each slot | register, clear, query | callback in use while its driver goes away; undoing a partial init |
| Register access (`regs_info_dev.c`, `pdm_drv_hw.c`, `pdm_drv_sim.c`) | file position, mapped window | seek, read, write, constructor, destructor | bounds and widths |
| FPGA loader (`fpga_loader.c`) | pins, retry counters | load | limits of the waits |
| Delays (`ukc_delay.c`) | none | time arithmetic, sleep | interrupted sleep |
| Slot converter, network setup, register macros, portability headers, build files, example driver | none | | no logic of their own to check |

What makes each correct:

* **Manager**: an object is on one list, the one of its state; objects and
  children correspond one to one; nothing that must run is forgotten and nothing
  is queued twice; what waits for a timer has it running; the driver gives up a
  card only after the card's process has ended; a card is believed only after
  enough equal readings; a silent process is killed, a dead one restarted, a
  removed card goes offline.
* **Core and driver frame**: no call uses a device or code that is gone; a driver
  has a device exactly for the slots that hold its card, in whichever order card
  and driver came; an isr and its argument belong to the file open now; every
  call returns; an interrupt is not lost, and not repeated after it was disabled.
* **Staged start and stop** (`dmd.c`, `udf_drv.c`, `slot_info_fast_path.c`,
  `udf_dth.c`): a failure undoes what was done, once.
* **Registers, loader, delays**: bounds, retry limits and return values.

`PROJECT.json` lists under `hazards` each of these at the line where it bites,
with the properties that cover it, or why none does.

## Modules

### PrcMng: the manager

One variable per piece of state of the classes (`lists` is `s_listPool` and the
other three, `state` is `m_state`, `parent` and `child` are the two ends of the
association of `bdassociation.h`, and so on; the declaration names each). One
action per callback that the event loop dispatches:

| action | code |
|---|---|
| `sHello4Live`, `sCheckLiveState`, `CheckLiveOne` | sending hellos; the supervision and its loop |
| `sCheckTermTimeout`, `sCheckKillTimeout` | what ignored SIGTERM gets SIGKILL; what got SIGKILL is reaped |
| `sCheckNeedStart` | starts the head of the start queue |
| `sCheckDevChange(d)` | a card reading of slot d: filter, online, offline |
| `sUpdateLiveState` | a hello answer |
| `sBuryChld`, `BuryOne`, `BuryEnd` | SIGCHLD and its `waitpid` loop |
| `sTerm4Stop`, `sKill4Stop`, `sStop`, `StopOne`, `StopEnd` | `CProcessPdm::Stop` |
| `ChildExit`, `ChildAck`, `Restart` | children, and a new manager |

The manager is one thread. A callback is one step, except those that make system
calls in a loop, which take one step per iteration, since a child may end in
between. `main` keeps other callbacks out meanwhile. SIGHELLOACK carries one
sender: a second answer while one is pending is lost, as it is for a signal that
does not queue. The build is the release build: an assertion is not a guard, and
where the code asserts something that can fail the model does what the code
without the assertion does (`main = "crashed"` when an unlinked node is unlinked).

The hello and answer counters enter only as their difference, which is all the
code reads. Wrap-around of the counters is therefore not in question.

### ListOps, ListOpsProofs

The list operations on sequences of elements, and lemmas about them: what is on
a list after `AddTail`, after `Unlink`, after taking the first, and that each
keeps elements unique.

### SlotDrv: the core and the driver frame

The actors are the manager's ioctls (`mgr`), the shell that loads and removes
card drivers (`shell`; `pdm_drv_ext.h` demands that all run in one), the process
of a slot (`app`), the interrupt and the two work items (`work`). Each `pc` says
between which two accesses the actor stands. A step goes up to the next access
another actor can see, and holds the locks the code holds there, in the order
`s_card_type_mutex`, `slot_mutex`, `m_mutex`. `pdm_request_irq`, `pdm_free_irq`,
`pdm_enable_int` and `pdm_disable_int` take none, so their stores are steps of
their own, and two plain stores next to each other appear in either order.

The manager takes a slot offline only when the process of the slot has ended:
that is not assumed of the air but is `OfflineOnlyWhenDead` of PrcMng, proved.
The debug write of `pdm/driver/src/file_op.c` does not keep to it; it is in MainDev
and not among SlotDrv's actors. The interrupt is connected only where `pdm_irq_hdl.c` is built for the
p2020; elsewhere the interrupt actions do not occur, and every safety property
holds of the smaller set of behaviours.

After a call through a null or stale pointer, or of a driver's handler without its
data (`oops`), nothing is claimed. What the handler of a driver does with `m_pData`
NULL is the driver's own: `WorkIsr` lets it fail or go on. UserIrq, which follows one
interrupt to the process, takes `slot_int_handler` with `udf_isr` as one step and has
no close beside it; the interleavings of the two are SlotDrv's.

### Supervisor

What the manager promises of its units, with no lists, queues, timers or signals:
a unit that has a process gets no second one (`Start`); a process may be asked to
end, and is then given up only after it has ended (`Ask`, `End`, `Release`); a
slot's card in the driver changes under no process that runs. The end of PrcMng
instantiates it: `SupWorks` reads a unit's process off the object it points at,
`SupAsked` the state of that object, `SupEnded` the kernel's zombies.

### The parts

The parts below share no state with the manager, the slot table or each other.
Each is a module; `MCParts` runs them in one instance, a behaviour being one of a
single part (`part`), so that nothing is multiplied.

| module | code | state and actions |
|---|---|---|
| `CoreInit` | `dmd.c` and the constructors and destructors it calls | a cursor over the stages of `dmd_init` and `dmd_exit`; each stage made (`CoreMake`), failed (`CoreFail`, with the device's own destructor) or undone (`CoreUndo`) |
| `UdfMod` | `udf_drv.c`, `udf_main_init`, `udf_bh_online` | `s_init_step` and the module's things; the device's things and the step of `udf_online` or `udf_offline` under way, with a failure at each |
| `ThBh` | `th`, `th_lib`, `bh`, `bh_lib` | the steps of `udf_th_open` and `udf_th_release` in the three builds, the two error labels, and the download |
| `UserIrq` | `udf_isr`, `slot_int_handler`, `udf_th_read`, `udf_poll`, `udf_read` | an interrupt from the card to the process, in the build with the handler in the kernel and in that with it in the process |
| `CPList` | `cplist.h` | the next and previous pointers, the calls that store them, and `listForEachSafe` with a body that unlinks or moves |
| `Sifp` | `slot_info_fast_path.c` | a slot's mutex and callbacks against a card that comes and goes |
| `SysFunc` | `sys_func_set.c` | the offline bits, processes that poll and read, two registers |
| `MainDev` | `pdm/driver/src/file_op.c` | the ioctls and write commands over the slots' types |
| `RegsInfo` | `regs_info_dev.c`, `pdm_drv_hw.c` | position and copy of a raw access |
| `FpgaLoader` | `fpga_loader.c` | the load, with the FPGA it drives and sleeps that may be cut short; the next load finds the FPGA as the one before left it, DONE, still starting, or with an image that is not good |
| `TimeSpec` | `ukc_usr/ukc_delay.c` | split, sum, normalisation and sleep of a delay |

`AllOrNothing` is the promise of every pair of a start and a stop, and `CoreInit`,
`UdfMod` (twice: the module and the device) and `ThBh` are checked against it.
What counts as kept is the refinement mapping: a start under way keeps nothing
yet and a stop under way still everything, so that what is really there is
compared at the moment each returns. `Lists` is the sequences of ListOps as a
specification; CPList refines it, each list being its elements in the order of
the next pointers.

### MCPrcMng, MCSlotDrv, MCParts

Instances: sequences of units and objects, and the symmetry of card types.
MCSlotDrv's symmetry is used in a run with invariants only. PrcMng's runs use
none: units are ordered by the sequences that name them.

## Runs

| run | asks | bounds |
|---|---|---|
| `prc_cards` | all invariants of the manager, and the two action properties | one static unit, one slot, two card types, two objects, two pids; fork and online may fail |
| `prc_no_kill` | does `Stop` leave a child behind when `-k` turned killing off during the run, also for a second manager; does every step implement `Supervisor` | one static unit, one slot, one restart |
| `prc_live_cards` | does a removed card go offline, and a stable card run | one slot, two card types |
| `prc_live_static` | is a dead static process restarted, a silent one killed | two static units, so that the queue can be blocked by its head |
| `prc_del_assert` | the assertion in `CListHeader::del` (violated) | one slot |
| `prc_term_assert` | the assertion in `signalTerm` (violated) | one static unit |
| `prc_online_assert` | the assertion in `handleNewType` (violated) | one slot, one restart |
| `slot_main` | the safety of the core and the frame | one slot, two card types, initialisation may fail |
| `slot_live` | does every call return, is every interrupt served | one slot, one card type |
| `parts` | does each of the eleven parts keep its promise, with a failure at every step that may fail | two list heads with three nodes; two processes at the fast path and at the offline bits; amounts on both sides of every carry; a window of 4 registers in 9 addresses |
| `slot_isr_arg` | `pdm_drv_ext.h` on the isr's argument (violated) | one slot, one card type |
| `slot_reg_fail` | `pdm_drv_ext.h` on a failing registration (violated) | one slot, one card type |

What the properties say is written above each of them in the modules. In short:

* `ListsMatchState`, `Association`, `ChildrenTracked`: lists, objects, units and
  the kernel's children never disagree, whichever of SIGCHLD, the kill timeout
  and `Stop` reaps a child.
* `StartQueueOk`, `NothingForgotten`, `TimersArmed`: the start queue and the
  timers; `NothingForgotten` names the one exception, a slot whose online the
  driver refused. `StableCardRuns` is checked where it refuses none; what becomes of
  a unit whose second online is refused is `prc_del_assert`.
* `NormalHasCard`, `DriverAgrees`, `OfflineOnlyWhenDead`, `OnlineFiltered`: the
  slot's card, its process and the driver.
* `NoSurvivor`: after `Stop` no child is left that was not sent SIGKILL.
* `RemovedGoesOffline`, `StableCardRuns`, `StaticRestarted`, `SilentKilled`:
  what the manager must eventually do.
* `NoUseAfterFree`, `DevAgrees`, `IrqOwned`, `SpuriousOnce`: the driver side.
  `NoUseAfterFree` is about the device and the code of each call and handler, and
  about the data of calls on an open file; the data of a handler is what `DataFaultNeedsClose` is about.
  A handler that is under way when the interrupt is disabled may unmask it once
  more; that is the most that happens.
* `MutexesOwned`: no return, early or not, leaves one of the three mutexes locked
  behind it.
* `OpsComplete`, `InterruptServed`: no deadlock among the three mutexes, no
  order of enabling, handlers and work items in which an interrupt is lost.

* `Supervised`: PrcMng implements Supervisor.
* `CoreAllOrNothing`, `UdfAllOrNothing`, `ThAllOrNothing`: whichever step fails, a
  start leaves nothing behind, and a stop neither. `LiveIsReady`, `UndoneOnce`: on
  the way no device is live without its data, and what the exit of the core
  undoes in vain is never a number, a class or a mapping.
* `CpRefinesLists`, `LoopSeesAll`: the pointers of `cplist.h` are the sequences the
  manager's model uses, also when a loop's body changes them.
* `CallbackLive`, `MainSlots`: the fast path calls nothing of a card that is gone;
  the device file cannot take the core itself away.
* `OfflineNotified`, `IrqReachesProcess`: a notification, and an interrupt, is read
  in the end by a process that waits for it. The invariants that make
  it so, `NoneSleepsOnBits` and `IrqNotForgotten`, are proved: at every moment somebody
  is on his way to what is left to do. TLC checked them on the instance of `parts`
  before.
* `LoadResult`, `SleepFull`, `RegsBounds`: what the callers of the loader, of the
  delays and of raw access rely on. Each names what the code lets happen and does not
  count it: `LoadResult` an image that is DONE only after the last look, or after a
  clearing cut short; `SleepFull` a sleep that a signal cut short; `RegsBounds` the one
  byte after an odd length; and `ThAllOrNothing` the mapping that an open leaves behind
  when the constructor fails. The `hazards` of `PROJECT.json` say so where they bite.

### Bounds, and why they are enough

* *Two card types* are what it takes to replace a card by another.
* *One slot in SlotDrv*: the driver's ioctl serves `ETIN_SLOT_SELF` alone. Slots
  share only `s_card_type_mutex` and the loops of register and unregister. What
  several slots would add is that a failed `cb_online` of one slot is hidden by
  the success of a later one; the comment on `DevAgrees` says so.
* *Two static units* put one behind another in the start queue. One static unit
  and one slot share the pool, the pids and the lists.
* *As many objects as units*: `sInitPool` makes that many, and ListAssumption
  says it. *As many pids as objects*: fork reuses pids as early as possible,
  which is the case where confusion of an old and a new child would show.
* `ONLINE_FILTER_COUNT` is 3 in the code and 1 or 2 here: below, at and above
  the limit are still different readings.
* `DIFF_SPV_HELLO` is 5 and 1 here; `SPV_HELLO_FACTOR` is 6 and 1 or 2 here. 2
  is needed where liveness depends on several hellos in a supervision period.
* `MaxMissed` caps unanswered hellos above the limit at which the process is
  killed; `MaxAhead` caps answers in advance of hellos, and is 0: an answer that
  nobody asked for changes only when a process counts as silent. `MaxRestart`
  caps managers after the first. `MaxSpurious` caps interrupts counted after a
  disable, above the one that SpuriousOnce allows.
* `slot_live` has one card type and no failing initialisation; the exclusion of
  types is a safety matter, and `slot_main` has it. `prc_live_*` have one kind of
  unit each: the two share only the start queue, which is a queue in both.

* `parts`: the stages of a start are those of the code, all of them, so there is no
  bound on these. Three nodes put one in the middle, two heads are what `accept`
  moves between. Two processes are what it takes for one to read the bits that woke
  the other. `MaxPoll` is 500 in the code and 3 here, and the FPGA may be done
  before, at or after the last look, or never. `MaxLost` caps the mappings that
  failed opens leave behind. Delays are taken on both sides of each carry, from
  clocks on both sides of a second. The addresses of RegsInfo are few, with an odd
  base, so that even and odd starts fall on every edge of the window; `MaxRawPos`
  is past the end of the file, where reads may leave the position.

### Fairness, and why the code justifies it

PrcMng: a `waitpid` or supervision loop that was begun goes on. The event loop
serves a timer or signal that is ready again and again (strong fairness: while it
is inside another callback the action is not enabled, and the loop polls every
descriptor). A process that was sent SIGKILL ends. fork does not fail for
ever; without this nothing would ever be started. A slot is polled again and
again, and for a card that stays this means equal readings. Nothing makes a child
obey SIGTERM, answer a hello, or end.

SlotDrv: a call that was begun goes on, and one that waits for a mutex gets it in
the end (kernel mutexes queue their waiters, hence strong fairness where a lock
is waited for). An interrupt that stays asserted and unmasked is taken, a pending
work item is run. Nothing makes a process call anything, a card assert its
line, or the shell load a driver.

parts: a process that polls and reads goes on (weak fairness on its loop); an
interrupt that stays asserted and unmasked is taken, and pending work is run.
Nobody has to notify, assert an interrupt, open or close.

## Disagreements found

* **`prc_del_assert`**: the driver refuses the online after the process of the
  card before has ended; `subStop` (`dynamic_prc_info.cpp:140`) returns before
  the unit is queued but keeps `m_cardType`. The unit is never started, and when
  the card is removed it is unlinked from a queue it is not on, against the
  assertion of `cplist.h:50`.
* **`prc_term_assert`**: `Term4Stop` (`prc_mng_info.cpp:48`) signals units
  whose child was sent SIGKILL already; `rt_prc_info.cpp:232` asserts that none
  is.
* **`prc_online_assert`**: `sStop` (`dynamic_prc_info.cpp:359`) leaves a card
  online whose process waits to be started; the next manager's online is refused,
  against the assertion of `dynamic_prc_info.cpp:242`.
* **`slot_isr_arg`**: `slot_int_handler` (`pdm_drv_ext.c:644`) reads `isr` and
  `arg` again after testing `isr`, while `pdm_free_irq` clears both without
  `slot_mutex`. `pdm_drv_ext.h:61` promises the argument to the isr.
* **`slot_reg_fail`**: `pdm_reg_online_offline_cb` (`pdm_drv_ext.c:185`) saves
  the callbacks of a registration it reports as failed; the module then goes.
  `pdm_drv_ext.h:40` presents the result as the way to discover the failure.

One more defect has no run, because no document denies it plainly: `udf_isr`
(`template/ukcDrvFrame/src/file_op.c:366`) passes `m_pData` on without a test, so a
handler that waits for `m_mutex` while `udf_release` (230-231) frees the data calls the
driver's handler with NULL. In the build with the driver in the kernel `udf_th_isr`
(`th/udf_dth.c:142`) hands the NULL to the driver's own code; in the build with a
process `udf_bh_isr` (`bh/udf_dbh.c:71`) ignores its argument. `WorkIsr` does as the
code does (`oops = "data"`, which TLC reaches), and `DataFaultNeedsClose` says exactly
when it can happen.

The invariants of `slot_main` hold in the presence of the last two, and of this: they are
stated for the states in which no such pointer was followed (where a driver's
handler copes with NULL they go on to hold), and
`NoUseAfterFree` exempts exactly the driver whose callbacks were left behind.

## Proofs

`PrcMngProofs` proves, for every value of the constants that satisfies
`ListAssumption` (lists of distinct units and objects, as many objects as units,
static and dynamic units apart), `NullAssumption` (NULL is none of them) and
`BoundAssumption` (the ranges of the numbers):

| theorem | statement |
|---|---|
| `InvHolds` | `Spec => []Inv` |
| `TypeCorrect` | `Spec => []TypeOK` |
| `ListsAgree` | `Spec => []ListsMatchState` |
| `AssociationHolds` | `Spec => []Association` |
| `NoChildLost` | `Spec => []ChildrenTracked` |
| `QueueHolds` | `Spec => []StartQueueOk` |
| `OfflineAfterDeath` | `Spec => OfflineOnlyWhenDead` |

None of the five invariants is inductive alone. That a released object goes back
to the pool, and nowhere else, needs the lists to partition the objects; that
`BuryOne` finds the object of a pid, and that a start finds an object in the
pool, needs the association and the tracking of children; and that a card that
goes away leaves the queue well formed needs the queue's invariant, which in turn
needs the association. `Inv` is therefore their conjunction, with the types:

* `RtInv`: types of the objects, the four lists partition them, an object is in
  the pool exactly when its state is NULL, `Association`, `ChildrenTracked`;
* the types of queue, timers, slots and control variables, and `StartQueueOk`;
* `LoopInv`: what the loop variables hold while a loop runs;
* while callbacks run, each object is on the list of its state (`StateOnList`);
  `Stop` changes states without moving objects, so this part ends there.

The argument goes by helper and not by action: there is one lemma for what a capture,
a release, a signal, a unit's stop and an addition to the queue do to `RtInv` and
to the queue, whichever callback makes it. Each action then has one lemma that cites those;
`NextInv` combines them by cases of `Next`. `OfflineAfterDeath` follows from
`Inv`: the only steps that empty a driver's slot come after the release of its
object, or find the unit without one.

`SupervisorProofs` proves `ImplementsSupervisor`, `Spec => Supervised`. The mapping
is a function of the state, so each action of the manager is shown to be a step of
Supervisor or to leave `SupWorks`, `SupAsked`, `SupEnded` and the driver's slots as
they are. `Inv` is what this needs: that a start takes an object nobody points at is
the pool's part of it, that a reaped child is the one its unit had is the
association and the tracking of children, and that a card changes under no process
is `OfflineAfterDeath`'s argument.

`PrcMngSafety` proves the rest of the manager's safety from that `Inv`:

| theorem | statement | argument |
|---|---|---|
| `TimersRun` | `Spec => []TimersArmed` | inductive with `Inv`: a list becomes non-empty only through a helper that starts its timer, and a timer is stopped only by a step that leaves its list empty |
| `NoneForgotten` | `Spec => []NothingForgotten` | inductive with `Inv`, unit by unit (`Remembered`): a unit loses its process only in `stop`, which queues it or empties its slot |
| `NormalImpliesCard` | `Spec => []NormalHasCard` | inductive with `Inv`: a card goes away in the step that terminates its process |
| `DriverKept` | `Spec => []DriverAgrees` | inductive with `Inv` and `NothingForgotten`, slot by slot (`Agrees`) |
| `FirstNotRefused` | `Spec => [](restarts = 0 => OnlineNotRefused)` | from `DriverAgrees`: the violation of `prc_online_assert` needs a second manager |
| `OnlyStopTermsKilled` | `Spec => [][`a step other than the beginning of `Stop` keeps `KilledStays]_vars` | an action property, from `Inv`: what `prc_term_assert` shows is done by `Term4Stop` alone; a termination asks for the state NORMAL, a start takes its object from the pool |
| `CrashNeedsRefusal` | `~OnlineMayFail` gives `Spec => []DelIsLinked` | from `NothingForgotten`: the violation of `prc_del_assert` needs a refused online |
| `NoneSurvives` | `Spec => []NoSurvivor` | `NoSurvivor` speaks of the end of `Stop` only; inductive is `AllKilled`, which says of each phase of `Stop` and of each restart what is left alive |
| `OnlineIsFiltered` | `Spec => OnlineFiltered` | an action property; `FilterLink` ties the type that is being filtered and its count to the readings the air gave |

`AllKilled` and `FilterLink` were invariants of a run on the instance of `prc_cards`
(2,087,040 states) before they were proved.

`SlotDrvProofs` is about any number of slots and card types (`SlotAssumption`:
at least one slot, NULL is no type, and `MaxSpurious` above the one interrupt that
OneSpurious is about):

| theorem | statement |
|---|---|
| `InvHolds`, `TypeCorrect` | `Spec => []Inv`, `Spec => []TypeOK` |
| `MutexesExclude` | `Spec => []Exclusion`: whoever stands in a critical section holds its mutex, and only one does |
| `NothingFreedInUse` | `Spec => []NoUseAfterFree` |
| `InterruptsOwned` | `Spec => []IrqOwned` |
| `OneSpurious` | `Spec => []SpuriousOnce` |
| `DevicesAgree` | `FailureIsKept` gives `Spec => []DevAgrees` |
| `DevicesHaveCards` | `Spec => []NoStrayDevice`, the half of `DevAgrees` that needs no hypothesis |
| `GoneNeedsFailure` | `~MainInitMayFail` gives `Spec => []RegisteredIsLoaded` and that no callback of a module that is gone is called |
| `MutexesHaveOwners` | `Spec => []MutexesOwned` |
| `NeverAllWait` | `Spec => []SomeOwnerGoesOn`: whenever a mutex is locked, the owner of one stands at a step that waits for none |
| `IsrFaultNeedsClose` | `Spec => [][`a call through NULL `=> LateCall]_vars`: it happens only for a slot whose file is closed, being closed or being opened |
| `DataFaultNeedsClose` | `Spec => [][`a driver's handler called without data `=> LateIsr]_vars`: it happens only to a handler that waited at the start of `udf_isr` and for a slot whose file is closed |

The inductive invariant is
`Inv == TypeOK /\ LockInv /\ CallInv /\ IrqInv /\ WorkInv /\ SpuriousInv`.
`LockInv` says which program counters hold which mutex; `CallInv` what each of the
manager's call, the shell's call, a process and a device may rely on at each of its
steps, which needs the mutexes; `IrqInv` ties isr, argument and enabled interrupts to the file
that is open, although no mutex protects them: it holds because only the slot's own
process and its offline write them, and the offline comes after the process has ended;
`WorkInv` and `SpuriousInv` bound what a handler under way can still see. There is
one lemma per part of `Inv` and actor, and a frame lemma for what an actor leaves
alone. TLC checked `Inv` as an invariant with one slot and two types (2,717,184
states) before it was proved.

`DevAgrees` holds with one slot, or where no `main_init` fails, and `FailureIsKept`
says so. The hypothesis is needed: `pdm_reg_online_offline_cb` returns the result
of the last slot only, so with two slots a failure at the first is lost and its
card has no device, which TLC finds with two slots and `MainInitMayFail`. The strengthenings
`RegInv` and `CardHasDev` were checked with one slot and failures (1,359,408
states). `GoneNeedsFailure` is the converse of the run
`slot_reg_fail`: the driver is left registered only by a failure.

`LockInv` says that whoever stands in a critical section has its mutex locked.
`MutexesHaveOwners` is the other direction, and inductive together with `Inv`: the
step that locks is one that goes on to own, and each way out unlocks. From it
follows the safety half of `OpsComplete` for any number of slots and types
(`NeverAllWait`): an owner of s_card_type_mutex waits at most for slot_mutex, an
owner of slot_mutex at most for m_mutex, and an owner of that for nothing. Which
steps may wait is read off their guards (`MgrWaits`, `ShellWaits`, `WorkWaits`).

`IsrFaultNeedsClose` is the converse of the run `slot_isr_arg`. `IsrStands` says that
from the end of `udf_open` to the first store of `pdm_free_irq` the isr and its
argument are there, so that the two unlocked reads of the handler can differ only
once the close has got that far. `DataFaultNeedsClose` is the same for the data of a handler:
by `DataStands` the data is there from `udf_open` to the end of `udf_release`, and since
`udf_isr` takes `m_mutex`, which open and release hold, a handler without data finds the
file closed. `DataStands` also gives `NothingFreedInUse` its part about data.

The driver's parts:

| module | theorem | statement | argument |
|---|---|---|---|
| `PartsProofs` | `CallbacksLive` | `SpSpec => []CallbackLive` | `SpInv`: one process at a time is in a callback, with the mutex; what is registered belongs to the device that is there; so clearing waits for the callback, and the device goes after it |
| | `SlotsKept` | `MdSpec => []MainSlots` | inductive with the types |
| | `LoadTold` | `FlSpec => []LoadResult` | `LoaderAt`: what the FPGA is at each step of the load, and how much of the image it has |
| | `DelaysLast` | `TsSpec => []SleepFull` | `TsAt`: each turn of the normalising loop carries one second, so the sum is the same; a normalised time is one nanosleep accepts |
| | `RawWithinWindow` | `RiSpec => []RegsBounds` | the registers that a position and a length cover are an interval (`WantedIs`), and the two loops copy it, from an even and from an odd start |
| | `NotificationsWake` | `SfSpec => []NoneSleepsOnBits` | inductive with the types: a process goes to sleep in the step that finds no bits, and a notification wakes all of them |
| | `IrqsAreLookedAfter` | `UiSpec => []IrqNotForgotten` | `UiInv`, with `IrqAgent`: who is to do what is left, at each step of either build |
| | `PartsTypes` | `PartsSpec => []PartsTypeOK` | the types of each part, proved with its other invariants or alone |
| | `PartsKeepAll` | under `PartsSpec` every invariant and refinement of the parts | `EachPart`: a step of PartsSpec is a step of one part and a stutter of the others |
| `StartStopProofs` | `NothingHalfMade` | `UdfSpec => UdfAllOrNothing` | `UInv`: `s_init_step` counts what the module has, and each step of an online or offline knows exactly what the device consists of |
| | `CoreAllThereOrNot` | `CoreSpec => CoreAllOrNothing` | `CoreInv`: what is held are the stages made so far, or those not undone yet; the lemmas on the two orders say what comes before what |
| | `DevicesReady` | `CoreSpec => []LiveIsReady` | from `CoreInv` |
| | `OnceUndone` | `CoreSpec => []UndoneOnce` | from `CoreInv` |
| | `OpenOrNot` | `ThSpec => ThAllOrNothing` | `ThInv`: tables of what each build has at each step of an open and a release, whose lemmas are checked against the steps themselves |

The three refinements of AllOrNothing share one argument: what is kept is nothing or
everything in every state (from the inductive invariant), and a step between two such states is
a start, a stop or neither.

`CPListProofs` proves of the pointers of `cplist.h`, for any number of heads and
nodes (`CpAssumption`: NULL is none of them, no head is a node, the nodes are finitely
many):

| theorem | statement |
|---|---|
| `PointersAreLists` | `CpSpec => CpRefinesLists`: each call, also in a loop's body, is the step of Lists on the sequences seen through the next pointers, or none |
| `LoopsSeeAll` | `CpSpec => []LoopSeesAll` |

A list is a ring: each header's next pointer leads to the next place (`Forward`), and
the previous pointers back (`Backward`). That is needed for the refinement although
Lists speaks of next pointers only, because `addTail` finds the end of a list by the
head's previous pointer and `del` finds its neighbour by the node's. The lemmas `DelRing` and `AddRing`
say what `sIntDel` and `sIntAdd` make of one ring, for any pointers;
`DelRings` and `AddRings` that the other rings are not touched, because no header is on
two; `DelStep`, `AddTailStep` and `AcceptStep` compose them to the calls. `Walk` is a
recursive function; that it finds exactly the nodes of a ring (`WalkIsRing`) is an induction over the naturals,
which `NatSetInduction` gives for a set of naturals, from the library's theorem that
`<` is well-founded. `LoopAt` is the loop's part of the invariant: the nodes it has not
been at are the last ones of its list, in the order they had, so pN
is still right after the body.

Assumptions on constants: `CpAssumption` (above), `LostAssumption` (`MaxLost` is a natural number), `SifpAssumption` (NoType is no type), `MaxAssumption`
(`SlotMax` and `TypeMax` at least 2), `LoaderAssumption` (at least one look at DONE, an
image of any size), `SleepAssumption` (the units and amounts that callers pass, and clock readings
that are normalised), `RawAssumption` (window, position and length are natural numbers, and `MaxRawPos`
lies past the end of the window's file).

Model-checked only is liveness, which is beyond this prover: `OpsComplete`,
`InterruptServed`, `OfflineNotified`, `IrqReachesProcess`, `RemovedGoesOffline`,
`StableCardRuns`, `StaticRestarted`, `SilentKilled`. Every invariant and every action
property of the passing runs is stated by a theorem, `DevAgrees` under the
hypothesis above.

## Plan

Done: the manager, the slot table with the driver frame, the eleven parts, the
abstract specifications (Supervisor, AllOrNothing, Lists) and the proofs above.

Worth modelling next: a manager that dies without `Stop`, composed with SlotDrv.

## Not modelled

* Slot converter, network setup, register macros, portability headers, build
  files and the example driver: no state, or decided by the compiler.
* Log text and name tables, in every module.
* `sHandleCardChange`: its producer in the driver is compiled out.
* The version strings, the address-space queries and the queue-work self test of
  `pdm_drv_ext.c`; mmap of the driver frame, of the core and of the raw registers,
  which hands pages to the kernel and keeps no state.
* ioctls of the halves that are passed on to the user's part of a driver as they
  are, and the user's part itself.
* The simulation of the registers (`pdm_drv_sim.c`), which only a test build has.
* A manager that dies without `Stop` (except on the assertion of `prc_del_assert`,
  after which Supervisor's `NewManager` is all that is promised): nothing in the code guards against the next
  one, which takes slots off line under children that still run. The models let it
  end through `Stop` only.
* A second open of one process through `th_lib`, which remembers one mapping only.
* What `munmap(NULL, mem_size)` takes away (`th_lib/udf_dth.c:95`, after a mapping that
  failed): the model takes it to be nothing, which assumes that a process has nothing in
  the first `mem_size` bytes of its address space, as on the p2020 board.
* Work items that are pending when the core's module is removed (`dmd_exit` does
  not wait for them), and an open between `device_create` and the initialisation
  of the device's mutex: the models have every open after the online, as the
  manager's order of calls makes it.
