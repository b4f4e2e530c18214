# BMS-APP: a verification project

BMS-APP is the firmware of a battery pack (13 cells, N32L40x microcontroller,
KC81710H analog front end). It measures cells, decides whether the charge and
discharge FETs may be on, coordinates up to several packs on one CAN bus, and can
be updated over that bus. This directory holds TLA+ models of its control logic,
TLC configurations that check them on small instances, and TLAPS proofs.

Everything is modelled from the code in `src/BMS` in the configuration its
headers select: `MULTIPLE_PARALLEL`, `CAN_AND_PROTOCOL`, `CAN_OTA_SL`,
`BOOTLOADER`, `SOC_SUPPORT`, `AFE_MODEULE` and `KEY_TO_LED` are defined;
`BMS_SLEEP_FUNC`, `DIS_MOS_FORCE_CONTROL`, `UART_CLIENT`, `LAB_TEST_MODE` and
`ADDRDEFINE` are not. The repository has no tests; its documents are the
comments and `src/README.md` (front-end settings). Comments and documents are
used only as statements that the code can agree or disagree with.

## 1. The system

### How it runs

`main` (Main.c) is an endless loop over a fixed list of tasks:
`TaskTickUpdate`, `MiscRun`, `PowerSafeCheck`, `KeyCheck`, `BatCheck`,
`ChgCtrl`, `DisCtrl`, `BmsCtrl`, `AndCanCtrl`, `CanCtrl`, `AfeRun`,
`UartBwCtrl`, `PowerCtrl`, `LedCtrl`, `SocCtrl`, `OtaSlJudge`, `BootJudge`.
`TaskTickUpdate` raises one flag per task every 10 ms and a task returns at once
when its flag is down. Only three interrupts touch shared state: the 1 ms tick
(`SysTickTimer`), the CAN receive interrupt (`AndRxQueue`) and the USART
(`BootReceive`, the UART buffers). There is no scheduler and no lock; tasks
communicate through global flags (`BatStatus`, `BatData`) that they set and read
in the order of the list. A watchdog resets the controller after 2 s; the front
end keeps its registers through that reset.

### Components

| component | state | operations | what makes it correct |
|---|---|---|---|
| Main loop, time base (Main.c, n32l40x_it.c) | `SysTickTimer`, `TaskTick1ms`, the task flags | tick interrupt, `TaskTickUpdate` | no time counted twice, the beat is kept |
| Switch sequencing (BmsCtrl.c) | `BmsWorkMode`, `PreDisStep`, `PreDisTimer`, `Pdmos`, `Dmos`, `Cmos` | `BmsModeCheck`, `BmsMosCheck`, `BmsMosAction` | main FET only after the pre-discharge, the resistor only for its time |
| Discharge control (DisCharge.c) | `Dis`, `DsgAble`, discharge protections, reset timer | `DisCtrl`, `DisMosAbleUpdate`, `SetDisResetState` | a faulty pack does not discharge; hysteresis |
| Charge control (Charge.c) | `Chg`, `ChgAble`, charge protections, plug-in state | `ChgCtrl`, `ChgPlugInCheck`, `ChgMosAbleUpdate` | a faulty pack does not charge; power-off is not undone |
| FET driver (AfeModule.c) | `LastCmd`, `predisflag`, the registers of the front end | `AfeFetCtrl`, `AfeSetMosfet`, `AfeFetForceClose`, `AfeInit` | what is on was asked for; off is reached |
| Front-end scan (AfeModule.c, kc81710h.c) | measurements, `AfeErr`, alarm latches | `AfeModuleRun`, reads | fresh data or `AfeErr` |
| CAN queues (queue.c) | ring of messages | push back / front, pop | FIFO in spite of the interrupt |
| Vehicle protocol (AND_CAN_Protocol.c) | `AndCanInfo`, time-outs, periodic frames | `SlCanBmsReceiveProcess`, `AndCanTransmitProcess` | commands take effect once and in order |
| Parallel packs (multiCan.c, candrv.c) | address, table of packs, `MtBmsAllow` | address negotiation, `MtBmsControlJudge`, `HandleCompCur`, `CheckCanOffLine` | distinct addresses; never two packs at different voltage closed together |
| Update over CAN (CanOtaSL.c) | frame buffer, header, page buffers, flash, `BootMark` | `OtaSlReceiveProcess`, `OtaSlReceiveDecode` | only a whole image is booted; an update ends |
| Boot-loader entry (GotoBoot.c) | `bootRxCount`, `bootBuf`, `BootGotoFlag` | `BootReceive` (interrupt), `BootJudge` | frame not torn; an accepted update reaches the loader once; FETs off before the jump |
| Power off, low voltage (PowerCtrl.c) | `PowerOffTimer`, `ShutDownTimer`, low-voltage timers | `MiscRun`, `PowerOffCtrl`, `PowerLow...` | a requested power-off ends off, and not before the announced delay |
| Key and inputs (key.c) | key debounce, `KeyOn`, `reqPowerOffFlag`, `DetIn` | `KeyScan`, `KeyCheck` | a key turned off turns the pack off, whatever else is going on |
| Production test (UartBW.c, CanBW.c) | force-control timer | `FuncATE`, calibration commands | control given back |
| Measurements, calibration, balancing, SOC (BatterCheck.c, Calib.c, Balance.c, soc.c) | averages, coefficients, capacity | pure computations once per period | ranges, no drift, no division by zero |
| Persistence (DataFlash.c, interface.c, logsave.c) | two flash pages | `DataRecInit`, `DataLogPwrOffSave`, factory reset | a crash leaves the last save or nothing; nothing stale is believed |
| Not built or pure I/O (UpgradeCan.c, SoftWareCRC.c, McuHal_N32L40X.c) | | | |

`src/CMSIS`, `src/n32l40x_std_periph_driver`, `src/Project` and `src/SI` are the
chip vendor's libraries and project files.

### What is hard to test here

The hazards, each at its line, are listed in `PROJECT.json`. The ones that
decide the shape of the models: the order of tasks within a pass while flags
change between them; a pre-discharge sequence over many passes that is broken
off at any point; a front end that takes half a command or keeps its FETs through
a reset; interrupts between two accesses to a queue or a counter; an update whose
packets are lost, repeated, or cut off by a reset; hysteresis state that is
updated on some passes only; two packs that decide on each other's last report;
countdowns that several parties start, hold up and clear; a flash page that is
erased before it is written.

## 2. The modules

| module | models | proofs |
|---|---|---|
| `MosCtrl` (`MCMosCtrl`) | one pass of the main loop, task by task, for everything that reaches the switch commands | `SwitchProofs` |
| `CanAddr` (`MCCanAddr`) | the address negotiation of packs in parallel | `CanAddrProofs` |
| `FetDriver` | the last hop: register writes that fail, forced close, restart | `SwitchProofs` |
| `DisMosAble` | `DisMosAbleUpdate`, the hysteresis behind `DsgAble` | `MosAbleProofs` |
| `ChgMosAble` | `ChgMosAbleUpdate`, the one behind `ChgAble`, and what the parallel control does to it | `MosAbleProofs` |
| `MosAble` | the two composed: one current, common bans | `MosAbleProofs` |
| `MtControl` (`MCMtControl`) | `MtBmsControlJudge`: packs that join, leave and change roles on one bus | `MtControlProofs` |
| `PowerKey` | the key, the power-off requests and their countdowns | `PowerKeyProofs` |
| `DataFlash` | the page that survives a restart, and the way into the boot loader | `DataFlashProofs` |
| `RingQueue` | queue.c with the CAN interrupt | `InterruptProofs` |
| `Fifo` | what a queue promises; `RingQueue` refines it | `InterruptProofs` |
| `SysTick` | the tick interrupt and `TaskTickUpdate` | `InterruptProofs` |
| `OtaFrame` (`MCOtaFrame`) | reassembly of update packets from CAN frames | `OtaProofs` |
| `OtaTransfer` (`MCOtaTransfer`) | what is done with the packets: pages, flash, commit | `OtaProofs` |

**MosCtrl.** `pc` is the task that runs next; each task is one action, because
the main loop is not pre-empted by anything that touches this state.
`AndCanCtrl` may also run between passes: the CAN queue is polled in every turn of
the loop, not only on the tick. The state is the flags of `BatStatus` and the
statics of `BmsMosCheck` and `DisClearResetState`. Voltages, currents and
temperatures are not held; a check on them is a choice over what it can conclude.
The protections are reduced to what they stop (`Faults`). `preRun` is a history
variable: how many passes the pre-discharge has been on.

**FetDriver.** `AfeFetCtrl(ok)` is a call whose register writes succeed or fail;
`AfeSetMosfet` lists what a call may leave behind, including the half-done one.
`Command` stands for everything before it. Restart is a watchdog reset: the
statics start over, the register stays, `S17H_init` gets as far as the bus lets it.

**DisMosAble.** One step is one 10 ms pass; the four parts of the function are four
operators, each applied to the state the one before has left; `odd` only makes a
pass that changes nothing else a step, so that passes can be counted on. The u8 counters
saturate in the model one above the threshold: `count++ > 30` is then true and
stays true for the 225 further values of the byte, and wherever the real counter
could wrap, the path that reads it has already reset it or does not depend on it.

**ChgMosAble, MosAble.** `ChgMosAble` is written like its twin. Two things differ:
the u8 count of its lock is read on paths that do not reset it, so it wraps
(`Span`); and the parallel control sets `ChgAble` and clears the lock behind its
back (multiCan.c:1117), which is the input `regrant`. `delaychgdisable`
(Charge.c:784) is never waited for, since its branch needs the lock, and is left
out. `MosAble` drives both updates from one measured current, in seven classes cut
by the thresholds of both, and lets a hardware fault ban both directions. `flow`
is a history variable: for how many passes charge current has been flowing into a
banned pack through its own FET.

**MtControl.** `MtBmsControlJudge` of every pack with the table of reports it
keeps. A step is a round, in which every pack measures, judges on the last report
it has of the others, and switches, after which each report arrives or is lost
(the delays of the code, 50 to 200 passes, are counted in rounds). So all packs of
a round decide on each other's state from before: the worst case of crossing
reports. Between rounds the world changes: load or charger, protections, the flags
of an overload, plug, voltages, a new negotiation, a restart, a key. `over` holds
the packs with `DisSC` or `DisOC`: rule 3 reads the flags, and while they stand
neither direction is on (`Dis`, `Chg`: `DisStopFlag` and `ChgStopFlag`). A host's
command or a restart clears them, nothing else does: the release after
`DIS_OC_RELEASE_DELAY` is compiled out (`#if 0`, DisCharge.c:365-433). A pack's current follows from what
hangs on the bus, which FETs are on and the voltages, and is one of five classes.
Left out: what the code does while the CAN bus itself is broken (multiCan.c:1273-1307), the compensation of `HandleCompCur`, the
synchronised key (its effect on the key is in `PowerKey`), and the sleep
negotiation.

**PowerKey.** One action is a task of a pass, in the order key, charge, hosts,
power. `ChgPlugInCheck` is modelled by what it concludes, not by its debouncing.
Commands come over any of the three test or vehicle channels, up to
`MaxCommands` of them. `notice` and `promised` are history variables: passes since
a power-off was asked for, and the shortest delay a request has announced. The
cut of the supply is final. Left out: the light sleep, `PowerSafeCheck` (a
backstop on voltages), and the button of the lamps.

**DataFlash.** A page is four words: boot mark, length (with checksum) of the
image, the record (power mark, state of charge, locks) and the sum over the last
two. Erasing and programming a word are steps of their own, between which the
supply may fail; a flash operation may also fail for good, which no caller looks
at. The application's part is a turn of the main loop in the order CAN, UART,
power, state of charge, `BootJudge`. `BOOT_MARK_ADDR` (GotoBoot.c:34) is the same
page as `POWER_DOWN_SAVE_ADDR`, so after a serial update a start writes the page
twice. The boot loader is external: it starts the application and leaves the page
alone. `last`, `torn`, `final`, `wanted`, `undone`, `faulty` are history variables.
The request of a serial update (`BootReceive`) is a choice, and the page of the
calibration, whose sum is computed but never compared (DataFlash.c:63), is left
out.

**RingQueue.** A push is atomic (the interrupt is not interrupted by the main
loop). A pop is one step per access to shared memory. A message is two halves, so
that overwriting one while it is copied would show. `shared` chooses between
`AndRxQueue` (interrupt and main loop) and `AndTxQueue` (main loop only, both
ends) and never changes.

**CanAddr.** Several packs and the bus between them. `Tick` is one pass of
`MTCanCtrl` (announce, rank, or report), `Receive` one frame through
`BroadcastMessage`. All packs run at one rate with any phase: in each period each
runs one pass, in any order, and a frame arrives before the next pass of its
sender or is lost, which is what 10 ms leave room for. `BroadcastMark` counts in
the model from 0 (none) without the offset 0x5a. A CAN error (`CheckCanOffLine`)
and the key turned on again drop the address and the mark, and leave the delay and
the check sums heard as they are: `Drops`. `env` says whether anything was lost so
far, and from which moment on nothing is lost. A pack that powers off no longer
runs `MTCanCtrl` (`CanCtrl` returns) and comes back by a restart. The contents of
the reports, and `MT_OkMark`, belong to the parallel control and are left out;
so are identifiers above 15, which two packs cannot reach.

**SysTick.** Each access to the volatile byte is a step; the interrupt may come
between any two.

**OtaFrame, OtaTransfer.** The first turns frames into packets, the second packets
into flash contents. The host tool is not in the repository; it is modelled from
the answers the firmware gives it: one packet at a time, repeat until answered,
start over when told of a failure. Packet and frame contents are the identity of
image and offset; equal data have equal checksums and different data different
ones. `calm` and `settled` mark the moment from which nothing is lost any more: the liveness
properties are about what happens after it.

Definitions named in a `mutant:` comment are deliberate errors. The check
substitutes each for the definition it varies to show that the property
concerned can fail.

## 3. The runs

Bounds are scaled: what matters is that each phase lasts at least two passes, a
packet crosses a page, a queue fills, a counter passes its threshold.

| run | shows | instance |
|---|---|---|
| `MosCtrl` | `MainAfterPreDischarge`, `PreDischargeBounded`, `SequenceInv`: the main FET goes on only after a full, unbroken pre-discharge (or when a neighbour drives the bus, or while charging), and the resistor is never on for longer than two phases. `PowerOffStays`: `ChgStart` clears `PowerOff`, and is unreachable once it is set. `PowerOffOpens`: once the tester is gone, a power-off request brings the EFET pin low for good. `DriveReached`: a pack that stays allowed ends with the main FET on and the pre-discharge off. | pre-discharge, overlap and reset of one pass (two passes of the first phase, since the code counts past the delay), timer of 3 values, four verdicts of the parallel control; 600,000 states |
| `FetDriver` | `NoFetUnasked`, `OnlyCommandedOn`: no failure, half-done write, forced close or restart leaves a FET on that was not asked for. `OffReached`: "all off" is reached, a forced close ends. | complete state space |
| `MosAble` | `LockHolds`, `UnderVoltageRevokes`, `DischargeRevokes`, `HealthyGrants` of the discharge side; `BannedChargeBounded`: charge current flows into a banned pack for the passes of the lock at most, wherever the wrapped count stood when the parallel control took the lock away; `ChgGrants`: a pack that stays healthy or is being discharged gets its charge FET | delays 2 and 3, the count of the lock in 6 values instead of 256; seven currents and all verdicts each pass; 15,000 states, 1,000,000 transitions |
| `MtControl` | `RushBounded`, `RushEnds`: current that rushes from a pack at higher voltage into one at lower voltage is only ever the work of reports that crossed, for a bounded number of rounds, and none is left of it in the end; `LoadServed`: without a charger every pack that discharges (`Dis`: permission and no overload flag) drives the bus in the end, the lower one and then the higher one; `ChargerServed`: a charger that all packs have noticed charges every pack that charges (`Chg`); `EqualsJoin`: healthy packs at equal voltage end closed together. "In the end" is `Settle` = 13 rounds without a change (`Quiet`), so all are invariants | two packs, two voltages, countdowns of 1 and 2 rounds, a lost report between two that arrive, two changes of the world; 190,000 states |
| `PowerKey` | `CutAfterNotice`: the supply is never cut before the shortest delay announced has passed; `KeyOffServed`, `FaultServed`: a key that stays off, and a fault that stays, end in a pack that is off or held up by a test, an update or a charge; `PoweringOffEnds`: `PowerOff` with its reason still there ends in the cut | debounce 2, countdowns 2 to 3, two commands; 280,000 states |
| `DataFlash` | `OldOrNothing`: a start restores the last finished save, or nothing if a write was broken off; `TrustedIsFinal`: what carries the power-off mark, and any lock that survives, is the state the pack ended with; `MarkIsMeant`: the loader finds a mark only after somebody asked since the last start; `HandedOver`: an accepted commit reaches the loader with mark and length | one value besides zero, with the lock set or not; two turns for ten; crashes and flash failures at every word, without a bound; 130,000 states |
| `RingQueue` | `IndicesAgree`, `NoTear`, and `RefinesFifo`: the ring with the interrupt in it is a bounded FIFO that loses, doubles and reorders nothing and is emptied | 3 slots, 3 messages; both kinds of queue |
| `SysTick` | `NeverAhead`: no millisecond is counted twice; `BeatKept` | width 16 for 256, period 3 for 10, at most 7 ms behind |
| `CanAddr` | `NoClash`: as long as no frame is lost and no pack drops its address, two packs never hold the same address, although they may start, leave and fall silent at any time and their first check sums are equal. `AddressesSettle`: after any losses and drops they end with different addresses, none above the highest | two packs, two check sums each, one synchronising announcement; 4 passes of announcing, 2 of silence, a report every 2; the second clash restarts; 420,000 states |
| `OtaTransfer` | `OffsetsRight`, `WholeImage`: the boot loader is never pointed at part of an image, a mixture, or one with a hole; `UpdateEnds` | images of 4 and 5 units, packets of 2, pages of 3, one packet and one answer under way |
| `OtaTransferEmpty` | violation, see section 6 | |
| `OtaFrame` | `RoomLeft`: whatever is lost, the next frame of a packet is neither refused for ever nor copied beyond `OtaRxPack`; `GetsThrough`: after any losses a repeated packet is received again | packets of 16, 17 and 20 bytes, a buffer of 24 instead of 152, which the longest fills; two frames under way |

`CHECK_DEADLOCK FALSE` in the two transfer configurations: after an accepted
commit the firmware resets into the boot loader, so the model stops; in `PowerKey`:
the pack is off; in `CanAddr`: all packs may be off
once no more are started. The packs of `MtControl` are a symmetry set: its
properties are invariants. No other run uses symmetry, since they check liveness.

**Fairness.** Weak fairness of the tasks: `main` never leaves its loop and no task
waits for another. `AndCanCtrl` is fair only in its place in the pass. In
`FetDriver` strong fairness of a *successful* call: the bus may fail again and
again but is not broken for ever; without it no property of the register
could hold. In `OtaTransfer` and `OtaFrame` weak fairness of the receive task
(polled in every turn) and of the host, which persists until it leaves. Nothing
is assumed of the interrupts. In `CanAddr` weak fairness of every pack's pass and
of its receive task; silence needs none, since `CalmDown` waits for all packs to
talk. In `MosAble` weak fairness of the pass, in `PowerKey` of the tasks, in
`DataFlash` of the running program: crashes and
flash failures may go on for ever, and the properties say what holds in spite of
them. `PowerOffOpens` assumes that the production tester, whose command is meant
to override the switches, is gone in the end.

## 4. The proofs

TLC checks the instances above; the theorems hold for every value of the
constants.

* **SwitchProofs, MosCtrl** (all `PreDelay`, `Overlap`, `ResetDelay`, `TimerSpan`
  satisfying `DelaysAssumption`, all allowances). The inductive invariant is
  `TypeOK /\ PreDischargeBounded /\ SequenceInv`. The type invariant alone is not
  inductive, since nothing in it bounds `preRun`: the bound comes from tying
  `preRun` to the code's timer in each step of the sequence. Only `BmsCtrl`
  touches the sequencer; every other task is covered by one lemma
  (`SeqUntouched`). `MainAfterPreDischarge` follows from the invariant: the main
  FET goes on either in step 1, where the timer has passed the first phase and
  equals `preRun`, or through one of the named exceptions. `PowerOffStays` needs
  no more than `ChgStopFlag` having been tested before `ChgStart`.
* **SwitchProofs, FetDriver.** `NoFetUnasked` is inductive. The lemma `WriteResult` says
  what a call may leave in the register; `FetCtrlWrites` that a call changes the
  register and `LastCmd` together.
* **MosAbleProofs** (every `Delay`, every width of the counter). Discharge side:
  each of the four parts keeps the type of the statics; `LockHolds` and
  `UnderVoltageRevokes` follow through the four parts in order. Composed: a pass of
  both is a pass of the discharge side with the class of the common current, so
  `BothSpec` implies its specification (`BothImplyDischarge`) and both properties
  with it (`DischargeSideKept`). Charge side: `BannedChargeBounded` bounds a history
  variable by nothing the code holds, so the invariant (`ChgInv`) ties it to the
  code's counter. While charge current flows into a banned pack every pass is also
  counted towards the lock, so `flow` is at most one ahead of that count, and a set
  lock takes the permission away in the next pass (`FlowIsCounted`).
* **CanAddrProofs** (any packs, check sums and times). Type correctness needs two
  facts besides the types: the check sums heard stay finitely many, so that the
  rank is a number, and frames carry numbers. It includes that a pack whose mark is
  set holds no address. One lemma per way a pack changes (`RememberOK`,
  `HearOwnOK`, `BroadcastMessageOK`, `PassOK`) is stated of a single pack.
  `AddressesDiffer` proves `NoClash` for two packs. Its invariant (`PairInv`) does
  not look at the clocks. A pack that may take an address, or has one (`Told`), has
  announced its check sum since the other last forgot what it had heard: the other
  knows the sum, is about to receive it, or will announce itself anew and make the
  first start again (`Known`). What the other knows besides is nothing (`Fresh`),
  since the synchronising announcement before any new sum makes it forget. So of two
  packs with an address each knows exactly the sum of the other, and never its own;
  the sums then differ, and with them the ranks (`RanksDiffer`).
* **MtControlProofs** (all delays and voltages). Type correctness for any number of
  packs, rule by rule. `RushIsBounded` is for two. `RushBounded` bounds a history
  variable, so the invariant (`RushInv`) ties it to what the code counts
  (`Progress`): the passes since the negotiation, then those of rule 6. That grows in
  every round of the rush (`ProgressMade`), for three reasons. The pack that takes
  the current has a report that the other one gives it, but for the first round
  (`ReportHeard`: of two reports in a row one arrives, and the one before is still
  valid). From that report rule 6 sees a reason to count (`SurgeJudged`,
  `Rule6Counts`). And no other rule takes the count back (`Rule1Keeps` to
  `Rule5Keeps`): rules 3 and 4, which clear it when they allow the charge FET, have
  no reason to. At `ChgOff` the FET goes off.
  What the packs settle to (`RushesEnd`, `LoadIsServed`, `ChargerIsServed`,
  `EqualsDoJoin`) needs no measure that falls with every round. The invariant
  (`SettleInv`) says that while a step is not done, no more rounds have passed since
  the last change than the steps before it may take and its own counter has counted
  (`By`); it holds trivially in the round of a change, so a change only starts it
  over. `Informed`: three rounds after
  a change every report a pack holds is about the world as it is, and the pause
  after a negotiation is over at `Judging`. From there each FET has one way to where
  it ends. Between about equal voltages it waits for nobody (`LevelInv`). Without a
  charger (`DriveInv`) the lower pack opens its charge FET (rule 6) within `ChgOff`,
  the higher one hears of it a round or two later, and its rule 1 counts undisturbed
  to the discharge FET (`Rank1`); a rush of a settled pair has begun by then, and
  `RushBounded` bounds it. With a charger (`FeedInv`) the roles are reversed: the
  higher pack opens its discharge FET (rule 5), the lower one hears of it and its
  rule 3 counts. That a FET on its way is not turned back by another rule of the
  same pass is one lemma for each side (`DisJudged`, `ChgJudged`), over lemmas that
  say of each rule when it acts and when it leaves a FET alone. These hold for two
  packs and for all voltages and delays that satisfy `Settling`.
* **InterruptProofs** (every capacity, any messages; every period and width).
  `RingQueue`: the strengthening adds what a pop relies on at each step: the queue
  is not empty, interrupts are off and the register still equals `size` between
  load and store, and the slot being copied is one whole message. The core is
  arithmetic modulo the capacity (`Wrap`, `TailIsFree`: the slot a push uses is
  never the one being copied). `RefinesBoundedQueue` is the safety part of
  `RefinesFifo`: initial states map to initial states and every step is a step of
  `Fifo` or a stutter. The sequence the mapping builds is a window of the ring,
  and what a push or a pop does to a window is proved of any array
  (`WindowAppend`, `WindowPrepend`, `WindowTail`). `SysTick`: `NeverAhead` follows
  from what the register of the non-atomic decrement may hold against the byte in
  memory.
* **PowerKeyProofs** (all delays, any number of commands). `CutAfterNotice` speaks
  of the moment of the cut. Inductive (`CutInv`) is what ties each countdown that
  can cut to the passes since `PowerOff`: `PowerOffTimer` is at most one past its
  threshold when `PowerOff` is set and grows by at most one in a pass;
  `ShutDownTimer` and the passes so far add up to at least what was promised,
  through every request that starts it again; `ShutDown` never stands alone.
* **OtaProofs** (any images, pages and packets, any number of messages under way;
  losses, repetitions, aborts and resets). What a packet does to page buffers and
  flash is stated of the record `store` alone: `Put` copies up to the end of a page,
  `Flush` writes it, and both keep the bytes at their place (`PutPlaced`,
  `FlushPlaced`) and the counters in step (`PutSound`, `FlushSound`). A page always
  has room in the backup area, because the area is the longest image rounded up to
  pages (`RoomForPage`). `WholeImage` needs of all this only that flash holds what
  was accepted, and the checksum of the commit. `OffsetsRight` needs more: that the
  sequence number and the byte count agree (`Position`), which stale answers can
  break (see `Aligned` in section 5). `OtaFrame`: while a packet is incomplete its
  buffer has room for the next frame, whatever was lost before, for packets that
  fit into the buffer (`FrameAssumption`).

* **DataFlashProofs** (any contents, any delay). `OldOrNothing` speaks of one
  moment, the read; inductive is only what holds at every word: a page at rest
  has the right sum and the last save, or a write was broken off (`Resting`); a
  page being written is the first words of its buffer and has no sum
  (`Writing`, `WordAdded`, `PartlyNotValid`); and the buffer is right before the
  erase (`Planned`; `Unmarked` for the page that is rewritten before it is read,
  where the sum leaving out the mark is what counts). `MarkIsMeant` needs every
  carrier of a mark tied to its request: page, record and buffer (`Asked`).
  `TrustedIsFinal` adds where a page that claims a power-off can be found at all
  (`PageTrust`): nowhere while the tasks of a turn run, and elsewhere with what
  the pack ended with or is ending with.

The type invariants of these modules are proved and not checked by a run.

Only model-checked:

* all liveness (`PowerOffOpens`, `DriveReached`, `OffReached`, `DischargeRevokes`,
  `HealthyGrants`, `ChgGrants`, `BeatKept`, `AddressesSettle`, `UpdateEnds`,
  `GetsThrough`, `KeyOffServed`, `FaultServed`, `PoweringOffEnds`, `HandedOver`, and
  the fairness of `RefinesFifo`): it needs reasoning about ENABLED.

## 5. What is assumed

* A front-end write that is not acknowledged is not applied: words end with a
  CRC-8 that the front end checks (kc81710h.c, `i2c_write_cmd`).
* The main loop comes round before 256 ms have passed (`TickAssumption` of
  `SysTick`); the byte `SysTickTimer` would wrap otherwise.
* The host sends well-formed packets and waits for answers; CRC collisions do not
  occur. The backup area holds the longest image, in whole pages.
* For `OffsetsRight`, and only for it, `Aligned`: an image whose last packet is not
  full is not followed by one of more packets. An answer does not say which packet
  it answers, so with four messages under way a host that starts over can have its
  next image continued from the middle of an earlier one; images of one and three
  units with packets of two then leave a hole, which TLC finds at depth 40. The
  checksum rejects the result: `WholeImage` is proved without the assumption. The
  run's images satisfy it (`LastPacketsAgree` in `MCOtaTransfer`).
* For `NoClash`, `Negotiable`: two packs, which is the `MAX_MT_NUM` of the code, at
  least one synchronising announcement, and time for one announcement. Each is
  needed: without a synchronising announcement, or with no time to announce, TLC
  finds two packs with one address; and so it does with three packs, at depth 34,
  where one pack has heard the sum of a pack that left and another has not.
* For `RushBounded`, `Reporting`: two packs, a judgement that waits at least a pass
  after a negotiation, `VOLOFFER` at most `QVOLOFFER` (multiCan.c:646), and no two
  reports in a row lost, nor the last valid one. Without the wait, or with two
  lost, TLC finds a longer rush.
* For the other four properties of `MtControl`, `Settling`: `Reporting`, both packs
  there, `CHGOFFDELAY` not zero (a charge FET that is allowed is not taken back in
  the same pass), and `Settle` above the sums of delays that follow one another.
  `Settle` bounds the specification, not the code: it says how long the world is left
  alone before a property speaks. The runs evaluate `Negotiable` and `Settling` as
  assumptions (`Negotiates`, `Settles`).
* `RushEnds` and `LoadServed` speak of packs one of which has `Noticed` that the
  charger is gone. While both believe in it the higher one makes way for it and
  drives no load, which TLC finds; the code clears `ChgPlugin` after a while
  without current (Charge.c:257-264), which is one of the changes of the world.
* `LoadServed` and `ChargerServed` speak of packs that discharge and that charge. A
  pack whose `DisSC` or `DisOC` stands does neither: `DisStopFlag` (DisCharge.c:668)
  and `ChgStopFlag` (Charge.c:813-816) stop both, and rule 3 starts its count over in
  every pass (multiCan.c:1090). That lasts until a host clears the flags
  (AND_CAN_Protocol.c:821-832) or the pack starts again: a charger keeps them, and
  the release of DisCharge.c:365-433 is not compiled. The properties say that from
  then on the pack is served like any other.
* `FrameAssumption`: a packet fits into `OtaRxPack`, 152 bytes (CanOtaSL.c:31). The
  code relies on the host for that: it checks neither the length the first frame
  gives nor where it copies to (CanOtaSL.c:536, 556). For such packets `DataCnt` (u8)
  and `FrameDataLen` (u16) do not wrap, so `OtaFrame` counts without a width; the
  buffer may have any size of whole frames up to 2040 bytes.
* `BusesAssumption`: what hangs on the bus draws or gives a current of one of the
  five classes.
* `AfeSetPowerMode(2)` cuts the supply of the controller.
* Two different records of the saved page do not have the same sum. The sum is
  additive (DataFlash.c:24), so this is weaker than for a CRC.
* The boot loader starts the application and does not write the page of the
  record.
* Which current, voltage and temperature a pass measures is unconstrained.

## 6. Where the code and its comments disagree

A run that TLC finds violated:

* `OtaTransferEmpty`: a commit after the header was forgotten (abort, reset)
  compares the checksum of zero bytes with a zeroed header, is accepted, and sets
  `BootMark` with length 0.

Further ones, met while modelling and not given a run of their own. Switches:

* AfeModule.c:158: after a half-failed switch `LastCmd` does not describe the
  register; a command equal to it is skipped and the FET stays off until the next
  different command.
* `DisOff` comments in UartBW.c:1210 against BmsCtrl.c:167: switching the discharge
  off does not open the FET while `DsgAble` is set.
* multiCan.c:2011 announces that the FET is opened at once; AfeModule.c:149 still
  waits for `DisMosAllow`, so `QUICKDisMos` and `QUICKChgMos` do nothing.
* DisCharge.c:792: a reset requested in the pass after the last one ended finds
  the old timer and is over at once.
* `lastdisable` is updated only while `DsgAble` is set, so the edge from healthy to
  banned (DisCharge.c:728) can be missed. DisCharge.c:697 says a banned pack without
  charge current loses the permission; the branch at line 749 keeps it while the
  lock is 0. `delaydisdisable` (774) and `delaychgdisable` (Charge.c:784) are never
  waited for, because their branch needs the lock.

Parallel packs:

* multiCan.c:44 lets a pack start again above address 8; the code does so above
  `MAX_MT_NUM`, which is 2.
* multiCan.c:1021 and 1134 promise two seconds; `mtosDelay` is decremented by both
  rules (1028, 1149), so it is one.
* multiCan.c:641-643 take the permission back so that a pack does not come back
  from a fault onto a bus at another voltage. It is taken back after 150 passes,
  but the other pack is allowed after 50: a fault of 50 to 150 passes ends on a
  standing permission, and current rushes until it is noticed. `RushBounded` says
  for how long.
* multiCan.c:700 declares a static `multiCondition` that hides the one at 692;
  line 1941 counts `delayreadyquickcmos` where the discharge side is meant.

* DisCharge.c:392-414 would release an overload after a while, but is compiled out:
  a pack that has been overloaded stays out of the parallel connection until a host
  clears it.

Power off and keys:

* User.h:220 gives the countdown before power-off as 60 s and line 221 the rest as
  1.5 s. `PowerOff` is set after the first; if the reason goes away before the
  second has passed, nothing clears it: the pack stays on with its FETs off and
  ignores chargers (Charge.c:182) until a restart. `PoweringOffEnds` therefore asks
  for a reason that comes back; without that TLC finds the state.
* `COMM_CLEAR_STATUS` (UartBW.c:850) clears `ShutDown` and not `PowerOff`.
* `PowerOffTimer` adds up over faults that have nothing to do with each other as
  long as the bus is silent.
* `COMM_SET_POWER_OFF` over the UART accepts a delay of 0 (UartBW.c:889; CanBW.c
  does not), and the supply is cut in the same pass, without the FETs having been
  opened first by the switch control. Each repeated command starts the delay again.
* `reqPowerOffFlag` (key.c:390) is never cleared. `PowerOffCtrl` has a static
  `PowerOffTimer` that hides the global one.

Saved data:

* A start erases the page before it writes it, so a crash at any start, and not
  only at a power-off, can lose the state of charge and all locks (`OldOrNothing`
  allows it: "nothing"). After a serial update the page is erased twice.
* The boot mark is programmed first and is not part of the sum: a crash after the
  first word leaves a valid mark with an erased length and checksum. With the
  property that a mark comes with its length TLC finds it; what happens then is up
  to the boot loader.
* `BootLoaderCancel` (GotoBoot.c:151) runs after the record was saved with the
  power-off mark, and nothing sets it back: a later crash restores old data as those
  of a regular power-off. It takes a factory reset between the commit and the tenth
  turn; `TrustedIsFinal` excludes it (`faulty`), and TLC finds it otherwise.
* An abort after an accepted commit does not stop it: only `SlUpgradeTimer` is
  cleared (CanOtaSL.c:477), and `BootJudge` resets a few turns later.
* `Soc.Ocv` says whether the state of charge must be estimated anew, but the
  estimate is commented out (soc.c:694) and the mark is set all the same.
* `DataLogPwrOnRecord` is never called, and `DATA_DSG_UV_LOCK` is never set.

Time and update:

* Nothing calls `OtaSlTimerCallBack` (CanOtaSL.c:74), so the 10 s time-out of the
  update (CanOtaSL.c:544) never elapses, and the upgrade state stays until an abort
  or a reset. It also blocks power-off (PowerCtrl.c:724) and the key (key.c:384).
* Main.c:133 is not atomic: a tick between load and store is lost (time only
  falls behind, see `NeverAhead`), while soc.c:680 counts on every tick.
* CanOtaSL.c:562 reads the byte before the frame's data when a packet's last
  frame has one byte (`StrayEqual` in `OtaFrame`; `GetsThrough` leaves that
  length out).
* `HwCompInit` is commented out (Main.c:249).

## 7. Plan

Done: the switch control, the FET driver, both permissions, the addresses and the
judgement of parallel packs, queues, tick, update, power-off, saved data. Next:

1. `AfeScan`: the scan state machine, reconnects and alarm latches; the debounced
   protections of Charge.c and DisCharge.c and `ChgPlugInCheck`.
2. `BootEntry`: `BootReceive` in its interrupt against `BootJudge`.
3. `MtControl` composed with `CanAddr`: reports stored under an old address, and
   the branch for a broken CAN bus.
4. Pure operators of state of charge, calibration and temperature tables against
   reference definitions, in one run; balancing and the event log.
5. The periodic transmission of AND_CAN_Protocol.c (`Div10ms`).

Theorems planned: what these modules promise, and the settling of `MtControl` with the
addresses of `CanAddr` in it.

Not modelled, and not planned: the vendor's libraries, the register-level I/O of
`McuHal_N32L40X.c` but for the page write, checksum tables, the previous update
protocol (UpgradeCan.c, not built), and commands that only read or write a
parameter.
