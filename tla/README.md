# Formal model of the Kontron BSP layers

The repository is a Yocto board-support package: recipes and images for Kontron
i.MX and STM32MP boards, the scripts that run on them, and two vendored drivers
(Marvell SDIO WLAN and Bluetooth). Most of it is build description. The parts with
behaviour of their own that is hard to test are the A/B software update of the i.MX
boards, which must survive a power cut anywhere, and the concurrent core of the WLAN
driver: the reordering of received packets, the scheduling of the receive path, and
the path of commands to the firmware and back. This directory holds TLA+ models of
the four, the TLC configurations that check them, and TLAPS proofs.

## Inventory

| Component | State | Operations | Interacts with | What makes it correct |
|---|---|---|---|---|
| U-Boot A/B flow (`sl-mx6ul.env`, `sl-mx8mm.env`) | `upgrade_available`, `bootcount` in the environment; `fallback_active` per boot | `bootcmd`, `altbootcmd`, `vendor_boot`, `vendor_ab_boot`, `vendor_set_ab_bootargs` | reads `sys_active` and the images the updater writes; starts the watchdog | a boot that fails is counted, ended and in the end replaced by the fallback |
| `reset-update-flags.sh` (boot script S99) | the same environment | stop the watchdog, clear or set `upgrade_available`, clear `bootcount` | runs beside SWUpdate's service | confirms an update that came up, and nothing else |
| SWUpdate package (`09-swupdate-args`, `pre_post_script.sh`, `sw-description`) | slots, `fitImage_A/B`, `sys_active` | choose a selection, wipe, switch, install | sets what U-Boot reads | never touches the running slot; never leaves the board without a slot that boots |
| `bootfs.bbclass` | initial boot file system | build task | initial `sys_active` | agrees with U-Boot's decoding |
| mlan receive reordering | one table per transmitter and TID: window start, slots, timer, flags | packet, BAR, RXBA_SYNC, ADDBA, DELBA, resume, timer, flush | called by the rx work and by command and event handling; timer callback | in order, once, nothing dropped needlessly, nothing held for ever |
| mlan receive scheduling (`mlan_shim.c`, `moal_main.c`) | `mlan_processing`, `mlan_rx_processing`, `more_task_flag`, `more_rx_task_flag`, `rx_lock_flag`, `delay_task_flag`, the packet queue | main process, rx work, queueing either, blocking the rx work, timer callback, role switch | hosts the reordering; interrupted by the card | tables change while the rx work is out; no wake-up is lost; the queue is bounded |
| mlan commands (`mlan_cmdevt.c`, `moal_ioctl.c`) | free and pending queue of command nodes, `curr_cmd`, `cmd_sent`, the command timer; requests of user processes | prepare, download, response, timeout, hang, removal of an interface | firmware through the SDIO ports; Linux processes that wait | nodes are neither lost nor doubled; a request is completed once, and is completed; a response goes to its command |
| rest of mlan, moal, mapp, Bluetooth driver | scan, join, WMM, power save ... | | firmware | not modelled |
| STM32MP A/B (`abootctl.sh`, `abboot.bbclass`, `pre_post_script.sh`) | in the program abootctl and in U-Boot, both fetched from elsewhere | begin, wipe, activate | | not modelled |
| autostart-app, mount scripts, m4-autoload, ktnstress | one-shot scripts | | udev, init | not modelled |

What is hard here: power cuts between any two flash writes; a boot script and an
updater that share two environment variables without a lock; three programs that
work out the target slot independently; a failed step of several; sequence
numbers that wrap; timers whose callbacks race what they watch; flags that are read
under one lock and acted on under none; a command taken away from the code that
waits for its answer. `PROJECT.json` lists these hazards at their lines.

## The A/B update: AbState, UBootFlow, ResetUpdateFlags, PrePostScript, AbUpdate

`AbState` declares the state shared by the programs: what is in flash
(`upgrade_available`, `bootcount`, the bytes of `sys_active`, and for each slot
what its root file system and its kernel image are worth and whether it holds a
whole update) and what is in RAM (the phase of the boot, the slot it runs from,
the watchdog, the page cache's version of `sys_active`, the program counters of
the boot script and the updater). The contents of a slot are abstracted to
whether it comes up (`boots`/`dead`; for a kernel `boots`, `hangs` after bootm,
or `invalid`, refused by bootm), since that is all the boot flow can notice.
`sys_active` keeps its bytes, because U-Boot compares them as a little-endian word.

* `UBootFlow`: `UBootStart` counts the boot and chooses `bootcmd` or `altbootcmd`;
  `VendorBoot` boots an SD card, `VendorAbBoot` a slot (`ActivePart` is
  `vendor_set_ab_bootargs`), `VendorAbReset` covers every path that ends in
  `reset`. The counter itself, the kernel and the watchdog are external. The
  value of `bootlimit` is set in the U-Boot fork and not in this repository, so it
  is a constant.
* `ResetUpdateFlags`: one action for each `fw_printenv`/`fw_setenv`. The environment
  is kept twice (`fw_env.config` has two copies for both boards), so one `fw_setenv`
  is atomic under a power cut.
* `PrePostScript`: one action for each command of `preinst` that changes state,
  begin and end for the long ones (`rm -rf`, writing an artefact), failures of
  every command whose status is looked at, and SWUpdate's installation of the
  selection as the file `sw-description` lists it. SWUpdate is external: it runs
  preinst, writes the artefacts in some order, may fail anywhere, and what it
  writes may boot or not. `set_sys_active` changes the page cache; `Umount` or
  `Writeback` brings the text to flash.
* `AbUpdate` composes them, adds power cuts, reboots and the properties.
* `AbPromise` is the abstract specification: two systems, of which one runs; only a
  system that comes up is ever running, while it runs only the other one is changed,
  and a board that is down comes up. `AbUpdate` instantiates it with `good`, the slots
  that would come up, and `running`, the slot of a board whose kernel is through;
  `KeepsPromise` says that it implements it.

`Board` selects mx6ul (UBI) or mx8mm (eMMC): they differ in what a system started
from SD card does (mx8mm installs the `setup` selection, mx6ul refuses). On a board
without SD card the two behave alike, so `AbCore` takes one of them; that mx6ul's
`do_preinst` never reaches its SD branch, which would wipe slot A, is a conjunct of
`TargetInv`, proved for both boards.

### Properties

* `Rescue`: whenever the active slot would not come up, an update is pending and
  the fallback slot would come up.
* `FallbackStarts`: once the boot count is over the limit the slot chosen comes up.
* `FallbackArmed`: while sys_active names the other slot active, the next boot is
  counted and watched.
* `HangIsWatched`: a kernel that will not come up was started under the watchdog.
* `Recovers` (liveness): the board always comes up again.
* `KeepsPromise`: the refinement of `AbPromise`, with its fairness.
* `TargetsAgree`, `RunningSlotUntouched`: the three choices of a slot agree, and the
  running one is not written.
* `ConfirmedWhole`: a confirmed slot holds a whole update (violated, see below).

### Runs

| Run | Bounds | Result |
|---|---|---|
| `AbCore` | mx6ul, BootLimit 3, 2 cuts, `FairSpec` | the first four properties, `RescueInv`, `Recovers` and `KeepsPromise` hold (6248 states) |
| `AbSdCard` | mx8mm, BootLimit 2, 1 cut, SD card, early updater | types, `TargetsAgree`, `TargetInv`, `RunningSlotUntouched` hold (35015 states) |
| `AbEarly` | early updater | `FallbackArmed` violated |
| `AbHalf` | no cut | `ConfirmedWhole` violated |

The number of updates and reboots is not bounded. BootLimit 3 with two cuts is the
smallest instance in which the cuts are one fewer than the retries and still more
than one. The run with an SD card switches the deadlock check off: there a kernel
may hang without a watchdog, and such a board really stops.

`Fairness` is weak fairness of the boot (U-Boot, kernel, watchdog) and of the boot
script: a powered board runs them. Nothing obliges anybody to update or reboot.

What the violations show:

* `AbEarly`: SWUpdate's service is started before S99. An update taken before the
  script ran is disarmed by it.
* `AbHalf`: `sys_active` is switched before anything is installed; a half-written
  slot that happens to reach S99 is confirmed as a regular boot.

Two more counterexamples mark the assumptions of `AbCore` and of the proofs; change
the constants to see them:

* With as many cuts as retries (MaxCuts = BootLimit) `FallbackStarts` fails:
  `do_preinst` wipes the standby slot while `sys_active` still names it as the
  fallback and `upgrade_available` is already 1, so cuts alone count up to a fallback
  boot into the wiped slot.
* With an SD card `Rescue` fails: a boot from the card runs the same boot script and
  clears `upgrade_available` while the flash waits for its fallback.

## Receive reordering: RxReorder

`RxReorder` models the `RxReorderTbl` of one transmitter and TID (entries are
independent) in station mode. Packets are the numbers `First .. Last` of the
transmitter's stream; the code sees them modulo `MaxTid` (4096 in the code).
`InFlight` and `Acked` are the 802.11 originator: it sends what lies within a window
of its oldest unacknowledged packet, in any order and repeatedly, and gives
packets up, so loss, duplication and reordering all happen. `RxReorderPkt` is
`mlan_11n_rxreorder_pkt` with each of its exits: no table, A-MSDU before the
agreement allows it, `check_start_win`'s unordered phase, drop of an old packet, of
a duplicate, and the ordered path through `Covering`, the slot and
`ScanAndDispatch`. `AddBa`, `AddBaResp`, `DelBa`, `Cleanup`, `NoDropFlag`, `RxbaSync`,
`TimerExpire` and `FlushPriv` are the other calls that change the table.

Abstractions: `last_seq` and `pkt_count` are reset after the check phase, since
they are never read again; an RXBA_SYNC event with several bits is several events;
the ADDBA conditions that lead to a refusal leave the table alone and are no
steps; `hi`, `top`, `late` and `lost` are history the properties need. A call is one
step; `RxWork` is about the exclusion that justifies this.

* `Aligned`: the packet in slot i has the i-th number of the window.
* `HeadIsHole`: between calls the window starts at a hole.
* `InOrder`: the window sends packets up in order, each once.
* `NoNeedlessDrop`: only a copy of a packet that is held, or a packet that it or a
  later one has overtaken, is dropped.

| Run | Bounds (MaxTid 16) | Result |
|---|---|---|
| `RxTurn` | window 4, packets 0..5, ssn up to one ahead | `InOrder`, `InOrderInv`, `NoNeedlessDrop` hold (91696 states) |
| `RxWrap` | window 4, packets 13..17, ssn up to one ahead, suspend and resume | `NoNeedlessDrop`, `KeepInv` hold (128576 states) |
| `RxEarly` | the same, and BARs while the start is in doubt | `TypeOK`, `Aligned`, `HeadIsHole`, `ReorderInv` hold (244841 states) |
| `RxWrapOrder` | window 4, packets 13..18 | `InOrder` violated |

Sixteen numbers with a window of four keep the proportions the code relies on
(window smaller than half the space, `WindowAssumption`), and `StreamAssumption`
keeps a behaviour within half the space, the limit of any 12-bit comparison. Six
packets against a window of four make the window move by its own and be moved;
13..17 makes it wrap. `EarlyBars` lists when a BAR may come at an awkward moment: the
runs that check `NoNeedlessDrop` exclude the two cases, in which it fails; `RxEarly`
and the theorems about the table and about the order include both, but do not notice
the drop. `MaxAhead` is how far the ADDBA's ssn may be ahead of packets still
unacknowledged from before the agreement. It is 1: further ahead `NoNeedlessDrop` fails.

That a held packet goes up in the end is not a property of this module: its flush
depends on wake-ups that the code can lose, so it is stated in `RxWork` (`HeldGoesUp`),
where the callback's steps and the rx work's are apart.

What the violation shows, and the cases left out:

* `RxWrapOrder`: `wlan_11n_dispatch_pkt_until_start_win` empties the whole window when
  the new start is numerically below the old one, that is at every wrap.
* A BAR during check_start_win (`EarlyBars = {"check"}`): its number, that of the next
  packet expected, becomes `last_seq`; that packet is then taken for a duplicate.
* A BAR first after a resume (`EarlyBars = {"resume"}`): the window is moved ahead by
  its size, and a BAR does not set its start back to where the transmitter is.
* An ssn two or more packets ahead (`MaxAhead = 2`): the first of them is forwarded
  unordered; a repetition of it, or a packet from beyond, then settles the start at
  the ssn, and the packet between is dropped as old. Windows of less than four forward
  nothing unordered, and lose the packet already at `MaxAhead = 1`.
* A host's sleep with `InOrder`: the first packet after the resume becomes the
  window's start wherever it lies, also behind packets that have gone up.

## Receive scheduling: RxWork

`RxWork` models who runs when. `mlan_main_process` is called by the SDIO interrupt
thread and by a work (`Contexts`), `mlan_rx_process` by a work of its own; each is kept
single by a flag under a spin lock and a "more" flag for those who come while it
runs. A step is a section under a lock, or one access to a field that no lock
protects, so that the rx work, the main process, the timer's callback and a user's
role switch interleave as on several processors. The table of `RxReorder` is reduced
to whether something is held in it and to its two flags: `RxDeliver` and `MainSync`
take any outcome that `mlan_11n_rxreorder_pkt` may have for them. `BlockRx` is
`mlan_block_rx_process`; a blocker that found the rx work running waits for it
(`flush_workqueue`) and nothing but `rx_lock_flag` keeps the next one out.
The rx work is a work (the module parameter `napi`, off by default, is left out).

* `Exclusion`: until a user switches roles, a table is created or deleted only while
  the rx work is outside the code that follows pointers into it.
* `QueueBound`: at most HIGH_RX_PENDING packets and what the card holds are queued.
* `NotForgotten`: a queued packet has an rx work on its way, or the block it ran into
  left `more_rx_task_flag` behind, or the main process that read it is about to send for
  the rx work. The exception are packets left by a sleep confirmation (`asleep`), until
  the rx work is next sent for.
* `HeldWatched`: a packet held in the table has a timer, a flush due, or somebody about
  to start the timer, although the callback, the rx work and an RXBA_SYNC of the main
  process change the flags between each other's steps.
* `BlockEnds` (liveness): a block ends.
* `Processed` (liveness): a main process that paused at HIGH_RX_PENDING is resumed and
  the interrupt processed, as long as no main process leaves a too long queue without
  noting it (`LooksAgain`).
* `DeliveredUnlessLeft` (liveness): what is queued is delivered, except what a sleep
  confirmation has left.
* `HeldGoesUp` (liveness): a packet held in the table goes up in the end, unless its
  flush is `Missed`.

The last three also except a state the code really gets into (`Stranded`): a block has
met the rx work at its entry, which left only `more_rx_task_flag` behind; the end of
the block does not look at it, and what is queued waits for the next interrupt or
timer. (`HeldGoesUp` holds without this exception here, where every block ends the only
table; with several agreements the block may be another one's.)

The sleep confirmation: the card asks for sleep (`ps_sleep`), the main process confirms
at once or later (`CheckPsCond`), and the card's answer comes through the command port,
perhaps in one interrupt with data. `wlan_process_int_status` then takes `data_received`
back after the packets were queued (`FellAsleep`), to keep `ps_state` at SLEEP, and the
main process sends for no rx work (`MainNotRcvd`, or `MainRcvd` with an event). `cfm` is
the function's copy of `ps_state` on entry; `unsent` and `asleep` are history that only
records which packets this happens to.

| Run | Bounds | Result |
|---|---|---|
| `RxWork` | High = Low = 1, 2 ports, all events, 2 interrupts, 1 role switch | the four invariants, `TypeOK` and `WorkInv` hold (3467497 states) |
| `RxWakes` | High = Low = Ports = 1, ADDBA and sleep requests, 3 interrupts, no role switch, `FairSpec` | the four liveness properties hold (484354 states) |

A queue limit of one with two packets an interrupt makes the main process pause and
exceed the limit; two interrupts with events create a table, fill it and change or
delete it while the rx work and the timer are busy; the third of `RxWakes` finds a
main process that has paused, or is the first after a sleep. With RXBA_SYNC events its
properties hold as well (695872 states), at twice the time. After the last interrupt the system comes to rest, so
the two runs do not check for deadlock; `BlockEnds` and `Processed` are about the
waits that could close a circle.

`FairSpec` is weak fairness of each context's steps, of the rx work, of the timer and
of a role switch once begun: the kernel runs queued works and expired timers. The
card owes nothing.

What the model also shows, without a run of its own:

* Once a role has been switched `Exclusion` fails: `rx_lock_flag` does not count, the
  role switch's block contains that of the table's deletion, and the inner one's end
  opens the outer one (so does the end of a block of the main process). That
  `flush_workqueue` is called there under the spin lock `ioctl_lock` is outside the model.
* `wlan_flush_data` sets the adapter's `flush_data` before the table's. An rx work in
  between takes the first and finds nothing to flush; the work the callback then
  queues no longer looks for one, and the flush waits for the table's next packet.
  `HeldWatched` therefore speaks of a flush that is due, and `HeldGoesUp` excepts this
  case (`Missed`); without the exception it fails.
* Packets that come with a sleep confirmation stay in the queue until the next
  interrupt or timer sends for the rx work. Without the exception for them (`asleep`)
  `NotForgotten` and `DeliveredUnlessLeft` fail.
* A sleep confirmation may also leave the queue too long without `delay_task_flag` set,
  since the main process leaves without another look at it. The main process of the
  next interrupt reads the length, an rx work under way empties the queue, and only then
  is the flag set: that rx work and the one now sent for take no packet, so nobody
  resumes the main process and the interrupt waits for the next call. Without the
  hypothesis `LooksAgain`, `Processed` fails in this way.

## Commands: CmdPath

`CmdPath` models the command nodes (free, pending, current, or in the main process's
hand), the requests of user processes that ride on them, the card's two ports, the
command timer and what it sets off. A request is `new`, `checked` (past the look at
`driver_status`), `waiting`, `left` (its process was interrupted), `unwoken` or `over`;
completing one that is over is outside the type. The firmware may take and answer a
command at once, late or never. The main process goes through `wlan_process_cmdresp`,
`wlan_exec_next_cmd` and `wlan_dnld_cmd_to_fw` in the sections their locks make;
the timer's callback, the hang handling (`wlan_cancel_all_pending_cmd`) and the removal
of an interface (`wlan_cancel_bss_pending_cmd`) come between any two.

* `NodesPlaced`: no node is lost or in two places.
* `CompletedOnce`: a request that is not completed rides on exactly one node, a completed
  one on none.
* `RespOfCurrent`: until the driver is declared hanging the response that is handled is
  that of the current command. The code compares command numbers and no sequence
  numbers, so this rests on there being one command in flight.
* `Answered` (liveness): a waiting request is answered, also by a firmware that has
  stopped; except after a failed download, which ends the main process with commands
  pending (`mlan_shim.c:1217`), and behind a command without response that nobody
  watches (`Unwatched`).
* `RespHasCommand`: the handler of a response has a current command (violated).

| Run | Bounds | Result |
|---|---|---|
| `CmdPath` | 2 nodes, 2 interfaces with a request each, 1 own command, 1 failed download, 1 removal, NoNodeLimit 1, `FairSpec` | all hold (551614 states) |
| `CmdLate` | the same | `RespHasCommand` violated |

Three commands compete for two nodes, so that nodes run out and are used again while
an old response is on its way; the code's limit of five requests without a node in a
row is 1 here, which makes a hang reachable without a timeout. The system may stop
when every request is over or the driver hangs: no deadlock check.

`FairSpec`: weak fairness of the main process, the timer and the hang work. `CmdTimeout`
assumes that handling one hang takes less than the timer's 20 seconds.

`CmdLate`: the response is in hand when the timer's callback has cleared
`cmd_timer_is_set` and not yet declared the hang. `wlan_process_cmdresp` sees no timer to
stop, the callback cancels all commands, and `curr_cmd` is followed at
`mlan_cmdevt.c:1789` although it is null. (The comment at `mlan_cmdevt.c:1951`, "It will
re-send the same command again", describes something the function does not do.)

Abstractions: the pending queue is a set, since some commands go to its head; the
two lock sections of `wlan_prepare_cmd` are one step, the node between them being
nobody else's; a wait with a timeout counts as an interrupted one; a completed
request whose status is CMD_TIMEOUT is not woken by the code and is `unwoken` until
its process gives up.

## Proofs

All proofs are for every value of the constants that the named assumptions allow.

`AbUpdateProofs` (any board, SD card or not, early updater or not, any number of cuts):

* `TypeCorrect`: `TypeOK /\ TargetInv` is inductive. `TargetsAgree` alone is not: it
  says nothing before the installation starts. `TargetInv` adds what the updater
  has established at each of its steps (it runs from a slot when it wipes; the cached
  sys_active is the switched text from `umount` on; only the selection's artefacts
  are left).
* `TargetsAlwaysAgree` and the action property `RunningSlotIsUntouched` follow. The lemma
  `Decode` evaluates the four texts under U-Boot's decoding.

`AbRescueProofs` assumes `Sheltered`: no SD card, the updater waits for S99, and fewer
cuts than `BootLimit`; each of the three is necessary, as `AbEarly` and the two
counterexamples described with the runs show.

* `RescueInvHolds`: `RescueInv` is inductive together with `TypeOK /\ TargetInv`. Besides
  `Rescue` it says: nothing is updated or cached before the boot scripts are through
  (`QuietBoot`); the running slot comes up and is the one the file named
  (`BootedAsNamed`); both versions of sys_active name the running slot, and a boot into
  the other one would be counted (`NamesRunning`); an update, a fallback and a
  running watchdog all imply a pending update (`Pending`); and while the fallback
  entry names a wiped slot only cuts have raised the boot count (`CountLow`). The last
  is what bounds the cuts.
* `NeverLost`, `FallbackAlwaysStarts`, `FallbackAlwaysArmed` and `HangsAreWatched` follow.

`AbPromiseProofs`, under the same assumptions:

* `PromiseKept`: `Spec => Promise!Spec`. Every step is matched with one of `AbPromise`:
  `KernelStart` with `Boot` (the invariant says that the slot comes up), the resets with
  `Stop`, the updater's steps with `Change` of the other slot (`RunningSlotKept`).

`RxReorderProofs` (any number space, any window smaller than half of it, any stream):

* `TableTyped` and `ReorderInvHolds`: `TypeOK` and `ReorderInv` are inductive together.
  `Aligned` alone is not: while `check_start_win` is set the window's start is
  replaced without moving the slots, which is harmless because nothing is held then
  (`EmptyInDoubt`). A call takes the table through up to six stages (flush, doubt,
  no-drop, covering, placing, scanning); each has a lemma, and the calls combine them.
* `AlignedHolds` and `HeadIsHoleHolds` follow.

`RxOrderProofs` and `RxKeepProofs` add the transmitter's stream. Their first part says
what the 12-bit arithmetic means: if the window starts at number w of the stream
(w and `start_win` agree modulo `MaxTid`), then `IsOld`, `IsOutside`, `SlotOf` and
`WindowEndingAt` compute before, beyond, the distance and the right start for every
number the transmitter can send, wrapped or not (`OldOk`, `OutsideOk`, `EndingOk`).
Their second part follows a table through the stages of a call with w beside it
(`Runs`): nothing held is lost on the way (`Carries`), and where the window moves to
(`DispatchMoves`, `FlushMoves`, `StartMoves`, `CoverMoves`, `PlaceMoves`, `ScanMoves`,
combined in `OrderedCall`).

* `InOrderInvHolds`, `InOrderHolds`: assuming `Straight`, for any number space, window
  and stream, with BARs at any moment. `InOrder` says nothing about the
  window; `InOrderInv` adds that all it has sent up lies before its start, that what
  is held lies after it at the distance of its slot (as numbers, not only modulo
  `MaxTid`), and that as long as the start may be put back nothing has gone up.
  `Straight` keeps numbers and ssn below the wrap and the host awake. Both limits are
  needed: `RxWrapOrder` shows the first, the resume above the second. That the last
  number stays one below the wrap and the ssn within a window of the
  transmitter are the simplest sufficient bounds.
* `KeepInvHolds`, `NoNeedlessDropHolds`: assuming `Settled`, for any number space, window
  and stream, across the wrap and across sleeps. `KeepInv` says that every number
  before the window has gone up, or a later one has, or the transmitter is done with
  it; of a window in doubt, that the last packet forwarded has left the driver,
  since the start may be put behind it; and that the last packet seen, which the next
  agreement starts from, has gone up or is held. An agreement that has seen no packet
  may start ahead (`Fresh` in the proof); its first packet is then forwarded, or is the
  very one the window starts with. `Settled` leaves out the early BARs and an ssn
  further ahead, the cases above in which the property fails.

`RxWorkProofs` (any queue limits, ports and number of interrupts and role switches):

* `WorkInvHolds`: `WorkInv` adds to the properties that each process is single and
  marked as running (`Single`), that without role switches the block is the main
  process's and the rx work is waited for under it (`Blocked`), what the main process
  may still add to the queue (`Bounded`), and that an rx work which has found the queue
  empty is sent for again if it is not any more (`Seen`), without which the
  window between its last look and its end would lose a wake-up. `Seen` and
  `NotForgotten` count the packets that are neither `unsent` nor `asleep`: a step of the
  main process leaves their number as it is or sends for the rx work (`SendsMain`).
* `ExclusionHolds`, `QueueBoundHolds`, `NotForgottenHolds` follow; `HeldWatchedHolds` is
  inductive by itself with the types.

`CmdPathProofs` (any nodes, interfaces, requests, kinds and bounds):

* `CmdInvHolds`: `CmdInv` adds to `NodesPlaced` and `CompletedOnce` which node the main
  process has in hand (`Downloading`), that free nodes are clean and others carry a
  command (`CleanWhenFree`), that the upload port is full when the card says so, and
  `OneInFlight`: until a hang there is one command in one place between the command
  port and the response, and it is the current one. That is what replaces the
  comparison of sequence numbers the code does not make.
* `CmdTyped`, `NodesPlacedHolds`, `CompletedOnceHolds` and `RespOfCurrentHolds` follow.

Only model-checked: liveness (`Recovers`, `BlockEnds`, `Processed`,
`DeliveredUnlessLeft`, `HeldGoesUp`, `Answered`, and the fairness of `AbPromise` in `KeepsPromise`),
which is outside the prover. Every invariant of the passing runs is a theorem, `InOrder`
and `NoNeedlessDrop` with the hypotheses named above.

## Not modelled

* mx8mp's U-Boot environment (fitImage_active/_inactive; no update script is installed).
* A failing `echo` or `mv` in `set_sys_active` and file systems that reorder the
  rename before the data.
* The RSN replay check, coexistence window sizes, TDLS and access-point mode of the
  reordering.
* In the main process: transmission and the waking of the card for it, host sleep,
  `main_lock_flag`, the exits after a failed download of a command and a sent null packet
  (they leave like `MainNotRcvd`, and like it fall under the hypothesis `LooksAgain`), the
  build without `rx_work_flag` and the error exits of `wlan_process_int_status`.
* In the command path: the invalid response and the command refused before it is sent,
  MLAN_ACT_CANCEL, the scan queue, initialisation and warm reset, the sleep-confirm
  command, and what the handlers of the single commands do.
* STM32MP: the script calls `abootctl`, which is fetched from another repository and
  holds the state machine, as does U-Boot's side of it.
* The one-shot scripts and the build description.

The repository has about 267000 lines of code, nearly all of them the two vendored
drivers and their utilities: the filling and parsing of firmware structures, ioctl
and cfg80211 tables, and command lines. The models cover the state machines of the
update and the three concurrent kernels of the WLAN driver; the rest has little
state that a model would tell apart, so the share of mapped lines stays small.

## Plan

Done: `AbState`, `UBootFlow`, `ResetUpdateFlags`, `PrePostScript`, `AbUpdate`, `AbPromise`,
`RxReorder`, `RxWork`, `CmdPath`, and proof modules for the four models and the
refinement. What would come next, in this order:

1. The other half of the sleep handshake, the waking of the card for commands and
   transmission (`pm_wakeup_card_req`), on top of `CmdPath`.
2. The scan queue and MLAN_ACT_CANCEL in `CmdPath`.
3. The Bluetooth driver's command wait.
