------------------------------ MODULE AbUpdate -------------------------------
(***************************************************************************)
(* The A/B update of the i.MX boards as a whole: U-Boot, the last boot     *)
(* script and the updater take turns on the state of AbState, and the      *)
(* power may fail at any moment.                                           *)
(***************************************************************************)
EXTENDS UBootFlow, ResetUpdateFlags, PrePostScript

-----------------------------------------------------------------------------
(* The environment *)

\* A board as bootfs.bbclass and the initial environment leave it.
Init ==
    /\ upgrade_available = 0
    /\ bootcount = 0
    /\ sysActive = SysText("A", "B")
    /\ root = [s \in Slots |-> "boots"]
    /\ kern = [s \in Slots |-> "boots"]
    /\ whole = [s \in Slots |-> TRUE]
    /\ sysCache = SysText("A", "B")
    /\ phase = "reset"
    /\ cur = None
    /\ fallback = FALSE
    /\ wdt = FALSE
    /\ rc = "off"
    /\ upd = "idle"
    /\ todo = {}
    /\ busy = NoArtefact
    /\ cuts = 0

\* The kernel writes the renamed sys_active out before umount asks it to.
Writeback ==
    /\ phase = "user"
    /\ sysActive # sysCache
    /\ sysActive' = sysCache
    /\ UNCHANGED <<upgrade_available, bootcount, root, kern, whole, sysCache,
                   bootVars, rc, updVars, cuts>>

\* The power fails, or somebody presses reset: what is not in flash is gone.
PowerCut ==
    /\ phase # "reset"
    /\ cuts < MaxCuts
    /\ cuts' = cuts + 1
    /\ sysCache' = sysActive
    /\ Reset
    /\ UNCHANGED flashVars

\* An orderly reboot once the boot and the update are through.
Reboot ==
    /\ phase = "user"
    /\ rc = "done"
    /\ upd = "idle"
    /\ sysActive' = sysCache
    /\ Reset
    /\ UNCHANGED <<upgrade_available, bootcount, root, kern, whole, sysCache, cuts>>

BootNext ==
    \/ UBootStart
    \/ VendorBoot
    \/ VendorAbBoot
    \/ VendorAbReset
    \/ KernelStart
    \/ WatchdogReset

Next ==
    \/ BootNext
    \/ RcNext
    \/ UpdNext
    \/ Writeback
    \/ PowerCut
    \/ Reboot

Spec == Init /\ [][Next]_vars

\* A board that is powered runs its boot loader, its kernel, its watchdog and
\* its boot scripts; nothing obliges anybody to update or to reboot it.
Fairness == WF_vars(BootNext) /\ WF_vars(RcNext)
FairSpec == Spec /\ Fairness

-----------------------------------------------------------------------------
(* Properties *)

\* Every variable is in its domain; a slot runs only in kernel and user phase.
TypeOK ==
    /\ upgrade_available \in {0, 1}
    /\ bootcount \in 0 .. (BootLimit + 1)
    /\ sysActive \in SysTexts \cup {NoFile}
    /\ sysCache \in SysTexts \cup {NoFile}
    /\ root \in [Slots -> RootWorth]
    /\ kern \in [Slots -> KernWorth]
    /\ whole \in [Slots -> BOOLEAN]
    /\ phase \in {"reset", "bootcmd", "kernel", "user"}
    /\ cur \in Slots \cup {Sd, None}
    /\ fallback \in BOOLEAN
    /\ wdt \in BOOLEAN
    /\ rc \in RcSteps
    /\ upd \in UpdSteps
    /\ todo \subseteq Artefacts
    /\ busy \in Artefacts \cup {NoArtefact}
    /\ cuts \in 0 .. MaxCuts
    /\ cur = None <=> phase \in {"reset", "bootcmd"}
    /\ rc = "off" <=> phase # "user"
    /\ upd # "idle" => phase = "user"

\* The board is never lost: whenever the slot sys_active makes active would
\* not come up, the boot counter is armed and the fallback slot would come up.
\* sys_active is rewritten after the standby slot is wiped, so this rests on
\* the running slot being named in every text that can be in flash.
Rescue ==
    ~Starts(Act) => upgrade_available = 1 /\ Starts(Fb)

\* When the boot counter has passed the limit, vendor_set_ab_bootargs is about
\* to be run with fallback_active=1: the slot it then picks must come up.
FallbackStarts ==
    upgrade_available = 1 /\ bootcount > BootLimit => Starts(Fb)

\* While a slot runs and sys_active already names the other one active ("Set
\* active root partition to B with Fallback on A"), upgrade_available is 1, so
\* the next boot is counted and watched.
FallbackArmed ==
    phase = "user" /\ cur \in Slots /\ Act # cur => upgrade_available = 1

\* A kernel that will not come up was started with the watchdog running.
HangIsWatched ==
    phase = "kernel" /\ cur \in Slots /\ ~Starts(cur) => wdt

\* The slot the script wiped, the slot SWUpdate writes and the slot sys_active
\* names for the next boot are one and the same while artefacts are written.
TargetsAgree ==
    UpdAt("install") /\ cur \in Slots =>
        /\ \A a \in todo \cup ({busy} \ {NoArtefact}) : a[2] = WipeTarget(cur)
        /\ ActivePart(sysCache, FALSE) = WipeTarget(cur)
        /\ ActivePart(sysCache, TRUE) = cur

\* No step of any program changes the system that is running from flash.
RunningSlotUntouched ==
    [][phase = "user" /\ cur \in Slots =>
          root'[cur] = root[cur] /\ kern'[cur] = kern[cur]]_vars

\* A slot that comes up without the word fallback confirms itself; it must
\* then hold a whole update ("The last system-update failed" is what a fallback
\* boot reports otherwise).
ConfirmedWhole ==
    phase = "user" /\ rc = "done" /\ upd = "idle" /\ cur \in Slots /\ Act = cur
        /\ upgrade_available = 0 => whole[cur]

\* A board that comes up again and again, whatever the power and the update
\* did before: boots that fail are counted by U-Boot, ended by the watchdog and
\* in the end replaced by the fallback, whose boot scripts then all run.
Recovers == []<>(phase = "user" /\ rc = "done")

\* What the programs promise together, whatever their steps: AbPromise, with the
\* slots that come up and the slot whose boot scripts run.
Promise == INSTANCE AbPromise
    WITH Slots <- Slots, None <- None,
         good <- {s \in Slots : Starts(s)},
         running <- IF phase = "user" THEN cur ELSE None

\* The update of a board without SD card keeps that promise: every step is a
\* step of AbPromise or invisible to it, and a board that is down comes up.
KeepsPromise == Promise!FairSpec

-----------------------------------------------------------------------------
(* Inductive invariants.  TargetInv, with TypeOK, is inductive for every    *)
(* board; RescueInv for a board without SD card whose updater waits for the *)
(* boot scripts and that loses power less often than U-Boot retries.        *)

\* What the updater knows at each of its steps: it started from a system that
\* has a selection, prepares a slot only when it runs from the other one, has
\* written that choice to sys_active, and has only that slot's artefacts left.
TargetInv ==
    /\ upd # "idle" => UpdateFs(cur) # None
    /\ upd \in {"wiping", "switch", "setactive", "umount"} => cur \in Slots
    /\ upd = "partition" => cur \notin Slots
    /\ upd \in {"umount", "install"} /\ cur \in Slots => sysCache = SwitchedText(cur)
    /\ upd = "install" => todo \subseteq ArtefactsOf(UpdateFs(cur))
    /\ busy # NoArtefact => upd = "install" /\ busy \in todo

\* The slots a text of sys_active names.
Named(text) == {ActivePart(text, FALSE), ActivePart(text, TRUE)}

\* Nothing is mounted or being updated before the boot scripts are through.
QuietBoot ==
    phase # "user" \/ rc # "done" => upd = "idle" /\ sysCache = sysActive

\* The slot that runs, or is being started, is the one the file names.
BootedAsNamed ==
    /\ phase = "user" => cur \in Slots /\ Starts(cur)
    /\ phase = "kernel" => cur \in Slots
    /\ phase = "kernel" \/ (phase = "user" /\ rc # "done") =>
          cur = ActivePart(sysActive, fallback)

\* Both versions of the file, the one in flash and the one in the cache, name
\* the running slot, and a boot into the other one would be counted.
NamesRunning ==
    phase = "user" =>
        \A text \in {sysActive, sysCache} :
            /\ cur \in Named(text)
            /\ ActivePart(text, FALSE) # cur => upgrade_available = 1

\* An update, a fallback boot and a running watchdog all mean a pending update.
Pending ==
    /\ upd # "idle" => upgrade_available = 1
    /\ fallback => upgrade_available = 1
    /\ fallback /\ phase \in {"bootcmd", "kernel"} => bootcount > BootLimit
    /\ phase = "kernel" => (wdt <=> upgrade_available = 1)

\* While the fallback entry names a wiped slot, only power cuts can raise the
\* boot count, one boot each.
CountLow ==
    /\ phase = "user" /\ rc = "done" => bootcount = 0
    /\ upgrade_available = 1 /\ ~Starts(Fb) =>
          bootcount <= cuts + 1 /\ (phase = "reset" => bootcount <= cuts)

\* The inductive invariant: Rescue with what keeps it true.
RescueInv ==
    /\ sysActive \in SysTexts
    /\ sysCache \in SysTexts
    /\ Rescue
    /\ QuietBoot
    /\ BootedAsNamed
    /\ NamesRunning
    /\ Pending
    /\ CountLow
=============================================================================
