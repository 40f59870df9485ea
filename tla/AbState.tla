------------------------------- MODULE AbState -------------------------------
(***************************************************************************)
(* State of one i.MX board with the A/B update scheme: what is kept in     *)
(* flash, what the running boot keeps in RAM, and the encoding of the file *)
(* sys_active that the update script writes and U-Boot reads.              *)
(*                                                                         *)
(* UBootFlow, ResetUpdateFlags and PrePostScript hold the steps of the     *)
(* three programs that share this state; AbUpdate composes them.           *)
(***************************************************************************)
EXTENDS Integers

CONSTANTS
    Board,        \* "mx6ul" (UBI flash) or "mx8mm" (eMMC): which scripts are installed
    BootLimit,    \* U-Boot's bootlimit: boots tried before altbootcmd is run
    MaxCuts,      \* bound: power cuts in one behaviour
    ExtMedia,     \* TRUE: a bootable SD card may be in the card slot
    EarlyUpdater  \* TRUE: SWUpdate takes an update before the last boot script has run

ASSUME BoardAssumption == Board \in {"mx6ul", "mx8mm"}
ASSUME BootLimitAssumption == BootLimit \in Nat \ {0}
ASSUME MaxCutsAssumption == MaxCuts \in Nat
ASSUME FlagsAssumption == ExtMedia \in BOOLEAN /\ EarlyUpdater \in BOOLEAN

VARIABLES
    \* In flash.
    upgrade_available, \* U-Boot environment: 1 while an update awaits its first good boot
    bootcount,         \* U-Boot environment: boots since it was cleared (saturating)
    sysActive,         \* bytes of the file sys_active on the boot file system
    root,              \* root[s]: does the root file system of slot s reach its boot scripts?
    kern,              \* kern[s]: what fitImage_<s> is worth to bootm
    whole,             \* whole[s]: slot s holds all of one update, nothing half-written
    \* In RAM, lost with every reset.
    sysCache,          \* sys_active as the mounted boot file system shows it
    phase,             \* how far this boot has come
    cur,               \* the slot (or SD card) this boot runs from
    fallback,          \* fallback_active, and "fallback" on the kernel command line
    wdt,               \* the watchdog U-Boot started is counting down
    rc,                \* program counter of reset-update-flags.sh
    upd,               \* program counter of the updater
    todo,              \* artefacts of this update that are not yet written
    busy,              \* the artefact being written, or NoArtefact
    \* Bookkeeping of the environment.
    cuts               \* power cuts so far

flashVars == <<upgrade_available, bootcount, sysActive, root, kern, whole>>
bootVars  == <<phase, cur, fallback, wdt>>
updVars   == <<upd, todo, busy>>
vars == <<flashVars, sysCache, bootVars, rc, updVars, cuts>>

-----------------------------------------------------------------------------
(* Slots and the file that names them. *)

Slots == {"A", "B"}
Sd    == "sd"
None  == "none"

Other(s) == IF s = "A" THEN "B" ELSE "A"

RootWorth == {"boots", "dead"}
KernWorth == {"boots", "hangs", "invalid"}

\* The text the scripts write: first the active slot, then the fallback slot.
Byte(s) == IF s = "A" THEN 65 ELSE 66
SysText(act, fb) == <<Byte(act), Byte(fb)>>
SysTexts == {SysText(a, f) : a \in Slots, f \in Slots}
NoFile == <<>>

\* itest.w *${loadaddr}: the first two bytes as a little-endian word.
ItestW(text) == text[1] + 256 * text[2]

\* A system in slot s comes up as far as its last boot script.
Starts(s) == root[s] = "boots" /\ kern[s] = "boots"

-----------------------------------------------------------------------------
(* What an update consists of. *)

Artefacts == {"root", "fitImage", "bootfs"} \X Slots
NoArtefact == <<"none", "A">>

RcSteps  == {"off", "wdt", "flag", "setflag", "count", "setcount", "done"}
UpdSteps == {"idle", "clear", "select", "wiping", "switch", "setactive", "umount",
             "partition", "install"}

\* The state a reset leaves the RAM in; sysCache is dealt with by each reset.
Reset ==
    /\ phase' = "reset"
    /\ cur' = None
    /\ fallback' = FALSE
    /\ wdt' = FALSE
    /\ rc' = "off"
    /\ upd' = "idle"
    /\ todo' = {}
    /\ busy' = NoArtefact
=============================================================================
