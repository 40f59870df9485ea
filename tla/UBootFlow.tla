------------------------------ MODULE UBootFlow ------------------------------
(***************************************************************************)
(* A boot of the board: U-Boot's boot counter (external), the environment  *)
(* scripts of sl-mx6ul.env and sl-mx8mm.env that choose a slot and start   *)
(* its kernel, and the kernel's way to user space (external).              *)
(*                                                                         *)
(* Both boards try the SD card first (vendor_boot) and then the A/B flash  *)
(* (vendor_ab_boot); when the list of targets ends without a boot the      *)
(* script resets the board.                                                *)
(***************************************************************************)
EXTENDS AbState

\* Mutant of CountedBoot: every boot is counted, an update pending or not.
CountedBootAlways == bootcount + 1

\* bootcount with CONFIG_BOOTCOUNT_ENV: counted, and saved, only while an
\* update is pending.  Saturates one above the limit, where the comparison
\* with the limit no longer changes.
CountedBoot ==
    IF upgrade_available = 1 /\ bootcount <= BootLimit
    THEN bootcount + 1 ELSE bootcount

\* Reset to the boot command: count the boot, then bootcmd or, above the
\* limit, altbootcmd, which sets fallback_active and adds "fallback" to bootargs.
UBootStart ==
    /\ phase = "reset"
    /\ bootcount' = CountedBoot
    /\ fallback' = (upgrade_available = 1 /\ CountedBoot > BootLimit)
    /\ phase' = "bootcmd"
    /\ UNCHANGED <<upgrade_available, sysActive, root, kern, whole, sysCache,
                   cur, wdt, rc, updVars, cuts>>

\* Mutant of ActivePart: the fallback words compared in big-endian order.
ActivePartBigEndian(text, fallback_active) ==
    IF fallback_active
    THEN IF text[2] + 256 * text[1] \in {16962, 16961} THEN "B" ELSE "A"
    ELSE IF text[1] = 65 THEN "A" ELSE "B"

\* vendor_set_ab_bootargs: the slot named by the text of sys_active.  A normal
\* boot looks at the first byte, 0x41 being A; a fallback boot compares the
\* word with 0x4242 and 0x4241 (slot b) and leaves slot a otherwise, either by
\* its own test or because active_part=a is the environment's default.
ActivePart(text, fallback_active) ==
    IF fallback_active
    THEN IF ItestW(text) \in {16962, 16961} THEN "B" ELSE "A"
    ELSE IF text[1] = 65 THEN "A" ELSE "B"

Act == ActivePart(sysActive, FALSE)
Fb  == ActivePart(sysActive, TRUE)

\* vendor_boot: the SD card holds a kernel, so it is booted.  No watchdog.
VendorBoot ==
    /\ phase = "bootcmd"
    /\ ExtMedia
    /\ phase' = "kernel"
    /\ cur' = Sd
    /\ UNCHANGED <<flashVars, sysCache, fallback, wdt, rc, updVars, cuts>>

\* Mutant of VendorAbBoot: the watchdog is started for fallback boots only.
VendorAbBootNoWatchdog ==
    LET slot == ActivePart(sysActive, fallback) IN
    /\ phase = "bootcmd"
    /\ sysActive # NoFile
    /\ kern[slot] # "invalid"
    /\ phase' = "kernel"
    /\ cur' = slot
    /\ wdt' = (upgrade_available = 1 /\ fallback)
    /\ UNCHANGED <<flashVars, sysCache, fallback, rc, updVars, cuts>>

\* vendor_ab_boot and vendor_bootm: the slot's kernel is loaded and passes
\* bootm's checks; the watchdog runs while an update is pending.
VendorAbBoot ==
    LET slot == ActivePart(sysActive, fallback) IN
    /\ phase = "bootcmd"
    /\ sysActive # NoFile
    /\ kern[slot] # "invalid"
    /\ phase' = "kernel"
    /\ cur' = slot
    /\ wdt' = (upgrade_available = 1)
    /\ UNCHANGED <<flashVars, sysCache, fallback, rc, updVars, cuts>>

\* vendor_ab_boot without a boot: no partition file, no image, or an image
\* bootm refuses.  Every one of these paths ends in "reset".
VendorAbReset ==
    /\ phase = "bootcmd"
    /\ \/ sysActive = NoFile
       \/ sysActive # NoFile /\ kern[ActivePart(sysActive, fallback)] = "invalid"
    /\ Reset
    /\ UNCHANGED <<flashVars, sysCache, cuts>>

\* The kernel mounts its root and init runs the boot scripts in order.
KernelStart ==
    /\ phase = "kernel"
    /\ cur # Sd => Starts(cur)
    /\ phase' = "user"
    /\ rc' = "wdt"
    /\ UNCHANGED <<flashVars, sysCache, cur, fallback, wdt, updVars, cuts>>

\* A kernel that hangs or panics (no panic= on the command line) stays so
\* until the watchdog bites, if it was started.
WatchdogReset ==
    /\ phase = "kernel"
    /\ cur # Sd
    /\ ~Starts(cur)
    /\ wdt
    /\ Reset
    /\ UNCHANGED <<flashVars, sysCache, cuts>>
=============================================================================
