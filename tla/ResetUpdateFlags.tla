-------------------------- MODULE ResetUpdateFlags ---------------------------
(***************************************************************************)
(* reset-update-flags.sh, the last boot script (start 99) of every image.  *)
(* It has no check of the system's health: to have been reached is the     *)
(* check.  Each fw_printenv and fw_setenv is a step of its own, since the  *)
(* power may fail, or the updater may run, between them.                   *)
(***************************************************************************)
EXTENDS AbState

\* Mutant of WantedFlag: the flag is cleared whatever the command line says.
WantedFlagAlwaysClear == 0

\* upgrade_available as this boot wants it: a fallback boot keeps it set, a
\* regular boot confirms the update by clearing it.
WantedFlag == IF fallback THEN 1 ELSE 0

RcAt(step) == phase = "user" /\ rc = step

\* echo V > /dev/watchdog
RcStopWatchdog ==
    /\ RcAt("wdt")
    /\ wdt' = FALSE
    /\ rc' = "flag"
    /\ UNCHANGED <<flashVars, sysCache, phase, cur, fallback, updVars, cuts>>

\* fw_printenv upgrade_available, and the comparison with the wanted value
RcReadFlag ==
    /\ RcAt("flag")
    /\ rc' = IF upgrade_available # WantedFlag THEN "setflag" ELSE "count"
    /\ UNCHANGED <<flashVars, sysCache, bootVars, updVars, cuts>>

\* fw_setenv upgrade_available
RcSetFlag ==
    /\ RcAt("setflag")
    /\ upgrade_available' = WantedFlag
    /\ rc' = "count"
    /\ UNCHANGED <<bootcount, sysActive, root, kern, whole, sysCache, bootVars,
                   updVars, cuts>>

\* Mutant of RcReadCount: a fallback boot keeps its boot count.
RcReadCountRegularOnly ==
    /\ RcAt("count")
    /\ rc' = IF bootcount # 0 /\ ~fallback THEN "setcount" ELSE "done"
    /\ UNCHANGED <<flashVars, sysCache, bootVars, updVars, cuts>>

\* fw_printenv bootcount
RcReadCount ==
    /\ RcAt("count")
    /\ rc' = IF bootcount # 0 THEN "setcount" ELSE "done"
    /\ UNCHANGED <<flashVars, sysCache, bootVars, updVars, cuts>>

\* fw_setenv bootcount 0
RcSetCount ==
    /\ RcAt("setcount")
    /\ bootcount' = 0
    /\ rc' = "done"
    /\ UNCHANGED <<upgrade_available, sysActive, root, kern, whole, sysCache,
                   bootVars, updVars, cuts>>

RcNext ==
    \/ RcStopWatchdog
    \/ RcReadFlag
    \/ RcSetFlag
    \/ RcReadCount
    \/ RcSetCount
=============================================================================
