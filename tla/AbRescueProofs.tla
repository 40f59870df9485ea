--------------------------- MODULE AbRescueProofs ----------------------------
(***************************************************************************)
(* The safety of the A/B scheme: a board without SD card, whose updater    *)
(* waits for the boot scripts and which loses power less often than U-Boot *)
(* retries, always has a system to come up with.                           *)
(***************************************************************************)
EXTENDS AbUpdateProofs

\* The circumstances under which RescueInv is inductive.
Sheltered == ~ExtMedia /\ ~EarlyUpdater /\ MaxCuts < BootLimit

\* A board as shipped boots from A, with B, which boots too, as its fallback.
LEMMA RescueInit == Init => RescueInv
<1>. SUFFICES ASSUME Init PROVE RescueInv
     OBVIOUS
<1>1. sysActive \in SysTexts /\ sysCache = sysActive
      BY DEF Init, SysTexts, Slots
<1>2. \A s \in Slots : Starts(s)
      BY DEF Init, Starts
<1>3. Rescue /\ CountLow
      BY <1>2, PartIsSlot DEF Init, Rescue, CountLow, Act, Fb
<1>. QED  BY <1>1, <1>3 DEF Init, RescueInv, QuietBoot, BootedAsNamed, NamesRunning, Pending

\* A boot that will not come up is never the last resort: while attempts are
\* left it is the active slot that fails, and when none is left, the boot count
\* says that the fallback entry does not name a wiped slot.
LEMMA FailedBootHasFallback ==
    ASSUME Sheltered, TypeOK, RescueInv, phase \in {"bootcmd", "kernel"},
           ~Starts(ActivePart(sysActive, fallback))
    PROVE  Starts(Fb)
<1>1. CASE fallback
      BY <1>1, BootLimitAssumption, MaxCutsAssumption
      DEF Sheltered, TypeOK, RescueInv, Pending, CountLow
<1>2. CASE ~fallback
      BY <1>2 DEF RescueInv, Rescue, Act, TypeOK
<1>. QED  BY <1>1, <1>2

\* A step of the updater is taken after the boot scripts are through, leaves
\* upgrade_available set, and leaves in flash and in the cache only texts that
\* name the running slot.
LEMMA UpdaterStep ==
    ASSUME Sheltered, TypeOK, TargetInv, RescueInv, UpdNext
    PROVE  /\ phase = "user" /\ rc = "done"
           /\ UNCHANGED <<bootVars, rc, cuts>>
           /\ bootcount' = 0 /\ upgrade_available' = 1
           /\ sysActive' \in {sysActive, sysCache}
           /\ sysCache' \in {sysCache, FallbackText(cur), SwitchedText(cur)}
<1>. USE DEF flashVars, bootVars, updVars, UpdAt
<1>1. phase = "user" /\ cur \in Slots
      BY DEF UpdNext, Preinst, SwUpdate, UpdStart, UpdClearCount, WipeBegin, WipeEnd,
             PreinstSkip, SetFallback, SetActive, Umount, PreinstFail, Partition, WriteBegin,
             WriteEnd, InstallDone, InstallFail, RescueInv, BootedAsNamed
<1>2. rc = "done"
      BY DEF UpdNext, Preinst, SwUpdate, UpdStart, UpdClearCount, WipeBegin, WipeEnd,
             PreinstSkip, SetFallback, SetActive, Umount, PreinstFail, Partition, WriteBegin,
             WriteEnd, InstallDone, InstallFail, RescueInv, QuietBoot, Sheltered
<1>3. bootcount = 0
      BY <1>1, <1>2 DEF RescueInv, CountLow
<1>4. upd # "idle" => upgrade_available = 1
      BY DEF RescueInv, Pending
<1>5. CASE Preinst
      BY <1>1, <1>2, <1>3, <1>4, <1>5
      DEF Preinst, UpdStart, UpdClearCount, WipeBegin, WipeEnd,
          PreinstSkip, SetFallback, SetActive, Umount, PreinstFail
<1>6. ASSUME NEW a \in Artefacts, WriteBegin(a) \/ WriteEnd(a)
      PROVE  UNCHANGED <<upgrade_available, bootcount, sysActive, sysCache, bootVars, rc, cuts>>
  <2>1. a \in ArtefactsOf(Other(cur)) /\ Other(cur) # "setup"
        BY <1>1, <1>6 DEF TargetInv, UpdateFs, WriteBegin, WriteEnd, Other
  <2>2. a[1] # "bootfs"
        BY <2>1 DEF ArtefactsOf
  <2>. QED  BY <1>6, <2>2 DEF WriteBegin, WriteEnd
<1>7. CASE Partition \/ InstallDone \/ InstallFail
  <2>1. ~Partition /\ UpdateFs(cur) # "setup"
        BY <1>1 DEF Partition, TargetInv, UpdateFs, Other
  <2>. QED  BY <1>1, <1>2, <1>3, <1>4, <1>7, <2>1 DEF InstallDone, InstallFail
<1>8. CASE \E a \in Artefacts : WriteBegin(a) \/ WriteEnd(a)
  <2>1. upgrade_available = 1
        BY <1>4, <1>8 DEF WriteBegin, WriteEnd
  <2>. QED  BY <1>1, <1>2, <1>3, <1>6, <1>8, <2>1
<1>. QED  BY <1>5, <1>7, <1>8 DEF UpdNext, SwUpdate

\* Both texts of do_switch_fitImage name the slot the script runs from.
LEMMA ScriptTexts ==
    ASSUME NEW s \in Slots, NEW text \in {FallbackText(s), SwitchedText(s)}
    PROVE  text \in SysTexts /\ s \in Named(text)
<1>1. PICK a \in Slots, f \in Slots : text = SysText(a, f) /\ s \in {a, f}
      BY DEF FallbackText, SwitchedText, Slots
<1>2. text \in SysTexts
      BY <1>1 DEF SysTexts
<1>3. ActivePart(text, FALSE) = a /\ ActivePart(text, TRUE) = f
      BY <1>1, Decode
<1>. QED  BY <1>1, <1>2, <1>3 DEF Named

\* Every step keeps RescueInv: boots that fail are counted, the boot script
\* confirms only the slot the file names active, the updater leaves the running
\* slot named, and a power cut loses at most the cached text.
LEMMA RescueStep ==
    ASSUME Sheltered
    PROVE  TypeOK /\ TargetInv /\ RescueInv /\ [Next]_vars => RescueInv'
<1>. SUFFICES ASSUME TypeOK, TargetInv, RescueInv, [Next]_vars PROVE RescueInv'
     OBVIOUS
<1>. USE BootLimitAssumption, MaxCutsAssumption
<1>. USE DEF flashVars, bootVars, updVars
<1>0. bootcount \in Int /\ bootcount' \in Int /\ cuts \in Int /\ cuts' \in Int
      BY TypeStep DEF TypeOK
<1>1. CASE UBootStart
  <2>1. Rescue' /\ QuietBoot' /\ BootedAsNamed' /\ NamesRunning'
        BY <1>1 DEF UBootStart, RescueInv, Rescue, QuietBoot, BootedAsNamed, NamesRunning,
                    Act, Fb, Starts
  <2>2. Pending'
        BY <1>1 DEF UBootStart, CountedBoot, RescueInv, QuietBoot, Pending
  <2>3. CountLow'
    <3>1. bootcount' <= bootcount + 1 /\ cuts' = cuts /\ phase = "reset" /\ phase' = "bootcmd"
          BY <1>1 DEF UBootStart, CountedBoot, TypeOK
    <3>2. upgrade_available' = upgrade_available /\ (Starts(Fb)' <=> Starts(Fb))
          BY <1>1 DEF UBootStart, Fb, Starts
    <3>. QED  BY <1>0, <3>1, <3>2 DEF RescueInv, CountLow
  <2>. QED  BY <1>1, <2>1, <2>2, <2>3 DEF UBootStart, RescueInv
<1>2. CASE VendorBoot
      BY <1>2 DEF VendorBoot, Sheltered
<1>3. CASE VendorAbBoot
      BY <1>3, PartIsSlot DEF VendorAbBoot, TypeOK, RescueInv, Rescue, QuietBoot, BootedAsNamed,
                  NamesRunning, Pending, CountLow, Act, Fb, Starts
<1>4. CASE VendorAbReset
  <2>1. Starts(Fb)
        BY <1>4, FailedBootHasFallback DEF VendorAbReset, RescueInv, SysTexts, Slots, SysText, NoFile, Starts
  <2>2. Rescue' /\ CountLow'
        BY <1>4, <2>1 DEF VendorAbReset, Reset, RescueInv, Rescue, CountLow, Act, Fb, Starts
  <2>. QED
       BY <1>4, <2>2 DEF VendorAbReset, Reset, RescueInv, QuietBoot, BootedAsNamed, NamesRunning, Pending
<1>5. CASE KernelStart
  <2>1. /\ cur \in Slots /\ Starts(cur) /\ Starts(cur)'
        /\ cur = ActivePart(sysActive, fallback)
        BY <1>5 DEF KernelStart, RescueInv, BootedAsNamed, Slots, Sd, Starts
  <2>2. Rescue' /\ CountLow'
        BY <1>5 DEF KernelStart, RescueInv, Rescue, CountLow, Act, Fb, Starts
  <2>3. BootedAsNamed' /\ QuietBoot' /\ Pending'
        BY <1>5, <2>1 DEF KernelStart, RescueInv, BootedAsNamed, QuietBoot, Pending
  <2>4. NamesRunning'
        BY <1>5, <2>1 DEF KernelStart, TypeOK, RescueInv, QuietBoot, NamesRunning, Named, Pending
  <2>. QED  BY <1>5, <2>2, <2>3, <2>4 DEF KernelStart, RescueInv
<1>6. CASE WatchdogReset
  <2>1. Starts(Fb)
        BY <1>6, FailedBootHasFallback DEF WatchdogReset, RescueInv, BootedAsNamed
  <2>2. Rescue' /\ CountLow'
        BY <1>6, <2>1 DEF WatchdogReset, Reset, RescueInv, Rescue, CountLow, Act, Fb, Starts
  <2>. QED
       BY <1>6, <2>2 DEF WatchdogReset, Reset, RescueInv, QuietBoot, BootedAsNamed, NamesRunning, Pending
<1>7. CASE RcNext
  <2>. USE <1>7 DEF RcNext, RcStopWatchdog, RcReadFlag, RcSetFlag, RcReadCount, RcSetCount, RcAt
  <2>1. phase = "user" /\ rc # "done"
        OBVIOUS
  <2>2. cur = ActivePart(sysActive, fallback) /\ sysCache = sysActive /\ upd = "idle"
        BY <2>1 DEF RescueInv, BootedAsNamed, QuietBoot
  <2>3. UNCHANGED <<phase, cur, fallback, upd, root, kern, sysActive, sysCache, cuts>>
        OBVIOUS
  <2>4. fallback => upgrade_available' = 1
        BY DEF RescueInv, Pending, WantedFlag
  <2>5. upgrade_available' = upgrade_available \/ upgrade_available' = 0 \/ fallback
        BY DEF WantedFlag
  <2>6. BootedAsNamed' /\ QuietBoot' /\ Pending'
        BY <2>1, <2>2, <2>3, <2>4 DEF RescueInv, BootedAsNamed, QuietBoot, Pending, Starts
  <2>7. NamesRunning'
        BY <2>1, <2>2, <2>3, <2>4 DEF TypeOK, NamesRunning, Named
  <2>8. Rescue'
        BY <2>1, <2>3, <2>6, <2>7 DEF BootedAsNamed, NamesRunning, Named, Rescue, Act, Fb, Starts
  <2>9. CountLow'
    <3>1. CASE fallback
          BY <2>1, <2>2, <2>3, <3>1 DEF RescueInv, BootedAsNamed, CountLow, Fb, Starts, TypeOK
    <3>2. CASE ~fallback
      <4>1. bootcount' \in {bootcount, 0} /\ (rc' = "done" => bootcount' = 0)
            OBVIOUS
      <4>2. Starts(Fb)' <=> Starts(Fb)
            BY <2>3 DEF Fb, Starts
      <4>3. cuts >= 0
            BY DEF TypeOK
      <4>. QED  BY <1>0, <2>1, <2>3, <2>5, <3>2, <4>1, <4>2, <4>3 DEF RescueInv, CountLow
    <3>. QED  BY <3>1, <3>2
  <2>. QED  BY <2>3, <2>6, <2>7, <2>8, <2>9 DEF RescueInv
<1>8. CASE UpdNext
  <2>1. /\ phase = "user" /\ rc = "done"
        /\ UNCHANGED <<bootVars, rc, cuts>>
        /\ bootcount' = 0 /\ upgrade_available' = 1
        /\ sysActive' \in {sysActive, sysCache}
        /\ sysCache' \in {sysCache, FallbackText(cur), SwitchedText(cur)}
        BY <1>8, UpdaterStep
  <2>2. cur \in Slots /\ Starts(cur)
        BY <2>1 DEF RescueInv, BootedAsNamed
  <2>3. Starts(cur)'
        BY <1>8, <2>1, <2>2, RunningSlotKept DEF Next, Starts
  <2>4. \A text \in {sysActive', sysCache'} : text \in SysTexts /\ cur \in Named(text)
        BY <2>1, <2>2, ScriptTexts DEF RescueInv, NamesRunning
  <2>5. NamesRunning' /\ BootedAsNamed'
        BY <2>1, <2>2, <2>3, <2>4 DEF NamesRunning, Named, BootedAsNamed
  <2>6. Rescue'
        BY <2>1, <2>2, <2>3, <2>4 DEF Named, Rescue, Act, Fb
  <2>7. QuietBoot' /\ Pending' /\ CountLow'
        BY <2>1 DEF QuietBoot, Pending, CountLow, TypeOK
  <2>. QED  BY <2>4, <2>5, <2>6, <2>7 DEF RescueInv
<1>9. CASE Writeback
  <2>1. phase = "user" /\ rc = "done" /\ sysActive' = sysCache
        BY <1>9 DEF Writeback, RescueInv, QuietBoot
  <2>2. NamesRunning' /\ BootedAsNamed' /\ QuietBoot' /\ Pending'
        BY <1>9, <2>1 DEF Writeback, RescueInv, NamesRunning, Named, BootedAsNamed, QuietBoot, Pending, Starts
  <2>3. Rescue'
        BY <1>9, <2>1, <2>2 DEF Writeback, BootedAsNamed, NamesRunning, Named, Rescue, Act, Fb, Starts
  <2>4. CountLow'
        BY <1>9, <2>1 DEF Writeback, RescueInv, CountLow, TypeOK
  <2>. QED  BY <1>9, <2>2, <2>3, <2>4 DEF Writeback, RescueInv
<1>10. CASE PowerCut
  <2>1. Rescue'
        BY <1>10 DEF PowerCut, RescueInv, Rescue, Act, Fb, Starts
  <2>2. CountLow'
    <3>1. /\ cuts' = cuts + 1 /\ phase' = "reset"
          /\ UNCHANGED <<bootcount, upgrade_available>>
          BY <1>10 DEF PowerCut, Reset
    <3>2. Starts(Fb)' <=> Starts(Fb)
          BY <1>10 DEF PowerCut, Fb, Starts
    <3>. QED  BY <1>0, <3>1, <3>2 DEF RescueInv, CountLow
  <2>. QED
       BY <1>10, <2>1, <2>2 DEF PowerCut, Reset, RescueInv, QuietBoot, BootedAsNamed, NamesRunning, Pending
<1>11. CASE Reboot
  <2>1. Rescue'
        BY <1>11 DEF Reboot, RescueInv, BootedAsNamed, NamesRunning, Named, Rescue, Act, Fb, Starts
  <2>2. CountLow'
        BY <1>11 DEF Reboot, Reset, RescueInv, CountLow, TypeOK
  <2>. QED
       BY <1>11, <2>1, <2>2 DEF Reboot, Reset, RescueInv, QuietBoot, BootedAsNamed, NamesRunning, Pending
<1>12. CASE UNCHANGED vars
      BY <1>12 DEF vars, RescueInv, Rescue, QuietBoot, BootedAsNamed,
                  NamesRunning, Named, Pending, CountLow, Act, Fb, Starts
<1>. QED
     BY <1>1, <1>2, <1>3, <1>4, <1>5, <1>6, <1>7, <1>8, <1>9, <1>10, <1>11, <1>12
     DEF Next, BootNext

-----------------------------------------------------------------------------
(* The theorems *)

\* RescueInv holds throughout.
THEOREM RescueInvHolds ==
    ASSUME Sheltered PROVE Spec => [](TypeOK /\ RescueInv)
<1>1. TypeOK /\ TargetInv /\ RescueInv /\ [Next]_vars => RescueInv'
      BY RescueStep
<1>. QED  BY <1>1, RescueInit, TypeCorrect, PTL DEF Spec

\* The board is never lost: if the slot U-Boot would try next does not come up,
\* then that boot is counted and the fallback slot comes up.
THEOREM NeverLost ==
    ASSUME Sheltered PROVE Spec => []Rescue
<1>1. RescueInv => Rescue
      BY DEF RescueInv
<1>. QED  BY <1>1, RescueInvHolds, PTL

\* When U-Boot turns to altbootcmd, the slot it picks there comes up.
THEOREM FallbackAlwaysStarts ==
    ASSUME Sheltered PROVE Spec => []FallbackStarts
<1>1. TypeOK /\ RescueInv => FallbackStarts
      BY BootLimitAssumption, MaxCutsAssumption
      DEF Sheltered, TypeOK, RescueInv, CountLow, FallbackStarts
<1>. QED  BY <1>1, RescueInvHolds, PTL

\* No system runs beside a sys_active that names the other slot unless the
\* next boot is counted.
THEOREM FallbackAlwaysArmed ==
    ASSUME Sheltered PROVE Spec => []FallbackArmed
<1>1. RescueInv => FallbackArmed
      BY DEF RescueInv, NamesRunning, FallbackArmed, Act
<1>. QED  BY <1>1, RescueInvHolds, PTL

\* A kernel that hangs was started with the watchdog running.
THEOREM HangsAreWatched ==
    ASSUME Sheltered PROVE Spec => []HangIsWatched
<1>1. TypeOK /\ RescueInv => HangIsWatched
  <2>. SUFFICES ASSUME TypeOK, RescueInv, phase = "kernel", ~Starts(cur)
                PROVE  wdt
       BY DEF HangIsWatched
  <2>1. cur = ActivePart(sysActive, fallback)
        BY DEF RescueInv, BootedAsNamed
  <2>2. upgrade_available = 1
        BY <2>1 DEF TypeOK, RescueInv, Pending, Rescue, Act
  <2>. QED  BY <2>2 DEF RescueInv, Pending
<1>. QED  BY <1>1, RescueInvHolds, PTL
=============================================================================
