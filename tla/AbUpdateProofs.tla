--------------------------- MODULE AbUpdateProofs ----------------------------
(***************************************************************************)
(* What holds of the A/B update for every board, boot limit and number of  *)
(* power cuts.                                                             *)
(***************************************************************************)
EXTENDS AbUpdate, TLAPS

-----------------------------------------------------------------------------
(* The text of sys_active *)

\* What the script writes with SysText, U-Boot reads with ActivePart: byte
\* order, byte codes and the four words of vendor_set_ab_bootargs fit.
LEMMA Decode ==
    ASSUME NEW a \in Slots, NEW f \in Slots
    PROVE  /\ ActivePart(SysText(a, f), FALSE) = a
           /\ ActivePart(SysText(a, f), TRUE) = f
<1>1. CASE a = "A" /\ f = "A"
      BY <1>1 DEF ActivePart, ItestW, SysText, Byte
<1>2. CASE a = "A" /\ f = "B"
      BY <1>2 DEF ActivePart, ItestW, SysText, Byte
<1>3. CASE a = "B" /\ f = "A"
      BY <1>3 DEF ActivePart, ItestW, SysText, Byte
<1>4. CASE a = "B" /\ f = "B"
      BY <1>4 DEF ActivePart, ItestW, SysText, Byte
<1>. QED  BY <1>1, <1>2, <1>3, <1>4 DEF Slots

\* Whatever the bytes, U-Boot picks one of the two slots.
LEMMA PartIsSlot ==
    ASSUME NEW text, NEW fb \in BOOLEAN
    PROVE  ActivePart(text, fb) \in Slots
BY DEF ActivePart, Slots

-----------------------------------------------------------------------------
(* Types and targets, for every value of the constants *)

\* A board as shipped has every variable in its domain and no update under way.
LEMMA TypeInit == Init => TypeOK /\ TargetInv
<1>. SUFFICES ASSUME Init PROVE TypeOK /\ TargetInv
     OBVIOUS
<1>1. TypeOK
  <2>1. bootcount \in 0 .. (BootLimit + 1) /\ cuts \in 0 .. MaxCuts
        BY BootLimitAssumption, MaxCutsAssumption DEF Init
  <2>2. sysActive \in SysTexts /\ sysCache \in SysTexts
        BY DEF Init, SysTexts, Slots
  <2>3. /\ root \in [Slots -> RootWorth]
        /\ kern \in [Slots -> KernWorth]
        /\ whole \in [Slots -> BOOLEAN]
        BY DEF Init, RootWorth, KernWorth
  <2>. QED  BY <2>1, <2>2, <2>3 DEF Init, TypeOK, RcSteps, UpdSteps
<1>2. TargetInv
      BY DEF Init, TargetInv
<1>. QED  BY <1>1, <1>2

\* Every step of U-Boot, the boot script, the updater and the environment keeps
\* the domains, and what the updater knows of its target.
LEMMA TypeStep == TypeOK /\ TargetInv /\ [Next]_vars => TypeOK' /\ TargetInv'
<1>. SUFFICES ASSUME TypeOK, TargetInv, [Next]_vars PROVE TypeOK' /\ TargetInv'
     OBVIOUS
<1>. USE BoardAssumption, BootLimitAssumption, MaxCutsAssumption, FlagsAssumption
<1>. USE DEF flashVars, bootVars, updVars
<1>1. CASE UBootStart
      BY <1>1 DEF UBootStart, CountedBoot, TypeOK, TargetInv
<1>2. CASE VendorBoot
      BY <1>2 DEF VendorBoot, TypeOK, TargetInv, Sd, None
<1>3. CASE VendorAbBoot
      BY <1>3, PartIsSlot DEF VendorAbBoot, TypeOK, TargetInv, Slots, None
<1>4. CASE VendorAbReset
      BY <1>4 DEF VendorAbReset, Reset, TypeOK, TargetInv, RcSteps, UpdSteps, None
<1>5. CASE KernelStart
      BY <1>5 DEF KernelStart, TypeOK, TargetInv, RcSteps
<1>6. CASE WatchdogReset
      BY <1>6 DEF WatchdogReset, Reset, TypeOK, TargetInv, RcSteps, UpdSteps, None
<1>7. CASE RcNext
  <2>. USE DEF RcAt, TypeOK, TargetInv, RcSteps
  <2>1. CASE RcStopWatchdog
        BY <2>1 DEF RcStopWatchdog
  <2>2. CASE RcReadFlag
        BY <2>2 DEF RcReadFlag
  <2>3. CASE RcSetFlag
        BY <2>3 DEF RcSetFlag, WantedFlag
  <2>4. CASE RcReadCount
        BY <2>4 DEF RcReadCount
  <2>5. CASE RcSetCount
        BY <2>5 DEF RcSetCount
  <2>. QED  BY <1>7, <2>1, <2>2, <2>3, <2>4, <2>5 DEF RcNext
<1>8. CASE Preinst
  <2>1. CASE UpdStart
        BY <2>1 DEF UpdStart, UpdAt, TypeOK, TargetInv, UpdSteps
  <2>2. CASE UpdClearCount
        BY <2>2 DEF UpdClearCount, UpdAt, TypeOK, TargetInv, UpdSteps
  <2>3. CASE WipeBegin
        BY <2>3 DEF WipeBegin, WipeTarget, UpdateFs, UpdAt, TypeOK, TargetInv, UpdSteps, RootWorth, None
  <2>4. CASE WipeEnd
        BY <2>4 DEF WipeEnd, UpdAt, TypeOK, TargetInv, UpdSteps, RootWorth
  <2>5. CASE PreinstSkip
        BY <2>5 DEF PreinstSkip, WipeTarget, UpdAt, TypeOK, TargetInv, UpdSteps, Other, None
  <2>6. CASE SetFallback
        BY <2>6 DEF SetFallback, FallbackText, UpdAt, TypeOK, TargetInv, UpdSteps, SysTexts, Slots
  <2>7. CASE SetActive
        BY <2>7 DEF SetActive, SwitchedText, UpdAt, TypeOK, TargetInv, UpdSteps, SysTexts, Slots
  <2>8. CASE Umount
        BY <2>8 DEF Umount, UpdateFs, Other, ArtefactsOf, UpdAt, TypeOK, TargetInv, UpdSteps, Artefacts, Slots
  <2>9. CASE PreinstFail
        BY <2>9 DEF PreinstFail, UpdAt, TypeOK, TargetInv, UpdSteps
  <2>. QED  BY <1>8, <2>1, <2>2, <2>3, <2>4, <2>5, <2>6, <2>7, <2>8, <2>9 DEF Preinst
<1>9. CASE SwUpdate
  <2>1. CASE Partition
        BY <2>1 DEF Partition, UpdateFs, ArtefactsOf, UpdAt, TypeOK, TargetInv, UpdSteps, Artefacts, Slots, RootWorth, KernWorth, None, NoFile
  <2>2. ASSUME NEW a \in Artefacts, WriteBegin(a) PROVE TypeOK' /\ TargetInv'
        BY <2>2 DEF WriteBegin, UpdAt, TypeOK, TargetInv, Artefacts, RootWorth, KernWorth
  <2>3. ASSUME NEW a \in Artefacts, WriteEnd(a) PROVE TypeOK' /\ TargetInv'
    <3>1. /\ todo' \subseteq todo
          /\ busy' = NoArtefact
          /\ UNCHANGED <<upgrade_available, bootcount, whole, bootVars, rc, upd, cuts>>
          BY <2>3 DEF WriteEnd
    <3>2. a[2] \in Slots
          BY DEF Artefacts
    <3>3. root' \in [Slots -> RootWorth] /\ kern' \in [Slots -> KernWorth]
          BY <2>3, <3>2 DEF WriteEnd, TypeOK
    <3>4. sysActive' \in SysTexts \cup {NoFile} /\ sysCache' \in SysTexts \cup {NoFile}
          BY <2>3 DEF WriteEnd, TypeOK, SysTexts, Slots
    <3>5. cur \in Slots => sysCache' = sysCache
          BY <2>3 DEF WriteEnd, UpdAt, TargetInv, UpdateFs, Other, ArtefactsOf, Slots
    <3>6. TypeOK'
          BY <3>1, <3>3, <3>4 DEF TypeOK
    <3>7. TargetInv'
          BY <2>3, <3>1, <3>5 DEF TargetInv
    <3>. QED  BY <3>6, <3>7
  <2>4. CASE InstallDone
        BY <2>4 DEF InstallDone, UpdAt, TypeOK, TargetInv, UpdSteps
  <2>5. CASE InstallFail
        BY <2>5 DEF InstallFail, UpdAt, TypeOK, TargetInv, UpdSteps
  <2>. QED  BY <1>9, <2>1, <2>2, <2>3, <2>4, <2>5 DEF SwUpdate
<1>10. CASE Writeback
      BY <1>10 DEF Writeback, TypeOK, TargetInv
<1>11. CASE PowerCut
  <2>1. cuts' \in 0 .. MaxCuts
        BY <1>11 DEF PowerCut, TypeOK
  <2>2. UNCHANGED flashVars /\ sysCache' = sysActive /\ Reset
        BY <1>11 DEF PowerCut
  <2>3. TypeOK'
        BY <2>1, <2>2 DEF Reset, TypeOK, RcSteps, UpdSteps
  <2>4. TargetInv'
        BY <2>2 DEF Reset, TargetInv
  <2>. QED  BY <2>3, <2>4
<1>12. CASE Reboot
      BY <1>12 DEF Reboot, Reset, TypeOK, TargetInv, RcSteps, UpdSteps, None
<1>13. CASE UNCHANGED vars
      BY <1>13 DEF vars, TypeOK, TargetInv
<1>. QED
     BY <1>1, <1>2, <1>3, <1>4, <1>5, <1>6, <1>7, <1>8, <1>9, <1>10, <1>11, <1>12, <1>13
     DEF Next, BootNext, UpdNext

\* Every variable stays in its domain and every step of the updater keeps to
\* the slot it chose, whatever the power, the SD card and the boot scripts do.
THEOREM TypeCorrect == Spec => [](TypeOK /\ TargetInv)
BY TypeInit, TypeStep, PTL DEF Spec

\* Every variable keeps its type whatever the board, the cards and the programs do.
THEOREM AlwaysTyped == Spec => []TypeOK
  BY TypeCorrect, PTL

\* The three programs that each work out the update's target (do_preinst,
\* do_switch_fitImage and 09-swupdate-args) mean the same slot, on every board
\* and in every interleaving.
THEOREM TargetsAlwaysAgree == Spec => []TargetsAgree
<1>1. TypeOK /\ TargetInv => TargetsAgree
  <2>. SUFFICES ASSUME TypeOK, TargetInv, UpdAt("install"), cur \in Slots
                PROVE  /\ \A a \in todo \cup ({busy} \ {NoArtefact}) : a[2] = WipeTarget(cur)
                       /\ ActivePart(sysCache, FALSE) = WipeTarget(cur)
                       /\ ActivePart(sysCache, TRUE) = cur
       BY DEF TargetsAgree
  <2>1. WipeTarget(cur) = Other(cur) /\ UpdateFs(cur) = Other(cur)
        BY DEF WipeTarget, UpdateFs
  <2>2. sysCache = SysText(Other(cur), cur)
        BY DEF TargetInv, UpdAt, SwitchedText, Other, Slots
  <2>3. Other(cur) \in Slots /\ Other(cur) # "setup"
        BY DEF Other, Slots
  <2>4. todo \subseteq {<<"root", Other(cur)>>, <<"fitImage", Other(cur)>>}
        BY <2>1, <2>3 DEF TargetInv, UpdAt, ArtefactsOf
  <2>5. {busy} \ {NoArtefact} \subseteq todo
        BY DEF TargetInv
  <2>6. \A a \in todo \cup ({busy} \ {NoArtefact}) : a[2] = WipeTarget(cur)
        BY <2>1, <2>4, <2>5
  <2>. QED  BY <2>1, <2>2, <2>3, <2>6, Decode
<1>. QED  BY <1>1, TypeCorrect, PTL

\* The updater's target is always the other slot, and nothing else writes.
LEMMA RunningSlotKept ==
    TypeOK /\ TargetInv /\ Next /\ phase = "user" /\ cur \in Slots
        => root'[cur] = root[cur] /\ kern'[cur] = kern[cur]
<1>. SUFFICES ASSUME TypeOK, TargetInv, Next, phase = "user", cur \in Slots
              PROVE  root'[cur] = root[cur] /\ kern'[cur] = kern[cur]
     OBVIOUS
<1>. USE DEF flashVars
<1>1. WipeTarget(cur) # cur
      BY DEF WipeTarget, Other, Slots
<1>2. CASE BootNext
      BY <1>2 DEF BootNext, UBootStart, VendorBoot, VendorAbBoot, VendorAbReset,
                  KernelStart, WatchdogReset
<1>3. CASE RcNext
      BY <1>3 DEF RcNext, RcStopWatchdog, RcReadFlag, RcSetFlag, RcReadCount, RcSetCount
<1>4. CASE Preinst
      BY <1>4, <1>1 DEF Preinst, UpdStart, UpdClearCount, WipeBegin, WipeEnd, PreinstSkip,
                        SetFallback, SetActive, Umount, PreinstFail, TypeOK
<1>5. ASSUME NEW a \in Artefacts, WriteBegin(a) \/ WriteEnd(a)
      PROVE  root'[cur] = root[cur] /\ kern'[cur] = kern[cur]
  <2>1. UpdAt("install") /\ a \in todo
        BY <1>5 DEF WriteBegin, WriteEnd
  <2>2. a \in ArtefactsOf(Other(cur))
        BY <2>1 DEF TargetInv, UpdAt, UpdateFs
  <2>3. a[1] \in {"root", "fitImage"} /\ a[2] # cur
        BY <2>2 DEF ArtefactsOf, Other, Slots
  <2>. QED  BY <1>5, <2>3 DEF WriteBegin, WriteEnd, TypeOK
<1>6. CASE Partition \/ InstallDone \/ InstallFail
      BY <1>6 DEF Partition, InstallDone, InstallFail, UpdAt, TargetInv
<1>7. CASE Writeback \/ PowerCut \/ Reboot
      BY <1>7 DEF Writeback, PowerCut, Reboot
<1>. QED  BY <1>2, <1>3, <1>4, <1>5, <1>6, <1>7 DEF Next, UpdNext, SwUpdate

\* The system that runs from flash is never written to, whatever the updater,
\* the boot scripts and the power do.
THEOREM RunningSlotIsUntouched == Spec => RunningSlotUntouched
<1>1. TypeOK /\ TargetInv /\ [Next]_vars =>
        [phase = "user" /\ cur \in Slots =>
            root'[cur] = root[cur] /\ kern'[cur] = kern[cur]]_vars
      BY RunningSlotKept
<1>. QED  BY <1>1, TypeCorrect, PTL DEF Spec, RunningSlotUntouched
=============================================================================
