--------------------------- MODULE AbPromiseProofs ---------------------------
(***************************************************************************)
(* AbUpdate implements the safety part of AbPromise, for the boards of     *)
(* AbRescueProofs.  That a board which is down comes up is left to TLC.    *)
(***************************************************************************)
EXTENDS AbRescueProofs

\* Both slots of a new board come up, and nothing runs.
LEMMA PromiseInit == Init => Promise!Init
  BY DEF Init, Promise!Init, Starts, Slots

\* A step that leaves the slots, phase and cur alone is invisible.
LEMMA Invisible ==
    ASSUME UNCHANGED <<root, kern, phase, cur>>
    PROVE  UNCHANGED Promise!vars
  BY DEF Promise!vars, Starts

\* A reset stops the running system, if there is one.
LEMMA ResetStops ==
    ASSUME UNCHANGED <<root, kern>>, Reset, BootedAsNamed
    PROVE  Promise!Stop \/ UNCHANGED Promise!vars
  BY DEF Promise!Stop, Promise!vars, Reset, Starts, BootedAsNamed, Slots, None

\* Every step of the board is one of AbPromise or invisible to it.
LEMMA PromiseStep ==
    ASSUME Sheltered
    PROVE  TypeOK /\ TargetInv /\ RescueInv /\ [Next]_vars => [Promise!Next]_(Promise!vars)
<1>. SUFFICES ASSUME TypeOK, TargetInv, RescueInv, [Next]_vars
              PROVE  Promise!Next \/ UNCHANGED Promise!vars
     OBVIOUS
<1>. USE DEF flashVars, bootVars, updVars
<1>1. CASE UBootStart \/ VendorAbBoot \/ VendorBoot
  <2>1. UNCHANGED <<root, kern>> /\ phase # "user" /\ phase' # "user"
        BY <1>1 DEF UBootStart, VendorAbBoot, VendorBoot
  <2>. QED  BY <2>1 DEF Promise!vars, Starts
<1>2. CASE VendorAbReset \/ WatchdogReset \/ PowerCut \/ Reboot
  <2>1. UNCHANGED <<root, kern>> /\ Reset
        BY <1>2 DEF VendorAbReset, WatchdogReset, PowerCut, Reboot
  <2>. QED  BY <2>1, ResetStops DEF RescueInv, Promise!Next
<1>3. CASE KernelStart
  <2>1. /\ phase = "kernel" /\ phase' = "user" /\ cur' = cur /\ UNCHANGED <<root, kern>>
        /\ cur \in Slots /\ Starts(cur)
        BY <1>3 DEF KernelStart, RescueInv, BootedAsNamed, Slots, Sd
  <2>2. Promise!Boot
        BY <2>1 DEF Promise!Boot, Starts
  <2>. QED  BY <2>2 DEF Promise!Next
<1>4. CASE RcNext \/ Writeback \/ UNCHANGED vars
  <2>1. UNCHANGED <<root, kern, phase, cur>>
        BY <1>4 DEF RcNext, RcStopWatchdog, RcReadFlag, RcSetFlag, RcReadCount, RcSetCount,
                    RcAt, Writeback, vars
  <2>. QED  BY <2>1, Invisible
<1>5. CASE UpdNext
  <2>1. phase = "user" /\ cur \in Slots /\ phase' = phase /\ cur' = cur
        BY <1>5, UpdaterStep DEF RescueInv, BootedAsNamed
  <2>2. root'[cur] = root[cur] /\ kern'[cur] = kern[cur]
        BY <1>5, <2>1, RunningSlotKept DEF Next
  <2>3. Starts(cur)' <=> Starts(cur)
        BY <2>1, <2>2 DEF Starts
  <2>4. Slots = {cur, Other(cur)} /\ Other(cur) # cur /\ Other(cur) \in Slots /\ cur # None
        BY <2>1 DEF Slots, Other, None
  <2>5. Promise!Change(Other(cur))
        BY <2>1, <2>3, <2>4 DEF Promise!Change
  <2>. QED  BY <2>4, <2>5 DEF Promise!Next
<1>. QED
     BY <1>1, <1>2, <1>3, <1>4, <1>5 DEF Next, BootNext

\* A board without SD card whose updater waits for the boot scripts, and that
\* loses power less often than U-Boot retries, only ever runs a system that comes
\* up, and changes no other than the one that does not run.
THEOREM PromiseKept ==
    ASSUME Sheltered PROVE Spec => Promise!Spec
<1>1. TypeOK /\ TargetInv /\ RescueInv /\ [Next]_vars => [Promise!Next]_(Promise!vars)
      BY PromiseStep
<1>. QED  BY <1>1, PromiseInit, RescueInvHolds, TypeCorrect, PTL DEF Spec, Promise!Spec
=============================================================================
