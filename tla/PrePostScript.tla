---------------------------- MODULE PrePostScript ----------------------------
(***************************************************************************)
(* One update: 09-swupdate-args chooses what SWUpdate installs, the        *)
(* preinst half of pre_post_script.sh prepares the standby slot, and       *)
(* SWUpdate (external) writes the artefacts of the chosen selection of     *)
(* sw-description.  The postinst half does nothing.                        *)
(*                                                                         *)
(* The script works out by itself which slot to wipe and which slot to     *)
(* make active; 09-swupdate-args works out, in another program and when    *)
(* the service starts, which slot is written.  WipeTarget, SwitchedTo and  *)
(* UpdateFs keep the three decisions apart.                                *)
(***************************************************************************)
EXTENDS AbState, FiniteSets

\* Mutant of UpdateFs: the two selections swapped.
UpdateFsSwapped(rootfs) ==
    IF rootfs \in Slots THEN rootfs
    ELSE IF Board = "mx8mm" THEN "setup" ELSE None

\* 09-swupdate-args: the selection passed to SWUpdate with -e.  From an SD
\* card mx8mm sets the whole flash up and mx6ul refuses to start the service.
UpdateFs(rootfs) ==
    IF rootfs \in Slots THEN Other(rootfs)
    ELSE IF Board = "mx8mm" THEN "setup" ELSE None

\* do_preinst: the slot whose root file system is deleted.  From an SD card
\* mx6ul deletes A and mx8mm leaves the script.
WipeTarget(cur_par) ==
    IF cur_par \in Slots THEN Other(cur_par)
    ELSE IF Board = "mx6ul" THEN "A" ELSE None

\* do_switch_fitImage's two texts.  Anything that is not A is treated as B.
FallbackText(cur_par) ==
    IF cur_par = "A" THEN SysText("A", "A") ELSE SysText("B", "B")
SwitchedText(cur_par) ==
    IF cur_par = "A" THEN SysText("B", "A") ELSE SysText("A", "B")

\* sw-description: the artefacts of a selection.
ArtefactsOf(selection) ==
    IF selection = "setup"
    THEN {<<"root", "A">>, <<"root", "B">>, <<"bootfs", "A">>}
    ELSE {<<"root", selection>>, <<"fitImage", selection>>}

UpdAt(step) == phase = "user" /\ upd = step

-----------------------------------------------------------------------------
(* preinst *)

\* Mutant of UpdStart: upgrade_available is not set.
UpdStartUnarmed ==
    /\ UpdAt("idle")
    /\ rc = "done" \/ EarlyUpdater
    /\ UpdateFs(cur) # None
    /\ upd' = "clear"
    /\ UNCHANGED <<flashVars, sysCache, bootVars, rc, todo, busy, cuts>>

\* An update arrives: fw_setenv upgrade_available 1.  The service is started
\* by an earlier boot script than reset-update-flags.sh, so the two may meet.
UpdStart ==
    /\ UpdAt("idle")
    /\ rc = "done" \/ EarlyUpdater
    /\ UpdateFs(cur) # None
    /\ upgrade_available' = 1
    /\ upd' = "clear"
    /\ UNCHANGED <<bootcount, sysActive, root, kern, whole, sysCache, bootVars,
                   rc, todo, busy, cuts>>

\* fw_setenv bootcount 0
UpdClearCount ==
    /\ UpdAt("clear")
    /\ bootcount' = 0
    /\ upd' = "select"
    /\ UNCHANGED <<upgrade_available, sysActive, root, kern, whole, sysCache,
                   bootVars, rc, todo, busy, cuts>>

\* delete_old_rootfs_content has mounted the slot and rm -rf is at work: the
\* system in it may or may not boot any more.
WipeBegin ==
    LET t == WipeTarget(cur) IN
    /\ UpdAt("select")
    /\ t # None
    /\ \E w \in {root[t], "dead"} : root' = [root EXCEPT ![t] = w]
    /\ whole' = [whole EXCEPT ![t] = FALSE]
    /\ upd' = "wiping"
    /\ UNCHANGED <<upgrade_available, bootcount, sysActive, kern, sysCache,
                   bootVars, rc, todo, busy, cuts>>

\* rm -rf and umount are through.
WipeEnd ==
    /\ UpdAt("wiping")
    /\ root' = [root EXCEPT ![WipeTarget(cur)] = "dead"]
    /\ upd' = "switch"
    /\ UNCHANGED <<upgrade_available, bootcount, sysActive, kern, whole, sysCache,
                   bootVars, rc, todo, busy, cuts>>

\* mx8mm started from an SD card: do_preinst returns 0 at once.
PreinstSkip ==
    /\ UpdAt("select")
    /\ WipeTarget(cur) = None
    /\ upd' = "partition"
    /\ UNCHANGED <<flashVars, sysCache, bootVars, rc, todo, busy, cuts>>

\* Mutant of SetFallback: it makes the other slot the fallback.
SetFallbackSwapped ==
    /\ UpdAt("switch")
    /\ sysCache' = FallbackText(Other(cur))
    /\ upd' = "setactive"
    /\ UNCHANGED <<flashVars, bootVars, rc, todo, busy, cuts>>

\* do_switch_fitImage, boot file system mounted: the running slot becomes
\* active and fallback.  set_sys_active renames a temporary file, so the text
\* is never half-written.
SetFallback ==
    /\ UpdAt("switch")
    /\ sysCache' = FallbackText(cur)
    /\ upd' = "setactive"
    /\ UNCHANGED <<flashVars, bootVars, rc, todo, busy, cuts>>

\* Mutant of SetActive: the second set_sys_active is lost.
SetActiveDropped ==
    /\ UpdAt("setactive")
    /\ upd' = "umount"
    /\ UNCHANGED <<flashVars, sysCache, bootVars, rc, todo, busy, cuts>>

\* do_switch_fitImage: the slot about to be written becomes active.
SetActive ==
    /\ UpdAt("setactive")
    /\ sysCache' = SwitchedText(cur)
    /\ upd' = "umount"
    /\ UNCHANGED <<flashVars, bootVars, rc, todo, busy, cuts>>

\* umount writes the file out; SWUpdate goes on with its selection.
Umount ==
    /\ UpdAt("umount")
    /\ sysActive' = sysCache
    /\ upd' = "install"
    /\ todo' = ArtefactsOf(UpdateFs(cur))
    /\ UNCHANGED <<upgrade_available, bootcount, root, kern, whole, sysCache,
                   bootVars, rc, busy, cuts>>

\* preinst fails (ubiattach, a mount, the last umount): SWUpdate gives up and
\* nothing that was already done is undone.
PreinstFail ==
    /\ \E step \in {"select", "switch", "umount"} : UpdAt(step)
    /\ upd' = "idle"
    /\ UNCHANGED <<flashVars, sysCache, bootVars, rc, todo, busy, cuts>>

-----------------------------------------------------------------------------
(* SWUpdate *)

\* The setup selection's partition table and file systems, made anew.
Partition ==
    /\ UpdAt("partition")
    /\ root' = [s \in Slots |-> "dead"]
    /\ kern' = [s \in Slots |-> "invalid"]
    /\ whole' = [s \in Slots |-> FALSE]
    /\ sysActive' = NoFile
    /\ sysCache' = NoFile
    /\ upd' = "install"
    /\ todo' = ArtefactsOf(UpdateFs(cur))
    /\ UNCHANGED <<upgrade_available, bootcount, bootVars, rc, busy, cuts>>

\* Half-written: an archive may have come far enough to boot, an image has not.
WriteBegin(a) ==
    /\ UpdAt("install")
    /\ busy = NoArtefact
    /\ a \in todo
    /\ busy' = a
    /\ \/ /\ a[1] = "root"
          /\ \E w \in RootWorth : root' = [root EXCEPT ![a[2]] = w]
          /\ kern' = kern
       \/ /\ a[1] = "fitImage"
          /\ kern' = [kern EXCEPT ![a[2]] = "invalid"]
          /\ root' = root
       \/ /\ a[1] = "bootfs"
          /\ UNCHANGED <<root, kern>>
    /\ UNCHANGED <<upgrade_available, bootcount, sysActive, whole, sysCache,
                   bootVars, rc, upd, todo, cuts>>

\* Written: what the artefact is worth is up to whoever built the update.
WriteEnd(a) ==
    /\ UpdAt("install")
    /\ busy = a
    /\ a \in todo
    /\ busy' = NoArtefact
    /\ todo' = todo \ {a}
    /\ \/ /\ a[1] = "root"
          /\ \E w \in RootWorth : root' = [root EXCEPT ![a[2]] = w]
          /\ UNCHANGED <<kern, sysActive, sysCache>>
       \/ /\ a[1] = "fitImage"
          /\ \E w \in KernWorth : kern' = [kern EXCEPT ![a[2]] = w]
          /\ UNCHANGED <<root, sysActive, sysCache>>
       \/ /\ a[1] = "bootfs"
          /\ \E w \in KernWorth : kern' = [s \in Slots |-> w]
          /\ sysActive' = SysText("A", "B")
          /\ sysCache' = SysText("A", "B")
          /\ root' = root
    /\ UNCHANGED <<upgrade_available, bootcount, whole, bootVars, rc, upd, cuts>>

\* The last artefact is in place and postinst returns 0.  Setup also resets
\* the U-Boot environment to its initial one.
InstallDone ==
    /\ UpdAt("install")
    /\ busy = NoArtefact
    /\ todo = {}
    /\ whole' = [s \in Slots |-> whole[s] \/ UpdateFs(cur) \in {s, "setup"}]
    /\ upgrade_available' = IF UpdateFs(cur) = "setup" THEN 0 ELSE upgrade_available
    /\ upd' = "idle"
    /\ UNCHANGED <<bootcount, sysActive, root, kern, sysCache, bootVars, rc, todo,
                   busy, cuts>>

\* SWUpdate stops (bad checksum, lost download, full medium).
InstallFail ==
    /\ UpdAt("partition") \/ UpdAt("install")
    /\ upd' = "idle"
    /\ todo' = {}
    /\ busy' = NoArtefact
    /\ UNCHANGED <<flashVars, sysCache, bootVars, rc, cuts>>

Preinst ==
    \/ UpdStart
    \/ UpdClearCount
    \/ WipeBegin
    \/ WipeEnd
    \/ PreinstSkip
    \/ SetFallback
    \/ SetActive
    \/ Umount
    \/ PreinstFail

SwUpdate ==
    \/ Partition
    \/ \E a \in Artefacts : WriteBegin(a) \/ WriteEnd(a)
    \/ InstallDone
    \/ InstallFail

UpdNext == Preinst \/ SwUpdate
=============================================================================
