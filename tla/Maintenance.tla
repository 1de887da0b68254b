---------------------------- MODULE Maintenance ----------------------------
(***************************************************************************)
(* Which folder a launch works in, and the maintenance that is done to it  *)
(* while its guest is off: app/data_location.go, app/backup.go,            *)
(* app/recovery_windows.go, app/uninstall_windows.go and the paths of main *)
(* in app/main.go that lead to them.                                       *)
(*                                                                         *)
(* Every process here holds the lifecycle port, so one works at a time,    *)
(* except two: a QEMU that outlived its launcher, and the copy of the      *)
(* launcher that deletes the folder the original ran from.  What protects  *)
(* a backup or a reset from the first is that it opens the disk without    *)
(* sharing it.  An update that no guest has confirmed yet refuses both.    *)
(*                                                                         *)
(* The renames of a reset and of an update are modules of their own; here  *)
(* each is one step.                                                       *)
(***************************************************************************)
EXTENDS Naturals

CONSTANTS
  Default,       \* the folder in Local AppData
  Others,        \* folders on other drives
  HelperFirst,   \* nobody starts the program while the removal helper works
  BesidePointer, \* somebody uses -dir with the default folder although a
                 \* pointer there leads to another
  None,          \* no disk, no pointer, no folder
  MaxWrites,     \* bound on what guests write
  MaxUpdates,    \* bound on the updates found
  MaxFaults      \* bound on process deaths and failed operations

Dirs == {Default} \cup Others

ASSUME MaintenanceAssumption ==
  /\ Default \notin Others
  /\ HelperFirst \in BOOLEAN /\ BesidePointer \in BOOLEAN
  /\ None \notin Dirs /\ None \notin 0 .. MaxWrites
  /\ MaxWrites \in Nat /\ MaxUpdates \in Nat /\ MaxFaults \in Nat

Contents == 0 .. MaxWrites  \* of a disk; 0 is the factory image
Guests   == {"none", "good", "untried"}
Archive  == [guest: Guests, head: Contents, tail: Contents]
Jobs     == {"launch", "fresh", "backup", "reset", "uninstall", "restore"}

VARIABLES
  claimed,  \* the folder holds something that claims it
  guest,    \* guest/ and runtime/: an image confirmed, or installed by an update
  disk,     \* content of vm/disk.raw
  payload,  \* payload-update-state.json exists
  marker,   \* update-state.json: no, marked, or started once
  pointer,  \* data-location.json in the default folder
  qemu,     \* a QEMU has the disk open
  pc, job, at, \* the process that holds the port: where, what for, which folder
  plain,    \* it was started without -dir
  asked,    \* its user asked for a backup first
  copy,     \* the archive it is writing or reading
  archives, \* the backups published
  helper,   \* -uninstall-finish: the folder to delete, and asked
  wish,     \* history: the folder whose reset the user asked for and did not get
  home,     \* history: the folder launches without -dir have installed to
  clock, updates, faults

folder == <<claimed, guest, disk, payload, marker>>
proc   == <<pc, job, at, plain, asked, copy>>
bounds == <<clock, updates, faults>>
vars   == <<folder, pointer, qemu, proc, archives, helper, wish, home, bounds>>

TypeOK ==
  /\ claimed \in [Dirs -> BOOLEAN] /\ payload \in [Dirs -> BOOLEAN] /\ qemu \in [Dirs -> BOOLEAN]
  /\ guest \in [Dirs -> Guests]
  /\ disk \in [Dirs -> Contents \cup {None}]
  /\ marker \in [Dirs -> {"no", "marked", "started"}]
  /\ pointer \in Others \cup {None}
  /\ pc \in {"idle", "begin", "recover", "rollback", "setup", "disk", "boot", "running", "ask",
             "backup", "copying", "sure", "retire", "forget", "delete", "restoring"}
  /\ job \in Jobs /\ at \in Dirs /\ plain \in BOOLEAN /\ asked \in BOOLEAN
  /\ copy \in Archive \cup {None}
  /\ archives \subseteq Archive
  /\ helper \in [dir: Dirs, asked: BOOLEAN] \cup {None}
  /\ wish \in Dirs \cup {None} /\ home \in Dirs \cup {None}
  /\ clock \in Contents /\ updates \in 0 .. MaxUpdates /\ faults \in 0 .. MaxFaults

Init ==
  /\ claimed = [d \in Dirs |-> FALSE] /\ payload = [d \in Dirs |-> FALSE]
  /\ qemu = [d \in Dirs |-> FALSE] /\ guest = [d \in Dirs |-> "none"]
  /\ disk = [d \in Dirs |-> None] /\ marker = [d \in Dirs |-> "no"]
  /\ pointer = None
  /\ pc = "idle" /\ job = "launch" /\ at = Default /\ plain = FALSE /\ asked = FALSE /\ copy = None
  /\ archives = {} /\ helper = None /\ wish = None /\ home = None
  /\ clock = 0 /\ updates = 0 /\ faults = 0

\* completeInstallExists
Complete(d) == guest[d] # "none" /\ disk[d] # None
\* A backup or a reset would take an update for granted that may be reverted.
Pending(d)  == payload[d] \/ marker[d] # "no"

\* The process ends and lets go of the port.
Idle == /\ pc' = "idle" /\ job' = "launch" /\ at' = Default
        /\ plain' = FALSE /\ asked' = FALSE /\ copy' = None
Goto(p) == pc' = p /\ UNCHANGED <<job, at, plain, asked, copy>>
Fault   == faults < MaxFaults /\ faults' = faults + 1 /\ UNCHANGED <<clock, updates>>

-----------------------------------------------------------------------------
(* Starting the program: who holds the port, and for which folder. *)

CanStart == pc = "idle" /\ (HelperFirst => helper = None)

Begin(j, d, p) ==
  /\ pc' = "begin" /\ job' = j /\ at' = d /\ plain' = p /\ asked' = FALSE /\ copy' = None
  /\ UNCHANGED <<folder, qemu, archives, helper, home, bounds>>

\* Mutant: the folder chosen is not written down.
PlainLaunchUnsaved(d, j) ==
  /\ CanStart
  /\ \/ pointer = d
     \/ pointer = None /\ claimed[Default] /\ d = Default
     \/ pointer = None /\ ~claimed[Default] /\ (~claimed[d] \/ Complete(d))
  /\ Begin(j, d, TRUE)
  /\ UNCHANGED <<pointer, wish>>

(* resolveStandardDataDirectory: the remembered folder, else the default   *)
(* one if something claims it, else the one the user chooses, which is     *)
(* written down unless it is the default.                                  *)
PlainLaunch(d, j) ==
  /\ CanStart
  /\ \/ pointer = d /\ UNCHANGED pointer
     \/ pointer = None /\ claimed[Default] /\ d = Default /\ UNCHANGED pointer
     \/ /\ pointer = None /\ ~claimed[Default]
        /\ ~claimed[d] \/ Complete(d)
        /\ pointer' = IF d = Default THEN None ELSE d
  /\ Begin(j, d, TRUE)
  /\ UNCHANGED wish

\* -dir
Explicit(d) == BesidePointer \/ d # Default \/ pointer = None

DirLaunch(d, j) ==
  /\ CanStart /\ Explicit(d)
  /\ Begin(j, d, FALSE)
  /\ UNCHANGED <<pointer, wish>>

(* -recovery backup, reset and uninstall, from Settings, from Apps &       *)
(* features or by hand.                                                    *)
Maintain(d, j) ==
  /\ CanStart /\ Explicit(d) /\ claimed[d]
  /\ Begin(j, d, FALSE)
  /\ wish' = IF j = "reset" /\ wish = None THEN d ELSE wish
  /\ UNCHANGED pointer

(* restoreVMBackupProgress: into a folder that does not exist. *)
Restore(d, a) ==
  /\ CanStart
  /\ ~claimed[d] /\ (d = Default => pointer = None)
  /\ pc' = "restoring" /\ job' = "restore" /\ at' = d /\ plain' = FALSE /\ asked' = FALSE
  /\ copy' = a
  /\ UNCHANGED <<folder, pointer, qemu, archives, helper, wish, home, bounds>>

(* The head of each job: an ordinary launch goes on to the updates, the    *)
(* others to their dialogs.  Removal looks whether the disk is in use and  *)
(* lets go of it again; a reset wants a complete installation.             *)
Head ==
  /\ pc = "begin"
  /\ \/ job \in {"launch", "fresh"} /\ Goto("recover") /\ UNCHANGED wish
     \/ job = "backup" /\ Goto("backup") /\ UNCHANGED wish
     \/ job = "reset" /\ Complete(at) /\ Goto("ask") /\ UNCHANGED wish
     \/ job = "reset" /\ ~Complete(at) /\ Idle
        /\ wish' = IF wish = at THEN None ELSE wish
     \/ job = "uninstall" /\ ~qemu[at] /\ Goto("ask") /\ UNCHANGED wish
     \/ job = "uninstall" /\ qemu[at] /\ Idle /\ UNCHANGED wish
  /\ UNCHANGED <<folder, pointer, qemu, archives, helper, home, bounds>>

-----------------------------------------------------------------------------
(* A launch. *)

\* Mutant: an update that was started once is left alone.
RecoverKeepsWaiting ==
  /\ pc = "recover"
  /\ marker' = [marker EXCEPT ![at] = IF @ = "marked" THEN "started" ELSE @]
  /\ Goto(IF job = "fresh" /\ disk[at] # None THEN "ask" ELSE "rollback")
  /\ UNCHANGED <<claimed, guest, disk, payload, pointer, qemu, archives, helper, wish, home, bounds>>

(* recoverLauncherUpdate: the first start is noted; on the second one the  *)
(* previous launcher takes over, if there is one.  Then the question that  *)
(* -fresh asks when there is a disk.                                       *)
Recover ==
  /\ pc = "recover"
  /\ marker' = [marker EXCEPT ![at] = IF @ = "marked" THEN "started" ELSE "no"]
  /\ \/ marker[at] = "started" /\ Idle
     \/ Goto(IF job = "fresh" /\ disk[at] # None THEN "ask" ELSE "rollback")
  /\ UNCHANGED <<claimed, guest, disk, payload, pointer, qemu, archives, helper, wish, home, bounds>>

(* rollbackPendingPayloadUpdates. *)
RollBack ==
  /\ pc = "rollback"
  /\ payload' = [payload EXCEPT ![at] = FALSE]
  /\ guest' = [guest EXCEPT ![at] = IF payload[at] THEN "good" ELSE @]
  /\ Goto(IF payload[at] THEN "disk" ELSE "setup")
  /\ UNCHANGED <<claimed, disk, marker, pointer, qemu, archives, helper, wish, home, bounds>>

(* The rest of setup: nothing to do, a first installation, an update of    *)
(* the launcher (whose helper starts the program again) or of the guest.   *)
Setup ==
  /\ pc = "setup"
  /\ claimed' = [claimed EXCEPT ![at] = TRUE]
  /\ \/ /\ guest' = [guest EXCEPT ![at] = IF @ = "none" THEN "good" ELSE @]
        /\ Goto("disk") /\ UNCHANGED <<payload, marker, updates>>
     \/ /\ updates < MaxUpdates /\ updates' = updates + 1 /\ marker[at] = "no"
        /\ marker' = [marker EXCEPT ![at] = "marked"]
        /\ Idle /\ UNCHANGED <<guest, payload>>
     \/ /\ updates < MaxUpdates /\ updates' = updates + 1 /\ guest[at] = "good" /\ disk[at] # None
        /\ guest' = [guest EXCEPT ![at] = "untried"]
        /\ payload' = [payload EXCEPT ![at] = TRUE]
        /\ Goto("disk") /\ UNCHANGED marker
  /\ UNCHANGED <<disk, pointer, qemu, archives, helper, wish, home, clock, faults>>

(* A setup that is cancelled or fails: the very first one may take the     *)
(* folder with it.                                                         *)
SetupFails ==
  /\ pc = "setup" /\ Fault
  /\ \/ claimed' = [claimed EXCEPT ![at] = TRUE]
     \/ ~claimed[at] /\ UNCHANGED claimed
  /\ Idle
  /\ UNCHANGED <<guest, disk, payload, marker, pointer, qemu, archives, helper, wish, home>>

\* resetStandardDisk refuses.
Refused == Pending(at) \/ qemu[at]

ResetDisk ==
  /\ disk' = [disk EXCEPT ![at] = 0]
  /\ wish' = IF wish = at THEN None ELSE wish

(* prepareDisk. *)
PrepareDisk ==
  /\ pc = "disk"
  /\ \/ job = "launch" /\ disk[at] # None /\ Goto("boot") /\ UNCHANGED <<disk, wish>>
     \/ job = "fresh" /\ disk[at] # None /\ Refused /\ Idle /\ UNCHANGED <<disk, wish>>
     \/ job = "fresh" /\ disk[at] = None /\ Pending(at) /\ Idle /\ UNCHANGED <<disk, wish>>
     \/ job = "fresh" /\ disk[at] # None /\ ~Refused /\ ResetDisk /\ Goto("boot")
     \/ /\ disk[at] = None /\ (job = "fresh" => ~Pending(at))
        /\ disk' = [disk EXCEPT ![at] = 0]
        /\ Goto("boot") /\ UNCHANGED wish
  /\ home' = IF plain /\ pc' = "boot" THEN at ELSE home
  /\ UNCHANGED <<claimed, guest, payload, marker, pointer, qemu, archives, helper, bounds>>

(* QEMU starts, unless another one still has the disk. *)
Boot ==
  /\ pc = "boot"
  /\ \/ qemu[at] /\ Idle /\ UNCHANGED qemu
     \/ ~qemu[at] /\ qemu' = [qemu EXCEPT ![at] = TRUE] /\ Goto("running")
  /\ UNCHANGED <<folder, pointer, archives, helper, wish, home, bounds>>

(* The guest announces that it is ready: both updates are committed. *)
Ready ==
  /\ pc = "running" /\ qemu[at]
  /\ payload' = [payload EXCEPT ![at] = FALSE]
  /\ marker' = [marker EXCEPT ![at] = "no"]
  /\ guest' = [guest EXCEPT ![at] = "good"]
  /\ UNCHANGED <<claimed, disk, pointer, qemu, proc, archives, helper, wish, home, bounds>>

PowerOff ==
  /\ pc = "running"
  /\ qemu' = [qemu EXCEPT ![at] = FALSE]
  /\ Idle
  /\ UNCHANGED <<folder, pointer, archives, helper, wish, home, bounds>>

-----------------------------------------------------------------------------
(* What happens beside the process that holds the port. *)

GuestWrites(d) ==
  /\ qemu[d] /\ clock < MaxWrites
  /\ clock' = clock + 1
  /\ disk' = [disk EXCEPT ![d] = clock']
  /\ UNCHANGED <<claimed, guest, payload, marker, pointer, qemu, proc, archives, helper, wish,
                 home, updates, faults>>

(* "The shell died silently mid-session leaving QEMU orphaned." *)
LauncherDies ==
  /\ pc # "idle" /\ Fault
  /\ Idle
  /\ UNCHANGED <<folder, pointer, qemu, archives, helper, wish, home>>

OrphanEnds(d) ==
  /\ qemu[d] /\ ~(pc = "running" /\ at = d)
  /\ qemu' = [qemu EXCEPT ![d] = FALSE]
  /\ UNCHANGED <<folder, pointer, proc, archives, helper, wish, home, bounds>>

-----------------------------------------------------------------------------
(* The dialog before a reset or a removal, and the backup. *)

GiveUp == Idle /\ wish' = IF job \in {"reset", "fresh"} /\ wish = at THEN None ELSE wish

(* "Create a full backup first?"  Yes, no, cancel. *)
Ask ==
  /\ pc = "ask"
  /\ \/ pc' = "backup" /\ asked' = TRUE /\ UNCHANGED <<job, at, plain, copy, wish>>
     \/ Goto("sure") /\ UNCHANGED wish
     \/ GiveUp
  /\ UNCHANGED <<folder, pointer, qemu, archives, helper, home, bounds>>

\* Mutant: only another launcher, never a QEMU on its own, is looked for.
OpenBackupUnlocked ==
  /\ pc = "backup"
  /\ \/ (Pending(at) \/ ~Complete(at)) /\ Idle
     \/ /\ ~Pending(at) /\ Complete(at)
        /\ pc' = "copying"
        /\ copy' = [guest |-> guest[at], head |-> disk[at], tail |-> disk[at]]
        /\ UNCHANGED <<job, at, plain, asked>>
  /\ UNCHANGED <<folder, pointer, qemu, archives, helper, wish, home, bounds>>

\* Mutant: updates that wait for a guest to confirm them are not looked for.
OpenBackupEarly ==
  /\ pc = "backup"
  /\ \/ (qemu[at] \/ ~Complete(at)) /\ Idle
     \/ /\ ~qemu[at] /\ Complete(at)
        /\ pc' = "copying"
        /\ copy' = [guest |-> guest[at], head |-> disk[at], tail |-> disk[at]]
        /\ UNCHANGED <<job, at, plain, asked>>
  /\ UNCHANGED <<folder, pointer, qemu, archives, helper, wish, home, bounds>>

(* writeVMBackupProgress up to the list of files: no pending update, the   *)
(* disk opened for nobody else, every required file there.                 *)
OpenBackup ==
  /\ pc = "backup"
  /\ \/ (Pending(at) \/ qemu[at] \/ ~Complete(at)) /\ Idle
     \/ /\ ~Pending(at) /\ ~qemu[at] /\ Complete(at)
        /\ pc' = "copying"
        /\ copy' = [guest |-> guest[at], head |-> disk[at], tail |-> disk[at]]
        /\ UNCHANGED <<job, at, plain, asked>>
  /\ UNCHANGED <<folder, pointer, qemu, archives, helper, wish, home, bounds>>

\* Mutant: a failed backup goes on as if there were one.
WriteBackupAnyway ==
  /\ pc = "copying"
  /\ \/ archives' = archives \cup {[copy EXCEPT !.tail = disk[at]]} /\ UNCHANGED bounds
     \/ Fault /\ UNCHANGED archives
  /\ IF job = "backup" THEN Idle ELSE Goto("sure")
  /\ UNCHANGED <<folder, pointer, qemu, helper, wish, home>>

(* The copy, which ends with what the disk holds by then, and its          *)
(* publication; or an error, after which nothing is reset or removed.      *)
WriteBackup ==
  /\ pc = "copying"
  /\ \/ /\ archives' = archives \cup {[copy EXCEPT !.tail = disk[at]]}
        /\ IF job = "backup" THEN Idle ELSE Goto("sure")
        /\ UNCHANGED bounds
     \/ Fault /\ Idle /\ UNCHANGED archives
  /\ UNCHANGED <<folder, pointer, qemu, helper, wish, home>>

(* "Reset the active Omarchy guest now?", "Remove Try Omarchy now?" *)
Sure ==
  /\ pc = "sure"
  /\ \/ GiveUp
     \/ job = "fresh" /\ Goto("rollback") /\ UNCHANGED wish
     \/ job = "reset" /\ Goto("retire") /\ UNCHANGED wish
     \/ job = "uninstall" /\ Goto("forget") /\ UNCHANGED wish
  /\ UNCHANGED <<folder, pointer, qemu, archives, helper, home, bounds>>

(* The end of resetFromSettings. *)
Retire ==
  /\ pc = "retire"
  /\ \/ Refused /\ UNCHANGED <<disk, wish>>
     \/ ~Refused /\ ResetDisk
  /\ Idle
  /\ UNCHANGED <<claimed, guest, payload, marker, pointer, qemu, archives, helper, home, bounds>>

-----------------------------------------------------------------------------
(* Removal. *)

\* The folder goes; a file that is in use keeps what is left of it.
InUse(d) == qemu[d] \/ (pc = "copying" /\ at = d)
RemoveFolder(d) ==
  /\ guest' = [guest EXCEPT ![d] = "none"]
  /\ disk' = [disk EXCEPT ![d] = IF InUse(d) THEN @ ELSE None]
  /\ payload' = [payload EXCEPT ![d] = FALSE]
  /\ marker' = [marker EXCEPT ![d] = "no"]
  /\ claimed' \in {[claimed EXCEPT ![d] = b] : b \in IF InUse(d) THEN {TRUE} ELSE BOOLEAN}
  /\ pointer' = IF d = Default THEN None ELSE pointer
  /\ wish' = IF wish = d THEN None ELSE wish

(* runUninstall: shortcuts and the entry in Apps & features go first, and  *)
(* the pointer if it leads here.                                           *)
Forget ==
  /\ pc = "forget"
  /\ pointer' = IF pointer = at THEN None ELSE pointer
  /\ home' = IF home = at THEN None ELSE home
  /\ Goto("delete")
  /\ UNCHANGED <<folder, qemu, archives, helper, wish, bounds>>

(* A launcher outside the folder deletes it; one inside leaves that to a   *)
(* helper.                                                                 *)
Delete ==
  /\ pc = "delete"
  /\ \/ RemoveFolder(at) /\ UNCHANGED helper
     \/ helper = None /\ helper' = [dir |-> at, asked |-> asked] /\ UNCHANGED <<folder, pointer, wish>>
  /\ Idle
  /\ UNCHANGED <<qemu, archives, home, bounds>>

(* finishUninstall, without the port. *)
HelperDeletes ==
  /\ helper # None
  /\ RemoveFolder(helper.dir)
  /\ helper' = None
  /\ UNCHANGED <<qemu, proc, archives, home, bounds>>

(* The end of a restore: every file verified, the staging folder renamed;  *)
(* or nothing.                                                             *)
PublishRestore ==
  /\ pc = "restoring"
  /\ \/ /\ claimed' = [claimed EXCEPT ![at] = TRUE]
        /\ guest' = [guest EXCEPT ![at] = copy.guest]
        /\ disk' = [disk EXCEPT ![at] = copy.tail]
        /\ UNCHANGED bounds
     \/ Fault /\ UNCHANGED <<claimed, guest, disk>>
  /\ Idle
  /\ UNCHANGED <<payload, marker, pointer, qemu, archives, helper, wish, home>>

-----------------------------------------------------------------------------
Process == \/ Head \/ Recover \/ RollBack \/ Setup \/ SetupFails \/ PrepareDisk \/ Boot
           \/ Ask \/ OpenBackup \/ WriteBackup \/ Sure \/ Retire
           \/ Forget \/ Delete \/ PublishRestore

Start == \E d \in Dirs :
  \/ \E j \in {"launch", "fresh"} : PlainLaunch(d, j) \/ DirLaunch(d, j)
  \/ \E j \in {"backup", "reset", "uninstall"} : Maintain(d, j)
  \/ \E a \in archives : Restore(d, a)

Next == \/ Start \/ Process \/ Ready \/ PowerOff \/ LauncherDies \/ HelperDeletes
        \/ \E d \in Dirs : GuestWrites(d) \/ OrphanEnds(d)

Spec == Init /\ [][Next]_vars

(* Every process goes on and every guest is shut down one day.  A user     *)
(* whose reset was refused starts that guest again and again in between,   *)
(* and goes on asking.  Nothing obliges a guest to get ready.              *)
Fairness ==
  /\ WF_vars(Process \/ PowerOff \/ HelperDeletes)
  /\ WF_vars(\E d \in Dirs : OrphanEnds(d))
  /\ SF_vars(\E d \in Dirs : wish = d /\ Maintain(d, "reset"))
  /\ SF_vars(\E d \in Dirs : wish = d /\ Complete(d)
                              /\ (DirLaunch(d, "launch") \/ PlainLaunch(d, "launch")))

FairSpec == Spec /\ Fairness

-----------------------------------------------------------------------------
(* Properties. *)

(* An archive holds one state of the disk: no QEMU, not even one whose     *)
(* launcher is gone, wrote to it during the copy.  "Holding the disk       *)
(* itself exclusively also catches an orphaned QEMU process."              *)
ArchivesAreWhole == \A a \in archives : a.head = a.tail

(* A guest image no guest has confirmed is always under a journal that can *)
(* take it back, in restored copies too, which get no journal: that is     *)
(* what refusing to back up a pending update is for.                       *)
UntriedIsPending == \A d \in Dirs : guest[d] = "untried" => payload[d]

(* A user who asked for a backup first has one of the very disk that is    *)
(* being reset or removed: "backup failure or cancellation must never fall *)
(* through into reset".                                                    *)
Losing == \/ pc \in {"sure", "retire", "forget", "delete"}
          \/ job = "fresh" /\ pc \in {"rollback", "setup", "disk"}
BackedUp(d) == disk[d] # None => \E a \in archives : a.head = disk[d] /\ a.tail = disk[d]
AskedBackupExists ==
  /\ asked /\ Losing => BackedUp(at)
  /\ helper # None /\ helper.asked => BackedUp(helper.dir)

(* A launch without -dir finds the installation earlier ones made, until   *)
(* the user removes that one: the pointer is written when the folder is    *)
(* chosen and survives restored copies and their removal.                  *)
HomeIsFound ==
  home # None =>
    IF pointer # None THEN home = pointer ELSE home = Default /\ claimed[Default]

(* A reset that was refused, because of a pending update or a QEMU left    *)
(* over, goes through in the end, however often guests fail to get ready:  *)
(* an update is confirmed or taken back by the launches in between.        *)
ResetGetsThrough == []<>(wish = None)

=============================================================================
