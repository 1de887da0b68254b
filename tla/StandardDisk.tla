---------------------------- MODULE StandardDisk ----------------------------
(***************************************************************************)
(* The writable disk of a standard installation and the setup that may be  *)
(* cancelled around it: prepareDisk in app/qemu.go, resetStandardDisk and  *)
(* publishResetDisk in app/reset.go, app/setup_cancel.go and the calls of  *)
(* finishSetupCancellation in app/main.go.                                 *)
(*                                                                         *)
(* disk.raw is a sparse copy of the factory image, stretched to the size   *)
(* asked for.  A later launch uses it, grows it, or puts it aside when it  *)
(* is shorter than the factory image, which only an interrupted copy of an *)
(* older launcher is.  A reset builds the new disk in a staging folder and *)
(* publishes it with two renames.  Cancelling the very first setup removes *)
(* the whole data folder, but only until its disk is complete.             *)
(***************************************************************************)
EXTENDS Naturals

CONSTANTS
  Sizes,       \* sizes a launch may ask for
  FactorySize, \* size of the factory image, the same in every release
  MaxDisks,    \* bound on the disks created
  None,        \* no file
  MaxFaults    \* bound on failed operations, crashes and cancellations

ASSUME StandardAssumption ==
  /\ FactorySize \in Nat \ {0}
  /\ Sizes \subseteq Nat /\ \A s \in Sizes : FactorySize <= s
  /\ MaxDisks \in Nat \ {0} /\ MaxFaults \in Nat
  /\ None \notin 1 .. MaxDisks
  /\ None \notin [id: 0 .. MaxDisks, size: Nat, torn: BOOLEAN]

Ids  == 1 .. MaxDisks
\* A torn disk is the beginning of a copy under a final name.
Disk == [id: {0}, size: 0 .. FactorySize - 1, torn: {TRUE}]
        \cup [id: Ids, size: Sizes, torn: {FALSE}]

VARIABLES
  guest,     \* guest/ holds a factory image
  disk,      \* vm/disk.raw
  staged,    \* disk.raw in the staging folder of this reset
  retained,  \* disk.raw in the before-reset folder of this reset
  kept,      \* disks in before-reset folders and *.incomplete files
  blocked,   \* a launcher or payload update waits for its first ready guest
  pc,
  fresh,     \* this launch, or this maintenance run, resets
  want,      \* the size this launch asks for
  cancel,    \* setupCancelPending
  removeAll, \* cancelRemovesAll
  created,   \* number of disks made
  booted,    \* history: disks a guest has run on
  faults

files == <<guest, disk, staged, retained, kept>>
vars == <<files, blocked, pc, fresh, want, cancel, removeAll, created, booted, faults>>

TypeOK ==
  /\ guest \in BOOLEAN /\ blocked \in BOOLEAN /\ fresh \in BOOLEAN
  /\ cancel \in BOOLEAN /\ removeAll \in BOOLEAN
  /\ disk \in Disk \cup {None} /\ staged \in Disk \cup {None}
  /\ retained \in Disk \cup {None}
  /\ kept \subseteq Disk
  /\ pc \in {"off", "setup", "prepare", "disk", "copy", "publish", "copyStaged", "retire",
             "swap", "restore", "done", "boot", "cleanup"}
  /\ want \in Sizes
  /\ created \in 0 .. MaxDisks
  /\ booted \subseteq Ids
  /\ faults \in 0 .. MaxFaults

(* An empty data folder, or what an older launcher left of its first       *)
(* setup: a torn disk under the final name.                                *)
Init ==
  /\ \/ guest = FALSE /\ disk = None
     \/ guest = TRUE /\ \E s \in 0 .. FactorySize - 1 : disk = [id |-> 0, size |-> s, torn |-> TRUE]
  /\ staged = None /\ retained = None /\ kept = {}
  /\ blocked = FALSE
  /\ pc = "off" /\ fresh = FALSE /\ want \in Sizes
  /\ cancel = FALSE /\ removeAll = FALSE
  /\ created = 0 /\ booted = {} /\ faults = 0

Fault  == faults < MaxFaults /\ faults' = faults + 1
Smooth == UNCHANGED faults

\* The reset is over: its staging folder is removed, or stays as litter.
EndReset ==
  /\ staged' = None /\ retained' = None
  /\ kept' = kept \cup ({retained} \ {None})

Leave == pc' = "off" /\ EndReset

-----------------------------------------------------------------------------
(* The user and the world. *)

(* main: only a data folder that was empty when this setup began may be    *)
(* removed by cancelling it.                                               *)
Launch(f) ==
  /\ pc = "off"
  /\ pc' = "setup"
  /\ fresh' = f
  /\ want' \in Sizes
  /\ cancel' = FALSE
  /\ removeAll' \in IF ~guest /\ disk = None /\ kept = {} THEN BOOLEAN ELSE {FALSE}
  /\ blocked' \in BOOLEAN
  /\ UNCHANGED <<files, created, booted, faults>>

Cancel ==
  /\ pc \notin {"off", "boot", "cleanup"} /\ ~cancel
  /\ Fault
  /\ cancel' = TRUE
  /\ UNCHANGED <<files, blocked, pc, fresh, want, removeAll, created, booted>>

Crash ==
  /\ pc # "off"
  /\ Fault
  /\ Leave
  /\ UNCHANGED <<guest, disk, blocked, fresh, want, cancel, removeAll, created, booted>>

(* A failed operation is fatal; one that fails because setup was cancelled *)
(* leads to the cleanup.                                                   *)
Fails == pc' = IF cancel THEN "cleanup" ELSE "off"

Stop ==
  /\ pc \in {"setup", "prepare", "disk", "copy", "publish", "copyStaged", "retire"}
  /\ Fault
  /\ Fails
  /\ EndReset
  /\ UNCHANGED <<guest, disk, blocked, fresh, want, cancel, removeAll, created, booted>>

Shutdown ==
  /\ pc = "boot"
  /\ Leave
  /\ UNCHANGED <<guest, disk, blocked, fresh, want, cancel, removeAll, created, booted, faults>>

-----------------------------------------------------------------------------
(* The launch. *)

Goto(p) ==
  /\ pc' = p
  /\ UNCHANGED <<files, blocked, fresh, want, cancel, removeAll, created, booted, faults>>

(* checkSetupCancelled, then finishSetupCancellation in main. *)
Cancelled ==
  /\ cancel
  /\ pc \in {"setup", "prepare", "copy", "copyStaged", "retire"}
  /\ pc' = "cleanup" /\ EndReset
  /\ UNCHANGED <<guest, disk, blocked, fresh, want, cancel, removeAll, created, booted, faults>>

(* Runtime, guest files and the rest of setup. *)
Setup ==
  /\ pc = "setup" /\ ~cancel
  /\ guest' = TRUE
  /\ pc' = "prepare"
  /\ UNCHANGED <<disk, staged, retained, kept, blocked, fresh, want, cancel, removeAll, created, booted, faults>>

(* prepareDisk and the head of resetStandardDisk. *)
Prepare ==
  /\ pc = "prepare" /\ ~cancel
  /\ \/ ~fresh /\ Goto("disk")
     \/ fresh /\ blocked /\ Goto("off")
     \/ fresh /\ ~blocked /\ disk = None /\ Goto("disk")
     \/ fresh /\ ~blocked /\ disk # None /\ Goto("copyStaged")

\* Mutant: an existing disk is used as it is.
UseAnyDisk ==
  /\ pc = "disk" /\ disk # None
  /\ Goto("done")

UseDisk ==
  /\ pc = "disk" /\ disk # None /\ disk.size >= want
  /\ Goto("done")

(* A complete disk that is too small grows in place. *)
GrowDisk ==
  /\ pc = "disk" /\ disk # None /\ disk.size \in FactorySize .. want - 1
  /\ disk' = [disk EXCEPT !.size = want]
  /\ pc' = "done"
  /\ UNCHANGED <<guest, staged, retained, kept, blocked, fresh, want, cancel, removeAll, created, booted, faults>>

QuarantineDisk ==
  /\ pc = "disk" /\ disk # None /\ disk.size < FactorySize /\ disk.size < want
  /\ kept' = kept \cup {disk}
  /\ disk' = None
  /\ pc' = "copy"
  /\ UNCHANGED <<guest, staged, retained, blocked, fresh, want, cancel, removeAll, created, booted, faults>>

NoDisk ==
  /\ pc = "disk" /\ disk = None
  /\ Goto("copy")

(* sparseCopy into disk.raw.part, flushed ... *)
CopyDisk ==
  /\ pc = "copy" /\ ~cancel /\ created < MaxDisks
  /\ created' = created + 1
  /\ pc' = "publish"
  /\ UNCHANGED <<files, blocked, fresh, want, cancel, removeAll, booted, faults>>

(* ... and renamed. *)
PublishDisk ==
  /\ pc = "publish"
  /\ disk' = [id |-> created, size |-> want, torn |-> FALSE]
  /\ pc' = "done"
  /\ UNCHANGED <<guest, staged, retained, kept, blocked, fresh, want, cancel, removeAll, created, booted, faults>>

(* resetStandardDisk: the same in the staging folder, ... *)
CopyStaged ==
  /\ pc = "copyStaged" /\ ~cancel /\ created < MaxDisks
  /\ created' = created + 1
  /\ staged' = [id |-> created', size |-> want, torn |-> FALSE]
  /\ pc' = "retire"
  /\ UNCHANGED <<guest, disk, retained, kept, blocked, fresh, want, cancel, removeAll, booted,
                 faults>>

(* ... then publishResetDisk: the old disk into the retained folder, ... *)
RetireDisk ==
  /\ pc = "retire" /\ ~cancel
  /\ retained' = disk /\ disk' = None
  /\ pc' = "swap"
  /\ UNCHANGED <<guest, staged, kept, blocked, fresh, want, cancel, removeAll, created, booted, faults>>

(* ... the new one into place, ... *)
SwapDisk ==
  /\ pc = "swap"
  /\ \/ disk' = staged /\ EndReset /\ pc' = "done" /\ Smooth
     \/ Fault /\ pc' = "restore" /\ UNCHANGED <<disk, staged, retained, kept>>
  /\ UNCHANGED <<guest, blocked, fresh, want, cancel, removeAll, created, booted>>

(* ... or the old one back; if that fails too it remains where it is. *)
RestoreDisk ==
  /\ pc = "restore"
  /\ \/ disk' = retained /\ retained' = None /\ UNCHANGED kept /\ Smooth
     \/ UNCHANGED disk /\ retained' = None /\ kept' = kept \cup {retained} /\ Fault
  /\ staged' = None
  /\ Fails
  /\ UNCHANGED <<guest, blocked, fresh, want, cancel, removeAll, created, booted>>

\* Mutant: a finished disk does not end the right to remove everything.
FinishKeepsRemoveAll ==
  /\ pc = "done"
  /\ pc' = IF cancel THEN "cleanup" ELSE "boot"
  /\ booted' = IF cancel THEN booted ELSE booted \cup {disk.id}
  /\ UNCHANGED <<files, blocked, fresh, want, cancel, removeAll, created, faults>>

(* "From here onward the installation is complete": cancelling stops the   *)
(* launch and removes nothing any more.                                    *)
Finish ==
  /\ pc = "done"
  /\ removeAll' = FALSE
  /\ pc' = IF cancel THEN "cleanup" ELSE "boot"
  /\ booted' = IF cancel THEN booted ELSE booted \cup {disk.id}
  /\ UNCHANGED <<files, blocked, fresh, want, cancel, created, faults>>

(* cleanupCancelledSetup: the data folder, or only staging files. *)
Cleanup ==
  /\ pc = "cleanup"
  /\ pc' = "off"
  /\ IF removeAll THEN guest' = FALSE /\ disk' = None /\ kept' = {}
                  ELSE UNCHANGED <<guest, disk, kept>>
  /\ UNCHANGED <<staged, retained, blocked, fresh, want, cancel, removeAll, created, booted,
                 faults>>

-----------------------------------------------------------------------------
Launcher == \/ Setup \/ Prepare \/ Cancelled \/ UseDisk \/ GrowDisk \/ QuarantineDisk \/ NoDisk
            \/ CopyDisk \/ PublishDisk \/ CopyStaged \/ RetireDisk \/ SwapDisk \/ RestoreDisk
            \/ Finish \/ Cleanup

Next == (\E f \in BOOLEAN : Launch(f)) \/ Launcher \/ Shutdown \/ Cancel \/ Stop \/ Crash

Spec == Init /\ [][Next]_vars

-----------------------------------------------------------------------------
(* Properties. *)

(* A guest never runs on the beginning of a copy, nor on less than it was  *)
(* promised.                                                               *)
BootsWholeDisk == pc = "boot" => disk # None /\ ~disk.torn /\ disk.size >= want

(* Whatever fails, is interrupted or cancelled, the two renames of a reset *)
(* are one step to the user: see GuestDisk.  A complete disk is replaced   *)
(* only by a reset ("replacing it with the factory image here would        *)
(* silently discard the user's system and files"), is retained then, and   *)
(* is removed by nothing, not by "a last-second cancel" either.  While the *)
(* old disk is between the renames it still counts as the current one.     *)
Whole(files_) == {d.id : d \in {f \in files_ \ {None} : ~f.torn}}
CurrentFile == IF pc \in {"swap", "restore"} THEN retained ELSE disk
CurrentDisk == IF CurrentFile = None THEN None
               ELSE IF CurrentFile.torn THEN None ELSE CurrentFile.id

GuestDisk == INSTANCE GuestDisk WITH
  Ids <- Ids, None <- None,
  current <- CurrentDisk,
  retained <- Whole(kept \cup {retained}) \ {CurrentDisk},
  used <- booted,
  asked <- fresh

Promise == GuestDisk!Spec

=============================================================================
