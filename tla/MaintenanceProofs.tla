------------------------- MODULE MaintenanceProofs --------------------------
(***************************************************************************)
(* Maintenance keeps backups whole, makes the one a user asks for before   *)
(* it resets or removes anything, and finds the folder again, for every    *)
(* number of folders, updates, failures and writes of the guests.          *)
(***************************************************************************)
EXTENDS Maintenance, TLAPS

(* What a backup in the making, and one being restored, consist of.        *)
Copying ==
  /\ pc = "copying" => /\ copy \in Archive /\ copy.guest # "untried"
                       /\ ~qemu[at] /\ copy.head = disk[at]
  /\ pc = "restoring" => copy \in archives

Confirmed == \A a \in archives : a.guest # "untried"

Inv == TypeOK /\ Copying /\ Confirmed /\ ArchivesAreWhole /\ UntriedIsPending

(* A process whose user asked for a backup.                                *)
Safeguard ==
  asked => \/ pc = "backup"
           \/ pc \in {"copying"} /\ disk[at] # None
           \/ Losing /\ ~qemu[at] /\ BackedUp(at)
           \/ job = "fresh" /\ pc \in {"boot", "running"}

(* While the removal helper has work nobody else works.                    *)
Removing ==
  /\ pc # "idle" => helper = None
  /\ helper # None /\ helper.asked => ~qemu[helper.dir] /\ BackedUp(helper.dir)

(* Which folder a process works in.                                        *)
Folder ==
  /\ \A d \in Dirs : payload[d] => claimed[d]
  /\ pc # "idle" /\ plain => at = IF pointer # None THEN pointer ELSE Default
  /\ pc # "idle" /\ ~plain /\ at = Default => pointer = None
  /\ job \in {"backup", "reset", "uninstall", "restore"} => ~plain
  /\ pc \in {"disk", "boot", "running"} => claimed[at]
  /\ pc \in {"forget", "delete"} => ~plain
  /\ pc = "delete" => home # at
  /\ helper # None => home # helper.dir /\ (helper.dir = Default => pointer = None)

-----------------------------------------------------------------------------
(* What a step may change, and which steps do.                             *)
LEMMA Frame ==
  ASSUME [Next]_vars
  PROVE  /\ UNCHANGED archives \/ WriteBackup
         /\ \/ UNCHANGED <<guest, payload>>
            \/ RollBack \/ Setup \/ Ready \/ Delete \/ HelperDeletes \/ PublishRestore
         /\ \/ UNCHANGED disk
            \/ PrepareDisk \/ Retire \/ Delete \/ HelperDeletes \/ PublishRestore
            \/ \E d \in Dirs : GuestWrites(d)
         /\ \/ UNCHANGED qemu
            \/ Boot \/ PowerOff \/ \E d \in Dirs : OrphanEnds(d)
         /\ pc' = "copying" => OpenBackup \/ UNCHANGED <<pc, job, at, asked, copy>>
         /\ pc' = "restoring" => \/ \E d \in Dirs, a \in archives : Restore(d, a)
                                 \/ UNCHANGED <<pc, copy>>
<1>1. ASSUME Start
      PROVE  /\ UNCHANGED <<archives, guest, payload, disk, qemu>> /\ pc' # "copying"
             /\ pc' = "restoring" => \E d \in Dirs, a \in archives : Restore(d, a)
  BY <1>1 DEF Start, PlainLaunch, DirLaunch, Maintain, Begin, Restore, folder
<1>2. ASSUME Process, ~OpenBackup PROVE pc' \notin {"copying", "restoring"}
  BY <1>2 DEF Process, Head, Recover, RollBack, Setup, SetupFails, PrepareDisk, Boot, Ask, WriteBackup,
     Sure, Retire, Forget, Delete, PublishRestore, Idle, Goto, GiveUp
<1>3. ASSUME Process
      PROVE  /\ UNCHANGED archives \/ WriteBackup
             /\ \/ UNCHANGED <<guest, payload>>
                \/ RollBack \/ Setup \/ Delete \/ PublishRestore
             /\ UNCHANGED disk \/ PrepareDisk \/ Retire \/ Delete \/ PublishRestore
             /\ UNCHANGED qemu \/ Boot
  BY <1>3 DEF Process, Head, Recover, RollBack, Setup, SetupFails, PrepareDisk, Boot, Ask, OpenBackup,
     WriteBackup, Sure, Retire, Forget, Delete, PublishRestore, folder
<1>4. ASSUME OpenBackup PROVE pc' # "restoring"
  BY <1>4 DEF OpenBackup, Idle
<1>5. ASSUME Ready \/ PowerOff \/ LauncherDies \/ HelperDeletes \/ (\E d \in Dirs : GuestWrites(d) \/ OrphanEnds(d))
      PROVE  /\ UNCHANGED archives
             /\ UNCHANGED <<guest, payload>> \/ Ready \/ HelperDeletes
             /\ UNCHANGED disk \/ HelperDeletes \/ \E d \in Dirs : GuestWrites(d)
             /\ UNCHANGED qemu \/ PowerOff \/ \E d \in Dirs : OrphanEnds(d)
             /\ pc' = "idle" \/ UNCHANGED proc
  BY <1>5 DEF Ready, PowerOff, LauncherDies, HelperDeletes, GuestWrites, OrphanEnds, Idle, folder
<1>6. CASE UNCHANGED vars
  BY <1>6 DEF vars, folder, proc
<1> QED
  BY <1>1, <1>2, <1>3, <1>4, <1>5, <1>6 DEF Next, proc

(* The numbers and None.                                                   *)
LEMMA Numbers ==
  /\ 0 \in Contents /\ None \notin Contents /\ Default \in Dirs /\ None \notin Dirs
  /\ Fault /\ faults \in 0 .. MaxFaults => faults' \in 0 .. MaxFaults
  /\ \A n \in 0 .. MaxUpdates : n < MaxUpdates => n + 1 \in 0 .. MaxUpdates
  /\ \A n \in Contents : n < MaxWrites => n + 1 \in Contents
BY MaintenanceAssumption DEF Contents, Dirs, Fault

(* The fields of an archive, and of the one a backup publishes.            *)
LEMMA CopyFields ==
  ASSUME NEW c \in Archive
  PROVE  /\ c.guest \in Guests /\ c.head \in Contents /\ c.tail \in Contents
         /\ \A t : [c EXCEPT !.tail = t] = [guest |-> c.guest, head |-> c.head, tail |-> t]
<1>1. c \in [guest: Guests, head: Contents, tail: Contents]
  BY DEF Archive
<1> QED
  BY <1>1

(* The types of the folders, of the process and of the rest.               *)
Places == {"idle", "begin", "recover", "rollback", "setup", "disk", "boot", "running", "ask",
           "backup", "copying", "sure", "retire", "forget", "delete", "restoring"}
FolderOK ==
  /\ claimed \in [Dirs -> BOOLEAN] /\ payload \in [Dirs -> BOOLEAN] /\ guest \in [Dirs -> Guests]
  /\ disk \in [Dirs -> Contents \cup {None}] /\ marker \in [Dirs -> {"no", "marked", "started"}]
ProcOK ==
  /\ pc \in Places /\ job \in Jobs /\ at \in Dirs /\ plain \in BOOLEAN /\ asked \in BOOLEAN
  /\ copy \in Archive \cup {None}
BoundsOK == clock \in Contents /\ updates \in 0 .. MaxUpdates /\ faults \in 0 .. MaxFaults
RestOK ==
  /\ qemu \in [Dirs -> BOOLEAN] /\ pointer \in Others \cup {None} /\ archives \subseteq Archive
  /\ helper \in [dir: Dirs, asked: BOOLEAN] \cup {None}
  /\ wish \in Dirs \cup {None} /\ home \in Dirs \cup {None}

(* Together they are the type invariant.                                   *)
LEMMA Parts ==
  /\ TypeOK <=> FolderOK /\ ProcOK /\ BoundsOK /\ RestOK
  /\ TypeOK' <=> (FolderOK /\ ProcOK /\ BoundsOK /\ RestOK)'
BY DEF TypeOK, FolderOK, ProcOK, BoundsOK, RestOK, Places

(* The ways on of a process, and what a step leaves alone.                 *)
LEMMA Onwards ==
  ASSUME FolderOK, ProcOK, BoundsOK
  PROVE  /\ Idle => ProcOK'
         /\ \A p \in Places : Goto(p) => ProcOK'
         /\ UNCHANGED proc => ProcOK'
         /\ UNCHANGED folder => FolderOK'
         /\ UNCHANGED bounds \/ Fault => BoundsOK'
<1>1. Idle => ProcOK'
  BY Numbers DEF Idle, ProcOK, Places, Jobs
<1>2. \A p \in Places : Goto(p) => ProcOK'
  BY DEF Goto, ProcOK
<1>3. UNCHANGED proc => ProcOK'
  BY DEF proc, ProcOK
<1>4. UNCHANGED folder => FolderOK'
  BY DEF folder, FolderOK
<1>5. UNCHANGED bounds \/ Fault => BoundsOK'
  BY Numbers DEF bounds, Fault, BoundsOK
<1> QED
  BY <1>1, <1>2, <1>3, <1>4, <1>5

(* A start, by anyone and for any job.                                     *)
LEMMA StartType ==
  ASSUME TypeOK, Start
  PROVE  TypeOK'
<1> USE Numbers
<1>1. FolderOK /\ ProcOK /\ BoundsOK /\ RestOK
  BY Parts
<1>2. ASSUME NEW d \in Dirs, NEW j \in Jobs, NEW p \in BOOLEAN, Begin(j, d, p) PROVE ProcOK'
  BY <1>2 DEF Begin, ProcOK, Places
<1>3. ASSUME NEW d \in Dirs, NEW a \in archives, Restore(d, a) PROVE ProcOK'
  BY <1>1, <1>3 DEF Restore, ProcOK, RestOK, Places, Jobs
<1>4. ProcOK'
  BY <1>2, <1>3 DEF Start, PlainLaunch, DirLaunch, Maintain, Jobs
<1>5. FolderOK' /\ BoundsOK'
  BY <1>1, Onwards DEF Start, PlainLaunch, DirLaunch, Maintain, Restore, Begin
<1>6. RestOK'
  BY <1>1 DEF Start, PlainLaunch, DirLaunch, Maintain, Restore, Begin, RestOK, Dirs
<1> QED
  BY <1>4, <1>5, <1>6, Parts

(* A folder that goes.                                                     *)
LEMMA RemoveType ==
  ASSUME TypeOK, NEW d \in Dirs, RemoveFolder(d)
  PROVE  FolderOK' /\ pointer' \in Others \cup {None} /\ wish' \in Dirs \cup {None}
<1>1. claimed' \in [Dirs -> BOOLEAN]
  BY DEF TypeOK, RemoveFolder
<1> QED
  BY <1>1 DEF TypeOK, RemoveFolder, FolderOK, Guests

(* A step keeps the types, one action at a time.                           *)
LEMMA TypeStep ==
  ASSUME TypeOK, Copying, [Next]_vars
  PROVE  TypeOK'
<1> USE Numbers
<1>1. FolderOK /\ ProcOK /\ BoundsOK /\ RestOK
  BY Parts
<1>2. CASE Start
  BY <1>2, StartType
<1>3. CASE Head \/ Recover \/ RollBack \/ Boot \/ Ask \/ Sure \/ Forget \/ PowerOff \/ Retire
  <2>1. ProcOK'
    <3>1. CASE Head \/ Recover \/ RollBack \/ Sure \/ Forget \/ PowerOff \/ Retire
      BY <1>1, <3>1, Onwards DEF Head, Recover, RollBack, Sure, Forget, PowerOff, Retire, GiveUp, Places
    <3>2. CASE Boot \/ Ask
      BY <1>1, <3>2, Onwards DEF Boot, Ask, GiveUp, ProcOK, Places
    <3> QED
      BY <1>3, <3>1, <3>2
  <2>2. FolderOK'
    <3>1. CASE Head \/ Boot \/ Ask \/ Sure \/ Forget \/ PowerOff
      BY <1>1, <3>1, Onwards DEF Head, Boot, Ask, Sure, Forget, PowerOff
    <3>2. CASE Recover
      BY <1>1, <3>2 DEF Recover, FolderOK
    <3>3. CASE RollBack
      BY <1>1, <3>3 DEF RollBack, FolderOK, Guests
    <3>4. CASE Retire
      BY <1>1, <3>4 DEF Retire, ResetDisk, FolderOK
    <3> QED
      BY <1>3, <3>1, <3>2, <3>3, <3>4
  <2>3. BoundsOK'
    BY <1>1, <1>3, Onwards DEF Head, Recover, RollBack, Boot, Ask, Sure, Forget, PowerOff, Retire
  <2>4. CASE Head \/ Recover \/ RollBack \/ Ask \/ Sure
    <3>1. wish' \in Dirs \cup {None}
      BY <1>1, <2>4 DEF Head, Recover, RollBack, Ask, Sure, GiveUp, RestOK
    <3>2. UNCHANGED <<qemu, pointer, archives, helper, home>>
      BY <2>4 DEF Head, Recover, RollBack, Ask, Sure
    <3> QED
      BY <1>1, <2>1, <2>2, <2>3, <3>1, <3>2, Parts DEF RestOK
  <2>5. CASE Boot \/ Forget \/ PowerOff \/ Retire
    <3>1. RestOK'
      BY <1>1, <2>5 DEF Boot, Forget, PowerOff, Retire, ResetDisk, RestOK
    <3> QED
      BY <2>1, <2>2, <2>3, <3>1, Parts
  <2> QED
    BY <1>3, <2>4, <2>5
<1>4. CASE Setup
  <2>1. FolderOK'
    BY <1>1, <1>4 DEF Setup, FolderOK, Guests
  <2>2. ProcOK'
    BY <1>1, <1>4, Onwards DEF Setup, Places
  <2>3. BoundsOK'
    BY <1>1, <1>4 DEF Setup, BoundsOK
  <2>4. RestOK'
    BY <1>1, <1>4 DEF Setup, RestOK
  <2> QED
    BY <2>1, <2>2, <2>3, <2>4, Parts
<1>5. CASE SetupFails
  BY <1>1, <1>5, Onwards, Parts DEF SetupFails, FolderOK, RestOK
<1>6. CASE PrepareDisk
  <2>1. FolderOK'
    BY <1>1, <1>6 DEF PrepareDisk, ResetDisk, FolderOK
  <2>2. ProcOK' /\ BoundsOK'
    BY <1>1, <1>6, Onwards DEF PrepareDisk, Places
  <2>3. RestOK'
    BY <1>1, <1>6 DEF PrepareDisk, ResetDisk, RestOK, ProcOK
  <2> QED
    BY <2>1, <2>2, <2>3, Parts
<1>7. CASE OpenBackup
  <2>1. ProcOK'
    <3>1. CASE Idle
      BY <1>1, <3>1, Onwards
    <3>2. CASE ~Idle
      BY <1>1, <1>7, <3>2 DEF OpenBackup, Complete, Archive, ProcOK, FolderOK, Places
    <3> QED
      BY <3>1, <3>2
  <2> QED
    BY <1>1, <1>7, <2>1, Onwards, Parts DEF OpenBackup, RestOK
<1>8. CASE WriteBackup
  <2>1. copy \in Archive /\ disk[at] \in Contents
    BY <1>8, CopyFields DEF WriteBackup, Copying
  <2>2. [copy EXCEPT !.tail = disk[at]] \in Archive
    BY <2>1, CopyFields DEF Archive
  <2>3. RestOK'
    BY <1>1, <1>8, <2>2 DEF WriteBackup, RestOK
  <2>4. ProcOK' /\ FolderOK' /\ BoundsOK'
    BY <1>1, <1>8, Onwards DEF WriteBackup, Places
  <2> QED
    BY <2>3, <2>4, Parts
<1>9. CASE Delete
  <2>1. at \in Dirs /\ asked \in BOOLEAN
    BY <1>1 DEF ProcOK
  <2>2. FolderOK' /\ RestOK'
    BY <1>1, <1>9, <2>1, RemoveType, Onwards DEF Delete, RestOK
  <2> QED
    BY <1>1, <1>9, <2>2, Onwards, Parts DEF Delete
<1>10. CASE HelperDeletes
  <2>1. helper.dir \in Dirs
    BY <1>1, <1>10 DEF HelperDeletes, RestOK
  <2> QED
    BY <1>1, <1>10, <2>1, RemoveType, Onwards, Parts DEF HelperDeletes, RestOK
<1>11. CASE PublishRestore
  <2>1. copy.guest \in Guests /\ copy.tail \in Contents
    BY <1>1, <1>11, CopyFields DEF PublishRestore, Copying, RestOK
  <2>2. FolderOK'
    BY <1>1, <1>11, <2>1 DEF PublishRestore, FolderOK
  <2> QED
    BY <1>1, <1>11, <2>2, Onwards, Parts DEF PublishRestore, RestOK
<1>12. CASE Ready
  BY <1>1, <1>12, Onwards, Parts DEF Ready, FolderOK, RestOK, Guests
<1>13. CASE LauncherDies
  BY <1>1, <1>13, Onwards, Parts DEF LauncherDies, RestOK
<1>14. ASSUME NEW d \in Dirs, GuestWrites(d) PROVE TypeOK'
  <2>1. clock' \in Contents
    BY <1>1, <1>14 DEF GuestWrites, BoundsOK
  <2> QED
    BY <1>1, <1>14, <2>1, Onwards, Parts DEF GuestWrites, FolderOK, BoundsOK, RestOK
<1>15. ASSUME NEW d \in Dirs, OrphanEnds(d) PROVE TypeOK'
  BY <1>1, <1>15, Onwards, Parts DEF OrphanEnds, RestOK
<1>16. CASE UNCHANGED vars
  BY <1>1, <1>16, Onwards, Parts DEF vars, RestOK
<1> QED
  BY <1>2, <1>3, <1>4, <1>5, <1>6, <1>7, <1>8, <1>9, <1>10, <1>11, <1>12, <1>13, <1>14, <1>15, <1>16
  DEF Next, Process

(* The disk a backup has open stays what it is: no guest runs on it, no    *)
(* other step of the process touches it, and the removal helper cannot     *)
(* delete a file that is open.                                             *)
LEMMA HeldDisk ==
  ASSUME TypeOK, [Next]_vars, pc = "copying", pc' = "copying", at' = at, ~qemu[at]
  PROVE  disk'[at] = disk[at] /\ ~qemu'[at]
<1>1. disk'[at] = disk[at]
  <2>1. CASE UNCHANGED disk
    BY <2>1
  <2>2. CASE HelperDeletes
    <3>1. helper.dir = at => InUse(helper.dir)
      BY DEF InUse
    <3> QED
      BY <2>2, <3>1 DEF HelperDeletes, RemoveFolder, TypeOK
  <2>3. ASSUME NEW d \in Dirs, GuestWrites(d) PROVE disk'[at] = disk[at]
    BY <2>3 DEF GuestWrites, TypeOK
  <2> QED
    BY <2>1, <2>2, <2>3, Frame DEF PrepareDisk, Retire, Delete, PublishRestore
<1>2. ~qemu'[at]
  BY Frame DEF Boot, PowerOff, OrphanEnds, TypeOK
<1> QED
  BY <1>1, <1>2

(* Backups only become more.                                               *)
LEMMA ArchivesGrow ==
  ASSUME [Next]_vars
  PROVE  archives \subseteq archives'
BY Frame DEF WriteBackup

(* A backup in the making is of a disk nobody writes to, and one that is   *)
(* restored exists.                                                        *)
LEMMA CopyingStep ==
  ASSUME Inv, [Next]_vars
  PROVE  Copying'
<1>1. ASSUME OpenBackup, pc' = "copying"
      PROVE  copy' \in Archive /\ copy'.guest # "untried" /\ ~qemu'[at'] /\ copy'.head = disk'[at']
  <2>1. /\ at' = at /\ disk' = disk /\ qemu' = qemu /\ ~qemu[at] /\ ~Pending(at) /\ Complete(at)
        /\ copy' = [guest |-> guest[at], head |-> disk[at], tail |-> disk[at]]
    BY <1>1 DEF OpenBackup, Idle, folder
  <2>2. guest[at] \in Guests /\ guest[at] # "untried" /\ disk[at] \in Contents
    BY <2>1 DEF Inv, TypeOK, UntriedIsPending, Pending, Complete
  <2> QED
    BY <2>1, <2>2 DEF Archive
<1>2. ASSUME pc' = "copying", UNCHANGED <<pc, job, at, asked, copy>>
      PROVE  copy' \in Archive /\ copy'.guest # "untried" /\ ~qemu'[at'] /\ copy'.head = disk'[at']
  BY <1>2, HeldDisk DEF Inv, Copying
<1>3. pc' = "restoring" => copy' \in archives'
  BY Frame, ArchivesGrow DEF Inv, Copying, Restore
<1> QED
  BY <1>1, <1>2, <1>3, Frame DEF Copying

(* What a backup publishes is whole, and of a confirmed guest.             *)
LEMMA ArchivesStep ==
  ASSUME Inv, [Next]_vars
  PROVE  Confirmed' /\ ArchivesAreWhole'
<1>1. ASSUME WriteBackup, NEW a \in archives', a \notin archives
      PROVE  a.guest # "untried" /\ a.head = a.tail
  <2>1. /\ a = [copy EXCEPT !.tail = disk[at]]
        /\ copy \in Archive /\ copy.guest # "untried" /\ copy.head = disk[at]
    BY <1>1 DEF WriteBackup, Inv, Copying
  <2>2. a = [guest |-> copy.guest, head |-> copy.head, tail |-> disk[at]]
    BY <2>1, CopyFields
  <2> QED
    BY <2>1, <2>2
<1> QED
  BY <1>1, Frame DEF Inv, Confirmed, ArchivesAreWhole

(* Wherever an image comes from or a journal goes.                         *)
LEMMA PendingStep ==
  ASSUME Inv, [Next]_vars
  PROVE  UntriedIsPending'
<1> USE DEF Inv, TypeOK, UntriedIsPending
<1>1. CASE UNCHANGED <<guest, payload>>
  BY <1>1
<1>2. CASE RollBack
  BY <1>2 DEF RollBack
<1>3. CASE Setup
  BY <1>3 DEF Setup
<1>4. CASE Ready
  BY <1>4 DEF Ready
<1>5. CASE Delete
  BY <1>5 DEF Delete, RemoveFolder, folder
<1>6. CASE HelperDeletes
  BY <1>6 DEF HelperDeletes, RemoveFolder
<1>7. CASE PublishRestore
  <2>1. copy.guest # "untried"
    BY <1>7 DEF PublishRestore, Copying, Confirmed
  <2> QED
    BY <1>7, <2>1 DEF PublishRestore
<1> QED
  BY <1>1, <1>2, <1>3, <1>4, <1>5, <1>6, <1>7, Frame

(* The invariant holds whoever runs the program while the helper works,    *)
(* and whatever the folder it is pointed at.                               *)
THEOREM Safe == Spec => []Inv
<1>1. ASSUME Init PROVE Inv
  <2>1. clock \in Contents /\ updates \in 0 .. MaxUpdates /\ faults \in 0 .. MaxFaults
    BY <1>1, Numbers, MaintenanceAssumption DEF Init
  <2>2. TypeOK
    BY <1>1, <2>1, Numbers DEF Init, TypeOK, Guests, Jobs
  <2> QED
    BY <1>1, <2>2 DEF Init, Inv, Copying, Confirmed, ArchivesAreWhole, UntriedIsPending
<1>2. Inv /\ [Next]_vars => Inv'
  BY TypeStep, CopyingStep, ArchivesStep, PendingStep DEF Inv
<1> QED
  BY <1>1, <1>2, PTL DEF Spec

(* The variables keep their types.                                         *)
THEOREM TypeCorrect == Spec => []TypeOK
BY Safe, PTL DEF Inv

(* An archive holds one state of the disk, however the guests, orphans of  *)
(* dead launchers among them, and the deletion of folders are interleaved  *)
(* with the copy.                                                          *)
THEOREM ArchivesWhole == Spec => []ArchivesAreWhole
BY Safe, PTL DEF Inv

(* An image no guest has confirmed is under a journal, in every folder and *)
(* every restored copy.                                                    *)
THEOREM UntriedPending == Spec => []UntriedIsPending
BY Safe, PTL DEF Inv
-----------------------------------------------------------------------------
(* The backup a user asks for, while nobody starts the program as long as  *)
(* the removal helper works.                                               *)

(* A backup of a disk stays one while the disk does not change.            *)
LEMMA BackupKept ==
  ASSUME [Next]_vars, NEW d, BackedUp(d), disk'[d] = disk[d]
  PROVE  BackedUp(d)'
BY ArchivesGrow DEF BackedUp

(* Who hands work to the helper and who ends it; whoever else steps while  *)
(* there is some is a guest, or one that goes.                             *)
LEMMA HelperFrame ==
  ASSUME HelperFirst, Removing, TypeOK, [Next]_vars
  PROVE  /\ UNCHANGED helper \/ Delete \/ HelperDeletes
         /\ pc' # "idle" /\ pc = "idle" => helper = None
         /\ pc = "idle" => UNCHANGED <<disk, qemu>> \/ HelperDeletes
                           \/ \E d \in Dirs : GuestWrites(d) \/ OrphanEnds(d)
<1>1. CASE Start
  BY <1>1, Frame DEF Start, PlainLaunch, DirLaunch, Maintain, Restore, Begin, CanStart, folder
<1>2. CASE Process
  BY <1>2 DEF Process, Head, Recover, RollBack, Setup, SetupFails, PrepareDisk, Boot, Ask, OpenBackup,
     WriteBackup, Sure, Retire, Forget, Delete, PublishRestore, folder
<1>3. CASE Ready \/ PowerOff \/ LauncherDies \/ HelperDeletes \/ \E d \in Dirs : GuestWrites(d) \/ OrphanEnds(d)
  BY <1>3 DEF Ready, PowerOff, LauncherDies, HelperDeletes, GuestWrites, OrphanEnds, proc, Idle
<1>4. CASE UNCHANGED vars
  BY <1>4 DEF vars, folder, proc
<1> QED
  BY <1>1, <1>2, <1>3, <1>4 DEF Next

(* What a disk that no QEMU has open may become while its process works:   *)
(* only that process changes it, for the helper has nothing to do.         *)
LEMMA DiskOfTheProcess ==
  ASSUME HelperFirst, Removing, TypeOK, [Next]_vars, pc # "idle", ~qemu[at]
  PROVE  /\ disk'[at] = disk[at] \/ PrepareDisk \/ Retire \/ Delete \/ PublishRestore
         /\ ~qemu'[at] \/ Boot
<1>1. ASSUME NEW d \in Dirs, GuestWrites(d) PROVE disk'[at] = disk[at]
  BY <1>1 DEF GuestWrites, TypeOK
<1>2. ASSUME NEW d \in Dirs, OrphanEnds(d) PROVE ~qemu'[at]
  BY <1>2 DEF OrphanEnds, TypeOK
<1>3. ASSUME PowerOff PROVE ~qemu'[at]
  BY <1>3 DEF PowerOff, TypeOK
<1>4. ~HelperDeletes
  BY DEF HelperDeletes, Removing
<1> QED
  BY <1>1, <1>2, <1>3, <1>4, Frame

(* From the backup to the loss, one action at a time.                      *)
LEMMA SafeguardStep ==
  ASSUME HelperFirst, Inv, Removing, Safeguard, [Next]_vars
  PROVE  Safeguard'
<1> SUFFICES ASSUME asked' PROVE Safeguard'
  BY DEF Safeguard
<1>1. CASE ~asked
  <2>1. Ask /\ pc' = "backup"
    BY <1>1 DEF Next, Start, PlainLaunch, DirLaunch, Maintain, Restore, Begin, Process, Head, Recover, RollBack,
       Setup, SetupFails, PrepareDisk, Boot, Ask, OpenBackup, WriteBackup, Sure, Retire, Forget, Delete,
       PublishRestore, Ready, PowerOff, LauncherDies, HelperDeletes, GuestWrites, OrphanEnds, Idle, Goto,
       GiveUp, proc, vars
  <2> QED
    BY <2>1 DEF Safeguard
<1>2. CASE asked
  <2>1. pc \notin {"idle", "begin", "recover", "ask", "restoring"}
    BY <1>2 DEF Safeguard, Losing
  <2>2. Losing => ~qemu[at] /\ BackedUp(at)
    BY <1>2 DEF Safeguard, Losing
  <2>3. CASE OpenBackup
    BY <2>3 DEF OpenBackup, Idle, Safeguard, Complete, folder
  <2>4. CASE WriteBackup
    <3>1. /\ disk' = disk /\ qemu' = qemu /\ at' = at /\ pc' = "sure"
          /\ archives' = archives \cup {[copy EXCEPT !.tail = disk[at]]}
      BY <2>4 DEF WriteBackup, Idle, Goto, folder
    <3>2. /\ copy \in Archive /\ copy.head = disk[at] /\ ~qemu[at]
          /\ [copy EXCEPT !.tail = disk[at]] = [guest |-> copy.guest, head |-> copy.head, tail |-> disk[at]]
      BY <2>4, CopyFields DEF WriteBackup, Inv, Copying
    <3>3. BackedUp(at)'
      BY <3>1, <3>2 DEF BackedUp
    <3> QED
      BY <3>1, <3>2, <3>3 DEF Safeguard, Losing
  <2>5. ASSUME Losing, disk'[at] = disk[at], ~qemu'[at], at' = at, Losing' PROVE Safeguard'
    BY <2>2, <2>5, BackupKept DEF Safeguard
  <2>6. CASE Sure
    BY <2>2, <2>5, <2>6 DEF Sure, GiveUp, Idle, Goto, Losing, folder
  <2>7. CASE RollBack
    BY <1>2, <2>2, <2>5, <2>7 DEF RollBack, Goto, Losing, Safeguard
  <2>8. CASE Setup
    BY <1>2, <2>2, <2>5, <2>8 DEF Setup, Idle, Goto, Losing, Safeguard
  <2>9. CASE PrepareDisk
    BY <1>2, <2>9 DEF PrepareDisk, Idle, Goto, Losing, Safeguard
  <2>10. CASE Boot
    BY <1>2, <2>10 DEF Boot, Idle, Goto, Losing, Safeguard
  <2>11. CASE Forget
    BY <2>2, <2>5, <2>11 DEF Forget, Goto, Losing, folder
  <2>12. CASE UNCHANGED proc
    <3>1. CASE Losing
      <4>1. pc # "idle" /\ ~qemu[at]
        BY <2>1, <2>2, <3>1
      <4>2. disk'[at] = disk[at] /\ ~qemu'[at]
        BY <2>12, <4>1, DiskOfTheProcess DEF Inv, PrepareDisk, Retire, Delete, PublishRestore, Boot, proc, Idle, Goto
      <4> QED
        BY <2>5, <2>12, <3>1, <4>2 DEF proc, Losing
    <3>2. CASE pc = "copying"
      <4>1. disk'[at] = disk[at]
        BY <2>12, <3>2, HeldDisk DEF Inv, Copying, proc
      <4> QED
        BY <1>2, <2>12, <3>2, <4>1 DEF Safeguard, Losing, proc
    <3> QED
      BY <1>2, <2>12, <3>1, <3>2 DEF Safeguard, proc
  <2>13. \/ OpenBackup \/ WriteBackup \/ Sure \/ RollBack \/ Setup \/ PrepareDisk \/ Boot \/ Forget
         \/ UNCHANGED proc
    BY <2>1 DEF Next, Start, PlainLaunch, DirLaunch, Maintain, Restore, Begin, CanStart, Process, Head, Recover,
       SetupFails, Ask, Retire, Delete, PublishRestore, Ready, PowerOff, LauncherDies, HelperDeletes,
       GuestWrites, OrphanEnds, Idle, proc, vars
  <2> QED
    BY <2>3, <2>4, <2>6, <2>7, <2>8, <2>9, <2>10, <2>11, <2>12, <2>13
<1> QED
  BY <1>1, <1>2

(* The helper keeps what was backed up for it.                             *)
LEMMA RemovingStep ==
  ASSUME HelperFirst, Inv, Removing, Safeguard, [Next]_vars
  PROVE  Removing'
<1>1. pc' # "idle" => helper' = None
  BY HelperFrame DEF Inv, Removing, Delete, HelperDeletes, Idle
<1>2. ASSUME helper' # None, helper'.asked
      PROVE  ~qemu'[helper'.dir] /\ BackedUp(helper.dir)'
  <2>1. CASE UNCHANGED helper
    <3>1. pc = "idle" /\ helper # None /\ ~HelperDeletes
      BY <1>2, <2>1 DEF Removing, HelperDeletes
    <3>2. disk'[helper.dir] = disk[helper.dir] /\ ~qemu'[helper.dir]
      <4>1. ~qemu[helper.dir]
        BY <1>2, <2>1, <3>1 DEF Removing
      <4>2. ASSUME NEW d \in Dirs, GuestWrites(d) PROVE disk'[helper.dir] = disk[helper.dir] /\ qemu' = qemu
        BY <4>1, <4>2 DEF GuestWrites, Inv, TypeOK
      <4>3. ASSUME NEW d \in Dirs, OrphanEnds(d) PROVE disk' = disk /\ ~qemu'[helper.dir]
        BY <4>1, <4>3 DEF OrphanEnds, Inv, TypeOK, folder
      <4> QED
        BY <3>1, <4>1, <4>2, <4>3, HelperFrame DEF Inv
    <3> QED
      BY <1>2, <2>1, <3>2, BackupKept DEF Removing, BackedUp
  <2>2. CASE Delete
    <3>1. CASE UNCHANGED helper
      BY <2>1, <3>1
    <3>2. CASE helper' = [dir |-> at, asked |-> asked] /\ UNCHANGED folder
      <4>1. ~qemu[at] /\ BackedUp(at) /\ UNCHANGED <<disk, qemu, archives>> /\ helper'.dir = at
        BY <1>2, <2>2, <3>2 DEF Delete, Safeguard, Losing, folder
      <4> QED
        BY <4>1 DEF BackedUp
    <3> QED
      BY <2>2, <3>1, <3>2 DEF Delete
  <2>3. ~HelperDeletes
    BY <1>2 DEF HelperDeletes
  <2> QED
    BY <2>1, <2>2, <2>3, HelperFrame DEF Inv
<1> QED
  BY <1>1, <1>2 DEF Removing

(* Whoever asked for a backup before a reset or a removal has one of the   *)
(* very disk that goes, up to the moment it goes, in the helper's hands    *)
(* too: no failure, no orphaned QEMU and no interleaving of the two        *)
(* processes gets between the copy and the loss.                           *)
THEOREM AskedBackupKept ==
  ASSUME HelperFirst
  PROVE  Spec => []AskedBackupExists
<1>1. Init => Removing /\ Safeguard
  BY DEF Init, Removing, Safeguard
<1>2. Inv /\ Removing /\ Safeguard /\ [Next]_vars => (Removing /\ Safeguard)'
  BY RemovingStep, SafeguardStep
<1>3. Removing /\ Safeguard => AskedBackupExists
  BY DEF Removing, Safeguard, AskedBackupExists, Losing
<1> QED
  BY <1>1, <1>2, <1>3, Safe, PTL DEF Spec
-----------------------------------------------------------------------------
(* Where a launch without -dir works, while besides nobody uses -dir with  *)
(* the default folder when a pointer there leads to another.               *)

(* A process that ends, or one that goes on in its folder, changes nothing *)
(* of what is known about folders unless it writes to them.                *)
LEMMA Elsewhere ==
  ASSUME Folder, HomeIsFound, UNCHANGED <<claimed, payload, pointer, home, helper>>,
         Idle \/ (/\ UNCHANGED <<job, at, plain>>
                  /\ \/ UNCHANGED pc
                     \/ pc # "idle" /\ pc' \notin {"disk", "boot", "running", "forget", "delete"}
                     \/ pc \in {"disk", "boot", "running"} /\ pc' \in {"boot", "running"})
  PROVE  Folder' /\ HomeIsFound'
BY DEF Folder, HomeIsFound, Idle

(* A folder that goes is not the one launches without -dir look for.       *)
LEMMA Leaving ==
  ASSUME TypeOK, Folder, HomeIsFound, NEW d \in Dirs, home # d, d = Default => pointer = None,
         RemoveFolder(d), UNCHANGED home, helper' = None \/ UNCHANGED helper,
         Idle \/ (pc = "idle" /\ UNCHANGED <<pc, job, at, plain>>)
  PROVE  Folder' /\ HomeIsFound'
<1>1. pointer' = pointer
  BY DEF RemoveFolder
<1>2. \A e \in Dirs : e # d => claimed'[e] = claimed[e] /\ payload'[e] = payload[e]
  BY DEF RemoveFolder, TypeOK
<1>3. payload'[d] = FALSE
  BY DEF RemoveFolder, TypeOK
<1>4. HomeIsFound'
  BY <1>1, <1>2, Numbers DEF HomeIsFound
<1>5. Folder'
  BY <1>1, <1>2, <1>3 DEF Folder, Idle
<1> QED
  BY <1>4, <1>5

(* One action at a time.                                                   *)
LEMMA FolderStep ==
  ASSUME HelperFirst, ~BesidePointer, TypeOK, Removing, Folder, HomeIsFound, [Next]_vars
  PROVE  Folder' /\ HomeIsFound'
<1> USE Numbers
<1>1. ASSUME NEW d \in Dirs, NEW j \in {"launch", "fresh"}, PlainLaunch(d, j) PROVE Folder' /\ HomeIsFound'
  BY <1>1 DEF PlainLaunch, CanStart, Begin, folder, Folder, HomeIsFound, TypeOK, Dirs
<1>2. ASSUME NEW d \in Dirs, NEW j \in {"launch", "fresh"}, DirLaunch(d, j) PROVE Folder' /\ HomeIsFound'
  BY <1>2 DEF DirLaunch, CanStart, Explicit, Begin, folder, Folder, HomeIsFound
<1>3. ASSUME NEW d \in Dirs, NEW j \in {"backup", "reset", "uninstall"}, Maintain(d, j)
      PROVE  Folder' /\ HomeIsFound'
  BY <1>3 DEF Maintain, CanStart, Explicit, Begin, folder, Folder, HomeIsFound
<1>4. ASSUME NEW d \in Dirs, NEW a \in archives, Restore(d, a) PROVE Folder' /\ HomeIsFound'
  BY <1>4 DEF Restore, CanStart, folder, Folder, HomeIsFound
<1>5. CASE Head \/ Recover \/ Boot \/ Ask \/ OpenBackup \/ WriteBackup \/ Retire
  BY <1>5, Elsewhere DEF Head, Recover, Boot, Ask, OpenBackup, WriteBackup, Retire, Goto, GiveUp, folder, Fault, Idle
<1>6. CASE RollBack
  BY <1>6 DEF RollBack, Goto, TypeOK, Folder, HomeIsFound
<1>7. CASE Setup
  BY <1>7 DEF Setup, Goto, Idle, TypeOK, Folder, HomeIsFound
<1>8. CASE SetupFails
  BY <1>8 DEF SetupFails, Idle, TypeOK, Folder, HomeIsFound
<1>9. CASE PrepareDisk
  <2>1. /\ pc = "disk" /\ claimed[at] /\ UNCHANGED <<claimed, payload, pointer, helper>> /\ helper = None
        /\ home' = IF plain /\ pc' = "boot" THEN at ELSE home
        /\ Idle \/ (pc' = "boot" /\ UNCHANGED <<job, at, plain>>)
    BY <1>9 DEF PrepareDisk, Goto, Folder, Removing
  <2>2. CASE home' = home
    BY <2>1, <2>2, Elsewhere
  <2>3. CASE plain /\ pc' = "boot"
    BY <2>1, <2>3 DEF Folder, HomeIsFound, Idle
  <2> QED
    BY <2>1, <2>2, <2>3
<1>10. CASE Sure
  BY <1>10 DEF Sure, GiveUp, Goto, Idle, folder, Folder, HomeIsFound
<1>11. CASE Forget
  BY <1>11 DEF Forget, Goto, folder, TypeOK, Folder, HomeIsFound
<1>12. CASE Delete
  <2>1. home # at /\ (at = Default => pointer = None)
    BY <1>12 DEF Delete, Folder
  <2>2. CASE RemoveFolder(at) /\ UNCHANGED helper
    <3>1. at \in Dirs /\ UNCHANGED home /\ Idle
      BY <1>12 DEF Delete, TypeOK
    <3> QED
      BY <2>1, <2>2, <3>1, Leaving
  <2>3. CASE helper' = [dir |-> at, asked |-> asked] /\ UNCHANGED <<folder, pointer, wish>>
    BY <1>12, <2>1, <2>3 DEF Delete, Idle, folder, Folder, HomeIsFound
  <2> QED
    BY <1>12, <2>2, <2>3 DEF Delete
<1>13. CASE HelperDeletes
  <2>1. pc = "idle" /\ helper # None /\ home # helper.dir /\ (helper.dir = Default => pointer = None)
        /\ helper.dir \in Dirs
    BY <1>13 DEF HelperDeletes, Removing, Folder, TypeOK
  <2> QED
    BY <1>13, <2>1, Leaving DEF HelperDeletes, proc
<1>14. CASE PublishRestore
  BY <1>14 DEF PublishRestore, Idle, TypeOK, Folder, HomeIsFound
<1>15. CASE Ready
  BY <1>15 DEF Ready, proc, TypeOK, Folder, HomeIsFound
<1>16. CASE PowerOff \/ LauncherDies \/ UNCHANGED vars
  BY <1>16, Elsewhere DEF PowerOff, LauncherDies, Fault, folder, vars, proc
<1>17. ASSUME NEW d \in Dirs, GuestWrites(d) \/ OrphanEnds(d) PROVE Folder' /\ HomeIsFound'
  BY <1>17, Elsewhere DEF GuestWrites, OrphanEnds, folder, proc
<1> QED
  BY <1>1, <1>2, <1>3, <1>4, <1>5, <1>6, <1>7, <1>8, <1>9, <1>10, <1>11, <1>12, <1>13, <1>14, <1>15, <1>16, <1>17
  DEF Next, Start, Process

(* The installation launches without -dir have used is the one the next    *)
(* such launch finds, until its user removes it, across restored copies,   *)
(* removals of other folders, failed setups and deaths.                    *)
THEOREM HomeFound ==
  ASSUME HelperFirst, ~BesidePointer
  PROVE  Spec => []HomeIsFound
<1>1. Init => Removing /\ Safeguard /\ Folder /\ HomeIsFound
  BY DEF Init, Removing, Safeguard, Folder, HomeIsFound
<1>2. Inv /\ Removing /\ Safeguard /\ Folder /\ HomeIsFound /\ [Next]_vars
      => (Removing /\ Safeguard /\ Folder /\ HomeIsFound)'
  BY RemovingStep, SafeguardStep, FolderStep DEF Inv
<1> QED
  BY <1>1, <1>2, Safe, PTL DEF Spec
=============================================================================
