------------------------- MODULE StandardDiskProofs -------------------------
(***************************************************************************)
(* StandardDisk implements GuestDisk, for every set of sizes, every number *)
(* of disks and every number of failures, interruptions and cancellations. *)
(***************************************************************************)
EXTENDS StandardDisk, TLAPS

Resetting == {"copyStaged", "retire", "swap", "restore"}
Between   == {"swap", "restore"}

IsWhole(file) == file # None /\ ~file.torn

(* Where the launch is says which of the files exist, and which are whole. *)
Places ==
  /\ staged # None => pc \in {"retire", "swap", "restore"}
  /\ pc \in {"retire", "swap", "restore"} =>
       created \in Ids /\ staged = [id |-> created, size |-> want, torn |-> FALSE]
  /\ retained # None => pc \in Between
  /\ pc \in Between => disk = None /\ retained # None
  /\ pc \in Resetting => fresh /\ ~removeAll
  /\ pc \in {"copyStaged", "retire"} => disk # None
  /\ pc \in {"copy", "publish"} => disk = None
  /\ pc = "publish" => created \in Ids
  /\ pc \in {"done", "boot"} => disk # None /\ ~disk.torn /\ disk.size >= want

(* The right to remove the folder ends before there is a disk to lose.     *)
Removable ==
  removeAll /\ pc # "off" =>
    /\ kept = {} /\ retained = None
    /\ pc # "boot"
    /\ disk # None => pc = "done"

(* The disk being made has a number no other disk has had.                 *)
Old(id) == IF pc \in {"publish", "retire", "swap", "restore"} THEN id < created
                                                              ELSE id <= created
Numbers ==
  /\ \A id \in booted : Old(id)
  /\ \A file \in kept \cup {disk, retained} : IsWhole(file) => Old(file.id)

Inv == TypeOK /\ Places /\ Removable /\ Numbers

-----------------------------------------------------------------------------
(* What a file of the type is, told apart by whether its copy was          *)
(* finished.                                                               *)
LEMMA Files ==
  ASSUME NEW file \in Disk
  PROVE  /\ file # None
         /\ file.torn \in BOOLEAN /\ file.size \in Nat
         /\ file.torn => file.size < FactorySize
         /\ ~file.torn => file.id \in Ids /\ file.size \in Sizes /\ file.size >= FactorySize
<1>1. CASE file \in [id: {0}, size: 0 .. FactorySize - 1, torn: {TRUE}]
  <2>1. file.torn = TRUE /\ file.size \in 0 .. FactorySize - 1
    BY <1>1
  <2>2. file = [id |-> 0, size |-> file.size, torn |-> TRUE]
    BY <1>1
  <2>3. file.size \in Nat /\ 0 \in 0 .. MaxDisks
    BY <2>1, StandardAssumption
  <2>4. [id |-> 0, size |-> file.size, torn |-> TRUE] \in [id: 0 .. MaxDisks, size: Nat, torn: BOOLEAN]
    BY <2>3
  <2>5. file # None
    BY <2>2, <2>4, StandardAssumption
  <2>6. file.size < FactorySize
    BY <2>1, StandardAssumption
  <2> QED
    BY <2>1, <2>3, <2>5, <2>6
<1>2. CASE file \in [id: Ids, size: Sizes, torn: {FALSE}]
  <2>1. file.torn = FALSE /\ file.size \in Sizes /\ file.id \in Ids
    BY <1>2
  <2>2. file = [id |-> file.id, size |-> file.size, torn |-> FALSE]
    BY <1>2
  <2>3. file.size \in Nat /\ file.id \in 0 .. MaxDisks
    BY <2>1, StandardAssumption DEF Ids
  <2>4. [id |-> file.id, size |-> file.size, torn |-> FALSE] \in [id: 0 .. MaxDisks, size: Nat, torn: BOOLEAN]
    BY <2>3
  <2> QED
    BY <2>1, <2>2, <2>3, <2>4, StandardAssumption
<1> QED
  BY <1>1, <1>2 DEF Disk

(* A finished copy of any size is a whole disk. *)
LEMMA NewFile ==
  ASSUME NEW n \in Ids, NEW s \in Sizes
  PROVE  /\ [id |-> n, size |-> s, torn |-> FALSE] \in Disk
         /\ IsWhole([id |-> n, size |-> s, torn |-> FALSE])
<1>1. [id |-> n, size |-> s, torn |-> FALSE] \in Disk
  BY DEF Disk
<1> QED
  BY <1>1, Files DEF IsWhole

(* So is a whole disk that has grown, and it keeps its number. *)
LEMMA Grown ==
  ASSUME NEW file \in Disk, IsWhole(file), NEW s \in Sizes
  PROVE  [file EXCEPT !.size = s] = [id |-> file.id, size |-> s, torn |-> FALSE]
<1>1. file \in [id: Ids, size: Sizes, torn: {FALSE}]
  BY DEF Disk, IsWhole
<1>2. [file EXCEPT !.size = s] = [id |-> file.id, size |-> s, torn |-> file.torn]
  BY ONLY <1>1, s \in Sizes
<1>3. file.torn = FALSE
  BY <1>1
<1> QED
  BY <1>2, <1>3, Zenon

(* The whole disks among some files, by number. *)
LEMMA InWhole ==
  ASSUME NEW S, NEW x
  PROVE  x \in Whole(S) <=> \E file \in S : IsWhole(file) /\ x = file.id
BY DEF Whole, IsWhole

-----------------------------------------------------------------------------
(* Every action keeps the invariant; one step per action, one leaf per     *)
(* part of it.                                                             *)
THEOREM Safe == Spec => []Inv
<1>1. Init => Inv
  <2> SUFFICES ASSUME Init PROVE Inv
    OBVIOUS
  <2> USE StandardAssumption DEF Init
  <2>1. disk \in Disk \cup {None} /\ ~IsWhole(disk)
    <3>1. CASE disk = None
      BY <3>1 DEF IsWhole
    <3>2. ASSUME NEW n \in 0 .. FactorySize - 1, disk = [id |-> 0, size |-> n, torn |-> TRUE]
          PROVE  disk \in Disk /\ ~IsWhole(disk)
      BY <3>2 DEF Disk, IsWhole
    <3> QED
      BY <3>1, <3>2
  <2>2. TypeOK
    <3>1. created \in 0 .. MaxDisks /\ faults \in 0 .. MaxFaults
      OBVIOUS
    <3>2. guest \in BOOLEAN /\ removeAll \in BOOLEAN /\ cancel \in BOOLEAN
      OBVIOUS
    <3> QED
      BY <2>1, <3>1, <3>2 DEF TypeOK
  <2>3. Places /\ Removable
    BY DEF Places, Removable, Resetting, Between
  <2>4. Numbers
    BY <2>1 DEF Numbers, Old, IsWhole
  <2> QED
    BY <2>2, <2>3, <2>4 DEF Inv
<1>2. Inv /\ [Next]_vars => Inv'
  <2> SUFFICES ASSUME Inv, [Next]_vars PROVE Inv'
    OBVIOUS
  <2> USE StandardAssumption DEF Inv, files
  <2>1. ASSUME NEW f \in BOOLEAN, Launch(f) PROVE Inv'
    <3>1. TypeOK'
      BY <2>1 DEF TypeOK, Launch
    <3>2. Places'
      BY <2>1 DEF Places, Resetting, Between, Launch
    <3>3. Removable'
      BY <2>1 DEF Removable, Places, Between, Launch
    <3>4. Numbers'
      BY <2>1 DEF Numbers, Old, Launch
    <3> QED
      BY <3>1, <3>2, <3>3, <3>4
  <2>2. CASE Cancel
    <3>1. TypeOK'
      BY <2>2 DEF TypeOK, Cancel, Fault
    <3>2. Places'
      BY <2>2 DEF Places, Cancel
    <3>3. Removable'
      BY <2>2 DEF Removable, Cancel
    <3>4. Numbers'
      BY <2>2 DEF Numbers, Old, Cancel
    <3> QED
      BY <3>1, <3>2, <3>3, <3>4
  <2>3. CASE Crash
    <3>1. TypeOK'
      BY <2>3 DEF TypeOK, Crash, Fault, Leave, EndReset
    <3>2. Places'
      BY <2>3 DEF Places, Resetting, Between, Crash, Leave, EndReset
    <3>3. Removable'
      BY <2>3 DEF Removable, Crash, Leave
    <3>4. Numbers'
      BY <2>3, Files DEF TypeOK, Numbers, Old, IsWhole, Ids, Crash, Leave, EndReset
    <3> QED
      BY <3>1, <3>2, <3>3, <3>4
  <2>4. CASE Stop
    <3>1. TypeOK'
      BY <2>4 DEF TypeOK, Stop, Fault, Fails, EndReset
    <3>2. Places'
      BY <2>4 DEF Places, Resetting, Between, Stop, Fails, EndReset
    <3>3. Removable'
      BY <2>4 DEF Removable, Stop, Fails, EndReset
    <3>4. Numbers'
      BY <2>4, Files DEF TypeOK, Numbers, Old, IsWhole, Ids, Stop, Fails, EndReset
    <3> QED
      BY <3>1, <3>2, <3>3, <3>4
  <2>5. CASE Shutdown
    <3>1. TypeOK'
      BY <2>5 DEF TypeOK, Shutdown, Leave, EndReset
    <3>2. Places'
      BY <2>5 DEF Places, Resetting, Between, Shutdown, Leave, EndReset
    <3>3. Removable'
      BY <2>5 DEF Removable, Shutdown
    <3>4. Numbers'
      BY <2>5 DEF Numbers, Old, IsWhole, Shutdown, Leave, EndReset
    <3> QED
      BY <3>1, <3>2, <3>3, <3>4
  <2>6. CASE Setup
    <3>1. TypeOK'
      BY <2>6 DEF TypeOK, Setup
    <3>2. Places'
      BY <2>6 DEF Places, Resetting, Between, Setup
    <3>3. Removable'
      BY <2>6 DEF Removable, Setup
    <3>4. Numbers'
      BY <2>6 DEF Numbers, Old, Setup
    <3> QED
      BY <3>1, <3>2, <3>3, <3>4
  <2>7. CASE Prepare
    <3>1. TypeOK'
      BY <2>7 DEF TypeOK, Prepare, Goto
    <3>2. Places'
      BY <2>7 DEF Places, Removable, Resetting, Between, Prepare, Goto
    <3>3. Removable'
      BY <2>7 DEF Removable, Prepare, Goto
    <3>4. Numbers'
      BY <2>7 DEF Numbers, Old, Prepare, Goto
    <3> QED
      BY <3>1, <3>2, <3>3, <3>4
  <2>8. CASE Cancelled
    <3>1. TypeOK'
      BY <2>8 DEF TypeOK, Cancelled, EndReset
    <3>2. Places'
      BY <2>8 DEF Places, Resetting, Between, Cancelled, EndReset
    <3>3. Removable'
      BY <2>8 DEF Removable, Cancelled, EndReset
    <3>4. Numbers'
      BY <2>8, Files DEF TypeOK, Numbers, Old, IsWhole, Ids, Cancelled, EndReset
    <3> QED
      BY <3>1, <3>2, <3>3, <3>4
  <2>9. CASE UseDisk
    <3>1. TypeOK'
      BY <2>9 DEF TypeOK, UseDisk, Goto
    <3>2. Places'
      BY <2>9, Files DEF TypeOK, Places, Resetting, Between, UseDisk, Goto
    <3>3. Removable'
      BY <2>9 DEF Removable, UseDisk, Goto
    <3>4. Numbers'
      BY <2>9 DEF Numbers, Old, UseDisk, Goto
    <3> QED
      BY <3>1, <3>2, <3>3, <3>4
  <2>10. CASE GrowDisk
    <3>0. IsWhole(disk) /\ disk \in Disk /\ want \in Sizes
      BY <2>10, Files DEF GrowDisk, TypeOK, IsWhole
    <3>5. disk' = [id |-> disk.id, size |-> want, torn |-> FALSE]
      BY <2>10, <3>0, Grown DEF GrowDisk
    <3>6. disk' \in Disk /\ IsWhole(disk') /\ disk'.id = disk.id /\ disk'.size = want
      BY <3>0, <3>5, Files, NewFile DEF IsWhole
    <3>1. TypeOK'
      BY <2>10, <3>6 DEF TypeOK, GrowDisk
    <3>2. Places'
      BY <2>10, <3>0, <3>6, Files DEF Places, Resetting, Between, GrowDisk
    <3>3. Removable'
      BY <2>10 DEF Removable, GrowDisk
    <3>4. Numbers'
      BY <2>10, <3>0, <3>6 DEF Numbers, Old, GrowDisk
    <3> QED
      BY <3>1, <3>2, <3>3, <3>4
  <2>11. CASE QuarantineDisk
    <3>1. TypeOK'
      BY <2>11 DEF TypeOK, QuarantineDisk
    <3>2. Places'
      BY <2>11 DEF Places, Resetting, Between, QuarantineDisk
    <3>3. Removable'
      BY <2>11 DEF Removable, QuarantineDisk
    <3>4. Numbers'
      BY <2>11 DEF Numbers, Old, IsWhole, QuarantineDisk
    <3> QED
      BY <3>1, <3>2, <3>3, <3>4
  <2>12. CASE NoDisk
    <3>1. TypeOK'
      BY <2>12 DEF TypeOK, NoDisk, Goto
    <3>2. Places'
      BY <2>12 DEF Places, Resetting, Between, NoDisk, Goto
    <3>3. Removable'
      BY <2>12 DEF Removable, NoDisk, Goto
    <3>4. Numbers'
      BY <2>12 DEF Numbers, Old, NoDisk, Goto
    <3> QED
      BY <3>1, <3>2, <3>3, <3>4
  <2>13. CASE CopyDisk
    <3>1. TypeOK'
      BY <2>13 DEF TypeOK, CopyDisk
    <3>2. Places'
      BY <2>13 DEF TypeOK, Places, Resetting, Between, Ids, CopyDisk
    <3>3. Removable'
      BY <2>13 DEF Removable, CopyDisk
    <3>4. Numbers'
      BY <2>13, Files DEF TypeOK, Numbers, Old, IsWhole, Ids, CopyDisk
    <3> QED
      BY <3>1, <3>2, <3>3, <3>4
  <2>14. CASE PublishDisk
    <3>1. TypeOK'
      BY <2>14, NewFile DEF TypeOK, Places, PublishDisk
    <3>2. Places'
      BY <2>14, Files, NewFile DEF TypeOK, Places, Resetting, Between, PublishDisk
    <3>3. Removable'
      BY <2>14 DEF Removable, PublishDisk
    <3>4. Numbers'
      BY <2>14, Files DEF TypeOK, Numbers, Old, IsWhole, Ids, PublishDisk
    <3> QED
      BY <3>1, <3>2, <3>3, <3>4
  <2>15. CASE CopyStaged
    <3>1. TypeOK'
      BY <2>15, NewFile DEF TypeOK, Ids, CopyStaged
    <3>2. Places'
      BY <2>15 DEF TypeOK, Places, Resetting, Between, Ids, CopyStaged
    <3>3. Removable'
      BY <2>15 DEF Removable, CopyStaged
    <3>4. Numbers'
      BY <2>15, Files DEF TypeOK, Numbers, Old, IsWhole, Ids, CopyStaged
    <3> QED
      BY <3>1, <3>2, <3>3, <3>4
  <2>16. CASE RetireDisk
    <3>1. TypeOK'
      BY <2>16 DEF TypeOK, RetireDisk
    <3>2. Places'
      BY <2>16 DEF Places, Resetting, Between, RetireDisk
    <3>3. Removable'
      BY <2>16 DEF Removable, RetireDisk
    <3>4. Numbers'
      BY <2>16 DEF Numbers, Old, IsWhole, RetireDisk
    <3> QED
      BY <3>1, <3>2, <3>3, <3>4
  <2>17. CASE SwapDisk
    <3>1. TypeOK'
      BY <2>17 DEF TypeOK, SwapDisk, Fault, Smooth, EndReset
    <3>2. Places'
      BY <2>17, Files, NewFile DEF TypeOK, Places, Resetting, Between, SwapDisk, EndReset
    <3>3. Removable'
      BY <2>17 DEF Removable, SwapDisk, EndReset
    <3>4. Numbers'
      BY <2>17, Files DEF TypeOK, Places, Numbers, Old, IsWhole, Ids, SwapDisk, EndReset
    <3> QED
      BY <3>1, <3>2, <3>3, <3>4
  <2>18. CASE RestoreDisk
    <3>1. TypeOK'
      BY <2>18 DEF TypeOK, Places, Between, RestoreDisk, Fault, Smooth, Fails
    <3>2. Places'
      BY <2>18 DEF Places, Resetting, Between, RestoreDisk, Fails
    <3>3. Removable'
      BY <2>18 DEF Removable, Places, Between, RestoreDisk
    <3>4. Numbers'
      BY <2>18, Files DEF TypeOK, Numbers, Old, IsWhole, Ids, RestoreDisk
    <3> QED
      BY <3>1, <3>2, <3>3, <3>4
  <2>19. CASE Finish
    <3>1. TypeOK'
      BY <2>19, Files DEF TypeOK, Places, Finish
    <3>2. Places'
      BY <2>19 DEF Places, Resetting, Between, Finish
    <3>3. Removable'
      BY <2>19 DEF Removable, Finish
    <3>4. Numbers'
      BY <2>19 DEF Places, Numbers, Old, IsWhole, Finish
    <3> QED
      BY <3>1, <3>2, <3>3, <3>4
  <2>20. CASE Cleanup
    <3>1. TypeOK'
      BY <2>20 DEF TypeOK, Cleanup
    <3>2. Places'
      BY <2>20 DEF Places, Resetting, Between, Cleanup
    <3>3. Removable'
      BY <2>20 DEF Removable, Cleanup
    <3>4. Numbers'
      BY <2>20 DEF Numbers, Old, IsWhole, Cleanup
    <3> QED
      BY <3>1, <3>2, <3>3, <3>4
  <2>21. CASE UNCHANGED vars
    <3>1. TypeOK'
      BY <2>21 DEF TypeOK, vars
    <3>2. Places'
      BY <2>21 DEF Places, vars
    <3>3. Removable'
      BY <2>21 DEF Removable, vars
    <3>4. Numbers'
      BY <2>21 DEF Numbers, Old, vars
    <3> QED
      BY <3>1, <3>2, <3>3, <3>4
  <2> QED
    BY <2>1, <2>2, <2>3, <2>4, <2>5, <2>6, <2>7, <2>8, <2>9, <2>10, <2>11, <2>12, <2>13, <2>14, <2>15, <2>16, <2>17, <2>18, <2>19, <2>20, <2>21 DEF Next, Launcher
<1> QED
  BY <1>1, <1>2, PTL DEF Spec

-----------------------------------------------------------------------------
(* The current disk, and the disks put aside, as GuestDisk sees them.      *)
PutAside == Whole(kept \cup {retained}) \ {CurrentDisk}

(* The abstract current disk: a whole file under one of its names.         *)
LEMMA Current ==
  CurrentDisk = IF IsWhole(CurrentFile) THEN CurrentFile.id ELSE None
BY DEF CurrentDisk, IsWhole

(* Putting a file aside adds its number if it is whole, and moving it from *)
(* the reset's own folder to the others adds nothing.                      *)
LEMMA Aside ==
  ASSUME NEW files_, NEW file
  PROVE  /\ IsWhole(file) => Whole(files_ \cup {file}) = Whole(files_) \cup {file.id}
         /\ ~IsWhole(file) => Whole(files_ \cup {file}) = Whole(files_)
         /\ Whole((files_ \cup ({file} \ {None})) \cup {None}) = Whole(files_ \cup {file})
<1>1. \A x : x \in Whole(files_ \cup {file}) <=> x \in Whole(files_) \/ (IsWhole(file) /\ x = file.id)
  BY InWhole
<1>2. \A x : x \in Whole((files_ \cup ({file} \ {None})) \cup {None})
                <=> x \in Whole(files_) \/ (IsWhole(file) /\ x = file.id)
  BY InWhole DEF IsWhole
<1> QED
  BY <1>1, <1>2, Zenon

(* Apart from the disk that is current, it does not matter where it is.    *)
LEMMA Moved ==
  ASSUME NEW files_, NEW file, NEW current, IsWhole(file) => current = file.id
  PROVE  Whole(files_ \cup {file}) \ {current} = Whole(files_ \cup {None}) \ {current}
<1>1. Whole(files_ \cup {None}) = Whole(files_)
  BY Aside DEF IsWhole
<1>2. CASE IsWhole(file)
  <2>1. Whole(files_ \cup {file}) = Whole(files_) \cup {current}
    <3>1. current = file.id
      BY <1>2
    <3> QED
      BY <1>2, <3>1, Aside
  <2> QED
    BY <1>1, <2>1
<1>3. CASE ~IsWhole(file)
  BY <1>1, <1>3, Aside
<1> QED
  BY <1>2, <1>3

(* The number of a disk being made is one GuestDisk has not seen.          *)
LEMMA Fresh ==
  ASSUME Inv, pc \in {"publish", "swap"}
  PROVE  /\ created \in Ids
         /\ created \in Ids \ (PutAside \cup booted \cup {CurrentDisk})
         /\ created \notin Whole(kept \cup {retained})
         /\ created # None
<1>1. created \in Ids /\ created # None
  BY StandardAssumption DEF Inv, Places, Ids
<1>2. created \notin booted
  BY <1>1 DEF Inv, Numbers, Old, Ids
<1>3. \A file \in kept \cup {disk, retained} : IsWhole(file) => file.id < created
  BY DEF Inv, Numbers, Old
<1>4. created \notin Whole(kept \cup {retained})
  BY <1>1, <1>3, InWhole DEF Ids
<1>5. created # CurrentDisk
  BY <1>1, <1>3, Current DEF CurrentFile, Ids
<1> QED
  BY <1>1, <1>2, <1>4, <1>5 DEF PutAside

(* Steps GuestDisk does not see.                                           *)
LEMMA Unseen ==
  ASSUME CurrentDisk' = CurrentDisk, PutAside' = PutAside, booted' = booted, fresh' \in BOOLEAN
  PROVE  GuestDisk!Next
BY DEF GuestDisk!Next, GuestDisk!disks, PutAside

(* Among them every step that leaves the disks where they are.             *)
LEMMA SameFiles ==
  ASSUME CurrentFile' = CurrentFile, Whole(kept \cup {retained})' = Whole(kept \cup {retained}),
         booted' = booted, fresh' \in BOOLEAN
  PROVE  GuestDisk!Next
<1>1. CurrentDisk' = CurrentDisk
  BY DEF CurrentDisk
<1> QED
  BY <1>1, Unseen DEF PutAside

(* The numbers of whole files are numbers of disks.                        *)
LEMMA Apart ==
  ASSUME TypeOK
  PROVE  None \notin Whole(kept \cup {retained})
<1>1. ASSUME NEW file \in kept \cup {retained}, IsWhole(file)
      PROVE  file.id # None
  <2>1. file \in Disk
    BY <1>1 DEF TypeOK, IsWhole
  <2> QED
    BY <1>1, <2>1, Files, StandardAssumption DEF IsWhole, Ids
<1> QED
  BY <1>1, InWhole

(* A reset that ends between its renames leaves the old disk put aside.    *)
LEMMA Interrupted ==
  ASSUME Inv, pc \in Between, CurrentDisk' = None,
         Whole(kept \cup {retained})' = Whole(kept \cup {retained}),
         booted' = booted, fresh' \in BOOLEAN
  PROVE  GuestDisk!Next
<1>1. PutAside' = Whole(kept \cup {retained})
  BY Apart DEF PutAside, Inv
<1>2. CurrentFile = retained /\ fresh
  BY DEF CurrentFile, Between, Inv, Places, Resetting
<1>3. CASE IsWhole(retained)
  <2>1. CurrentDisk = retained.id /\ CurrentDisk \in Whole(kept \cup {retained})
    BY <1>2, <1>3, Current, InWhole
  <2>2. CurrentDisk # None
    BY <2>1, Apart DEF Inv
  <2>3. PutAside' = PutAside \cup {CurrentDisk}
    BY <1>1, <2>1 DEF PutAside
  <2> QED
    BY <1>2, <2>2, <2>3 DEF GuestDisk!Next, GuestDisk!Replace, PutAside
<1>4. CASE ~IsWhole(retained)
  <2>1. CurrentDisk = None
    BY <1>2, <1>4, Current
  <2>2. PutAside' = PutAside
    BY <1>1, <2>1, Apart DEF PutAside, Inv
  <2> QED
    BY <2>1, <2>2, Unseen
<1> QED
  BY <1>3, <1>4

(* A reset that gets as far as its second rename replaces the disk, or     *)
(* makes the first whole one.                                              *)
LEMMA Swapped ==
  ASSUME Inv, pc = "swap", disk' = staged, EndReset, pc' = "done",
         booted' = booted, fresh' \in BOOLEAN
  PROVE  GuestDisk!Next
<1>1. staged = [id |-> created, size |-> want, torn |-> FALSE] /\ want \in Sizes /\ fresh
  BY DEF Inv, Places, TypeOK, Resetting
<1>2. created \in Ids \ (PutAside \cup booted \cup {CurrentDisk}) /\ created # None
      /\ created \notin Whole(kept \cup {retained})
  BY Fresh DEF Inv
<1>3. CurrentDisk' = created
  <2>1. CurrentDisk' = IF IsWhole(CurrentFile') THEN CurrentFile'.id ELSE None
    BY DEF CurrentDisk, IsWhole
  <2>2. CurrentFile' = staged
    BY DEF CurrentFile
  <2>3. IsWhole(staged) /\ staged.id = created
    BY <1>1, <1>2, NewFile
  <2> QED
    BY <2>1, <2>2, <2>3
<1>4. Whole(kept \cup {retained})' = Whole(kept \cup {retained})
  BY Aside DEF EndReset
<1>5. PutAside' = Whole(kept \cup {retained})
  BY <1>2, <1>3, <1>4 DEF PutAside
<1>6. CurrentFile = retained
  BY DEF CurrentFile
<1>7. CASE IsWhole(retained)
  <2>1. CurrentDisk = retained.id /\ CurrentDisk \in Whole(kept \cup {retained})
    BY <1>6, <1>7, Current, InWhole
  <2>2. CurrentDisk # None
    BY <2>1, Apart DEF Inv
  <2>3. PutAside' = PutAside \cup {CurrentDisk}
    BY <1>5, <2>1 DEF PutAside
  <2> QED
    BY <1>1, <1>2, <1>3, <2>2, <2>3
    DEF GuestDisk!Next, GuestDisk!Replace, GuestDisk!Unused, GuestDisk!RunsOn, PutAside
<1>8. CASE ~IsWhole(retained)
  <2>1. CurrentDisk = None
    BY <1>6, <1>8, Current
  <2>2. PutAside' = PutAside
    BY <1>5, <2>1, Apart DEF PutAside, Inv
  <2> QED
    BY <1>2, <1>3, <2>1, <2>2
    DEF GuestDisk!Next, GuestDisk!Make, GuestDisk!Unused, GuestDisk!RunsOn, PutAside
<1> QED
  BY <1>7, <1>8

(* The step simulation: a launcher's step is a step of GuestDisk, or one   *)
(* it does not see.                                                        *)
LEMMA Simulates ==
  ASSUME Inv, Inv', Next
  PROVE  GuestDisk!Next
<1>0. fresh \in BOOLEAN /\ fresh' \in BOOLEAN
  BY DEF Inv, TypeOK
<1> DEFINE Calm == /\ kept' = kept /\ retained' = retained /\ disk' = disk /\ booted' = booted
                   /\ pc \notin Between /\ pc' \notin Between
<1>1. ASSUME Calm PROVE GuestDisk!Next
  BY <1>0, <1>1, SameFiles DEF CurrentFile, Between
<1>2. ASSUME NEW f \in BOOLEAN, Launch(f) PROVE GuestDisk!Next
  BY <1>1, <1>2 DEF Launch, files, Between
<1>3. CASE Cancel
  BY <1>0, <1>3, SameFiles DEF CurrentFile, Cancel, files
<1>4. CASE Setup
  BY <1>1, <1>4 DEF Setup, files, Between
<1>5. CASE Prepare
  BY <1>1, <1>5 DEF Prepare, Goto, files, Between
<1>6. CASE UseDisk
  BY <1>1, <1>6 DEF UseDisk, Goto, files, Between
<1>7. CASE NoDisk
  BY <1>1, <1>7 DEF NoDisk, Goto, files, Between
<1>8. CASE CopyDisk
  BY <1>1, <1>8 DEF CopyDisk, files, Between
<1>9. CASE CopyStaged
  BY <1>1, <1>9 DEF CopyStaged, files, Between
<1>10. CASE Shutdown \/ Stop \/ Cancelled
  <2>1. retained = None /\ pc \notin Between /\ pc' \notin Between
    BY <1>10 DEF Inv, Places, Between, Shutdown, Stop, Cancelled, Leave, Fails
  <2>2. kept' = kept \/ kept' = kept \cup ({retained} \ {None})
    BY <1>10 DEF Shutdown, Stop, Cancelled, Leave, EndReset
  <2>3. Calm
    BY <1>10, <2>1, <2>2 DEF Shutdown, Stop, Cancelled, Leave, EndReset
  <2> QED
    BY <1>1, <2>3
<1>11. CASE Crash
  <2>1. CASE pc \in Between
    <3>1. CurrentDisk' = None
      BY <1>11, <2>1 DEF Crash, Leave, CurrentDisk, CurrentFile, Inv, Places
    <3>2. Whole(kept \cup {retained})' = Whole(kept \cup {retained})
      BY <1>11, Aside DEF Crash, Leave, EndReset
    <3> QED
      BY <1>0, <1>11, <2>1, <3>1, <3>2, Interrupted DEF Crash
  <2>2. CASE pc \notin Between
    <3>1. retained = None
      BY <2>2 DEF Inv, Places
    <3> QED
      BY <1>1, <1>11, <2>2, <3>1 DEF Crash, Leave, EndReset, Between
  <2> QED
    BY <2>1, <2>2
<1>12. CASE GrowDisk
  <2>1. IsWhole(disk) /\ disk \in Disk /\ want \in Sizes
    BY <1>12, Files, StandardAssumption DEF GrowDisk, Inv, TypeOK, IsWhole
  <2>2. disk' = [id |-> disk.id, size |-> want, torn |-> FALSE]
    BY <1>12, <2>1, Grown DEF GrowDisk
  <2>3. IsWhole(disk') /\ disk'.id = disk.id
    BY <2>1, <2>2, Files, NewFile DEF IsWhole
  <2>4. CurrentDisk' = CurrentDisk
    BY <1>12, <2>1, <2>3 DEF GrowDisk, CurrentDisk, CurrentFile, IsWhole
  <2> QED
    BY <1>0, <1>12, <2>4, Unseen DEF PutAside, GrowDisk
<1>13. CASE QuarantineDisk
  <2>1. ~IsWhole(disk) /\ retained = None
    BY <1>13, Files, StandardAssumption DEF QuarantineDisk, Inv, TypeOK, Places, Between, IsWhole
  <2>2. CurrentDisk = None /\ CurrentDisk' = None
    BY <1>13, <2>1 DEF QuarantineDisk, CurrentDisk, CurrentFile, IsWhole
  <2>3. Whole(kept \cup {retained})' = Whole((kept \cup {disk}) \cup {None})
    BY <1>13, <2>1 DEF QuarantineDisk
  <2>4. Whole((kept \cup {disk}) \cup {None}) = Whole(kept \cup {None})
    BY <2>1, Aside DEF IsWhole
  <2> QED
    BY <1>0, <1>13, <2>1, <2>2, <2>3, <2>4, Unseen DEF PutAside, QuarantineDisk
<1>14. CASE PublishDisk
  <2>1. CurrentDisk = None
    BY <1>14 DEF PublishDisk, Inv, Places, CurrentDisk, CurrentFile
  <2>2. created \in Ids \ (PutAside \cup booted \cup {CurrentDisk}) /\ created # None
        /\ created \notin Whole(kept \cup {retained})
    BY <1>14, Fresh DEF PublishDisk
  <2>3. CurrentDisk' = created
    BY <1>14, <2>2, NewFile DEF PublishDisk, CurrentDisk, CurrentFile, IsWhole, Inv, TypeOK
  <2>4. PutAside' = PutAside
    BY <1>14, <2>1, <2>2, <2>3, Apart DEF PutAside, PublishDisk, Inv
  <2> QED
    BY <1>0, <1>14, <2>1, <2>2, <2>3, <2>4
    DEF PublishDisk, GuestDisk!Next, GuestDisk!Make, GuestDisk!Unused, GuestDisk!RunsOn, PutAside
<1>15. CASE RetireDisk
  <2>1. CurrentFile = disk /\ CurrentFile' = disk /\ retained = None /\ retained' = disk
    BY <1>15 DEF RetireDisk, CurrentFile, Inv, Places, Between
  <2>2. CurrentDisk' = CurrentDisk
    BY <2>1 DEF CurrentDisk
  <2>3. PutAside' = PutAside
    <3>1. Whole(kept \cup {disk}) \ {CurrentDisk} = Whole(kept \cup {None}) \ {CurrentDisk}
      BY <2>1, Current, Moved
    <3> QED
      BY <1>15, <2>1, <2>2, <3>1 DEF PutAside, RetireDisk
  <2> QED
    BY <1>0, <1>15, <2>2, <2>3, Unseen DEF RetireDisk
<1>16. CASE SwapDisk
  <2>1. CASE disk' = staged /\ EndReset /\ pc' = "done"
    BY <1>0, <1>16, <2>1, Swapped DEF SwapDisk
  <2>2. CASE pc' = "restore" /\ UNCHANGED <<disk, staged, retained, kept>>
    BY <1>0, <1>16, <2>2, SameFiles DEF SwapDisk, CurrentFile
  <2> QED
    BY <1>16, <2>1, <2>2 DEF SwapDisk
<1>17. CASE RestoreDisk
  <2>1. pc' \notin Between /\ CurrentFile = retained
    BY <1>17 DEF RestoreDisk, Fails, Between, CurrentFile
  <2>2. CASE disk' = retained /\ retained' = None /\ UNCHANGED kept
    <3>1. CurrentFile' = retained
      BY <2>1, <2>2 DEF CurrentFile, Between
    <3>2. CurrentDisk' = CurrentDisk
      BY <2>1, <3>1 DEF CurrentDisk
    <3>3. PutAside' = PutAside
      <4>1. Whole(kept \cup {retained}) \ {CurrentDisk} = Whole(kept \cup {None}) \ {CurrentDisk}
        BY <2>1, Current, Moved
      <4> QED
        BY <2>2, <3>2, <4>1 DEF PutAside
    <3> QED
      BY <1>0, <1>17, <3>2, <3>3, Unseen DEF RestoreDisk
  <2>3. CASE UNCHANGED disk /\ retained' = None /\ kept' = kept \cup {retained}
    <3>1. CurrentDisk' = None
      BY <1>17, <2>1, <2>3 DEF RestoreDisk, Between, CurrentDisk, CurrentFile, Inv, Places
    <3>2. Whole(kept \cup {retained})' = Whole(kept \cup {retained})
      BY <2>3, Aside DEF IsWhole
    <3> QED
      BY <1>0, <1>17, <3>1, <3>2, Interrupted DEF RestoreDisk, Between
  <2> QED
    BY <1>17, <2>2, <2>3 DEF RestoreDisk
<1>18. CASE Finish
  <2>1. CASE cancel
    BY <1>1, <1>18, <2>1 DEF Finish, files, Between
  <2>2. CASE ~cancel
    <3>1. CurrentFile = disk /\ CurrentFile' = disk /\ IsWhole(disk)
      BY <1>18, <2>2 DEF Finish, files, CurrentFile, Inv, Places, IsWhole
    <3>2. CurrentDisk = disk.id /\ CurrentDisk' = disk.id
      BY <3>1, Current DEF CurrentDisk, IsWhole
    <3>3. disk.id # None
      BY <3>1, Files, StandardAssumption DEF Inv, TypeOK, IsWhole, Ids
    <3> QED
      BY <1>0, <1>18, <2>2, <3>2, <3>3 DEF Finish, files, PutAside, GuestDisk!Next, GuestDisk!Use
  <2> QED
    BY <2>1, <2>2
<1>19. CASE Cleanup
  <2>1. Calm
    BY <1>19 DEF Cleanup, Inv, Removable, Between
  <2> QED
    BY <1>1, <2>1
<1> QED
  BY <1>2, <1>3, <1>4, <1>5, <1>6, <1>7, <1>8, <1>9, <1>10, <1>11, <1>12, <1>13, <1>14, <1>15,
     <1>16, <1>17, <1>18, <1>19 DEF Next, Launcher

(* StandardDisk implements GuestDisk: whatever fails, is interrupted or is *)
(* cancelled in prepareDisk, resetStandardDisk, publishResetDisk and the   *)
(* cleanup of a cancelled setup, a disk that has been current is lost by   *)
(* nothing, and only a reset puts one aside.                               *)
THEOREM Implements == Spec => Promise
<1>1. Init => GuestDisk!Init
  <2> SUFFICES ASSUME Init PROVE GuestDisk!Init
    OBVIOUS
  <2>1. ~IsWhole(disk) /\ ~IsWhole(None)
    BY DEF Init, IsWhole
  <2>2. CurrentDisk = None
    BY <2>1 DEF Init, CurrentDisk, CurrentFile, IsWhole
  <2>3. Whole(kept \cup {retained}) = {}
    BY <2>1, InWhole DEF Init
  <2> QED
    BY <2>2, <2>3 DEF Init, GuestDisk!Init
<1>2. Inv /\ Inv' /\ [Next]_vars => [GuestDisk!Next]_GuestDisk!vars
  <2>1. ASSUME Inv, Inv', Next PROVE GuestDisk!Next
    BY <2>1, Simulates
  <2>2. ASSUME UNCHANGED vars PROVE UNCHANGED GuestDisk!vars
    BY <2>2 DEF vars, files, GuestDisk!vars, GuestDisk!disks, CurrentDisk, CurrentFile
  <2> QED
    BY <2>1, <2>2
<1> QED
  BY Safe, <1>1, <1>2, PTL DEF Spec, Promise, GuestDisk!Spec

(* The type invariant of the disk, the setup and the history.              *)
THEOREM TypeCorrect == Spec => []TypeOK
<1>1. Inv => TypeOK
  BY DEF Inv
<1> QED
  BY Safe, <1>1, PTL

(* A guest never runs on the beginning of a copy an older launcher left,   *)
(* nor on a disk smaller than what prepareDisk was asked for.              *)
THEOREM WholeDiskBooted == Spec => []BootsWholeDisk
<1>1. Inv => BootsWholeDisk
  BY DEF Inv, Places, BootsWholeDisk
<1> QED
  BY Safe, <1>1, PTL

(* So a disk a guest has run on is the current one or was put aside, for   *)
(* GuestDisk alone promises that.                                          *)
THEOREM BootedAreKept == Spec => []GuestDisk!UsedAreKept
<1> DEFINE Kept == GuestDisk!UsedAreKept /\ None \notin booted
<1>1. GuestDisk!Init => Kept
  BY DEF GuestDisk!Init, GuestDisk!UsedAreKept
<1>2. Kept /\ [GuestDisk!Next]_GuestDisk!vars => Kept'
  <2> SUFFICES ASSUME Kept, [GuestDisk!Next]_GuestDisk!vars PROVE Kept'
    OBVIOUS
  <2> USE StandardAssumption DEF GuestDisk!UsedAreKept, PutAside
  <2>1. CASE GuestDisk!Make
    BY <2>1 DEF GuestDisk!Make, GuestDisk!RunsOn, GuestDisk!Unused, Ids
  <2>2. CASE GuestDisk!Use
    BY <2>2 DEF GuestDisk!Use
  <2>3. CASE GuestDisk!Replace
    BY <2>3 DEF GuestDisk!Replace, GuestDisk!RunsOn, GuestDisk!Unused, Ids
  <2>4. CASE UNCHANGED GuestDisk!disks
    BY <2>4 DEF GuestDisk!disks
  <2> QED
    BY <2>1, <2>2, <2>3, <2>4 DEF GuestDisk!Next, GuestDisk!vars
<1>3. Kept => GuestDisk!UsedAreKept
  OBVIOUS
<1> QED
  BY Implements, <1>1, <1>2, <1>3, PTL DEF Promise, GuestDisk!Spec
=============================================================================
