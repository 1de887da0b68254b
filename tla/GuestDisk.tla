----------------------------- MODULE GuestDisk ------------------------------
(***************************************************************************)
(* What an installation of either kind promises about the disk that holds  *)
(* the user's system.  There is one current disk or none.  A disk that has *)
(* been the current one is never lost and never altered into another: it   *)
(* stays current until it is replaced on request, and then it is retained. *)
(* StandardDisk and PortableDisk implement this with files, renames that   *)
(* fail, and launchers that die between them; see Promise in both.         *)
(***************************************************************************)
CONSTANTS
  Ids,   \* the disks there can be
  None   \* no disk

VARIABLES
  current,   \* the disk the next guest runs on
  retained,  \* disks put aside, for good
  used,      \* disks a guest has run on
  asked      \* the user wants another disk

disks == <<current, retained, used>>
vars == <<disks, asked>>

Init ==
  /\ current = None /\ retained = {} /\ used = {}
  /\ asked \in BOOLEAN

Unused == Ids \ (retained \cup used \cup {current})

(* A guest may run on a new disk at once. *)
RunsOn(disk) == used' \in {used, used \cup {disk}}

Make ==
  /\ current = None
  /\ current' \in Unused
  /\ RunsOn(current')
  /\ UNCHANGED retained

Use ==
  /\ current # None
  /\ used' = used \cup {current}
  /\ UNCHANGED <<current, retained>>

(* One step retains the old disk and puts a new one in its place; when it  *)
(* is interrupted the old one is retained all the same and the next launch *)
(* makes a disk.                                                           *)
Replace ==
  /\ asked /\ current # None
  /\ retained' = retained \cup {current}
  /\ \/ current' = None /\ UNCHANGED used
     \/ current' \in Unused /\ RunsOn(current')

Next == asked' \in BOOLEAN /\ (Make \/ Use \/ Replace \/ UNCHANGED disks)

Spec == Init /\ [][Next]_vars

(* A disk a guest has run on is the current one or was put aside.          *)
UsedAreKept == used \subseteq retained \cup {current}

=============================================================================
