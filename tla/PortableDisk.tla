---------------------------- MODULE PortableDisk ----------------------------
(***************************************************************************)
(* The writable disk of a portable installation: preparePortableDisk in    *)
(* app/qemu.go, resetPortableDisk and publishPortableReset in              *)
(* app/reset_portable.go, the backing identity in app/qcow2.go.            *)
(*                                                                         *)
(* The disk is a QCOW2 overlay over the factory image of the payload on    *)
(* the same stick; a sidecar file holds the digest of that image.  A       *)
(* launch refuses a disk whose sidecar names another image.  A reset       *)
(* builds disk and sidecar in a staging folder, moves the old pair into a  *)
(* retained folder and the new pair into place, four renames that can fail *)
(* or be interrupted anywhere.                                             *)
(***************************************************************************)
EXTENDS Naturals, Sequences

CONSTANTS
  Images,     \* factory images the user may put on the stick
  Large,      \* those whose build spec asks for a larger disk
  MaxDisks,   \* bound on the disks created
  None,       \* no file
  MaxFaults   \* bound on failed operations, crashes and cancellations

\* expandedSizeMiB of the image's build spec; 0 is a damaged header.
Capacity(image) == IF image \in Large THEN 2 ELSE 1

Ids  == 1 .. MaxDisks
Disk == [id: Ids, base: Images, capacity: 0 .. 2]
Pair == [disk: Disk \cup {None}, ident: Images \cup {None}]
NoPair == [disk |-> None, ident |-> None]

ASSUME PortableAssumption ==
  /\ Images # {} /\ Large \subseteq Images
  /\ None \notin Images \cup Ids \cup Disk
  /\ MaxDisks \in Nat \ {0} /\ MaxFaults \in Nat

Moves == {"oldDisk", "oldIdent", "newIdent", "newDisk"}

VARIABLES
  factory,   \* the image of the payload in guest/
  final,     \* the pair under its final names
  staged,    \* the pair in .reset-staging
  retained,  \* the pair in the before-reset folder of this reset
  kept,      \* what earlier resets retained and what was quarantined
  pc,
  fresh,     \* this launch was given -fresh
  target,    \* where preparePortableDisk works: "final" or "staged"
  plan,      \* publishPortableReset: the renames, and how many are done
  step,
  created,   \* number of disks made
  booted,    \* history: disks a guest has run on
  faults

pairs == <<final, staged, retained, kept>>
vars == <<factory, pairs, pc, fresh, target, plan, step, created, booted, faults>>

TypeOK ==
  /\ factory \in Images
  /\ final \in Pair /\ staged \in Pair /\ retained \in Pair
  /\ kept \subseteq Pair
  /\ pc \in {"off", "prepare", "match", "overlay", "ident", "publish", "retire",
             "move", "undo", "boot"}
  /\ fresh \in BOOLEAN
  /\ target \in {"final", "staged"}
  /\ plan \in Seq(Moves) /\ step \in 0 .. Len(plan)
  /\ created \in 0 .. MaxDisks
  /\ booted \subseteq Ids
  /\ faults \in 0 .. MaxFaults

Init ==
  /\ factory \in Images
  /\ final = NoPair /\ staged = NoPair /\ retained = NoPair /\ kept = {}
  /\ pc = "off" /\ fresh = FALSE /\ target = "final"
  /\ plan = <<>> /\ step = 0
  /\ created = 0 /\ booted = {} /\ faults = 0

Fault  == faults < MaxFaults /\ faults' = faults + 1
Smooth == UNCHANGED faults

\* Folders that hold nothing are removed, or hold nothing of interest.
Shelve(pair) == IF pair = NoPair THEN kept ELSE kept \cup {pair}

(* The launch ends: deferred cleanup removes the staging folder, a crash   *)
(* leaves it behind for good, where nobody looks for it again.             *)
Leave ==
  /\ pc' = "off"
  /\ staged' = NoPair /\ retained' = NoPair /\ kept' = Shelve(retained)
  /\ plan' = <<>> /\ step' = 0

-----------------------------------------------------------------------------
(* The user. *)

ReplacePayload ==
  /\ pc = "off"
  /\ factory' \in Images \ {factory}
  /\ UNCHANGED <<pairs, pc, fresh, target, plan, step, created, booted, faults>>

Launch(f) ==
  /\ pc = "off"
  /\ pc' = "prepare" /\ fresh' = f
  /\ UNCHANGED <<factory, pairs, target, plan, step, created, booted, faults>>

Shutdown ==
  /\ pc = "boot"
  /\ Leave
  /\ UNCHANGED <<factory, final, fresh, target, created, booted, faults>>

(* The stick is pulled out under a running guest. *)
Unplug ==
  /\ pc = "boot"
  /\ Fault
  /\ final' = [final EXCEPT !.disk.capacity = 0]
  /\ Leave
  /\ UNCHANGED <<factory, fresh, target, created, booted>>

(* Any operation fails or is cancelled before it changed anything, or the  *)
(* launcher dies there.                                                    *)
Stop ==
  /\ pc \notin {"off", "boot", "move", "undo"}
  /\ Fault
  /\ Leave
  /\ UNCHANGED <<factory, final, fresh, target, created, booted>>

Crash ==
  /\ pc \in {"move", "undo"}
  /\ Fault
  /\ Leave
  /\ UNCHANGED <<factory, final, fresh, target, created, booted>>

-----------------------------------------------------------------------------

\* Mutant: every launch that finds files starts over.
PrepareAlwaysResets ==
  /\ pc = "prepare"
  /\ pc' = "match"
  /\ target' = IF final # NoPair THEN "staged" ELSE "final"
  /\ UNCHANGED <<factory, pairs, fresh, plan, step, created, booted, faults>>

\* Mutant: an identity without a disk is not reset.
PrepareNeedsDisk ==
  /\ pc = "prepare"
  /\ pc' = "match"
  /\ target' = IF fresh /\ final.disk # None THEN "staged" ELSE "final"
  /\ UNCHANGED <<factory, pairs, fresh, plan, step, created, booted, faults>>

(* prepareDisk: -fresh resets, unless there is nothing to reset. *)
Prepare ==
  /\ pc = "prepare"
  /\ pc' = "match"
  /\ target' = IF fresh /\ final # NoPair THEN "staged" ELSE "final"
  /\ UNCHANGED <<factory, pairs, fresh, plan, step, created, booted, faults>>

Place == IF target = "final" THEN final ELSE staged
Put(pair) == IF target = "final" THEN final' = pair /\ UNCHANGED staged
                                 ELSE staged' = pair /\ UNCHANGED final

(* qcow2OverlayMatches: right format, backing path and virtual size. *)
OverlayMatches(disk) == disk # None /\ disk.capacity = Capacity(factory)

\* Mutant: a matching header is enough.
UseAnyDisk ==
  /\ pc = "match" /\ OverlayMatches(Place.disk)
  /\ pc' = "boot"
  /\ booted' = booted \cup {Place.disk.id}
  /\ UNCHANGED <<factory, pairs, fresh, target, plan, step, created, faults>>

(* preparePortableDisk: use the disk, refuse it, or put it aside. *)
UseDisk ==
  /\ pc = "match" /\ OverlayMatches(Place.disk)
  /\ Place.ident = factory
  /\ pc' = "boot"
  /\ booted' = booted \cup {Place.disk.id}
  /\ UNCHANGED <<factory, pairs, fresh, target, plan, step, created, faults>>

RefuseDisk ==
  /\ pc = "match" /\ OverlayMatches(Place.disk)
  /\ Place.ident # factory
  /\ Leave
  /\ UNCHANGED <<factory, final, fresh, target, created, booted, faults>>

QuarantineDisk ==
  /\ pc = "match" /\ ~OverlayMatches(Place.disk)
  /\ pc' = "overlay"
  /\ Put([Place EXCEPT !.disk = None])
  /\ kept' = Shelve([Place EXCEPT !.ident = None])
  /\ UNCHANGED <<factory, retained, fresh, target, plan, step, created, booted, faults>>

(* The new overlay in its .part file. *)
CreateOverlay ==
  /\ pc = "overlay" /\ created < MaxDisks
  /\ created' = created + 1
  /\ pc' = "ident"
  /\ UNCHANGED <<factory, pairs, fresh, target, plan, step, booted, faults>>

(* writePortableBackingState: an identity of the same image is reused, one *)
(* of another image refused.                                               *)
WriteIdent ==
  /\ pc = "ident"
  /\ Place.ident \in {None, factory}
  /\ Put([Place EXCEPT !.ident = factory])
  /\ pc' = "publish"
  /\ UNCHANGED <<factory, retained, kept, fresh, target, plan, step, created, booted, faults>>

RefuseIdent ==
  /\ pc = "ident"
  /\ Place.ident \notin {None, factory}
  /\ Leave
  /\ UNCHANGED <<factory, final, fresh, target, created, booted, faults>>

NewDisk == [id |-> created, base |-> factory, capacity |-> Capacity(factory)]

PublishOverlay ==
  /\ pc = "publish"
  /\ Put([Place EXCEPT !.disk = NewDisk])
  /\ IF target = "final"
     THEN pc' = "boot" /\ booted' = booted \cup {created}
     ELSE pc' = "retire" /\ UNCHANGED booted
  /\ UNCHANGED <<factory, retained, kept, fresh, target, plan, step, created, faults>>

-----------------------------------------------------------------------------
(* resetPortableDisk: what exists is retained, identity before disk. *)
Retire ==
  /\ pc = "retire"
  /\ plan' = (IF final.disk # None THEN <<"oldDisk">> ELSE <<>>)
             \o (IF final.ident # None THEN <<"oldIdent">> ELSE <<>>)
             \o <<"newIdent", "newDisk">>
  /\ step' = 0
  /\ pc' = "move"
  /\ UNCHANGED <<factory, pairs, fresh, target, created, booted, faults>>

(* One rename, and the rename that takes it back. *)
Rename(move) ==
  CASE move = "oldDisk"  -> /\ retained' = [retained EXCEPT !.disk = final.disk]
                            /\ final' = [final EXCEPT !.disk = None] /\ UNCHANGED staged
    [] move = "oldIdent" -> /\ retained' = [retained EXCEPT !.ident = final.ident]
                            /\ final' = [final EXCEPT !.ident = None] /\ UNCHANGED staged
    [] move = "newIdent" -> /\ final' = [final EXCEPT !.ident = staged.ident]
                            /\ staged' = [staged EXCEPT !.ident = None] /\ UNCHANGED retained
    [] move = "newDisk"  -> /\ final' = [final EXCEPT !.disk = staged.disk]
                            /\ staged' = [staged EXCEPT !.disk = None] /\ UNCHANGED retained

RenameBack(move) ==
  CASE move = "oldDisk"  -> /\ final' = [final EXCEPT !.disk = retained.disk]
                            /\ retained' = [retained EXCEPT !.disk = None] /\ UNCHANGED staged
    [] move = "oldIdent" -> /\ final' = [final EXCEPT !.ident = retained.ident]
                            /\ retained' = [retained EXCEPT !.ident = None] /\ UNCHANGED staged
    [] move = "newIdent" -> /\ staged' = [staged EXCEPT !.ident = final.ident]
                            /\ final' = [final EXCEPT !.ident = None] /\ UNCHANGED retained
    [] move = "newDisk"  -> /\ staged' = [staged EXCEPT !.disk = final.disk]
                            /\ final' = [final EXCEPT !.disk = None] /\ UNCHANGED retained

(* publishPortableReset. *)
Move ==
  /\ pc = "move" /\ step < Len(plan)
  /\ \/ /\ Rename(plan[step + 1])
        /\ step' = step + 1
        /\ UNCHANGED pc /\ Smooth
     \/ /\ Fault
        /\ pc' = "undo"
        /\ UNCHANGED <<final, staged, retained, step>>
  /\ UNCHANGED <<factory, kept, fresh, target, plan, created, booted>>

\* Mutant: the rollback goes on after a failure.
UndoPastFailure ==
  /\ pc = "undo" /\ step > 0
  /\ \/ RenameBack(plan[step]) /\ Smooth
     \/ Fault /\ UNCHANGED <<final, staged, retained>>
  /\ step' = step - 1
  /\ UNCHANGED <<factory, kept, pc, fresh, target, plan, created, booted>>

(* Back in reverse order; the first failure stops the rollback. *)
UndoMove ==
  /\ pc = "undo" /\ step > 0
  /\ RenameBack(plan[step])
  /\ step' = step - 1
  /\ UNCHANGED <<factory, kept, pc, fresh, target, plan, created, booted, faults>>

UndoEnds ==
  /\ pc = "undo"
  /\ (step = 0 /\ Smooth) \/ Fault
  /\ Leave
  /\ UNCHANGED <<factory, final, fresh, target, created, booted>>

Moved ==
  /\ pc = "move" /\ step = Len(plan)
  /\ pc' = "boot"
  /\ booted' = booted \cup {final.disk.id}
  /\ UNCHANGED <<factory, pairs, fresh, target, plan, step, created, faults>>

-----------------------------------------------------------------------------
Launcher == \/ Prepare \/ UseDisk \/ RefuseDisk \/ QuarantineDisk \/ CreateOverlay
            \/ WriteIdent \/ RefuseIdent \/ PublishOverlay
            \/ Retire \/ Move \/ UndoMove \/ UndoEnds \/ Moved

Next == \/ ReplacePayload \/ (\E f \in BOOLEAN : Launch(f)) \/ Shutdown \/ Unplug
        \/ Launcher \/ Stop \/ Crash

Spec == Init /\ [][Next]_vars

(* A launch that is under way goes on. *)
FairSpec == Spec /\ WF_vars(Launcher)

-----------------------------------------------------------------------------
(* Properties. *)

(* "An interruption must never pair an old disk with the replacement       *)
(* factory's identity": wherever a disk and an identity lie side by side   *)
(* the identity is the disk's own.                                         *)
PairedIdentity ==
  \A pair \in {final, staged, retained} \cup kept :
    pair.disk # None /\ pair.ident # None => pair.disk.base = pair.ident

(* A guest never runs on another image than the one its disk was made on. *)
BootsOnItsFactory ==
  pc = "boot" => final.disk # None /\ final.disk.base = factory

(* The four renames of a reset, undone or interrupted anywhere, are one    *)
(* step to the user: see GuestDisk.  A disk is put aside only by -fresh or *)
(* when it does not fit the payload it lies beside (damaged, or the        *)
(* payload was exchanged for one of another capacity), and is kept then.   *)
(* While the old disk is between the renames it still counts as current.   *)
DiskIds(pairs_) == {pair.disk.id : pair \in {p \in pairs_ : p.disk # None}}
CurrentFile == IF pc \in {"move", "undo"} /\ final.disk = None
               THEN retained.disk ELSE final.disk
CurrentDisk == IF CurrentFile = None THEN None ELSE CurrentFile.id
Misfit == final.disk # None /\ final.disk.capacity # Capacity(factory)

GuestDisk == INSTANCE GuestDisk WITH
  Ids <- Ids, None <- None,
  current <- CurrentDisk,
  retained <- DiskIds(kept \cup {retained}) \ {CurrentDisk},
  used <- booted,
  asked <- fresh \/ Misfit

Promise == GuestDisk!Spec

(* "Replacing a portable payload without resetting its data is refused":   *)
(* only -fresh takes away an undamaged disk, whatever the payload.         *)
ReplacedPayloadIsRefused ==
  [][final.disk # None /\ final.disk.capacity # 0 /\ ~fresh
       => final'.disk # None /\ final'.disk.id = final.disk.id]_vars

(* "Start with -portable -fresh": whatever interrupted resets have left on *)
(* the stick, a reset that nothing disturbs brings up a guest.             *)
FreshAlwaysBoots ==
  pc = "prepare" /\ fresh /\ faults = MaxFaults /\ created < MaxDisks ~> pc = "boot"

=============================================================================
