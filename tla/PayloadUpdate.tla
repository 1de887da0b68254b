--------------------------- MODULE PayloadUpdate ---------------------------
(***************************************************************************)
(* The transactional update of the two payloads of an installation, the    *)
(* guest image and the graphics runtime: app/payload_update.go with its    *)
(* callers ensureRuntime (app/setup.go), ensureGuest (app/fetch.go) and    *)
(* main, supervise and watch (app/main.go).                                *)
(*                                                                         *)
(* A payload is a directory tree that moves between four sibling names.    *)
(* An update journals itself in payload-update-state.json, renames         *)
(* current -> previous and next -> current, and is confirmed by deleting   *)
(* previous once the guest reports ready.  A launch that finds the journal *)
(* renames current -> failed and previous -> current instead.              *)
(*                                                                         *)
(* One launcher runs at a time (it owns the lifecycle port), so the model  *)
(* is one program counter over the persistent state, one file-system call  *)
(* per step, with a process death possible between any two of them.        *)
(***************************************************************************)
EXTENDS Naturals, FiniteSets

CONSTANTS
  Releases,       \* the releases a launch may ask for
  Wants,          \* [guest, runtime] release pairs a launch may be given
  ArchiveOf,      \* the runtime archive each release ships
  LegacyRelease,  \* the release receiptless runtimes are attributed to
  HaveStock,      \* a stock QEMU is installed (the fallback of main)
  NoTree,         \* nothing has that name
  NoRelease,      \* no receipt file (and the version of no journal)
  BadReceipt,     \* a receipt file that does not parse
  MaxFaults       \* bound on process deaths and failed file operations

Payloads == {"guest", "runtime"}
Slots    == {"current", "previous", "failed", "next"}

(* A directory tree.  "torn": files are missing but not the ones the       *)
(* receipt checks look at; "gutted": those are missing too.  For the guest *)
(* every required file is checked, for the runtime only the executable is. *)
Tree == [rel: Releases, body: {"whole", "torn", "gutted"},
         receipt: Releases \cup {NoRelease, BadReceipt}]

(* A tree without its receipt. *)
Contents == [rel: Releases, body: {"whole", "torn", "gutted"}]

ASSUME ConstantsAssumption ==
  /\ LegacyRelease \in Releases
  /\ Wants \subseteq [Payloads -> Releases]
  /\ ArchiveOf \in [Releases -> Releases]
  /\ HaveStock \in BOOLEAN
  /\ NoTree \notin Tree \cup Contents
  /\ NoRelease \notin Releases /\ BadReceipt \notin Releases /\ NoRelease # BadReceipt
  /\ MaxFaults \in Nat

VARIABLES
  tree,       \* tree[p][s]: what payload p holds under the name s
  journal,    \* payload-update-state.json
  pc,         \* where the launcher is ("off": no process)
  item,       \* the payload the current procedure works on
  caller,     \* who rolls back: the startup recovery or the session
  want,       \* the release of each payload this launch asks for
  rolledBack, \* payloadsRolledBack of main
  qemu,       \* what the session boots: the bundled QEMU with or without
              \* the GPU, or "other" (stock QEMU, the user's own WINQ-EMU)
  faults,     \* faults so far
  base,       \* history: the tree an unconfirmed update of p replaces
  leftover    \* history: a confirmed update's previous tree still lies there

vars == <<tree, journal, pc, item, caller, want, rolledBack, qemu, faults, base, leftover>>
launch  == <<item, caller, want, rolledBack, qemu>>
history == <<base, leftover>>

-----------------------------------------------------------------------------
Fresh(r) == [rel |-> r, body |-> "whole", receipt |-> r]

Exists(p, s) == tree[p][s] # NoTree
Whole(p, s)  == Exists(p, s) /\ tree[p][s].body = "whole"

(* What a RemoveAll that has not finished may have left of tree t. *)
Remains(p, t) ==
  [rel: {t.rel}, receipt: {t.receipt, NoRelease},
   body: {"gutted"} \cup IF p = "runtime" /\ t.body # "gutted" THEN {"torn"} ELSE {}]

(* Mutant: the receipt's identity is compared, its files are not looked at.*)
ReceiptMatches_IdentityOnly(p, r) ==
  Exists(p, "current") /\ tree[p]["current"].receipt = r

(* installReceiptMatches, runtimeReceiptMatches *)
ReceiptMatches(p, r) ==
  /\ Exists(p, "current")
  /\ tree[p]["current"].receipt = r
  /\ tree[p]["current"].body # "gutted"

HasReceipt(p) == Exists(p, "current") /\ tree[p]["current"].receipt \in Releases
HasExecutable == Exists("runtime", "current")
                   /\ tree["runtime"]["current"].body # "gutted"

NoJournal == [version |-> NoRelease, pending |-> {}]
Journal   == [version: Releases, pending: (SUBSET Payloads) \ {{}}]

JournalWithout(ps) ==
  IF journal.pending \subseteq ps THEN NoJournal
  ELSE [journal EXCEPT !.pending = @ \ ps]

-----------------------------------------------------------------------------
PCs == {"off", "recover", "rb_clear", "rb_aside", "rb_restore", "rb_sweep",
        "rb_clean", "pin", "runtime", "rt_swap", "rt_place", "guest", "gt_fill",
        "stage", "record", "pub_clear", "pub_aside", "pub_place", "pub_undo",
        "boot", "gpu_clean", "ct_remove", "ct_clean"}

TypeOK ==
  /\ tree \in [Payloads -> [Slots -> Tree \cup {NoTree}]]
  /\ journal \in Journal \cup {NoJournal}
  /\ pc \in PCs
  /\ item \in Payloads
  /\ caller \in {"recovery", "session"}
  /\ want \in [Payloads -> Releases]
  /\ rolledBack \in BOOLEAN
  /\ qemu \in {"gpu", "cpu", "other"}
  /\ faults \in 0 .. MaxFaults
  /\ base \in [Payloads -> Tree \cup {NoTree}]
  /\ leftover \in [Payloads -> BOOLEAN]

(* A data folder before its first setup, or one a receiptless launcher     *)
(* (v0.0.6 and earlier) left its runtime in.                               *)
Init ==
  /\ \E r \in {NoTree, [rel |-> LegacyRelease, body |-> "whole", receipt |-> NoRelease]} :
       tree = [p \in Payloads |->
                 [s \in Slots |-> IF p = "runtime" /\ s = "current" THEN r ELSE NoTree]]
  /\ journal = NoJournal
  /\ pc = "off"
  /\ item = "runtime"
  /\ caller = "recovery"
  /\ want = [p \in Payloads |-> LegacyRelease]
  /\ rolledBack = FALSE
  /\ qemu = "other"
  /\ faults = 0
  /\ base = [p \in Payloads |-> NoTree]
  /\ leftover = [p \in Payloads |-> FALSE]

Go(to) == pc' = to
Fault  == faults < MaxFaults /\ faults' = faults + 1
Smooth == UNCHANGED faults

Put(p, s, t)     == tree' = [tree EXCEPT ![p][s] = t]
Move(p, from, to) == tree' = [tree EXCEPT ![p][to] = tree[p][from], ![p][from] = NoTree]

-----------------------------------------------------------------------------
(* Launch and death of the launcher. *)

(* main up to the payload recovery.  -release and -runtime-release, or the *)
(* defaults of the launcher that starts, fix the wanted releases.          *)
Launch(w) ==
  /\ pc = "off"
  /\ Go("recover")
  /\ want' = w
  /\ rolledBack' = FALSE
  /\ qemu' = "other"
  /\ UNCHANGED <<tree, journal, item, caller, faults, history>>

(* The process or the machine dies between two file-system calls. *)
Crash ==
  /\ pc # "off"
  /\ Fault
  /\ Go("off")
  /\ UNCHANGED <<tree, journal, launch, history>>

(* A RemoveAll in progress has deleted some files.  It may still finish,   *)
(* fail, or be cut off by Crash.                                           *)
Removing == CASE pc = "rb_clear" /\ Exists(item, "previous") -> {"failed"}
              [] pc = "rb_sweep"  -> {"failed"}
              [] pc = "rt_swap"   -> {"current"}
              [] pc = "pub_clear" -> {"previous"}
              [] pc = "ct_remove" -> {"previous"}
              [] OTHER            -> {}

RemovalProgress ==
  /\ \E s \in Removing :
       /\ Exists(item, s)
       /\ \E u \in Remains(item, tree[item][s]) :
            /\ u # tree[item][s]
            /\ Put(item, s, u)
  /\ UNCHANGED <<journal, pc, launch, faults, history>>

-----------------------------------------------------------------------------
(* rollbackPendingPayloadUpdates (caller "recovery") undoes every pending  *)
(* payload before anything else happens; rollbackPendingRuntimeUpdate      *)
(* (caller "session") undoes the runtime after QEMU failed on the GPU.     *)

(* Mutant: an update is left pending when the app is opened again.         *)
StartRollback_Waits ==
  /\ pc = "recover"
  /\ Go("runtime")
  /\ UNCHANGED <<tree, journal, launch, faults, history>>

StartRollback ==
  /\ pc = "recover"
  /\ Smooth
  /\ IF journal = NoJournal
     THEN Go("runtime") /\ UNCHANGED <<item, caller>>
     ELSE /\ Go("rb_clear")
          /\ item' = IF "guest" \in journal.pending THEN "guest" ELSE "runtime"
          /\ caller' = "recovery"
  /\ UNCHANGED <<tree, journal, want, rolledBack, qemu, history>>

(* A failed rollback is fatal at startup; in the session it is logged and  *)
(* the next attempt renders on the CPU.                                    *)
RollbackFailed ==
  /\ UNCHANGED item
  /\ \/ caller = "recovery" /\ Go("off") /\ UNCHANGED qemu
     \/ caller = "session" /\ Go("boot") /\ qemu' = "cpu"

(* rollbackDirectoryUpdate returned without an error. *)
RollbackDone ==
  /\ base' = [base EXCEPT ![item] = NoTree]
  /\ leftover' = [leftover EXCEPT ![item] = FALSE]
  /\ \/ /\ caller = "session"
        /\ Go("gpu_clean") /\ UNCHANGED item
     \/ /\ caller = "recovery"
        /\ IF item = "guest" /\ "runtime" \in journal.pending
           THEN Go("rb_clear") /\ item' = "runtime"
           ELSE Go("rb_clean") /\ UNCHANGED item

(* Mutant: an older failed tree is not deleted. *)
RollbackClear_KeepsFailed ==
  /\ pc = "rb_clear"
  /\ Smooth
  /\ UNCHANGED tree
  /\ IF Exists(item, "previous") THEN Go("rb_aside") /\ UNCHANGED <<item, history>>
     ELSE RollbackDone
  /\ UNCHANGED <<journal, caller, want, rolledBack, qemu>>

(* Nothing to restore: the update was journaled but not published.  With a *)
(* previous tree, an older failed one is deleted first, errors ignored.    *)
RollbackClear ==
  /\ pc = "rb_clear"
  /\ \/ /\ ~Exists(item, "previous")
        /\ RollbackDone /\ Smooth /\ UNCHANGED tree
     \/ /\ Exists(item, "previous")
        /\ Go("rb_aside") /\ UNCHANGED <<item, history>>
        /\ \/ Put(item, "failed", NoTree) /\ Smooth
           \/ UNCHANGED tree /\ Fault
  /\ UNCHANGED <<journal, caller, want, rolledBack, qemu>>

RollbackAside ==
  /\ pc = "rb_aside"
  /\ \/ /\ ~Exists(item, "current")
        /\ Go("rb_restore") /\ Smooth /\ UNCHANGED <<tree, item, qemu>>
     \/ /\ Exists(item, "current") /\ ~Exists(item, "failed")
        /\ Move(item, "current", "failed")
        /\ Go("rb_restore") /\ Smooth /\ UNCHANGED <<item, qemu>>
     \/ /\ Exists(item, "current") /\ Exists(item, "failed")
        /\ RollbackFailed /\ Smooth /\ UNCHANGED tree
     \/ /\ Exists(item, "current")
        /\ RollbackFailed /\ Fault /\ UNCHANGED tree
  /\ UNCHANGED <<journal, caller, want, rolledBack, history>>

(* When the restoring rename fails the failed tree is put back, if it can. *)
RollbackRestore ==
  /\ pc = "rb_restore"
  /\ \/ /\ Move(item, "previous", "current")
        /\ Go("rb_sweep") /\ Smooth /\ UNCHANGED <<item, qemu>>
     \/ /\ Fault
        /\ RollbackFailed
        /\ \/ Exists(item, "failed") /\ Move(item, "failed", "current")
           \/ UNCHANGED tree
  /\ UNCHANGED <<journal, caller, want, rolledBack, history>>

RollbackSweep ==
  /\ pc = "rb_sweep"
  /\ \/ Put(item, "failed", NoTree) /\ Smooth
     \/ UNCHANGED tree /\ Fault
  /\ RollbackDone
  /\ UNCHANGED <<journal, caller, want, rolledBack, qemu>>

(* Mutant: the journal outlives the rollback. *)
RollbackClean_Keeps ==
  /\ pc = "rb_clean"
  /\ rolledBack' = TRUE
  /\ Go("pin")
  /\ UNCHANGED <<tree, journal, item, caller, want, qemu, faults, history>>

(* The journal is removed and the launch is marked a recovery launch. *)
RollbackClean ==
  /\ pc = "rb_clean"
  /\ \/ /\ Smooth
        /\ journal' = NoJournal
        /\ rolledBack' = TRUE
        /\ Go("pin")
     \/ Fault /\ Go("off") /\ UNCHANGED <<journal, rolledBack>>
  /\ UNCHANGED <<tree, item, caller, want, qemu, history>>

(* pinRestoredPayloads: this launch asks for what was restored. *)
Pin ==
  /\ pc = "pin"
  /\ IF HasReceipt("guest")
     THEN /\ want' = [p \in Payloads |-> IF HasReceipt(p) THEN tree[p]["current"].receipt
                                         ELSE want[p]]
          /\ Go("runtime")
     ELSE Go("off") /\ UNCHANGED want
  /\ UNCHANGED <<tree, journal, item, caller, rolledBack, qemu, faults, history>>

-----------------------------------------------------------------------------
(* ensureRuntime.  An error ends the launch unless a stock QEMU is there.  *)

Failed(p) ==
  /\ Go(IF p = "runtime" /\ HaveStock THEN "guest" ELSE "off")
  /\ UNCHANGED qemu

(* The bundled runtime is used; the render mode and the last probe decide  *)
(* whether with the GPU.                                                   *)
UseRuntime == Go("guest") /\ qemu' \in {"gpu", "cpu"}

(* Mutant: a receipt with some archive is good enough. *)
SameArchive_Any(r, q) == TRUE

SameArchive(r, q) == ArchiveOf[r] = ArchiveOf[q]

(* The launch needs no bundled runtime: a WINQ-EMU installed by the user,  *)
(* or CPU rendering on a stock QEMU.                                       *)
SkipRuntime ==
  /\ pc = "runtime"
  /\ Go("guest")
  /\ UNCHANGED <<tree, journal, launch, faults, history>>

RestoredRuntime ==
  /\ pc = "runtime" /\ rolledBack
  /\ IF HasExecutable THEN UseRuntime ELSE Go("off") /\ UNCHANGED qemu
  /\ UNCHANGED <<tree, journal, item, caller, want, rolledBack, faults, history>>

PutRuntimeReceipt(r) ==
  tree' = [tree EXCEPT !["runtime"]["current"].receipt = r]

(* Accept the installed runtime, adopt it under the new release when its   *)
(* archive is unchanged, attribute a receiptless one to the legacy release,*)
(* or go and stage the wanted one.  The receipt is written in place: a     *)
(* fault leaves one that does not parse.                                   *)
EnsureRuntime ==
  LET cur     == tree["runtime"]["current"]
      matches == ReceiptMatches("runtime", want["runtime"])
      adopts  == /\ HasReceipt("runtime") /\ HasExecutable
                 /\ SameArchive(cur.receipt, want["runtime"])
      legacy  == HasExecutable /\ cur.receipt = NoRelease
  IN /\ pc = "runtime" /\ ~rolledBack
     /\ item' = "runtime"
     /\ \/ /\ matches
           /\ UseRuntime /\ Smooth /\ UNCHANGED tree
        \/ /\ ~matches /\ adopts
           /\ PutRuntimeReceipt(want["runtime"]) /\ UseRuntime /\ Smooth
        \/ /\ ~matches /\ legacy
           /\ PutRuntimeReceipt(LegacyRelease) /\ Smooth
           /\ IF want["runtime"] = LegacyRelease THEN UseRuntime
              ELSE Go("stage") /\ UNCHANGED qemu
        \/ /\ ~matches /\ (adopts \/ legacy)
           /\ Fault /\ PutRuntimeReceipt(BadReceipt) /\ Failed("runtime")
        \/ /\ ~matches /\ ~adopts /\ ~legacy
           /\ Go("stage") /\ Smooth /\ UNCHANGED <<tree, qemu>>
        \/ /\ Fault /\ Failed("runtime") /\ UNCHANGED tree   \* no release manifest
     /\ UNCHANGED <<journal, caller, want, rolledBack, history>>

(* A runtime that cannot run is no fallback: it is deleted, unjournaled,   *)
(* before the new one takes its name.                                      *)
SwapRuntime ==
  /\ pc = "rt_swap"
  /\ Go("rt_place")
  /\ \/ Put("runtime", "current", NoTree) /\ Smooth
     \/ UNCHANGED tree /\ Fault
  /\ UNCHANGED <<journal, launch, history>>

PlaceRuntime ==
  /\ pc = "rt_place"
  /\ \/ /\ ~Exists("runtime", "current")
        /\ Move("runtime", "next", "current") /\ UseRuntime /\ Smooth
     \/ /\ Exists("runtime", "current")
        /\ Failed("runtime") /\ Smooth /\ UNCHANGED tree
     \/ Fault /\ Failed("runtime") /\ UNCHANGED tree
  /\ UNCHANGED <<journal, item, caller, want, rolledBack, history>>

-----------------------------------------------------------------------------
(* ensureGuest and ensureGuestFiles.  An error ends the launch.            *)

RestoredGuest ==
  /\ pc = "guest" /\ rolledBack
  /\ Go(IF ReceiptMatches("guest", want["guest"]) THEN "boot" ELSE "off")
  /\ UNCHANGED <<tree, journal, launch, faults, history>>

(* Mutant: a recovery launch looks for updates as well. *)
EnsureGuest_InRecovery ==
  /\ pc = "guest"
  /\ item' = "guest"
  /\ IF ReceiptMatches("guest", want["guest"]) THEN Go("boot") /\ UNCHANGED tree
     ELSE IF HasReceipt("guest") /\ tree["guest"]["current"].receipt # want["guest"]
     THEN Go("stage") /\ UNCHANGED tree
     ELSE /\ Go("gt_fill")
          /\ Put("guest", "current",
                 [rel |-> want["guest"], body |-> "gutted", receipt |-> NoRelease])
  /\ UNCHANGED <<journal, caller, want, rolledBack, qemu, faults, history>>

(* Mutant: another release is installed in place as well.                  *)
EnsureGuest_InPlace ==
  LET matches == ReceiptMatches("guest", want["guest"])
  IN /\ pc = "guest" /\ ~rolledBack
     /\ item' = "guest"
     /\ Go(IF matches THEN "boot" ELSE "gt_fill")
     /\ IF matches THEN UNCHANGED tree
        ELSE Put("guest", "current",
                 [rel |-> want["guest"], body |-> "gutted", receipt |-> NoRelease])
     /\ UNCHANGED <<journal, caller, want, rolledBack, qemu, faults, history>>

(* A tree with another release's receipt is updated through guest.next;    *)
(* anything else is installed or repaired in place.                        *)
EnsureGuest ==
  LET matches == ReceiptMatches("guest", want["guest"])
      update  == HasReceipt("guest") /\ tree["guest"]["current"].receipt # want["guest"]
  IN /\ pc = "guest" /\ ~rolledBack
     /\ item' = "guest"
     /\ Go(IF matches THEN "boot" ELSE IF update THEN "stage" ELSE "gt_fill")
     /\ IF matches \/ update THEN UNCHANGED tree
        ELSE Put("guest", "current",
                 [rel |-> want["guest"], body |-> "gutted", receipt |-> NoRelease])
     /\ UNCHANGED <<journal, caller, want, rolledBack, qemu, faults, history>>

(* Every file downloaded and verified, then the receipt. *)
FillGuest ==
  /\ pc = "gt_fill"
  /\ \/ Put("guest", "current", Fresh(want["guest"])) /\ Go("boot") /\ Smooth
     \/ UNCHANGED tree /\ Go("off") /\ Fault
  /\ UNCHANGED <<journal, launch, history>>

-----------------------------------------------------------------------------
(* Staging, journaling and publishing an update of item. *)

(* The new tree is downloaded, verified and receipted under its own name.  *)
Stage ==
  /\ pc = "stage"
  /\ \/ /\ Smooth
        /\ Put(item, "next", Fresh(want[item]))
        /\ Go(IF item = "runtime" /\ ~HasExecutable THEN "rt_swap" ELSE "record")
        /\ UNCHANGED qemu
     \/ Fault /\ Put(item, "next", NoTree) /\ Failed(item)
  /\ UNCHANGED <<journal, item, caller, want, rolledBack, history>>

(* Mutant: the journal is always started afresh. *)
Recorded_Afresh(j, p, version) == [version |-> version, pending |-> {p}]

(* recordPayloadUpdate: a journal of another version is started afresh. *)
Recorded(j, p, version) ==
  IF j.version = version THEN [j EXCEPT !.pending = @ \cup {p}]
  ELSE [version |-> version, pending |-> {p}]

Record ==
  /\ pc = "record"
  /\ \/ /\ Smooth
        /\ journal' = Recorded(journal, item, want[item])
        /\ base' = [base EXCEPT ![item] = tree[item]["current"]]
        /\ Go("pub_clear") /\ UNCHANGED qemu
     \/ Fault /\ Failed(item) /\ UNCHANGED <<journal, base>>
  /\ UNCHANGED <<tree, item, caller, want, rolledBack, leftover>>

(* publishDirectoryUpdate, first call: RemoveAll(previous). *)
PublishClear ==
  /\ pc = "pub_clear"
  /\ \/ /\ Smooth
        /\ Put(item, "previous", NoTree)
        /\ leftover' = [leftover EXCEPT ![item] = FALSE]
        /\ Go("pub_aside") /\ UNCHANGED qemu
     \/ Fault /\ Failed(item) /\ UNCHANGED <<tree, leftover>>
  /\ UNCHANGED <<journal, item, caller, want, rolledBack, base>>

(* Mutant: the tree being replaced is deleted, not kept aside. *)
PublishAside_Deletes ==
  /\ pc = "pub_aside"
  /\ Smooth
  /\ Put(item, "current", NoTree)
  /\ Go("pub_place")
  /\ UNCHANGED <<journal, launch, history>>

PublishAside ==
  /\ pc = "pub_aside"
  /\ \/ Smooth /\ Move(item, "current", "previous") /\ Go("pub_place") /\ UNCHANGED qemu
     \/ Fault /\ Failed(item) /\ UNCHANGED tree
  /\ UNCHANGED <<journal, item, caller, want, rolledBack, history>>

PublishPlace ==
  /\ pc = "pub_place"
  /\ \/ /\ Smooth
        /\ Move(item, "next", "current")
        /\ IF item = "runtime" THEN UseRuntime ELSE Go("boot") /\ UNCHANGED qemu
     \/ Fault /\ Go("pub_undo") /\ UNCHANGED <<tree, qemu>>
  /\ UNCHANGED <<journal, item, caller, want, rolledBack, history>>

PublishUndo ==
  /\ pc = "pub_undo"
  /\ \/ Smooth /\ Move(item, "previous", "current")
     \/ Fault /\ UNCHANGED tree
  /\ Failed(item)
  /\ UNCHANGED <<journal, item, caller, want, rolledBack, history>>

-----------------------------------------------------------------------------
(* The session: supervise and watch. *)

(* The bundled QEMU exited at startup in GPU mode.  A pending runtime      *)
(* update is rolled back, unless the probe says the GPU never worked here; *)
(* without one the next attempt renders on the CPU.                        *)
GpuFailure ==
  /\ pc = "boot" /\ qemu = "gpu"
  /\ \/ /\ "runtime" \in journal.pending
        /\ item' = "runtime" /\ caller' = "session"
        /\ Go("rb_clear") /\ UNCHANGED qemu
     \/ qemu' = "cpu" /\ UNCHANGED <<pc, item, caller>>
  /\ UNCHANGED <<tree, journal, want, rolledBack, faults, history>>

GpuClean ==
  /\ pc = "gpu_clean"
  /\ \/ journal' = JournalWithout({"runtime"}) /\ Smooth /\ UNCHANGED qemu
     \/ UNCHANGED journal /\ Fault /\ qemu' = "cpu"
  /\ Go("boot")
  /\ UNCHANGED <<tree, item, caller, want, rolledBack, history>>

(* The guest's userspace announced "ready": commitPayloadUpdates, runtime  *)
(* first.  From here on no update is unconfirmed.                          *)
GuestReady ==
  /\ pc = "boot"
  /\ qemu = "other" \/ HasExecutable
  /\ base' = [p \in Payloads |-> NoTree]
  /\ leftover' = [p \in Payloads |-> leftover[p] \/ (p \in journal.pending /\ Exists(p, "previous"))]
  /\ IF journal = NoJournal
     THEN Go("boot") /\ UNCHANGED item
     ELSE /\ Go("ct_remove")
          /\ item' = IF "runtime" \in journal.pending THEN "runtime" ELSE "guest"
  /\ UNCHANGED <<tree, journal, caller, want, rolledBack, qemu, faults>>

(* The previous tree is deleted first, errors ignored, ... *)
CommitRemove ==
  /\ pc = "ct_remove"
  /\ Go("ct_clean")
  /\ \/ /\ Put(item, "previous", NoTree)
        /\ leftover' = [leftover EXCEPT ![item] = FALSE]
        /\ Smooth
     \/ UNCHANGED <<tree, leftover>> /\ Fault
  /\ UNCHANGED <<journal, launch, base>>

(* ... and the journal is rewritten or removed after that. *)
CommitClean ==
  /\ pc = "ct_clean"
  /\ \/ journal' = JournalWithout({item}) /\ Smooth
     \/ UNCHANGED journal /\ Fault
  /\ IF item = "runtime" /\ "guest" \in journal.pending
     THEN Go("ct_remove") /\ item' = "guest"
     ELSE Go("boot") /\ UNCHANGED item
  /\ UNCHANGED <<tree, caller, want, rolledBack, qemu, history>>

(* The guest powers off, or the launch fails for any other reason. *)
EndSession ==
  /\ pc = "boot"
  /\ Go("off")
  /\ UNCHANGED <<tree, journal, launch, faults, history>>

-----------------------------------------------------------------------------
Step ==
  \/ StartRollback \/ RollbackClear \/ RollbackAside \/ RollbackRestore
  \/ RollbackSweep \/ RollbackClean \/ Pin
  \/ SkipRuntime \/ RestoredRuntime \/ EnsureRuntime \/ SwapRuntime \/ PlaceRuntime
  \/ RestoredGuest \/ EnsureGuest \/ FillGuest
  \/ Stage \/ Record \/ PublishClear \/ PublishAside \/ PublishPlace \/ PublishUndo
  \/ GpuClean \/ CommitRemove \/ CommitClean

Next ==
  \/ \E w \in Wants : Launch(w)
  \/ Step
  \/ RemovalProgress
  \/ GpuFailure \/ GuestReady \/ EndSession
  \/ Crash

Spec == Init /\ [][Next]_vars

(* A running launcher keeps executing its straight-line code and a session *)
(* comes to an end; that the user opens the app again is the assumption.   *)
FairSpec == /\ Spec
            /\ WF_vars(Step)
            /\ WF_vars(EndSession)
            /\ WF_vars(\E w \in Wants : Launch(w))

-----------------------------------------------------------------------------
(* Properties. *)

(* Between the record of an update and its confirmation the tree it        *)
(* replaces exists, intact, as current or as previous, whatever is cut or  *)
(* fails: publishDirectoryUpdate and rollbackDirectoryUpdate never drop    *)
(* it.  Excepted is an update over the remains of an older commit's        *)
(* deletion (leftover), which commit*PayloadUpdate ignores the failure of. *)
FallbackKept ==
  \A p \in Payloads :
    base[p] # NoTree /\ ~leftover[p] =>
      base[p] \in {tree[p]["current"], tree[p]["previous"]}

(* recordPayloadUpdate keeps every unconfirmed update in the journal until *)
(* it is confirmed or undone, so the next launch knows what to restore.    *)
UnconfirmedIsJournaled ==
  \A p \in Payloads : base[p] # NoTree => p \in journal.pending

(* The guest that boots is complete and carries its own receipt, after any *)
(* mix of updates, rollbacks, repairs and process deaths.                  *)
BootsWholeGuest ==
  pc = "boot" => /\ Whole("guest", "current")
                 /\ tree["guest"]["current"].receipt = tree["guest"]["current"].rel

(* When commit*PayloadUpdate has deleted the previous tree of a payload,   *)
(* the one that replaced it is there: confirming an update whose           *)
(* publication was cut short would delete the last tree.                   *)
CommitKeepsATree == pc = "ct_clean" => Exists(item, "current")

(* The receipt of a complete runtime names its archive, although           *)
(* ensureRuntime rewrites it in place when it adopts an unchanged archive  *)
(* or a legacy runtime.                                                    *)
RuntimeReceiptIsTruthful ==
  HasReceipt("runtime") /\ Whole("runtime", "current") =>
    LET cur == tree["runtime"]["current"] IN ArchiveOf[cur.receipt] = ArchiveOf[cur.rel]

(* A recovery launch runs what it restored: no payload changes under it.   *)
RecoveryLaunchIsFrozen ==
  [][rolledBack /\ pc # "off" /\ pc' # "off"
       => \A p \in Payloads : tree'[p]["current"] = tree[p]["current"]]_vars

(* rollbackDirectoryUpdate leaves a complete tree under the current name.  *)
RollbackRestoresWholeTree == pc = "rb_sweep" => Whole(item, "current")

(* An update is a transaction: see AtomicUpdate.  What a payload is when    *)
(* every unconfirmed update is undone is the replaced tree, wherever       *)
(* publishDirectoryUpdate or rollbackDirectoryUpdate has it by now.        *)
Content(t) == IF t = NoTree THEN NoTree ELSE [rel |-> t.rel, body |-> t.body]
Stable     == [p \in Payloads |-> Content(IF base[p] # NoTree THEN base[p] ELSE tree[p]["current"])]
Trial      == {p \in Payloads : base[p] # NoTree}
Phase ==
  CASE pc = "off" -> "off"
    [] pc \in {"boot", "ct_remove", "ct_clean"} -> "running"
    [] pc = "gpu_clean" -> "retrying"
    [] pc \in {"rb_clear", "rb_aside", "rb_restore", "rb_sweep"} ->
         IF caller = "session" THEN "retrying" ELSE "recovering"
    [] pc \in {"recover", "rb_clean", "pin"} -> "recovering"
    [] OTHER -> "updating"

AtomicUpdate == INSTANCE AtomicUpdate WITH
  Complete <- {c \in Contents : c.body = "whole"},
  None     <- NoTree,
  stable   <- Stable,
  trial    <- Trial,
  remains  <- {p \in Payloads : leftover[p]},
  phase    <- Phase,
  running  <- [p \in Payloads |-> Content(tree[p]["current"])]

Promise == AtomicUpdate!Spec

(* Every journaled update is eventually confirmed or undone. *)
PendingSettles == journal # NoJournal ~> journal = NoJournal

(* No mix of faults leaves an installation that can no longer boot: some   *)
(* later launch always reaches the session again.                          *)
AlwaysBootsAgain == []<>(pc = "boot")

=============================================================================
