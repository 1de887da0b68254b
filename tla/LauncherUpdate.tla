--------------------------- MODULE LauncherUpdate ---------------------------
(***************************************************************************)
(* The self-update of the launcher executable: app/update_windows.go,      *)
(* app/update_state.go and app/launcher_files.go with their callers in     *)
(* app/main.go.                                                            *)
(*                                                                         *)
(* The executable everybody starts is TryOmarchy.exe in the data folder    *)
(* (target).  A launcher that finds a newer release stages it, writes the  *)
(* marker update-state.json, starts the staged executable as a helper and  *)
(* exits.  The helper copies target to TryOmarchy.previous.exe, marks that *)
(* it did, copies itself over target and starts target.  The new launcher  *)
(* ticks the marker on its first start; a ready guest clears it; a second  *)
(* start with a ticked marker starts previous as a rollback helper, which  *)
(* copies itself over target and clears the marker.                        *)
(*                                                                         *)
(* At most one launcher runs (it owns the lifecycle port); helpers do not  *)
(* take the port, so the user may start a launcher while one works.        *)
(* Windows refuses to replace or delete the file of a running executable.  *)
(***************************************************************************)
EXTENDS Naturals

CONSTANTS
  MaxVersion,   \* bound on the releases published: 1 .. MaxVersion
  Helpers,      \* helper processes that may be alive at once
  Downloads,    \* versions kept outside the data folder
  Prompt,       \* nobody waits updateCheckInterval with an update unconfirmed
  Habits,       \* how users start launchers, see habit
  None,         \* no file, no marker, no process
  MaxFaults     \* bound on process deaths and failed file operations

Versions == 1 .. MaxVersion
Marker   == [version: Versions, started: BOOLEAN, hasPrevious: BOOLEAN]
Images   == {"target", "download"}
Main     == [ver: Versions, img: Images, next: Versions \cup {None},
             pc: {"recover", "check", "spawn", "refresh", "boot", "clear", "up"}]
Helper   == [ver: Versions, kind: {"apply"}, state: Marker \cup {None},
             pc: {"read", "backup", "mark", "copy", "undo", "unmark", "start"}]
            \cup
            [ver: Versions, kind: {"rollback"}, state: {None}, pc: {"copy", "clear", "start"}]

ASSUME LauncherAssumption ==
  /\ MaxVersion \in Nat \ {0}
  /\ Downloads \subseteq Versions
  /\ Prompt \in BOOLEAN /\ Habits \subseteq {"hasty", "downloads"}
  /\ None \notin Versions /\ None \notin Marker /\ None \notin Main /\ None \notin Helper
  /\ MaxFaults \in Nat

VARIABLES
  target,    \* the version in TryOmarchy.exe
  previous,  \* the version in updates/TryOmarchy.previous.exe
  marker,    \* update-state.json
  main,      \* the launcher that owns the lifecycle port
  helper,    \* the update and rollback helpers
  latest,    \* the newest signed release
  due,       \* updateCheckDue: four hours since the last check
  proven,    \* history: versions whose guest got ready while they were target
  habit,     \* the user of this installation opens the installed launcher even
             \* while a helper works (hasty), or waits for helpers but opens
             \* downloaded launchers too (downloads)
  unread,    \* history: versions whose marker a launcher could not read
  faults

vars == <<target, previous, marker, main, helper, latest, due, proven, habit, unread, faults>>
files == <<target, previous, marker>>

TypeOK ==
  /\ target \in Versions \cup {None}
  /\ previous \in Versions \cup {None}
  /\ marker \in Marker \cup {None}
  /\ main \in Main \cup {None}
  /\ helper \in [Helpers -> Helper \cup {None}]
  /\ latest \in Versions
  /\ due \in BOOLEAN
  /\ proven \subseteq Versions
  /\ habit \in Habits
  /\ unread \subseteq Versions
  /\ faults \in 0 .. MaxFaults

(* An installation that works, or a first start from a download.           *)
Init ==
  /\ habit \in Habits
  /\ target \in {1} \cup (IF habit = "downloads" THEN {None} ELSE {})
  /\ proven = IF target = None THEN {} ELSE {1}
  /\ previous = None
  /\ marker = None
  /\ main = None
  /\ helper = [h \in Helpers |-> None]
  /\ latest = 1
  /\ due = TRUE
  /\ unread = {}
  /\ faults = 0

Fault  == faults < MaxFaults /\ faults' = faults + 1
Smooth == UNCHANGED faults

At(p)    == main # None /\ main.pc = p
Goto(p)  == main' = [main EXCEPT !.pc = p]
HelperAt(h, kinds, p) == helper[h] # None /\ helper[h].kind \in kinds /\ helper[h].pc = p
HelperGoto(h, p)      == helper' = [helper EXCEPT ![h].pc = p]
HelperExit(h)         == helper' = [helper EXCEPT ![h] = None]
Idle == \A h \in Helpers : helper[h] = None

(* Running executables are locked. *)
TargetLocked   == main # None /\ main.img = "target"
PreviousLocked == \E h \in Helpers : helper[h] # None /\ helper[h].kind = "rollback"

Unconfirmed == target # None /\ target \notin proven

-----------------------------------------------------------------------------
(* The world. *)

Release ==
  /\ latest < MaxVersion
  /\ latest' = latest + 1
  /\ UNCHANGED <<habit, unread, files, main, helper, due, proven, faults>>

(* updateCheckInterval goes by, between launches or during a session.      *)
TimePasses ==
  /\ Idle
  /\ main = None \/ At("boot") \/ At("up")
  /\ Prompt => ~Unconfirmed
  /\ due' = TRUE
  /\ UNCHANGED <<habit, unread, files, main, helper, latest, proven, faults>>

Started(v, img) == [ver |-> v, img |-> img, next |-> None, pc |-> "recover"]

(* The user opens the installed launcher ... *)
LaunchInstalled ==
  /\ main = None
  /\ habit = "hasty" \/ Idle
  /\ target # None
  /\ main' = Started(target, "target")
  /\ UNCHANGED <<habit, unread, files, helper, latest, due, proven, faults>>

(* ... or one kept outside the data folder. *)
LaunchDownload(v) ==
  /\ main = None
  /\ habit = "downloads" /\ Idle
  /\ main' = Started(v, "download")
  /\ UNCHANGED <<habit, unread, files, helper, latest, due, proven, faults>>

(* The session ends, or setup fails or is cancelled. *)
Quit ==
  /\ At("check") \/ At("refresh") \/ At("boot") \/ At("up")
  /\ main' = None
  /\ UNCHANGED <<habit, unread, files, helper, latest, due, proven, faults>>

MainDies ==
  /\ main # None
  /\ Fault
  /\ main' = None
  /\ UNCHANGED <<habit, unread, files, helper, latest, due, proven>>

HelperDies(h) ==
  /\ helper[h] # None
  /\ Fault
  /\ HelperExit(h)
  /\ UNCHANGED <<habit, unread, files, main, latest, due, proven>>

-----------------------------------------------------------------------------
(* A launch. *)

Spawn(h, kind, v, pc) ==
  /\ helper[h] = None
  /\ helper' = [helper EXCEPT ![h] = [ver |-> v, kind |-> kind, state |-> None, pc |-> pc]]

(* The marker is about the version of this launcher. *)
Ours == marker # None /\ marker.version = main.ver

\* Mutant: the first start is not recorded.
RecoverNeverTicks ==
  /\ At("recover")
  /\ Ours => ~marker.started
  /\ Goto("check")
  /\ UNCHANGED <<habit, unread, files, helper, latest, due, proven, faults>>

(* recoverLauncherUpdate.  A marker that cannot be read, or that does not   *)
(* validate, is removed with the backup, whichever version it is about and  *)
(* whether or not that is confirmed.  Errors of the removal are ignored,    *)
(* the launch goes on.                                                      *)
RecoverUnreadable ==
  /\ At("recover") /\ marker # None
  /\ Fault
  /\ \/ /\ marker' = None /\ unread' = unread \cup {marker.version}
        /\ previous' \in {previous, IF PreviousLocked THEN previous ELSE None}
     \/ UNCHANGED <<marker, previous, unread>>
  /\ Goto("check")
  /\ UNCHANGED <<habit, target, helper, latest, due, proven>>

(* A marker that is read: nothing of ours, or a first start to tick.       *)
RecoverPass ==
  /\ At("recover")
  /\ \/ /\ ~Ours
        /\ Smooth /\ UNCHANGED <<marker, previous>>
     \/ /\ Ours /\ ~marker.started
        /\ UNCHANGED previous
        /\ \/ marker' = [marker EXCEPT !.started = TRUE] /\ Smooth
           \/ UNCHANGED marker /\ Fault
     \/ /\ Ours /\ marker.started /\ ~marker.hasPrevious
        /\ \/ /\ marker' = None /\ Smooth
              /\ previous' = IF PreviousLocked THEN previous ELSE None
           \/ marker' \in {marker, None} /\ UNCHANGED previous /\ Fault
  /\ Goto("check")
  /\ UNCHANGED <<habit, unread, target, helper, latest, due, proven>>

(* ... or a second start without a ready guest in between: roll back.  The *)
(* helper waits for this process, which exits at once.                     *)
RecoverRollback ==
  /\ At("recover")
  /\ Ours /\ marker.started /\ marker.hasPrevious
  /\ \/ /\ previous # None
        /\ \E h \in Helpers : Spawn(h, "rollback", previous, "copy")
        /\ main' = None
        /\ Smooth
     \/ /\ (previous = None /\ Smooth) \/ Fault
        /\ Goto("check") /\ UNCHANGED helper
  /\ UNCHANGED <<habit, unread, files, latest, due, proven>>

(* No check is due, none succeeds, or nothing newer is signed. *)
NoUpdate ==
  /\ At("check")
  /\ \/ ~due /\ Smooth
     \/ due /\ latest <= main.ver /\ Smooth
     \/ due /\ latest > main.ver /\ Fault
  /\ due' = FALSE
  /\ Goto("refresh")
  /\ UNCHANGED <<habit, unread, files, helper, latest, proven>>

(* maybeStartLauncherUpdate: staged and verified, then the marker. *)
MarkUpdate ==
  /\ At("check") /\ due /\ latest > main.ver
  /\ due' = FALSE
  /\ marker' = [version |-> latest, started |-> FALSE, hasPrevious |-> FALSE]
  /\ main' = [main EXCEPT !.next = latest, !.pc = "spawn"]
  /\ UNCHANGED <<habit, unread, target, previous, helper, latest, proven, faults>>

(* The staged executable starts as a helper; this process exits. *)
SpawnUpdate ==
  /\ At("spawn")
  /\ \/ /\ \E h \in Helpers : Spawn(h, "apply", main.next, "read")
        /\ main' = None
        /\ Smooth
     \/ Goto("refresh") /\ Fault /\ UNCHANGED helper
  /\ UNCHANGED <<habit, unread, files, latest, due, proven>>

\* Mutant: the update is confirmed when the window opens, not by the guest.
RefreshCommits ==
  /\ At("refresh") /\ main.img = "target"
  /\ Goto("boot")
  /\ IF Ours THEN marker' = None /\ previous' = None ELSE UNCHANGED <<marker, previous>>
  /\ UNCHANGED <<habit, unread, target, helper, latest, due, proven, faults>>

(* offerLauncherShortcuts: every launch from elsewhere becomes the stable  *)
(* launcher before it boots; its errors are only logged.                   *)
Refresh ==
  /\ At("refresh")
  /\ \/ main.img = "target" /\ UNCHANGED target /\ Smooth
     \/ main.img = "download" /\ target' = main.ver /\ Smooth
     \/ main.img = "download" /\ UNCHANGED target /\ Fault
  /\ Goto("boot")
  /\ UNCHANGED <<habit, unread, previous, marker, helper, latest, due, proven>>

(* commitLauncherUpdate, once the guest announced itself ready. *)
GuestReady ==
  /\ At("boot")
  /\ proven' = IF target = main.ver THEN proven \cup {main.ver} ELSE proven
  /\ IF Ours
     THEN \/ marker' = None /\ Goto("clear") /\ Smooth
          \/ UNCHANGED marker /\ Goto("up") /\ Fault
     ELSE UNCHANGED marker /\ Goto("up") /\ Smooth
  /\ UNCHANGED <<habit, unread, target, previous, helper, latest, due>>

ClearPrevious ==
  /\ At("clear")
  /\ \/ previous' = (IF PreviousLocked THEN previous ELSE None) /\ Smooth
     \/ UNCHANGED previous /\ Fault
  /\ Goto("up")
  /\ UNCHANGED <<habit, unread, target, marker, helper, latest, due, proven>>

-----------------------------------------------------------------------------
(* applyLauncherUpdate, the update helper.                                 *)

(* The marker is about the version this helper installs.                   *)
Pending(h) == marker # None /\ marker.version = helper[h].ver

(* A marker that cannot be read, or is gone or another's, ends the helper. *)
ApplyRead(h) ==
  /\ HelperAt(h, {"apply"}, "read")
  /\ \/ /\ Pending(h)
        /\ helper' = [helper EXCEPT ![h].state = marker,
                                    ![h].pc = IF target = None THEN "mark" ELSE "backup"]
        /\ Smooth
     \/ ~Pending(h) /\ HelperExit(h) /\ Smooth
     \/ HelperExit(h) /\ Fault
  /\ UNCHANGED <<habit, unread, files, main, latest, due, proven>>

ApplyBackup(h) ==
  /\ HelperAt(h, {"apply"}, "backup")
  /\ \/ /\ ~PreviousLocked /\ Smooth
        /\ previous' = target
        /\ helper' = [helper EXCEPT ![h].state.hasPrevious = TRUE, ![h].pc = "mark"]
     \/ /\ (PreviousLocked /\ Smooth) \/ Fault
        /\ HelperExit(h) /\ UNCHANGED previous
  /\ UNCHANGED <<habit, unread, target, marker, main, latest, due, proven>>

\* Mutant: the marker is not told that there is a backup.
MarkForgetsBackup(h) ==
  /\ HelperAt(h, {"apply"}, "mark")
  /\ marker' = [helper[h].state EXCEPT !.hasPrevious = FALSE]
  /\ HelperGoto(h, "copy")
  /\ UNCHANGED <<habit, unread, target, previous, main, latest, due, proven, faults>>

(* Commit the rollback marker before replacing the working launcher. *)
ApplyMark(h) ==
  /\ HelperAt(h, {"apply"}, "mark")
  /\ \/ marker' = helper[h].state /\ HelperGoto(h, "copy") /\ Smooth
     \/ UNCHANGED marker /\ HelperExit(h) /\ Fault
  /\ UNCHANGED <<habit, unread, target, previous, main, latest, due, proven>>

ApplyCopy(h) ==
  /\ HelperAt(h, {"apply"}, "copy")
  /\ \/ ~TargetLocked /\ target' = helper[h].ver /\ HelperGoto(h, "start") /\ Smooth
     \/ /\ (TargetLocked /\ Smooth) \/ Fault
        /\ HelperGoto(h, "undo") /\ UNCHANGED target
  /\ UNCHANGED <<habit, unread, previous, marker, main, latest, due, proven>>

(* The previous launcher is copied back, errors ignored, ... *)
PutBack == IF previous = None \/ TargetLocked THEN UNCHANGED target ELSE target' = previous

ApplyUndo(h) ==
  /\ HelperAt(h, {"apply"}, "undo")
  /\ \/ helper[h].state.hasPrevious /\ PutBack /\ Smooth
     \/ ~helper[h].state.hasPrevious /\ UNCHANGED target /\ Smooth
     \/ UNCHANGED target /\ Fault
  /\ HelperGoto(h, "unmark")
  /\ UNCHANGED <<habit, unread, previous, marker, main, latest, due, proven>>

(* ... and the marker is removed, errors ignored. *)
ApplyUnmark(h) ==
  /\ HelperAt(h, {"apply"}, "unmark")
  /\ (marker' = None /\ Smooth) \/ (UNCHANGED marker /\ Fault)
  /\ HelperExit(h)
  /\ UNCHANGED <<habit, unread, target, previous, main, latest, due, proven>>

(* The rollback helper: previous over target, then the marker goes. *)
RollbackCopy(h) ==
  /\ HelperAt(h, {"rollback"}, "copy")
  /\ \/ ~TargetLocked /\ target' = helper[h].ver /\ HelperGoto(h, "clear") /\ Smooth
     \/ /\ (TargetLocked /\ Smooth) \/ Fault
        /\ HelperExit(h) /\ UNCHANGED target
  /\ UNCHANGED <<habit, unread, previous, marker, main, latest, due, proven>>

RollbackClear(h) ==
  /\ HelperAt(h, {"rollback"}, "clear")
  /\ \/ marker' = None /\ HelperGoto(h, "start") /\ Smooth
     \/ UNCHANGED marker /\ HelperExit(h) /\ Fault
  /\ UNCHANGED <<habit, unread, target, previous, main, latest, due, proven>>

(* Both helpers start target; a launcher that finds the lifecycle port     *)
(* taken ends at once.  An update that cannot be started is put back.      *)
StartTarget(h) ==
  /\ HelperAt(h, {"apply", "rollback"}, "start")
  /\ HelperExit(h)
  /\ \/ /\ main' = IF main = None THEN Started(target, "target") ELSE main
        /\ UNCHANGED target /\ Smooth
     \/ /\ Fault /\ UNCHANGED main
        /\ (helper[h].kind = "apply" /\ PutBack) \/ UNCHANGED target
  /\ UNCHANGED <<habit, unread, previous, marker, latest, due, proven>>

-----------------------------------------------------------------------------
MainStep == \/ RecoverUnreadable \/ RecoverPass \/ RecoverRollback \/ NoUpdate
            \/ MarkUpdate \/ SpawnUpdate \/ Refresh \/ ClearPrevious

HelperStep(h) == \/ ApplyRead(h) \/ ApplyBackup(h) \/ ApplyMark(h) \/ ApplyCopy(h)
                 \/ ApplyUndo(h) \/ ApplyUnmark(h) \/ RollbackCopy(h) \/ RollbackClear(h)
                 \/ StartTarget(h)

Next == \/ Release \/ TimePasses
        \/ LaunchInstalled \/ (\E v \in Downloads : LaunchDownload(v))
        \/ Quit \/ MainDies \/ MainStep \/ GuestReady
        \/ \E h \in Helpers : HelperStep(h) \/ HelperDies(h)

Spec == Init /\ [][Next]_vars

(* Processes run, a session ends some day and the user opens the installed *)
(* launcher again and again, whatever else is opened in between; whether   *)
(* the guest ever gets ready is left open.                                 *)
FairSpec == /\ Spec
            /\ WF_vars(MainStep)
            /\ WF_vars(Quit)
            /\ SF_vars(LaunchInstalled)
            /\ \A h \in Helpers : WF_vars(HelperStep(h))

-----------------------------------------------------------------------------
(* Properties. *)

(* README.md: the previous launcher remains available until the updated VM *)
(* reaches a healthy boot.  Some executable that is known to work is       *)
(* installed, as target or as its backup, unless the user replaces it with *)
(* a download.  The code keeps this only where recoverLauncherUpdate never  *)
(* fails to read the marker of an update (LauncherUpdateUnreadable.cfg).    *)
SomeLauncherWorks == habit = "hasty" /\ proven # {} => {target, previous} \cap proven # {}

(* ... which is the only exception: of an installed version whose marker    *)
(* every launcher could read, the last good launcher is kept.              *)
LastGoodKept == target \notin unread => SomeLauncherWorks

(* "A power loss after the replacement must still leave enough information *)
(* for the new launcher to restore the previous signed executable": from   *)
(* the replacement to the confirmation the marker names the new version    *)
(* and its backup, and the backup works, unless a launcher could not read  *)
(* the marker of that version and removed it.                              *)
ReplacementIsRevertible ==
  habit = "hasty" /\ Unconfirmed /\ proven # {} /\ target \notin unread =>
    marker # None /\ marker.version = target /\ marker.hasPrevious /\ previous \in proven

(* Version v is installed and unconfirmed, and the marker covers it. *)
Covered(v) ==
  Unconfirmed /\ target = v /\ marker # None /\ marker.version = v /\ marker.hasPrevious

(* "If the first boot fails or is interrupted, the next launch restores    *)
(* the previous files": an update the marker covers is confirmed by a      *)
(* ready guest or does not stay installed, unless its marker could not be  *)
(* read once: then nothing remembers the update or holds its backup.       *)
BrokenUpdateIsReplaced ==
  \A v \in Versions :
    habit = "downloads" /\ Covered(v) ~> target # v \/ v \in proven \/ v \in unread

=============================================================================
