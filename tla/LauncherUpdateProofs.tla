------------------------ MODULE LauncherUpdateProofs ------------------------
(***************************************************************************)
(* Whatever is interrupted, and however often the user opens the installed *)
(* launcher in between, LauncherUpdate keeps an executable that is known   *)
(* to work and the marker that leads back to it: for every number of       *)
(* releases, helpers and failures, as long as no update check comes due    *)
(* while an update is unconfirmed.  The code's own exception is a marker   *)
(* that cannot be read: what is lost with it is lost for that version and  *)
(* no other.                                                               *)
(***************************************************************************)
EXTENDS LauncherUpdate, TLAPS

Applying(h) == helper[h] # None /\ helper[h].kind = "apply"
Rolling(h)  == helper[h] # None /\ helper[h].kind = "rollback"

(* An update to version v is under way and not yet installed: nothing else *)
(* comes due, what is installed works and is older, and the marker is      *)
(* about v, if a rollback helper has not removed it.                       *)
Updating(v) ==
  /\ ~due /\ ~Unconfirmed /\ target < v /\ ~At("clear")
  /\ marker # None => marker.version = v

(* The files of an installation nobody replaces by a download.  What leads  *)
(* back is there unless the marker of that version could not be read.      *)
Files ==
  /\ target # None
  /\ previous # None => previous \in proven /\ previous <= target
  /\ Unconfirmed => ~due
  /\ Unconfirmed /\ target \notin unread =>
       previous # None /\ marker # None /\ marker.version = target /\ marker.hasPrevious

(* A launcher that runs keeps its file from being replaced.                *)
Launcher ==
  /\ main # None => main.img = "target" /\ main.ver = target
  /\ At("clear") => ~Unconfirmed
  /\ At("spawn") => main.next # None /\ Updating(main.next)

(* A rollback helper keeps the backup from being replaced.                 *)
Rollback == \A h \in Helpers :
  Rolling(h) => helper[h].ver = previous /\ (helper[h].pc = "clear" => ~Unconfirmed)

(* The one update helper there is at a time.  Past its backup there is no  *)
(* rollback helper, and none can come before the new launcher is there.    *)
Update == \A h \in Helpers : Applying(h) =>
  /\ ~due /\ ~At("spawn") /\ \A g \in Helpers : Applying(g) => g = h
  /\ helper[h].pc # "start" => Updating(helper[h].ver)
  /\ helper[h].pc \in {"backup", "mark", "copy"} =>
       helper[h].state # None /\ helper[h].state.version = helper[h].ver
  /\ helper[h].pc \in {"mark", "copy"} =>
       helper[h].state.hasPrevious /\ \A g \in Helpers : ~Rolling(g)
  /\ helper[h].ver \notin unread =>
       /\ helper[h].pc \in {"mark", "copy"} => previous # None
       /\ helper[h].pc = "copy" => marker = helper[h].state

Sound == habit = "hasty" => Files /\ Launcher /\ Rollback /\ Update

(* What the types leave open: an update is of something, a helper that     *)
(* makes a backup has read the marker, and one that starts the target has  *)
(* put something there.                                                    *)
Named ==
  /\ At("spawn") => main.next # None
  /\ \A h \in Helpers : Applying(h) /\ helper[h].pc = "backup" => helper[h].state # None
  /\ \A h \in Helpers : helper[h] # None /\ helper[h].pc \in {"clear", "start"} => target # None

Typed == TypeOK /\ Named

-----------------------------------------------------------------------------
(* The fields of markers, launchers and helpers, and of what becomes of    *)
(* them.                                                                   *)
LEMMA MarkerFields ==
  ASSUME NEW m \in Marker
  PROVE  /\ m.version \in Versions /\ m.started \in BOOLEAN /\ m.hasPrevious \in BOOLEAN
         /\ \A b : [m EXCEPT !.started = b] = [version |-> m.version, started |-> b, hasPrevious |-> m.hasPrevious]
         /\ \A b : [m EXCEPT !.hasPrevious = b] = [version |-> m.version, started |-> m.started, hasPrevious |-> b]
         /\ m # None
<1>1. m \in [version: Versions, started: BOOLEAN, hasPrevious: BOOLEAN]
  BY DEF Marker
<1>2. m # None
  BY LauncherAssumption
<1> QED
  BY <1>1, <1>2

(* The fields of a launcher, and the same launcher at another step.        *)
LEMMA MainFields ==
  ASSUME NEW m \in Main
  PROVE  /\ m.ver \in Versions /\ m.img \in Images /\ m.next \in Versions \cup {None}
         /\ m.pc \in {"recover", "check", "spawn", "refresh", "boot", "clear", "up"}
         /\ \A p : [m EXCEPT !.pc = p] = [ver |-> m.ver, img |-> m.img, next |-> m.next, pc |-> p]
         /\ m # None
BY LauncherAssumption DEF Main

HelperPcs(kind) == IF kind = "apply" THEN {"read", "backup", "mark", "copy", "undo", "unmark", "start"}
                   ELSE {"copy", "clear", "start"}

(* The fields of a helper, and the same helper at another step or with     *)
(* another marker.                                                         *)
LEMMA HelperFields ==
  ASSUME NEW r \in Helper
  PROVE  /\ r.ver \in Versions /\ r.kind \in {"apply", "rollback"} /\ r.state \in Marker \cup {None}
         /\ r.pc \in HelperPcs(r.kind) /\ (r.kind = "rollback" => r.state = None)
         /\ \A p : [r EXCEPT !.pc = p] = [ver |-> r.ver, kind |-> r.kind, state |-> r.state, pc |-> p]
         /\ \A s : [r EXCEPT !.state = s] = [ver |-> r.ver, kind |-> r.kind, state |-> s, pc |-> r.pc]
         /\ r # None
BY LauncherAssumption DEF Helper, HelperPcs

(* A helper that reads the marker and goes on in one step.                 *)
LEMMA TwoFields ==
  ASSUME NEW r \in Helper, NEW s, NEW p
  PROVE  [[r EXCEPT !.state = s] EXCEPT !.pc = p] = [ver |-> r.ver, kind |-> r.kind, state |-> s, pc |-> p]
<1>1. [r EXCEPT !.state = s] = [ver |-> r.ver, kind |-> r.kind, state |-> s, pc |-> r.pc]
  BY HelperFields
<1>2. [[r EXCEPT !.state = s] EXCEPT !.pc = p]
        = [[ver |-> r.ver, kind |-> r.kind, state |-> s, pc |-> r.pc] EXCEPT !.pc = p]
  BY <1>1
<1> QED
  BY <1>2

(* What makes a helper.                                                    *)
LEMMA HelperMade ==
  ASSUME NEW v \in Versions, NEW k \in {"apply", "rollback"}, NEW s \in Marker \cup {None}, NEW p \in HelperPcs(k),
         k = "rollback" => s = None
  PROVE  [ver |-> v, kind |-> k, state |-> s, pc |-> p] \in Helper
BY DEF Helper, HelperPcs

(* What one helper does leaves the others as they were.                    *)
LEMMA HelperMoves ==
  ASSUME TypeOK, NEW h \in Helpers, helper[h] # None, NEW p \in HelperPcs(helper[h].kind), HelperGoto(h, p)
  PROVE  /\ helper' \in [Helpers -> Helper \cup {None}]
         /\ \A g \in Helpers : g # h => helper'[g] = helper[g]
         /\ helper'[h] # None /\ helper'[h].ver = helper[h].ver /\ helper'[h].kind = helper[h].kind
         /\ helper'[h].state = helper[h].state /\ helper'[h].pc = p
<1>1. helper[h] \in Helper
  BY DEF TypeOK
<1>2. [helper[h] EXCEPT !.pc = p]
        = [ver |-> helper[h].ver, kind |-> helper[h].kind, state |-> helper[h].state, pc |-> p]
  BY <1>1, HelperFields
<1>3. [helper[h] EXCEPT !.pc = p] \in Helper
  <2>1. /\ helper[h].ver \in Versions /\ helper[h].kind \in {"apply", "rollback"}
        /\ helper[h].state \in Marker \cup {None} /\ (helper[h].kind = "rollback" => helper[h].state = None)
    BY <1>1, HelperFields
  <2> QED
    BY <1>2, <2>1, HelperMade
<1>4. helper' = [helper EXCEPT ![h] = [helper[h] EXCEPT !.pc = p]]
  BY DEF HelperGoto
<1> QED
  BY <1>2, <1>3, <1>4, LauncherAssumption DEF TypeOK

(* A helper that exits.                                                    *)
LEMMA HelperGoes ==
  ASSUME TypeOK, NEW h \in Helpers, HelperExit(h)
  PROVE  /\ helper' \in [Helpers -> Helper \cup {None}] /\ helper'[h] = None
         /\ \A g \in Helpers : g # h => helper'[g] = helper[g]
BY DEF TypeOK, HelperExit

(* A helper that is spawned.                                               *)
LEMMA HelperComes ==
  ASSUME TypeOK, NEW h \in Helpers, NEW k \in {"apply", "rollback"}, NEW v \in Versions,
         NEW p \in HelperPcs(k), Spawn(h, k, v, p)
  PROVE  /\ helper' \in [Helpers -> Helper \cup {None}] /\ helper[h] = None /\ helper'[h] # None
         /\ helper'[h].ver = v /\ helper'[h].kind = k /\ helper'[h].pc = p
         /\ \A g \in Helpers : g # h => helper'[g] = helper[g]
<1>1. [ver |-> v, kind |-> k, state |-> None, pc |-> p] \in Helper
  BY HelperMade
<1> QED
  BY <1>1, LauncherAssumption DEF TypeOK, Spawn

(* A launcher that goes on to another step.                                *)
LEMMA MainMoves ==
  ASSUME TypeOK, main # None, NEW p \in {"recover", "check", "spawn", "refresh", "boot", "clear", "up"}, Goto(p)
  PROVE  /\ main' \in Main /\ main' # None
         /\ main' = [ver |-> main.ver, img |-> main.img, next |-> main.next, pc |-> p]
<1>1. main \in Main
  BY DEF TypeOK
<1>2. main' = [ver |-> main.ver, img |-> main.img, next |-> main.next, pc |-> p]
  BY <1>1, MainFields DEF Goto
<1>3. main' \in Main
  BY <1>1, <1>2, MainFields DEF Main
<1> QED
  BY <1>2, <1>3, MainFields

(* What the update helper reads and adds to its copy of the marker.        *)
LEMMA HelperReads ==
  ASSUME TypeOK, NEW h \in Helpers, HelperAt(h, {"apply"}, "read"),
         helper' = [helper EXCEPT ![h].state = marker, ![h].pc = IF target = None THEN "mark" ELSE "backup"], Pending(h)
  PROVE  /\ helper' \in [Helpers -> Helper \cup {None}] /\ helper'[h] # None
         /\ helper'[h].ver = helper[h].ver /\ helper'[h].kind = "apply" /\ helper'[h].state = marker
         /\ helper'[h].pc = IF target = None THEN "mark" ELSE "backup"
         /\ \A g \in Helpers : g # h => helper'[g] = helper[g]
<1> DEFINE p == IF target = None THEN "mark" ELSE "backup"
           r == [ver |-> helper[h].ver, kind |-> "apply", state |-> marker, pc |-> p]
<1>1. helper[h] \in Helper /\ helper[h].kind = "apply" /\ marker \in Marker
  BY DEF TypeOK, HelperAt, Pending
<1>2. r \in Helper
  BY <1>1, HelperFields, HelperMade DEF HelperPcs
<1>4. helper' = [helper EXCEPT ![h] = [[helper[h] EXCEPT !.state = marker] EXCEPT !.pc = p]]
  OBVIOUS
<1>5. [[helper[h] EXCEPT !.state = marker] EXCEPT !.pc = p] = r
  <2>1. [[helper[h] EXCEPT !.state = marker] EXCEPT !.pc = p]
          = [ver |-> helper[h].ver, kind |-> helper[h].kind, state |-> marker, pc |-> p]
    BY <1>1, TwoFields
  <2> QED
    BY <1>1, <2>1
<1>6. helper' = [helper EXCEPT ![h] = r]
  BY <1>4, <1>5
<1>7. r.ver = helper[h].ver /\ r.kind = "apply" /\ r.pc = p /\ r.state = marker /\ r # None
  BY <1>2, HelperFields
<1> HIDE DEF r, p
<1>8. /\ helper' \in [Helpers -> Helper \cup {None}] /\ helper'[h] = r
      /\ \A g \in Helpers : g # h => helper'[g] = helper[g]
  BY <1>2, <1>6 DEF TypeOK
<1> QED
  BY <1>7, <1>8 DEF p

(* A helper that has backed the launcher up notes so in its copy of the    *)
(* marker.                                                                 *)
LEMMA HelperBacksUp ==
  ASSUME TypeOK, NEW h \in Helpers, helper[h] # None, helper[h].kind = "apply", helper[h].state # None,
         helper' = [helper EXCEPT ![h].state.hasPrevious = TRUE, ![h].pc = "mark"]
  PROVE  /\ helper' \in [Helpers -> Helper \cup {None}] /\ helper'[h] # None
         /\ helper'[h].ver = helper[h].ver /\ helper'[h].kind = "apply" /\ helper'[h].pc = "mark"
         /\ helper'[h].state # None /\ helper'[h].state.version = helper[h].state.version
         /\ helper'[h].state.hasPrevious
         /\ \A g \in Helpers : g # h => helper'[g] = helper[g]
<1> DEFINE s == [helper[h].state EXCEPT !.hasPrevious = TRUE]
           r == [ver |-> helper[h].ver, kind |-> "apply", state |-> s, pc |-> "mark"]
<1>1. helper[h] \in Helper /\ helper[h].state \in Marker
  BY HelperFields DEF TypeOK
<1>2. s = [version |-> helper[h].state.version, started |-> helper[h].state.started, hasPrevious |-> TRUE]
  BY <1>1, MarkerFields
<1>3. s \in Marker /\ s # None /\ s.version = helper[h].state.version /\ s.hasPrevious
  <2>1. s \in Marker /\ s.version = helper[h].state.version /\ s.hasPrevious
    BY <1>1, <1>2, MarkerFields DEF Marker
  <2> QED
    BY <2>1, MarkerFields
<1>4. r \in Helper
  <2>1. helper[h].ver \in Versions /\ "mark" \in HelperPcs("apply")
    BY <1>1, HelperFields DEF HelperPcs
  <2> HIDE DEF s
  <2> QED
    BY <1>3, <2>1, HelperMade
<1>5. helper' = [helper EXCEPT ![h] = [[helper[h] EXCEPT !.state = s] EXCEPT !.pc = "mark"]]
  OBVIOUS
<1>6. [[helper[h] EXCEPT !.state = s] EXCEPT !.pc = "mark"] = r
  <2>1. [[helper[h] EXCEPT !.state = s] EXCEPT !.pc = "mark"]
          = [ver |-> helper[h].ver, kind |-> helper[h].kind, state |-> s, pc |-> "mark"]
    <3> HIDE DEF s
    <3> QED
      BY <1>1, TwoFields
  <2> QED
    BY <2>1
<1>7. helper' = [helper EXCEPT ![h] = r]
  BY <1>5, <1>6
<1> HIDE DEF s
<1>8. r.ver = helper[h].ver /\ r.kind = "apply" /\ r.pc = "mark" /\ r.state = s /\ r # None
  BY <1>4, HelperFields
<1> HIDE DEF r
<1> QED
  BY <1>3, <1>4, <1>7, <1>8 DEF TypeOK

-----------------------------------------------------------------------------
(* The launcher's records and what becomes of them, in one piece: who is   *)
(* running after a step, and why.                                          *)
MainOK == main \in Main \cup {None} /\ (At("spawn") => main.next # None)
HelpersOK ==
  /\ helper \in [Helpers -> Helper \cup {None}]
  /\ \A h \in Helpers : Applying(h) /\ helper[h].pc = "backup" => helper[h].state # None
Placed == \A h \in Helpers : helper[h] # None /\ helper[h].pc \in {"clear", "start"} => target # None

(* The constants, and the count of the failures.                           *)
LEMMA Numbers ==
  /\ 1 \in Versions /\ None \notin Versions /\ Downloads \subseteq Versions
  /\ \A v \in Versions : v < MaxVersion => v + 1 \in Versions
  /\ faults \in 0 .. MaxFaults /\ (Fault \/ Smooth) => faults' \in 0 .. MaxFaults
BY LauncherAssumption DEF Versions, Fault, Smooth

(* The launcher keeps its type.                                            *)
LEMMA MainType ==
  ASSUME Typed
  PROVE  /\ \A p \in {"recover", "check", "refresh", "boot", "clear", "up"} : main # None /\ Goto(p) => MainOK'
         /\ UNCHANGED main \/ main' = None => MainOK'
         /\ \A v \in Versions, img \in Images : main' = Started(v, img) => MainOK'
<1>1. ASSUME NEW p \in {"recover", "check", "refresh", "boot", "clear", "up"}, main # None, Goto(p) PROVE MainOK'
  <2>1. main' \in Main /\ main'.pc = p
    BY <1>1, MainMoves DEF Typed
  <2> QED
    BY <2>1 DEF MainOK, At
<1>2. ASSUME UNCHANGED main \/ main' = None PROVE MainOK'
  BY <1>2 DEF Typed, TypeOK, Named, MainOK, At
<1>3. ASSUME NEW v \in Versions, NEW img \in Images, main' = Started(v, img) PROVE MainOK'
  BY <1>3 DEF Started, MainOK, At, Main
<1> QED
  BY <1>1, <1>2, <1>3

(* The helpers keep theirs, whether one goes on or exits.                  *)
LEMMA HelpersType ==
  ASSUME Typed, NEW h \in Helpers
  PROVE  /\ \A p \in {"mark", "copy", "undo", "unmark", "start", "clear"} :
              helper[h] # None /\ p \in HelperPcs(helper[h].kind) /\ HelperGoto(h, p) => HelpersOK'
         /\ HelperExit(h) \/ UNCHANGED helper => HelpersOK'
<1>1. ASSUME NEW p \in {"mark", "copy", "undo", "unmark", "start", "clear"}, helper[h] # None,
             p \in HelperPcs(helper[h].kind), HelperGoto(h, p)
      PROVE  HelpersOK'
  <2>1. /\ helper' \in [Helpers -> Helper \cup {None}] /\ helper'[h].pc = p
        /\ \A g \in Helpers : g # h => helper'[g] = helper[g]
    BY <1>1, HelperMoves DEF Typed
  <2> QED
    BY <2>1 DEF Typed, Named, HelpersOK, Applying
<1>2. ASSUME HelperExit(h) PROVE HelpersOK'
  BY <1>2, HelperGoes DEF Typed, Named, HelpersOK, Applying
<1>3. ASSUME UNCHANGED helper PROVE HelpersOK'
  BY <1>3 DEF Typed, TypeOK, Named, HelpersOK, Applying
<1> QED
  BY <1>1, <1>2, <1>3

(* Files, numbers and the rest.                                            *)
RestOK ==
  /\ target \in Versions \cup {None} /\ previous \in Versions \cup {None} /\ marker \in Marker \cup {None}
  /\ latest \in Versions /\ due \in BOOLEAN /\ proven \subseteq Versions /\ habit \in Habits
  /\ unread \subseteq Versions
  /\ faults \in 0 .. MaxFaults

(* The types, taken apart.                                                 *)
LEMMA Parts == /\ Typed <=> MainOK /\ HelpersOK /\ Placed /\ RestOK
               /\ Typed' <=> (MainOK /\ HelpersOK /\ Placed /\ RestOK)'
BY DEF Typed, TypeOK, Named, MainOK, HelpersOK, Placed, RestOK

(* Once there is a launcher there always is one.                           *)
LEMMA TargetStays ==
  ASSUME Typed, [Next]_vars
  PROVE  Placed'
<1> USE Numbers
<1>0. MainOK /\ HelpersOK /\ Placed /\ RestOK
  BY Parts
<1>1. target # None => target' # None
  <2>1. \A h \in Helpers : helper[h] # None => helper[h].ver # None
    BY <1>0, HelperFields DEF HelpersOK
  <2>2. main # None => main.ver # None
    BY <1>0, MainFields DEF MainOK
  <2> QED
    BY <2>1, <2>2 DEF Next, Release, TimePasses, LaunchInstalled, LaunchDownload, Quit, MainDies, MainStep, RecoverUnreadable, RecoverPass,
       RecoverRollback, NoUpdate, MarkUpdate, SpawnUpdate, Refresh, ClearPrevious, GuestReady, HelperStep, HelperDies,
       ApplyRead, ApplyBackup, ApplyMark, ApplyCopy, ApplyUndo, ApplyUnmark, RollbackCopy, RollbackClear, StartTarget,
       PutBack, HelperAt, At, files, vars
<1>2. CASE UNCHANGED helper
  BY <1>0, <1>1, <1>2 DEF Placed
<1>3. ASSUME NEW h \in Helpers, HelperExit(h) PROVE Placed'
  BY <1>0, <1>1, <1>3, HelperGoes DEF Placed, Typed
<1>4. ASSUME NEW h \in Helpers, HelperAt(h, {"apply"}, "copy") \/ HelperAt(h, {"rollback"}, "copy"), target' = helper[h].ver
      PROVE  target' # None
  BY <1>0, <1>4, HelperFields DEF HelperAt, HelpersOK
<1>5. ASSUME NEW h \in Helpers, helper[h] # None, NEW p \in HelperPcs(helper[h].kind), HelperGoto(h, p),
             p \in {"clear", "start"} => target' # None
      PROVE  Placed'
  BY <1>0, <1>1, <1>5, HelperMoves DEF Placed, Typed
<1>6. ASSUME NEW h \in Helpers, NEW k \in {"apply", "rollback"}, NEW v \in Versions, NEW p \in {"read", "copy"},
             p \in HelperPcs(k), Spawn(h, k, v, p)
      PROVE  Placed'
  BY <1>0, <1>1, <1>6, HelperComes DEF Placed, Typed
<1>7. CASE RecoverRollback
  BY <1>0, <1>2, <1>6, <1>7 DEF RecoverRollback, HelperPcs, RestOK
<1>8. CASE SpawnUpdate
  <2>1. main.next \in Versions
    BY <1>0, <1>8, MainFields DEF SpawnUpdate, MainOK, At
  <2> QED
    BY <1>2, <1>6, <1>8, <2>1 DEF SpawnUpdate, HelperPcs
<1>9. ASSUME NEW h \in Helpers, HelperDies(h) \/ ApplyUnmark(h) \/ StartTarget(h) PROVE Placed'
  BY <1>3, <1>9 DEF HelperDies, ApplyUnmark, StartTarget
<1>10. ASSUME NEW h \in Helpers, ApplyRead(h) PROVE Placed'
  <2>1. CASE ~HelperExit(h)
    BY <1>0, <1>1, <1>10, <2>1, HelperReads DEF ApplyRead, Typed, Placed
  <2> QED
    BY <1>3, <2>1
<1>11. ASSUME NEW h \in Helpers, ApplyBackup(h) PROVE Placed'
  <2>1. CASE ~HelperExit(h)
    <3>1. helper[h].state # None
      BY <1>0, <1>11 DEF ApplyBackup, HelperAt, HelpersOK, Applying
    <3> QED
      BY <1>0, <1>1, <1>11, <2>1, <3>1, HelperBacksUp DEF ApplyBackup, HelperAt, Typed, Placed
  <2> QED
    BY <1>3, <2>1
<1>12. ASSUME NEW h \in Helpers, ApplyMark(h) \/ ApplyCopy(h) \/ ApplyUndo(h) PROVE Placed'
  BY <1>3, <1>4, <1>5, <1>12 DEF ApplyMark, ApplyCopy, ApplyUndo, HelperAt, HelperPcs
<1>13. ASSUME NEW h \in Helpers, RollbackCopy(h) PROVE Placed'
  BY <1>3, <1>4, <1>5, <1>13 DEF RollbackCopy, HelperAt, HelperPcs
<1>14. ASSUME NEW h \in Helpers, RollbackClear(h) PROVE Placed'
  BY <1>0, <1>1, <1>3, <1>5, <1>14 DEF RollbackClear, HelperAt, HelperPcs, Placed
<1>15. \/ UNCHANGED helper
       \/ RecoverRollback \/ SpawnUpdate
       \/ \E h \in Helpers : HelperStep(h) \/ HelperDies(h)
  BY DEF Next, Release, TimePasses, LaunchInstalled, LaunchDownload, Quit, MainDies, MainStep, RecoverUnreadable, RecoverPass,
     NoUpdate, MarkUpdate, Refresh, ClearPrevious, GuestReady, vars
<1> QED
  BY <1>2, <1>7, <1>8, <1>9, <1>10, <1>11, <1>12, <1>13, <1>14, <1>15 DEF HelperStep

(* Every step keeps the types.                                             *)
LEMMA TypeStep ==
  ASSUME Typed, [Next]_vars
  PROVE  Typed'
<1> USE Numbers
<1>0. MainOK /\ HelpersOK /\ Placed /\ RestOK /\ Placed'
  BY Parts, TargetStays
<1>1. ASSUME UNCHANGED <<target, previous, marker, latest, proven, habit, unread>>, due' \in BOOLEAN,
             Fault \/ Smooth
      PROVE  RestOK'
  BY <1>0, <1>1 DEF RestOK
<1>2. CASE Release
  <2>1. RestOK'
    BY <1>0, <1>2 DEF Release, RestOK, files, Versions, LauncherAssumption
  <2> QED
    BY <1>2, <2>1, <1>0, Parts DEF Release, MainOK, HelpersOK, At, Applying
<1>3. CASE TimePasses
  BY <1>0, <1>1, <1>3, Parts DEF TimePasses, files, Smooth, MainOK, HelpersOK, At, Applying
<1>4. CASE LaunchInstalled
  BY <1>0, <1>1, <1>4, Parts, MainType DEF LaunchInstalled, files, Smooth, HelpersOK, Applying, RestOK, Images
<1>5. ASSUME NEW v \in Downloads, LaunchDownload(v) PROVE Typed'
  BY <1>0, <1>1, <1>5, Parts, MainType DEF LaunchDownload, files, Smooth, HelpersOK, Applying, RestOK, Images
<1>6. CASE Quit \/ MainDies
  BY <1>0, <1>1, <1>6, Parts, MainType DEF Quit, MainDies, files, Smooth, HelpersOK, Applying, RestOK
<1>7. CASE RecoverPass
  <2>1. RestOK'
    BY <1>0, <1>7, MarkerFields DEF RecoverPass, RestOK, Marker, Ours
  <2> QED
    BY <1>0, <1>7, <2>1, Parts, MainType DEF RecoverPass, At, HelpersOK, Applying
<1>24. CASE RecoverUnreadable
  <2>1. RestOK'
    BY <1>0, <1>24, MarkerFields DEF RecoverUnreadable, RestOK
  <2> QED
    BY <1>0, <1>24, <2>1, Parts, MainType DEF RecoverUnreadable, At, HelpersOK, Applying
<1>8. CASE RecoverRollback
  <2>1. ASSUME NEW h \in Helpers, Spawn(h, "rollback", previous, "copy"), previous # None PROVE HelpersOK'
    <3>1. previous \in Versions /\ "copy" \in HelperPcs("rollback")
      BY <1>0, <2>1 DEF RestOK, HelperPcs
    <3> QED
      BY <1>0, <2>1, <3>1, HelperComes DEF Typed, HelpersOK, Applying
  <2>2. HelpersOK'
    BY <1>0, <1>8, <2>1 DEF RecoverRollback, HelpersOK, Applying
  <2> QED
    BY <1>0, <1>1, <1>8, <2>2, Parts, MainType DEF RecoverRollback, At, files, RestOK
<1>9. CASE NoUpdate
  BY <1>0, <1>1, <1>9, Parts, MainType DEF NoUpdate, At, files, HelpersOK, Applying
<1>10. CASE MarkUpdate
  <2>1. RestOK'
    BY <1>0, <1>10 DEF MarkUpdate, RestOK, Marker
  <2>2. MainOK'
    <3>1. main \in Main /\ main # None
      BY <1>0, <1>10 DEF MarkUpdate, At, MainOK
    <3>2. main' = [[main EXCEPT !.next = latest] EXCEPT !.pc = "spawn"]
      BY <1>10 DEF MarkUpdate
    <3>3. main' \in Main /\ main'.next = latest
      BY <1>0, <3>1, <3>2 DEF Main, RestOK
    <3> QED
      BY <1>0, <3>3 DEF MainOK, At, RestOK
  <2> QED
    BY <1>0, <1>10, <2>1, <2>2, Parts DEF MarkUpdate, HelpersOK, Applying
<1>11. CASE SpawnUpdate
  <2>1. ASSUME NEW h \in Helpers, Spawn(h, "apply", main.next, "read") PROVE HelpersOK'
    <3>1. main.next \in Versions /\ "read" \in HelperPcs("apply")
      BY <1>0, <1>11, MainFields DEF SpawnUpdate, MainOK, At, HelperPcs
    <3> QED
      BY <1>0, <2>1, <3>1, HelperComes DEF Typed, HelpersOK, Applying
  <2>2. HelpersOK'
    BY <1>0, <1>11, <2>1 DEF SpawnUpdate, HelpersOK, Applying
  <2> QED
    BY <1>0, <1>1, <1>11, <2>2, Parts, MainType DEF SpawnUpdate, At, files, RestOK
<1>12. CASE Refresh
  <2>1. RestOK'
    BY <1>0, <1>12, MainFields DEF Refresh, RestOK, MainOK, At
  <2> QED
    BY <1>0, <1>12, <2>1, Parts, MainType DEF Refresh, At, HelpersOK, Applying
<1>13. CASE GuestReady
  <2>1. RestOK'
    BY <1>0, <1>13, MainFields DEF GuestReady, RestOK, MainOK, At
  <2> QED
    BY <1>0, <1>13, <2>1, Parts, MainType DEF GuestReady, At, HelpersOK, Applying
<1>14. CASE ClearPrevious
  <2>1. RestOK'
    BY <1>0, <1>14 DEF ClearPrevious, RestOK
  <2> QED
    BY <1>0, <1>14, <2>1, Parts, MainType DEF ClearPrevious, At, HelpersOK, Applying
<1>15. ASSUME NEW h \in Helpers, HelperDies(h) PROVE Typed'
  BY <1>0, <1>1, <1>15, Parts, MainType, HelpersType DEF HelperDies, files, RestOK
<1>16. ASSUME NEW h \in Helpers, ApplyRead(h) PROVE Typed'
  <2>1. HelpersOK'
    <3>1. CASE ~HelperExit(h)
      <4>1. /\ helper' \in [Helpers -> Helper \cup {None}] /\ helper'[h].state = marker /\ marker # None
            /\ \A g \in Helpers : g # h => helper'[g] = helper[g]
        BY <1>16, <3>1, HelperReads DEF ApplyRead, Typed, Pending
      <4> QED
        BY <1>0, <4>1 DEF HelpersOK, Applying
    <3>2. CASE HelperExit(h)
      BY <3>2, HelpersType
    <3> QED
      BY <3>1, <3>2
  <2> QED
    BY <1>0, <1>1, <1>16, <2>1, Parts, MainType DEF ApplyRead, files, Smooth, RestOK
<1>17. ASSUME NEW h \in Helpers, ApplyBackup(h) PROVE Typed'
  <2>1. HelpersOK'
    <3>1. CASE HelperExit(h)
      BY <3>1, HelpersType
    <3>2. CASE ~HelperExit(h)
      <4>1. helper[h].state # None
        BY <1>0, <1>17 DEF ApplyBackup, HelperAt, HelpersOK, Applying
      <4> QED
        BY <1>0, <1>17, <3>2, <4>1, HelperBacksUp DEF ApplyBackup, HelperAt, Typed, HelpersOK, Applying
    <3> QED
      BY <3>1, <3>2
  <2> QED
    BY <1>0, <1>17, <2>1, Parts, MainType DEF ApplyBackup, RestOK
<1>18. ASSUME NEW h \in Helpers, ApplyMark(h) PROVE Typed'
  <2>1. marker' \in Marker \cup {None}
    BY <1>0, <1>18, HelperFields DEF ApplyMark, HelperAt, HelpersOK, RestOK
  <2> QED
    BY <1>0, <1>18, <2>1, Parts, MainType, HelpersType DEF ApplyMark, HelperAt, HelperPcs, RestOK
<1>19. ASSUME NEW h \in Helpers, ApplyCopy(h) PROVE Typed'
  <2>1. target' \in Versions \cup {None}
    BY <1>0, <1>19, HelperFields DEF ApplyCopy, HelperAt, HelpersOK, RestOK
  <2> QED
    BY <1>0, <1>19, <2>1, Parts, MainType, HelpersType DEF ApplyCopy, HelperAt, HelperPcs, RestOK
<1>20. ASSUME NEW h \in Helpers, ApplyUndo(h) \/ ApplyUnmark(h) PROVE Typed'
  BY <1>0, <1>20, Parts, MainType, HelpersType DEF ApplyUndo, ApplyUnmark, PutBack, HelperAt, HelperPcs, RestOK
<1>21. ASSUME NEW h \in Helpers, RollbackCopy(h) \/ RollbackClear(h) PROVE Typed'
  <2>1. helper[h].ver \in Versions /\ helper[h].kind = "rollback" /\ helper[h] # None
    BY <1>0, <1>21, HelperFields DEF RollbackCopy, RollbackClear, HelperAt, HelpersOK
  <2>2. HelpersOK'
    BY <1>21, <2>1, HelpersType DEF RollbackCopy, RollbackClear, HelperPcs
  <2> QED
    BY <1>0, <1>21, <2>1, <2>2, Parts, MainType DEF RollbackCopy, RollbackClear, RestOK
<1>22. ASSUME NEW h \in Helpers, StartTarget(h) PROVE Typed'
  <2>1. target \in Versions /\ HelperExit(h) /\ (main' = main \/ main' = Started(target, "target"))
    BY <1>0, <1>22 DEF StartTarget, HelperAt, Placed, RestOK
  <2> QED
    BY <1>0, <1>22, <2>1, Parts, MainType, HelpersType DEF StartTarget, PutBack, RestOK, Images
<1>23. CASE UNCHANGED vars
  BY <1>0, <1>1, <1>23, Parts, MainType DEF vars, Smooth, HelpersOK, Applying, RestOK
<1> QED
  BY <1>2, <1>3, <1>4, <1>5, <1>6, <1>7, <1>8, <1>9, <1>10, <1>11, <1>12, <1>13, <1>14, <1>15, <1>16, <1>17,
     <1>18, <1>19, <1>20, <1>21, <1>22, <1>23, <1>24 DEF Next, MainStep, HelperStep

-----------------------------------------------------------------------------
(* The steps of the launcher that runs.                                    *)
Hasty == habit = "hasty" /\ Typed /\ Files /\ Launcher /\ Rollback /\ Update

(* What the invariant says of the versions, for the comparisons between    *)
(* them.                                                                   *)
LEMMA Versioned ==
  ASSUME Hasty
  PROVE  /\ Versions \subseteq Nat /\ target \in Versions
         /\ previous # None => previous \in Versions
         /\ main # None => main \in Main /\ main.ver = target /\ main.img = "target"
         /\ \A h \in Helpers : helper[h] # None => helper[h].ver \in Versions /\ helper[h].kind \in {"apply", "rollback"}
BY HelperFields DEF Hasty, Typed, TypeOK, Files, Launcher, Versions

(* While an update is under way the marker is about no launcher that runs. *)
LEMMA NotOurs ==
  ASSUME Hasty, NEW h \in Helpers, Applying(h), helper[h].pc # "start", main # None
  PROVE  ~Ours
<1>1. main.ver = target /\ target \in Nat /\ Updating(helper[h].ver)
  BY Versioned DEF Hasty, Update
<1> QED
  BY <1>1 DEF Ours, Updating

(* Releases, time, users and deaths of the launcher.                       *)
LEMMA WorldStep ==
  ASSUME Prompt, Hasty, Typed', Release \/ TimePasses \/ LaunchInstalled \/ Quit \/ MainDies \/ UNCHANGED vars
  PROVE  Hasty'
<1>1. CASE Release \/ UNCHANGED vars
  BY <1>1 DEF Hasty, Release, files, vars, Files, Launcher, Rollback, Update, Updating, Unconfirmed, At, Applying, Rolling
<1>2. CASE TimePasses
  BY <1>2 DEF Hasty, TimePasses, files, Files, Launcher, Rollback, Update, Updating, Unconfirmed, At, Applying, Rolling, Idle
<1>3. CASE LaunchInstalled
  BY <1>3 DEF Hasty, LaunchInstalled, Started, files, Files, Launcher, Rollback, Update, Updating, Unconfirmed, At,
     Applying, Rolling
<1>4. CASE Quit \/ MainDies
  BY <1>4 DEF Hasty, Quit, MainDies, files, Files, Launcher, Rollback, Update, Updating, Unconfirmed, At, Applying, Rolling
<1> QED
  BY <1>1, <1>2, <1>3, <1>4

(* A launcher that goes on is the same one elsewhere.                      *)
LEMMA Further ==
  ASSUME Hasty, main # None, NEW p \in {"check", "refresh", "boot", "clear", "up"}, Goto(p)
  PROVE  /\ main' # None /\ main'.ver = target /\ main'.img = "target" /\ main'.next = main.next
         /\ \A q : At(q)' <=> q = p
<1>1. main' # None /\ main' = [ver |-> main.ver, img |-> main.img, next |-> main.next, pc |-> p]
  BY MainMoves DEF Hasty, Typed
<1> QED
  BY <1>1, Versioned DEF At

(* A launcher that goes on and leaves the files and the helpers alone.     *)
LEMMA QuietStep ==
  ASSUME Hasty, Typed', UNCHANGED <<target, previous, marker, helper, proven, habit, unread>>, main # None,
         NEW p \in {"check", "refresh", "boot", "up"}, Goto(p), due' = due \/ ~due'
  PROVE  Hasty'
BY Further DEF Hasty, Files, Launcher, Rollback, Update, Updating, Unconfirmed, At, Applying, Rolling

(* recoverLauncherUpdate, when the launcher goes on to look for an  *)
(* update.                                                                 *)
LEMMA RecoverStep ==
  ASSUME Hasty, Typed', RecoverPass
  PROVE  Hasty'
<1>1. At("recover") /\ main # None /\ Goto("check") /\ UNCHANGED <<habit, unread, target, helper, latest, due, proven>>
  BY DEF RecoverPass, At
<1>2. CASE UNCHANGED <<marker, previous>>
  BY <1>1, <1>2, QuietStep
<1>3. CASE Ours /\ marker' = [marker EXCEPT !.started = TRUE] /\ UNCHANGED previous
  <2>1. marker # None /\ marker' # None /\ marker'.version = marker.version /\ marker'.hasPrevious = marker.hasPrevious
    <3>1. marker \in Marker
      BY <1>3 DEF Ours, Hasty, Typed, TypeOK
    <3>2. marker' = [version |-> marker.version, started |-> TRUE, hasPrevious |-> marker.hasPrevious]
      BY <1>3, <3>1, MarkerFields
    <3>3. marker' \in Marker
      BY <3>1, <3>2, MarkerFields DEF Marker
    <3> QED
      BY <3>1, <3>2, <3>3, MarkerFields
  <2>2. \A h \in Helpers : Applying(h) => helper[h].pc = "start"
    BY <1>1, <1>3, NotOurs
  <2> QED
    BY <1>1, <1>3, <2>1, <2>2, Further DEF Hasty, Files, Launcher, Rollback, Update, Updating, Unconfirmed, At, Applying, Rolling
<1>4. CASE /\ Ours /\ ~marker.hasPrevious /\ marker' \in {marker, None}
           /\ previous' = IF PreviousLocked THEN previous ELSE None
  <2>1. ~Unconfirmed \/ target \in unread
    BY <1>4 DEF Hasty, Files
  <2>2. \A h \in Helpers : Applying(h) => helper[h].pc = "start"
    BY <1>1, <1>4, NotOurs
  <2>3. \A h \in Helpers : Rolling(h) => previous' = previous
    BY <1>4 DEF PreviousLocked, Rolling
  <2> QED
    BY <1>1, <1>4, <2>1, <2>2, <2>3, Further
    DEF Hasty, Files, Launcher, Rollback, Update, Updating, Unconfirmed, At, Applying, Rolling
<1>5. CASE Ours /\ ~marker.hasPrevious /\ marker' \in {marker, None} /\ UNCHANGED previous
  <2>1. ~Unconfirmed \/ target \in unread
    BY <1>5 DEF Hasty, Files
  <2>2. \A h \in Helpers : Applying(h) => helper[h].pc = "start"
    BY <1>1, <1>5, NotOurs
  <2> QED
    BY <1>1, <1>5, <2>1, <2>2, Further
    DEF Hasty, Files, Launcher, Rollback, Update, Updating, Unconfirmed, At, Applying, Rolling
<1> QED
  BY <1>2, <1>3, <1>4, <1>5 DEF RecoverPass

(* A marker that cannot be read goes, and the backup with it, unless a      *)
(* rollback helper runs from there: the version it was about, installed or *)
(* about to be, is unread from now on.                                     *)
LEMMA UnreadableStep ==
  ASSUME Hasty, Typed', RecoverUnreadable
  PROVE  Hasty'
<1>1. At("recover") /\ main # None /\ Goto("check") /\ UNCHANGED <<habit, target, helper, latest, due, proven>>
  BY DEF RecoverUnreadable, At
<1>2. CASE UNCHANGED <<marker, previous, unread>>
  BY <1>1, <1>2, QuietStep
<1>3. CASE /\ marker' = None /\ unread' = unread \cup {marker.version} /\ marker # None
           /\ previous' \in {previous, IF PreviousLocked THEN previous ELSE None}
  <2>1. Unconfirmed => target \in unread'
    BY <1>3 DEF Hasty, Files
  <2>2. \A h \in Helpers : Applying(h) /\ helper[h].pc # "start" => helper[h].ver \in unread'
    BY <1>3 DEF Hasty, Update, Updating
  <2>3. \A h \in Helpers : Rolling(h) => previous' = previous
    BY <1>3 DEF PreviousLocked, Rolling
  <2>4. previous' # None => previous' = previous
    BY <1>3
  <2>5. Files' /\ Launcher' /\ Rollback'
    BY <1>1, <1>3, <2>1, <2>3, <2>4, Further
    DEF Hasty, Files, Launcher, Rollback, Unconfirmed, At, Rolling
  <2>6. Update'
    BY <1>1, <1>3, <2>2, Further DEF Hasty, Update, Updating, Unconfirmed, At, Applying, Rolling
  <2> QED
    BY <1>1, <2>5, <2>6 DEF Hasty
<1> QED
  BY <1>2, <1>3 DEF RecoverUnreadable

(* A rollback helper comes while no update is under way.                   *)
LEMMA RollbackComes ==
  ASSUME Hasty, Typed', RecoverRollback
  PROVE  Hasty'
<1>1. At("recover") /\ main # None /\ Ours /\ UNCHANGED <<habit, unread, files, latest, due, proven>>
  BY DEF RecoverRollback, At
<1>2. CASE Goto("check") /\ UNCHANGED helper
  BY <1>1, <1>2, QuietStep DEF files
<1>3. ASSUME NEW h \in Helpers, Spawn(h, "rollback", previous, "copy"), previous # None, main' = None
      PROVE  Hasty'
  <2>1. \A g \in Helpers : Applying(g) => helper[g].pc = "start"
    BY <1>1, NotOurs
  <2>2. /\ helper[h] = None /\ helper'[h] # None /\ helper'[h].ver = previous /\ helper'[h].kind = "rollback"
        /\ helper'[h].pc = "copy" /\ \A g \in Helpers : g # h => helper'[g] = helper[g]
    BY <1>3, Versioned, HelperComes DEF Hasty, Typed, HelperPcs
  <2>3. Rollback'
    BY <1>1, <1>3, <2>2 DEF Hasty, Rollback, Rolling, Unconfirmed, files
  <2>4. Update'
    <3>1. \A g \in Helpers : Applying(g)' => Applying(g) /\ helper'[g] = helper[g] /\ helper[g].pc = "start"
      BY <2>1, <2>2 DEF Applying
    <3> QED
      BY <1>1, <1>3, <3>1 DEF Hasty, Update, At
  <2> QED
    BY <1>1, <1>3, <2>3, <2>4 DEF Hasty, Files, Launcher, Unconfirmed, At, files
<1> QED
  BY <1>2, <1>3 DEF RecoverRollback

(* An update is marked when one is due, which it is not while another is   *)
(* unconfirmed or under way.                                               *)
LEMMA MarkStep ==
  ASSUME Hasty, Typed', MarkUpdate
  PROVE  Hasty'
<1>1. /\ At("check") /\ main # None /\ due /\ ~due' /\ latest > target
      /\ UNCHANGED <<habit, unread, target, previous, helper, latest, proven>>
  BY Versioned DEF MarkUpdate, At
<1>2. ~Unconfirmed /\ \A h \in Helpers : ~Applying(h)
  BY <1>1 DEF Hasty, Files, Update
<1>3. main' # None /\ main'.ver = target /\ main'.img = "target" /\ main'.next = latest /\ \A q : At(q)' <=> q = "spawn"
  <2>1. main \in Main /\ main.ver = target /\ main.img = "target"
    BY <1>1, Versioned
  <2>2. main' = [[main EXCEPT !.next = latest] EXCEPT !.pc = "spawn"]
    BY DEF MarkUpdate
  <2>3. main' \in Main
    <3>1. latest \in Versions
      BY DEF Hasty, Typed, TypeOK
    <3> QED
      BY <2>1, <2>2, <3>1 DEF Main
  <2>4. main' # None
    BY <2>3, MainFields
  <2> QED
    BY <2>1, <2>2, <2>4 DEF Main, At
<1>4. marker' # None => marker'.version = latest
  BY DEF MarkUpdate
<1>5. latest # None
  BY Numbers DEF Hasty, Typed, TypeOK
<1> QED
  BY <1>1, <1>2, <1>3, <1>4, <1>5 DEF Hasty, Files, Launcher, Rollback, Update, Updating, Unconfirmed, Applying, Rolling

(* The update helper comes, and the launcher that sent it goes.            *)
LEMMA SpawnStep ==
  ASSUME Hasty, Typed', SpawnUpdate
  PROVE  Hasty'
<1>1. At("spawn") /\ main # None /\ UNCHANGED <<habit, unread, files, latest, due, proven>>
  BY DEF SpawnUpdate, At
<1>2. CASE Goto("refresh") /\ UNCHANGED helper
  BY <1>1, <1>2, QuietStep DEF files
<1>3. ASSUME NEW h \in Helpers, Spawn(h, "apply", main.next, "read"), main' = None
      PROVE  Hasty'
  <2>1. /\ main.next \in Versions /\ Updating(main.next) /\ \A g \in Helpers : ~Applying(g)
    BY <1>1, Versioned, MainFields DEF Hasty, Launcher, Update
  <2>2. /\ helper[h] = None /\ helper'[h] # None /\ helper'[h].ver = main.next /\ helper'[h].kind = "apply"
        /\ helper'[h].pc = "read" /\ \A g \in Helpers : g # h => helper'[g] = helper[g]
    BY <1>3, <2>1, HelperComes DEF Hasty, Typed, HelperPcs
  <2>3. Rollback'
    BY <1>1, <2>2 DEF Hasty, Rollback, Rolling, Unconfirmed, files
  <2>4. Update'
    <3>1. \A g \in Helpers : Applying(g)' <=> g = h
      BY <2>1, <2>2 DEF Applying
    <3>2. Updating(main.next) => ~due' /\ (target' < main.next /\ ~Unconfirmed' /\ (marker' # None => marker'.version = main.next))
      BY <1>1 DEF Updating, Unconfirmed, files
    <3> QED
      BY <1>1, <1>3, <2>1, <2>2, <3>1, <3>2 DEF Update, Updating, At
  <2> QED
    BY <1>1, <1>3, <2>3, <2>4 DEF Hasty, Files, Launcher, Unconfirmed, At, files
<1> QED
  BY <1>2, <1>3 DEF SpawnUpdate

(* The guest of the installed launcher gets ready.                         *)
LEMMA ReadyStep ==
  ASSUME Hasty, Typed', GuestReady \/ ClearPrevious
  PROVE  Hasty'
<1>1. CASE GuestReady
  <2>1. /\ At("boot") /\ main # None /\ UNCHANGED <<habit, unread, target, previous, helper, latest, due>>
        /\ proven' = proven \cup {target}
    BY <1>1, Versioned DEF GuestReady, At
  <2>2. ~Unconfirmed'
    BY <2>1 DEF Unconfirmed
  <2>3. CASE Ours /\ marker' = None /\ Goto("clear")
    <3>1. \A h \in Helpers : Applying(h) => helper[h].pc = "start"
      BY <2>1, <2>3, NotOurs
    <3> QED
      BY <2>1, <2>2, <2>3, <3>1, Further DEF Hasty, Files, Launcher, Rollback, Update, Applying, Rolling
  <2>4. CASE UNCHANGED marker /\ Goto("up")
    BY <2>1, <2>2, <2>4, Further DEF Hasty, Files, Launcher, Rollback, Update, Updating, Applying, Rolling
  <2> QED
    BY <1>1, <2>3, <2>4 DEF GuestReady
<1>2. CASE ClearPrevious
  <2>1. /\ At("clear") /\ main # None /\ UNCHANGED <<habit, unread, target, marker, helper, latest, due, proven>> /\ Goto("up")
        /\ previous' = previous \/ (previous' = None /\ ~PreviousLocked)
    BY <1>2 DEF ClearPrevious, At
  <2>2. ~Unconfirmed /\ \A h \in Helpers : Applying(h) => helper[h].pc = "start"
    BY <2>1 DEF Hasty, Launcher, Update, Updating
  <2>3. \A h \in Helpers : Rolling(h) => previous' = previous
    BY <2>1 DEF PreviousLocked, Rolling
  <2> QED
    BY <2>1, <2>2, <2>3, Further DEF Hasty, Files, Launcher, Rollback, Update, Updating, Unconfirmed, Applying, Rolling
<1> QED
  BY <1>1, <1>2

(* The steps of the launcher, in one piece.                                *)
LEMMA MainStepSound ==
  ASSUME Hasty, Typed', MainStep \/ GuestReady
  PROVE  Hasty'
<1>1. CASE NoUpdate
  BY <1>1, QuietStep DEF NoUpdate, At, files
<1>2. CASE Refresh
  BY <1>2, QuietStep, Versioned DEF Refresh, At
<1> QED
  BY <1>1, <1>2, UnreadableStep, RecoverStep, RollbackComes, MarkStep, SpawnStep, ReadyStep DEF MainStep

-----------------------------------------------------------------------------
(* The steps of the helpers.                                               *)

(* A helper that is gone holds nobody to anything.                         *)
LEMMA OneLess ==
  ASSUME Hasty, NEW h \in Helpers, HelperExit(h)
  PROVE  /\ \A g \in Helpers : Applying(g)' <=> (g # h /\ Applying(g))
         /\ \A g \in Helpers : Rolling(g)' <=> (g # h /\ Rolling(g))
         /\ \A g \in Helpers : g # h => helper'[g] = helper[g]
BY HelperGoes DEF Hasty, Typed, Applying, Rolling

(* A helper that exits and leaves the files alone.                         *)
LEMMA ExitStep ==
  ASSUME Hasty, Typed', NEW h \in Helpers, HelperExit(h),
         UNCHANGED <<target, previous, marker, main, due, proven, habit, unread>>
  PROVE  Hasty'
BY OneLess DEF Hasty, Files, Launcher, Rollback, Update, Updating, Unconfirmed, At

(* A helper that goes on is the same one elsewhere.                        *)
LEMMA OneFurther ==
  ASSUME Hasty, NEW h \in Helpers, helper[h] # None, NEW p \in HelperPcs(helper[h].kind), HelperGoto(h, p)
  PROVE  /\ \A g \in Helpers : (Applying(g)' <=> Applying(g)) /\ (Rolling(g)' <=> Rolling(g))
         /\ \A g \in Helpers : g # h => helper'[g] = helper[g]
         /\ helper'[h].ver = helper[h].ver /\ helper'[h].state = helper[h].state /\ helper'[h].pc = p
<1>1. /\ helper'[h] # None /\ helper'[h].ver = helper[h].ver /\ helper'[h].kind = helper[h].kind
      /\ helper'[h].state = helper[h].state /\ helper'[h].pc = p
      /\ \A g \in Helpers : g # h => helper'[g] = helper[g]
  BY HelperMoves DEF Hasty, Typed
<1> QED
  BY <1>1 DEF Applying, Rolling

(* applyLauncherUpdate reads the marker, or finds another one.             *)
LEMMA ReadStep ==
  ASSUME Hasty, Typed', NEW h \in Helpers, ApplyRead(h)
  PROVE  Hasty'
<1>1. Applying(h) /\ helper[h].pc = "read" /\ UNCHANGED <<target, previous, marker, main, due, proven, habit, unread>>
  BY DEF ApplyRead, HelperAt, Applying, files
<1>2. CASE HelperExit(h)
  BY <1>1, <1>2, ExitStep
<1>3. CASE ~HelperExit(h)
  <2>1. /\ helper'[h] # None /\ helper'[h].ver = helper[h].ver /\ helper'[h].kind = "apply" /\ helper'[h].state = marker
        /\ helper'[h].pc = "backup" /\ \A g \in Helpers : g # h => helper'[g] = helper[g]
        /\ marker # None /\ marker.version = helper[h].ver
    BY <1>3, HelperReads DEF Hasty, Typed, Files, ApplyRead, Pending
  <2>2. \A g \in Helpers : (Applying(g)' <=> Applying(g)) /\ (Rolling(g)' <=> Rolling(g))
    BY <1>1, <2>1 DEF Applying, Rolling
  <2> QED
    BY <1>1, <1>3, <2>1, <2>2 DEF Hasty, Files, Launcher, Rollback, Update, Updating, Unconfirmed, At, Rolling
<1> QED
  BY <1>2, <1>3

(* applyLauncherUpdate keeps the installed launcher, or fails to.          *)
LEMMA BackupStep ==
  ASSUME Hasty, Typed', NEW h \in Helpers, ApplyBackup(h)
  PROVE  Hasty'
<1>1. Applying(h) /\ helper[h].pc = "backup" /\ UNCHANGED <<target, marker, main, due, proven, habit, unread>>
  BY DEF ApplyBackup, HelperAt, Applying
<1>2. CASE HelperExit(h) /\ UNCHANGED previous
  BY <1>1, <1>2, ExitStep
<1>3. CASE /\ ~PreviousLocked /\ previous' = target
           /\ helper' = [helper EXCEPT ![h].state.hasPrevious = TRUE, ![h].pc = "mark"]
  <2>1. Updating(helper[h].ver) /\ helper[h].state # None /\ helper[h].state.version = helper[h].ver
    BY <1>1 DEF Hasty, Update
  <2>2. /\ helper'[h] # None /\ helper'[h].ver = helper[h].ver /\ helper'[h].kind = "apply" /\ helper'[h].pc = "mark"
        /\ helper'[h].state # None /\ helper'[h].state.version = helper[h].ver /\ helper'[h].state.hasPrevious
        /\ \A g \in Helpers : g # h => helper'[g] = helper[g]
    BY <1>1, <1>3, <2>1, HelperBacksUp DEF Hasty, Typed, Applying
  <2>3. \A g \in Helpers : (Applying(g)' <=> Applying(g)) /\ ~Rolling(g)'
    BY <1>1, <1>3, <2>2 DEF Applying, Rolling, PreviousLocked
  <2>4. target \in proven /\ target \in Nat /\ target # None
    BY <2>1, Versioned DEF Updating, Unconfirmed, Hasty, Files
  <2>5. Files' /\ Launcher' /\ Rollback'
    BY <1>1, <1>3, <2>1, <2>3, <2>4 DEF Hasty, Files, Launcher, Rollback, Updating, Unconfirmed, At
  <2>6. Update'
    <3>1. \A g \in Helpers : Applying(g)' => g = h
      BY <1>1, <2>3 DEF Hasty, Update
    <3>2. ~due /\ ~At("spawn")
      BY <1>1 DEF Hasty, Update
    <3> QED
      BY <1>1, <1>3, <2>1, <2>2, <2>3, <2>4, <3>1, <3>2 DEF Update, Updating, Unconfirmed, At
  <2> QED
    BY <1>1, <2>5, <2>6 DEF Hasty
<1> QED
  BY <1>2, <1>3 DEF ApplyBackup

(* The marker learns of the backup before the launcher is replaced.        *)
LEMMA CommitStep ==
  ASSUME Hasty, Typed', NEW h \in Helpers, ApplyMark(h)
  PROVE  Hasty'
<1>1. Applying(h) /\ helper[h].pc = "mark" /\ UNCHANGED <<target, previous, main, due, proven, habit, unread>>
  BY DEF ApplyMark, HelperAt, Applying
<1>2. CASE HelperExit(h) /\ UNCHANGED marker
  BY <1>1, <1>2, ExitStep
<1>3. CASE marker' = helper[h].state /\ HelperGoto(h, "copy")
  <2>1. "copy" \in HelperPcs(helper[h].kind) /\ helper[h] # None
    BY <1>1 DEF Applying, HelperPcs
  <2>2. /\ Updating(helper[h].ver) /\ helper[h].state # None /\ helper[h].state.version = helper[h].ver
    BY <1>1 DEF Hasty, Update
  <2>3. /\ helper[h].state.hasPrevious /\ (helper[h].ver \notin unread => previous # None)
        /\ ~due /\ ~At("spawn") /\ ~Unconfirmed
        /\ \A g \in Helpers : ~Rolling(g) /\ (Applying(g) => g = h)
    BY <1>1, <2>2 DEF Hasty, Update, Updating
  <2>4. Files' /\ Launcher' /\ Rollback'
    BY <1>1, <1>3, <2>1, <2>2, <2>3, OneFurther DEF Hasty, Files, Launcher, Rollback, Updating, Unconfirmed, At
  <2>5. Update'
    BY <1>1, <1>3, <2>1, <2>2, <2>3, OneFurther DEF Update, Updating, Unconfirmed, At
  <2> QED
    BY <1>1, <2>4, <2>5 DEF Hasty
<1> QED
  BY <1>2, <1>3 DEF ApplyMark

(* The replacement.                                                        *)
LEMMA CopyStep ==
  ASSUME Hasty, Typed', NEW h \in Helpers, ApplyCopy(h)
  PROVE  Hasty'
<1>1. Applying(h) /\ helper[h].pc = "copy" /\ UNCHANGED <<previous, marker, main, due, proven, habit, unread>>
  BY DEF ApplyCopy, HelperAt, Applying
<1>2. /\ helper[h] # None /\ \A p \in {"start", "undo"} : p \in HelperPcs(helper[h].kind)
  BY <1>1 DEF Applying, HelperPcs
<1>3. CASE HelperGoto(h, "undo") /\ UNCHANGED target
  <2>1. Files' /\ Launcher' /\ Rollback'
    BY <1>1, <1>2, <1>3, OneFurther DEF Hasty, Files, Launcher, Rollback, Updating, Unconfirmed, At
  <2>2. ~due /\ ~At("spawn") /\ Updating(helper[h].ver) /\ \A g \in Helpers : Applying(g) => g = h
    BY <1>1 DEF Hasty, Update
  <2>3. Update'
    BY <1>1, <1>2, <1>3, <2>2, OneFurther DEF Update, Updating, Unconfirmed, At
  <2> QED
    BY <1>1, <2>1, <2>3 DEF Hasty
<1>4. CASE ~TargetLocked /\ target' = helper[h].ver /\ HelperGoto(h, "start")
  <2>1. main = None
    BY <1>4 DEF TargetLocked, Hasty, Launcher
  <2>2. /\ Updating(helper[h].ver)
        /\ helper[h].ver \notin unread =>
             marker # None /\ marker.version = helper[h].ver /\ marker.hasPrevious /\ previous # None
        /\ \A g \in Helpers : ~Rolling(g) /\ (Applying(g) => g = h)
    BY <1>1 DEF Hasty, Update
  <2>3. helper[h].ver \in Nat /\ helper[h].ver # None /\ target \in Nat /\ (previous # None => previous \in Nat)
    BY <1>2, <2>2, Versioned, LauncherAssumption
  <2>4. (previous # None => previous \in proven /\ previous <= target) /\ target < helper[h].ver /\ ~due
    BY <2>2 DEF Hasty, Files, Updating
  <2>5. Files' /\ Launcher'
    BY <1>1, <1>4, <2>1, <2>2, <2>3, <2>4 DEF Files, Launcher, Unconfirmed, At
  <2>6. Rollback' /\ Update'
    BY <1>1, <1>2, <1>4, <2>1, <2>2, <2>4, OneFurther DEF Rollback, Update, At
  <2> QED
    BY <1>1, <2>5, <2>6 DEF Hasty
<1> QED
  BY <1>3, <1>4 DEF ApplyCopy

(* The way back when the replacement fails: the older launcher, which      *)
(* works, and no marker.                                                   *)
LEMMA BackStep ==
  ASSUME Hasty, Typed', NEW h \in Helpers, ApplyUndo(h) \/ ApplyUnmark(h)
  PROVE  Hasty'
<1>1. /\ Applying(h) /\ helper[h].pc \in {"undo", "unmark"}
      /\ UNCHANGED <<previous, main, due, proven, habit, unread>>
  BY DEF ApplyUndo, ApplyUnmark, HelperAt, Applying
<1>2. /\ ~due /\ ~At("spawn") /\ Updating(helper[h].ver) /\ \A g \in Helpers : Applying(g) => g = h
  BY <1>1 DEF Hasty, Update
<1>3. CASE ApplyUndo(h)
  <2>1. HelperGoto(h, "unmark") /\ UNCHANGED marker /\ "unmark" \in HelperPcs(helper[h].kind) /\ helper[h] # None
    BY <1>1, <1>3 DEF ApplyUndo, Applying, HelperPcs
  <2>2. target' = target \/ (previous # None /\ main = None /\ target' = previous)
    BY <1>3 DEF ApplyUndo, PutBack, TargetLocked, Hasty, Launcher
  <2>3. /\ target' # None /\ target' <= target /\ ~Unconfirmed'
        /\ previous # None => previous \in proven /\ previous <= target'
        /\ main # None => main.img = "target" /\ main.ver = target'
    BY <1>1, <1>2, <2>2, Versioned DEF Hasty, Files, Updating, Unconfirmed
  <2>4. helper[h].ver \in Nat /\ target \in Nat /\ target' \in Nat /\ target < helper[h].ver
    BY <1>2, <2>1, <2>2, Versioned DEF Updating
  <2>5. Files' /\ Launcher' /\ Rollback'
    BY <1>1, <1>2, <2>1, <2>3, OneFurther DEF Hasty, Files, Launcher, Rollback, At
  <2>6. Update'
    BY <1>1, <1>2, <2>1, <2>3, <2>4, OneFurther DEF Update, Updating, At
  <2> QED
    BY <1>1, <2>5, <2>6 DEF Hasty
<1>4. CASE ApplyUnmark(h)
  <2>1. HelperExit(h) /\ UNCHANGED target /\ marker' \in {None, marker}
    BY <1>4 DEF ApplyUnmark
  <2>2. ~Unconfirmed
    BY <1>2 DEF Updating
  <2> QED
    BY <1>1, <1>2, <2>1, <2>2, OneLess DEF Hasty, Files, Launcher, Rollback, Update, Unconfirmed, At
<1> QED
  BY <1>3, <1>4

(* The backup comes back.                                                  *)
LEMMA RestoreStep ==
  ASSUME Hasty, Typed', NEW h \in Helpers, RollbackCopy(h)
  PROVE  Hasty'
<1>1. /\ Rolling(h) /\ helper[h].ver = previous /\ helper[h] # None /\ "clear" \in HelperPcs(helper[h].kind)
      /\ UNCHANGED <<previous, marker, main, due, proven, habit, unread>>
  BY DEF RollbackCopy, HelperAt, Rolling, HelperPcs, Hasty, Rollback
<1>2. CASE HelperExit(h) /\ UNCHANGED target
  BY <1>1, <1>2, ExitStep
<1>3. CASE ~TargetLocked /\ target' = helper[h].ver /\ HelperGoto(h, "clear")
  <2>1. main = None
    BY <1>3 DEF TargetLocked, Hasty, Launcher
  <2>2. previous \in Versions /\ previous # None
    BY <1>1, Versioned, Numbers DEF Hasty, Typed
  <2>3. previous \in proven /\ previous <= target /\ ~Unconfirmed'
    BY <1>1, <1>3, <2>2 DEF Hasty, Files, Unconfirmed
  <2>4. Files' /\ Launcher' /\ Rollback'
    BY <1>1, <1>3, <2>1, <2>2, <2>3, Versioned, OneFurther DEF Hasty, Files, Launcher, Rollback, At
  <2>5. \A v \in Versions : target < v => target' < v
    BY <1>1, <1>3, <2>2, <2>3, Versioned
  <2>6. \A g \in Helpers : Applying(g) => g # h
    BY <1>1 DEF Applying, Rolling
  <2>7. Update'
    BY <1>1, <1>3, <2>1, <2>3, <2>5, <2>6, Versioned, OneFurther DEF Hasty, Update, Updating, At, Applying
  <2> QED
    BY <1>1, <2>4, <2>7 DEF Hasty
<1> QED
  BY <1>2, <1>3 DEF RollbackCopy

(* The rollback helper removes the marker, or fails to.                    *)
LEMMA ClearStep ==
  ASSUME Hasty, Typed', NEW h \in Helpers, RollbackClear(h)
  PROVE  Hasty'
<1>1. /\ Rolling(h) /\ helper[h].pc = "clear" /\ helper[h] # None /\ "start" \in HelperPcs(helper[h].kind)
      /\ UNCHANGED <<target, previous, main, due, proven, habit, unread>>
  BY DEF RollbackClear, HelperAt, Rolling, HelperPcs
<1>2. CASE HelperExit(h) /\ UNCHANGED marker
  BY <1>1, <1>2, ExitStep
<1>3. CASE marker' = None /\ HelperGoto(h, "start")
  <2>1. ~Unconfirmed /\ \A g \in Helpers : Applying(g) => g # h /\ helper[g].pc # "copy"
    BY <1>1 DEF Hasty, Rollback, Update, Applying, Rolling
  <2>2. Files' /\ Launcher' /\ Rollback'
    BY <1>1, <1>3, <2>1, OneFurther DEF Hasty, Files, Launcher, Rollback, Updating, Unconfirmed, At
  <2>3. Update'
    BY <1>1, <1>3, <2>1, OneFurther DEF Hasty, Update, Updating, Unconfirmed, At
  <2> QED
    BY <1>1, <2>2, <2>3 DEF Hasty
<1> QED
  BY <1>2, <1>3 DEF RollbackClear

(* The end of either helper: what it left behind starts, or an update that *)
(* cannot be started is put back.                                          *)
LEMMA StartStep ==
  ASSUME Hasty, Typed', NEW h \in Helpers, StartTarget(h)
  PROVE  Hasty'
<1>1. helper[h] # None /\ helper[h].pc = "start" /\ HelperExit(h) /\ UNCHANGED <<previous, marker, due, proven, habit, unread>>
  BY DEF StartTarget, HelperAt
<1>2. CASE UNCHANGED <<target, main>>
  BY <1>1, <1>2, ExitStep
<1>3. CASE main = None /\ main' = Started(target, "target") /\ UNCHANGED target
  <2>1. main' # None /\ main'.ver = target /\ main'.img = "target" /\ \A q : At(q)' <=> q = "recover"
    <3>1. Started(target, "target") \in Main
      BY Versioned DEF Started, Main, Images
    <3> QED
      BY <1>3, <3>1, MainFields DEF Started, At
  <2> QED
    BY <1>1, <1>3, <2>1, OneLess DEF Hasty, Files, Launcher, Rollback, Update, Updating, Unconfirmed
<1>4. CASE Applying(h) /\ previous # None /\ ~TargetLocked /\ target' = previous /\ UNCHANGED main
  <2>1. /\ main = None /\ previous \in proven /\ previous \in Nat /\ ~Unconfirmed'
        /\ \A g \in Helpers : ~Applying(g)'
    BY <1>1, <1>4, Versioned, OneLess DEF TargetLocked, Hasty, Launcher, Files, Update, Unconfirmed
  <2> QED
    BY <1>1, <1>4, <2>1, OneLess DEF Hasty, Files, Launcher, Rollback, Update, At
<1>5. \/ UNCHANGED <<target, main>>
      \/ main = None /\ main' = Started(target, "target") /\ UNCHANGED target
      \/ Applying(h) /\ previous # None /\ ~TargetLocked /\ target' = previous /\ UNCHANGED main
  BY <1>1 DEF StartTarget, PutBack, Applying
<1> QED
  BY <1>2, <1>3, <1>4, <1>5

-----------------------------------------------------------------------------
(* The types of all variables, whatever the user's habits.                 *)
LEMMA TypedAlways == Spec => []Typed
<1>1. ASSUME Init PROVE Typed
  BY <1>1, LauncherAssumption DEF Init, Typed, TypeOK, Named, Versions, At, Applying
<1>2. Typed /\ [Next]_vars => Typed'
  BY TypeStep
<1> QED
  BY <1>1, <1>2, PTL DEF Spec

(* Every step, of an installation that is not replaced by downloads.       *)
LEMMA SoundStep ==
  ASSUME Prompt, Typed, Typed', Sound, [Next]_vars
  PROVE  Sound'
<1>1. habit' = habit
  BY DEF Next, Release, TimePasses, LaunchInstalled, LaunchDownload, Quit, MainDies, MainStep, RecoverUnreadable, RecoverPass,
     RecoverRollback, NoUpdate, MarkUpdate, SpawnUpdate, Refresh, ClearPrevious, GuestReady, HelperStep, HelperDies,
     ApplyRead, ApplyBackup, ApplyMark, ApplyCopy, ApplyUndo, ApplyUnmark, RollbackCopy, RollbackClear, StartTarget, vars
<1> SUFFICES ASSUME habit = "hasty" PROVE Hasty'
  BY <1>1 DEF Sound, Hasty
<1>2. Hasty
  BY DEF Sound, Hasty
<1>3. \A v \in Downloads : ~LaunchDownload(v)
  BY DEF LaunchDownload
<1>4. ASSUME NEW h \in Helpers, HelperDies(h) PROVE Hasty'
  BY <1>2, <1>4, ExitStep DEF HelperDies, files
<1> QED
  BY <1>2, <1>3, <1>4, WorldStep, MainStepSound, ReadStep, BackupStep, CommitStep, CopyStep, BackStep, RestoreStep,
     ClearStep, StartStep DEF Next, HelperStep

(* As long as no update check comes due with an update unconfirmed.        *)
THEOREM SoundAlways ==
  ASSUME Prompt
  PROVE  Spec => []Sound
<1>0. 1 # None
  BY LauncherAssumption DEF Versions
<1>1. Init => Sound
  <2> SUFFICES ASSUME Init, habit = "hasty" PROVE Files /\ Launcher /\ Rollback /\ Update
    BY DEF Sound
  <2>1. target = 1 /\ proven = {1} /\ previous = None /\ marker = None /\ main = None
    BY <1>0 DEF Init
  <2>2. \A h \in Helpers : helper[h] = None
    BY DEF Init
  <2>3. Files
    BY <1>0, <2>1, <2>2 DEF Files, Unconfirmed
  <2>4. Launcher
    BY <1>0, <2>1, <2>2 DEF Launcher, At
  <2>5. Rollback /\ Update
    BY <1>0, <2>1, <2>2 DEF Rollback, Update, Applying, Rolling, Unconfirmed, At
  <2> QED
    BY <2>3, <2>4, <2>5
<1>2. Typed /\ Typed' /\ Sound /\ [Next]_vars => Sound'
  BY SoundStep
<1> QED
  BY <1>1, <1>2, TypedAlways, PTL DEF Spec

(* The types of the variables, whatever the user's habits.                 *)
THEOREM TypeCorrect == Spec => []TypeOK
BY TypedAlways, PTL DEF Typed

(* From the replacement of the launcher to the confirmation by a guest the *)
(* marker names the new version and its backup, and the backup works: a    *)
(* power loss at any point leaves the way back, unless a launcher could    *)
(* not read the marker of that very version.                               *)
THEOREM Revertible ==
  ASSUME Prompt
  PROVE  Spec => []ReplacementIsRevertible
<1>1. Sound => ReplacementIsRevertible
  BY DEF Sound, Files, ReplacementIsRevertible
<1> QED
  BY <1>1, SoundAlways, PTL

(* Some executable that is known to work is installed, as the launcher or  *)
(* as its backup, whoever dies and whatever fails but the reading of the   *)
(* installed version's marker.                                             *)
THEOREM GoodKept ==
  ASSUME Prompt
  PROVE  Spec => []LastGoodKept
<1>1. Sound => LastGoodKept
  BY DEF Sound, Files, LastGoodKept, SomeLauncherWorks, Unconfirmed
<1> QED
  BY <1>1, SoundAlways, PTL

-----------------------------------------------------------------------------
(* The installed launcher changes in two ways: one that works is replaced  *)
(* by a newer one, or the backup, which works, comes back.                 *)
Replacement ==
  habit = "hasty" /\ target' # target =>
    \/ ~Unconfirmed /\ target' > target
    \/ target' = previous /\ target' \in proven /\ target' <= target

(* The steps that write the executable.                                    *)
LEMMA ReplacementStep ==
  ASSUME Typed, Sound, Next
  PROVE  Replacement
<1> SUFFICES ASSUME habit = "hasty", target' # target
             PROVE  \/ ~Unconfirmed /\ target' > target
                    \/ target' = previous /\ target' \in proven /\ target' <= target
  BY DEF Replacement
<1>1. Files /\ Launcher /\ Rollback /\ Update
  BY DEF Sound
<1>2. ~Refresh
  BY <1>1 DEF Refresh, Launcher, At
<1>3. PICK h \in Helpers : ApplyCopy(h) \/ ApplyUndo(h) \/ RollbackCopy(h) \/ StartTarget(h)
  BY <1>2 DEF Next, Release, TimePasses, LaunchInstalled, LaunchDownload, Quit, MainDies, MainStep, RecoverUnreadable, RecoverPass,
     RecoverRollback, NoUpdate, MarkUpdate, SpawnUpdate, ClearPrevious, GuestReady, HelperStep, HelperDies,
     ApplyRead, ApplyBackup, ApplyMark, ApplyUnmark, RollbackClear, files
<1>4. CASE ApplyCopy(h)
  <2>1. Applying(h) /\ helper[h].pc = "copy" /\ target' = helper[h].ver
    BY <1>4 DEF ApplyCopy, HelperAt, Applying
  <2>2. ~Unconfirmed /\ target < helper[h].ver
    BY <1>1, <2>1 DEF Update, Updating
  <2>3. target \in Nat /\ target' \in Nat
    BY <1>1, <2>1, LauncherAssumption DEF Typed, TypeOK, Versions, Files, Helper, Applying
  <2> QED
    BY <2>1, <2>2, <2>3
<1>5. CASE PutBack
  BY <1>1, <1>5 DEF PutBack, Files
<1>6. CASE RollbackCopy(h)
  <2>1. Rolling(h) /\ target' = helper[h].ver
    BY <1>6 DEF RollbackCopy, HelperAt, Rolling
  <2>2. target' = previous /\ previous # None
    BY <1>1, <2>1, LauncherAssumption DEF Rollback, Rolling, Typed, TypeOK, Helper
  <2> QED
    BY <1>1, <2>2 DEF Files
<1> QED
  BY <1>3, <1>4, <1>5, <1>6 DEF ApplyUndo, StartTarget

(* No launcher that is not known to work is replaced by another such, and  *)
(* none older than the installed one is installed but its own backup.      *)
THEOREM ReplacedByNewerOrBackup ==
  ASSUME Prompt
  PROVE  Spec => [][Replacement]_vars
<1>1. Typed /\ Sound /\ [Next]_vars => [Replacement]_vars
  BY ReplacementStep
<1> QED
  BY <1>1, TypedAlways, SoundAlways, PTL DEF Spec
=============================================================================
