------------------------ MODULE PayloadUpdateProofs ------------------------
(* Safety of PayloadUpdate for every set of releases, every archive map    *)
(* and every number of faults, and its refinement of AtomicUpdate.         *)
EXTENDS PayloadUpdate, TLAPS

(***************************************************************************)
(* Type correctness.                                                       *)
(***************************************************************************)

(* A version with something pending is a journal.                          *)
LEMMA JournalIntro ==
  ASSUME NEW v \in Releases, NEW q \in SUBSET Payloads, q # {}
  PROVE  [version |-> v, pending |-> q] \in Journal
  BY DEF Journal

(* Every action of the launcher, fault included, keeps the types.          *)
LEMMA StepType ==
  ASSUME TypeOK, Next
  PROVE  TypeOK'
<1> USE ConstantsAssumption DEF Payloads, Slots, PCs, launch, history, Go, Smooth, Fault
<1>1. ASSUME NEW w \in Wants, Launch(w) PROVE TypeOK'
  BY <1>1 DEF TypeOK, Launch
<1>2. CASE StartRollback
  BY <1>2 DEF TypeOK, StartRollback
<1>3. CASE RollbackClear
  <2>1. tree' \in [Payloads -> [Slots -> Tree \cup {NoTree}]]
    BY <1>3 DEF TypeOK, RollbackClear, Put
  <2>2. base' \in [Payloads -> Tree \cup {NoTree}] /\ leftover' \in [Payloads -> BOOLEAN]
    BY <1>3 DEF TypeOK, RollbackClear, RollbackDone
  <2>3. pc' \in PCs /\ item' \in Payloads /\ faults' \in 0 .. MaxFaults
    BY <1>3 DEF TypeOK, RollbackClear, RollbackDone
  <2>4. journal' \in Journal \cup {NoJournal}
    BY <1>3 DEF TypeOK, RollbackClear
  <2>5. /\ caller' \in {"recovery", "session"} /\ rolledBack' \in BOOLEAN
        /\ want' \in [Payloads -> Releases] /\ qemu' \in {"gpu", "cpu", "other"}
    BY <1>3 DEF TypeOK, RollbackClear, RollbackDone
  <2> QED
    BY <2>1, <2>2, <2>3, <2>4, <2>5 DEF TypeOK
<1>4. CASE RollbackAside
  BY <1>4 DEF TypeOK, RollbackAside, Move, RollbackFailed
<1>5. CASE RollbackRestore
  BY <1>5 DEF TypeOK, RollbackRestore, Move, RollbackFailed
<1>6. CASE RollbackSweep
  BY <1>6 DEF TypeOK, RollbackSweep, Put, RollbackDone
<1>7. CASE RollbackClean
  <2>1. UNCHANGED tree
    BY <1>7 DEF RollbackClean
  <2>2. base' \in [Payloads -> Tree \cup {NoTree}] /\ leftover' \in [Payloads -> BOOLEAN]
    BY <1>7 DEF TypeOK, RollbackClean
  <2>3. pc' \in PCs /\ item' \in Payloads /\ faults' \in 0 .. MaxFaults
    BY <1>7 DEF TypeOK, RollbackClean
  <2>4. journal' \in Journal \cup {NoJournal}
    BY <1>7 DEF TypeOK, RollbackClean
  <2>5. /\ caller' \in {"recovery", "session"} /\ rolledBack' \in BOOLEAN
        /\ want' \in [Payloads -> Releases] /\ qemu' \in {"gpu", "cpu", "other"}
    BY <1>7 DEF TypeOK, RollbackClean
  <2> QED
    BY <2>1, <2>2, <2>3, <2>4, <2>5 DEF TypeOK
<1>8. CASE Pin
  BY <1>8 DEF Pin, TypeOK, HasReceipt, Exists, Tree
<1>9. CASE SkipRuntime
  BY <1>9 DEF TypeOK, SkipRuntime
<1>10. CASE RestoredRuntime
  BY <1>10 DEF TypeOK, RestoredRuntime, UseRuntime
<1>11. CASE EnsureRuntime
  BY <1>11 DEF TypeOK, EnsureRuntime, PutRuntimeReceipt, HasExecutable, HasReceipt, Exists, Tree, UseRuntime, Failed
<1>12. CASE SwapRuntime
  BY <1>12 DEF TypeOK, SwapRuntime, Put
<1>13. CASE PlaceRuntime
  BY <1>13 DEF TypeOK, PlaceRuntime, Move, UseRuntime, Failed
<1>14. CASE RestoredGuest
  BY <1>14 DEF TypeOK, RestoredGuest
<1>15. CASE EnsureGuest
  BY <1>15 DEF TypeOK, EnsureGuest, Put, Tree
<1>16. CASE FillGuest
  BY <1>16 DEF TypeOK, FillGuest, Put, Fresh, Tree
<1>17. CASE Stage
  BY <1>17 DEF TypeOK, Stage, Put, Fresh, Tree, Failed
<1>18. CASE Record
  <2>1. UNCHANGED tree
    BY <1>18 DEF Record
  <2>2. base' \in [Payloads -> Tree \cup {NoTree}] /\ leftover' \in [Payloads -> BOOLEAN]
    BY <1>18 DEF TypeOK, Record
  <2>3. pc' \in PCs /\ item' \in Payloads /\ faults' \in 0 .. MaxFaults
    BY <1>18 DEF TypeOK, Record, Failed
  <2>4. journal' \in Journal \cup {NoJournal}
    <3>1. CASE journal' = Recorded(journal, item, want[item])
      <4>1. want[item] \in Releases /\ item \in Payloads
        BY DEF TypeOK
      <4>2. CASE journal.version = want[item]
        <5>1. journal \in Journal
          BY <4>1, <4>2 DEF TypeOK, NoJournal
        <5>2. PICK v \in Releases, q \in SUBSET Payloads : journal = [version |-> v, pending |-> q]
          BY <5>1 DEF Journal
        <5>3. journal' = [version |-> v, pending |-> q \cup {item}]
          BY <3>1, <4>2, <5>2 DEF Recorded
        <5>4. q \cup {item} \in SUBSET Payloads /\ q \cup {item} # {}
          BY <4>1
        <5> QED
          BY <5>3, <5>4, JournalIntro
      <4>3. CASE journal.version # want[item]
        <5>1. journal' = [version |-> want[item], pending |-> {item}]
          BY <3>1, <4>3 DEF Recorded
        <5>2. {item} \in SUBSET Payloads /\ {item} # {}
          BY <4>1
        <5> QED
          BY <4>1, <5>1, <5>2, JournalIntro
      <4> QED
        BY <4>2, <4>3
    <3>2. CASE UNCHANGED journal
      BY <3>2 DEF TypeOK
    <3> QED
      BY <1>18, <3>1, <3>2 DEF Record
  <2>5. /\ caller' \in {"recovery", "session"} /\ rolledBack' \in BOOLEAN
        /\ want' \in [Payloads -> Releases] /\ qemu' \in {"gpu", "cpu", "other"}
    BY <1>18 DEF TypeOK, Record, Failed
  <2> QED
    BY <2>1, <2>2, <2>3, <2>4, <2>5 DEF TypeOK
<1>19. CASE PublishClear
  <2>1. tree' \in [Payloads -> [Slots -> Tree \cup {NoTree}]]
    BY <1>19 DEF TypeOK, PublishClear, Put
  <2>2. base' \in [Payloads -> Tree \cup {NoTree}] /\ leftover' \in [Payloads -> BOOLEAN]
    BY <1>19 DEF TypeOK, PublishClear
  <2>3. pc' \in PCs /\ item' \in Payloads /\ faults' \in 0 .. MaxFaults
    BY <1>19 DEF TypeOK, PublishClear, Failed
  <2>4. journal' \in Journal \cup {NoJournal}
    BY <1>19 DEF TypeOK, PublishClear
  <2>5. /\ caller' \in {"recovery", "session"} /\ rolledBack' \in BOOLEAN
        /\ want' \in [Payloads -> Releases] /\ qemu' \in {"gpu", "cpu", "other"}
    BY <1>19 DEF TypeOK, PublishClear, Failed
  <2> QED
    BY <2>1, <2>2, <2>3, <2>4, <2>5 DEF TypeOK
<1>20. CASE PublishAside
  BY <1>20 DEF TypeOK, PublishAside, Move, Failed
<1>21. CASE PublishPlace
  BY <1>21 DEF TypeOK, PublishPlace, Move, Failed, UseRuntime
<1>22. CASE PublishUndo
  BY <1>22 DEF TypeOK, PublishUndo, Move, Failed
<1>23. CASE GpuClean
  BY <1>23 DEF GpuClean, TypeOK, JournalWithout, Journal, NoJournal
<1>24. CASE CommitRemove
  <2>1. tree' \in [Payloads -> [Slots -> Tree \cup {NoTree}]]
    BY <1>24 DEF TypeOK, CommitRemove, Put
  <2>2. base' \in [Payloads -> Tree \cup {NoTree}] /\ leftover' \in [Payloads -> BOOLEAN]
    BY <1>24 DEF TypeOK, CommitRemove
  <2>3. pc' \in PCs /\ item' \in Payloads /\ faults' \in 0 .. MaxFaults
    BY <1>24 DEF TypeOK, CommitRemove
  <2>4. journal' \in Journal \cup {NoJournal}
    BY <1>24 DEF TypeOK, CommitRemove
  <2>5. /\ caller' \in {"recovery", "session"} /\ rolledBack' \in BOOLEAN
        /\ want' \in [Payloads -> Releases] /\ qemu' \in {"gpu", "cpu", "other"}
    BY <1>24 DEF TypeOK, CommitRemove
  <2> QED
    BY <2>1, <2>2, <2>3, <2>4, <2>5 DEF TypeOK
<1>25. CASE CommitClean
  BY <1>25 DEF CommitClean, TypeOK, JournalWithout, Journal, NoJournal
<1>26. CASE RemovalProgress
  BY <1>26 DEF TypeOK, RemovalProgress, Put, Remains, Removing, Exists, Tree
<1>27. CASE GpuFailure
  BY <1>27 DEF TypeOK, GpuFailure
<1>28. CASE GuestReady
  BY <1>28 DEF TypeOK, GuestReady
<1>29. CASE EndSession
  BY <1>29 DEF TypeOK, EndSession
<1>30. CASE Crash
  BY <1>30 DEF TypeOK, Crash
<1> QED
  BY <1>1, <1>2, <1>3, <1>4, <1>5, <1>6, <1>7, <1>8, <1>9, <1>10, <1>11, <1>12, <1>13, <1>14, <1>15, <1>16, <1>17, <1>18, <1>19, <1>20, <1>21, <1>22, <1>23, <1>24, <1>25, <1>26, <1>27, <1>28, <1>29, <1>30 DEF Next, Step

(* The initial installations are well typed.                               *)
LEMMA InitType == Init => TypeOK
<1> SUFFICES ASSUME Init PROVE TypeOK
  OBVIOUS
<1> USE ConstantsAssumption DEF Init, Payloads, Slots
<1>1. tree \in [Payloads -> [Slots -> Tree \cup {NoTree}]]
  BY DEF Tree
<1>2. pc \in PCs /\ faults \in 0 .. MaxFaults
  BY DEF PCs
<1>3. base \in [Payloads -> Tree \cup {NoTree}] /\ leftover \in [Payloads -> BOOLEAN]
  OBVIOUS
<1> QED
  BY <1>1, <1>2, <1>3 DEF TypeOK

(* Every variable keeps its type, whatever is cut, retried or undone.      *)
THEOREM TypeCorrect == Spec => []TypeOK
<1>1. Init => TypeOK
  BY InitType
<1>2. TypeOK /\ [Next]_vars => TypeOK'
  <2> SUFFICES ASSUME TypeOK, [Next]_vars PROVE TypeOK'
    OBVIOUS
  <2>1. CASE Next
    BY <2>1, StepType
  <2>2. CASE UNCHANGED vars
    BY <2>2 DEF TypeOK, vars
  <2> QED
    BY <2>1, <2>2
<1> QED
  BY <1>1, <1>2, PTL DEF Spec

(***************************************************************************)
(* The inductive invariant behind FallbackKept and UnconfirmedIsJournaled. *)
(***************************************************************************)

(* The release of the guest is that of the runtime unless the user gives   *)
(* -runtime-release.                                                       *)
OneRelease == \A w \in Wants : w["guest"] = w["runtime"]

Settled(p) == base[p] = NoTree

(* A previous tree is what an unconfirmed update replaced, or a leftover.  *)
PreviousIsBase ==
  \A p \in Payloads :
    Exists(p, "previous") /\ ~leftover[p] => base[p] = tree[p]["previous"]

RollbackPCs == {"rb_clear", "rb_aside", "rb_restore", "rb_sweep"}
StagingPCs  == {"stage", "record", "pub_clear", "pub_aside", "pub_place", "pub_undo"}

(* What is already settled when the launcher is at pc. *)
SettledAt ==
  /\ pc \in {"rb_clean", "pin", "runtime", "rt_swap", "rt_place", "ct_remove", "ct_clean"}
       => Settled("guest") /\ Settled("runtime")
  /\ pc \in {"guest", "gt_fill", "stage", "record"} => Settled("guest")
  /\ pc \in StagingPCs /\ item = "runtime" => Settled("guest")
  /\ pc \in {"stage", "record"} => Settled(item)
  /\ pc \in RollbackPCs =>
       IF caller = "session" THEN item = "runtime" ELSE item = "runtime" => Settled("guest")
  /\ pc = "gpu_clean" => Settled("runtime")
  /\ pc \in {"rt_swap", "rt_place"} => item = "runtime"

(* One version covers every update of a launch. *)
OneVersion ==
  /\ ~rolledBack => want["guest"] = want["runtime"]
  /\ pc = "pin" => rolledBack
  /\ pc \in StagingPCs \cup {"rt_swap", "rt_place", "gt_fill"} => ~rolledBack
  /\ pc \in StagingPCs \cup {"guest", "gt_fill"} /\ ~Settled("runtime")
       => ~rolledBack /\ journal.version = want["runtime"]

(* Where the replaced tree of the update in progress lies. *)
BaseAt ==
  /\ pc \in {"pub_clear", "pub_aside"} => base[item] = tree[item]["current"]
  /\ pc = "pub_clear" /\ Exists(item, "previous") => leftover[item]
  /\ pc = "pub_aside" => ~Exists(item, "previous")
  /\ pc \in {"pub_place", "pub_undo"} => base[item] = tree[item]["previous"]
  /\ pc \in {"rb_aside", "rb_restore"} => Exists(item, "previous")
  /\ pc = "rb_sweep" => ~Exists(item, "previous")

Inv == /\ TypeOK /\ FallbackKept /\ UnconfirmedIsJournaled
       /\ PreviousIsBase /\ SettledAt /\ OneVersion /\ BaseAt

(* Every action of the launcher, fault included, keeps the invariant.      *)
LEMMA StepInv ==
  ASSUME OneRelease, Inv, Next
  PROVE  Inv'
<1> USE ConstantsAssumption
    DEF Payloads, Slots, launch, history, Go, Smooth, Fault, Inv, TypeOK, FallbackKept,
        UnconfirmedIsJournaled, PreviousIsBase, SettledAt, OneVersion, BaseAt, Settled,
        Exists, RollbackPCs, StagingPCs, OneRelease
<1>0. TypeOK'
  BY StepType
<1>1. ASSUME NEW w \in Wants, Launch(w) PROVE Inv'
  BY <1>0, <1>1 DEF Launch
<1>2. CASE StartRollback
  BY <1>2, <1>0 DEF StartRollback, NoJournal
<1>3. CASE RollbackClear
  BY <1>3, <1>0 DEF RollbackClear, Put, RollbackDone
<1>4. CASE RollbackAside
  BY <1>4, <1>0 DEF RollbackAside, Move, RollbackFailed
<1>5. CASE RollbackRestore
  BY <1>5, <1>0 DEF RollbackRestore, Move, RollbackFailed
<1>6. CASE RollbackSweep
  BY <1>6, <1>0 DEF RollbackSweep, Put, RollbackDone
<1>7. CASE RollbackClean
  BY <1>7, <1>0 DEF RollbackClean, NoJournal
<1>8. CASE Pin
  BY <1>8, <1>0 DEF Pin, HasReceipt, Exists, Tree
<1>9. CASE SkipRuntime
  BY <1>9, <1>0 DEF SkipRuntime
<1>10. CASE RestoredRuntime
  BY <1>10, <1>0 DEF RestoredRuntime, UseRuntime
<1>11. CASE EnsureRuntime
  BY <1>11, <1>0 DEF EnsureRuntime, PutRuntimeReceipt, HasExecutable, HasReceipt, Exists, UseRuntime, Failed
<1>12. CASE SwapRuntime
  BY <1>12, <1>0 DEF SwapRuntime, Put
<1>13. CASE PlaceRuntime
  BY <1>13, <1>0 DEF PlaceRuntime, Move, UseRuntime, Failed
<1>14. CASE RestoredGuest
  BY <1>14, <1>0 DEF RestoredGuest
<1>15. CASE EnsureGuest
  BY <1>15, <1>0 DEF EnsureGuest, Put
<1>16. CASE FillGuest
  BY <1>16, <1>0 DEF FillGuest, Put, Fresh
<1>17. CASE Stage
  BY <1>17, <1>0 DEF Stage, Put, Fresh, Failed
<1>18. CASE Record
  BY <1>18, <1>0 DEF Record, Failed, Recorded, Journal, NoJournal
<1>19. CASE PublishClear
  BY <1>19, <1>0 DEF PublishClear, Put, Failed
<1>20. CASE PublishAside
  BY <1>20, <1>0 DEF PublishAside, Move, Failed
<1>21. CASE PublishPlace
  BY <1>21, <1>0 DEF PublishPlace, Move, Failed, UseRuntime
<1>22. CASE PublishUndo
  BY <1>22, <1>0 DEF PublishUndo, Move, Failed
<1>23. CASE GpuClean
  BY <1>23, <1>0 DEF GpuClean, JournalWithout, Journal, NoJournal
<1>24. CASE CommitRemove
  BY <1>24, <1>0 DEF CommitRemove, Put
<1>25. CASE CommitClean
  BY <1>25, <1>0 DEF CommitClean, JournalWithout, Journal, NoJournal
<1>26. CASE RemovalProgress
  <2>1. FallbackKept'
    BY <1>26 DEF RemovalProgress, Put, Remains, Removing, Exists
  <2>2. UnconfirmedIsJournaled'
    BY <1>26 DEF RemovalProgress
  <2>3. PreviousIsBase'
    BY <1>26 DEF RemovalProgress, Put, Remains, Removing, Exists
  <2>4. SettledAt'
    BY <1>26 DEF RemovalProgress
  <2>5. OneVersion'
    BY <1>26 DEF RemovalProgress
  <2>6. BaseAt'
    BY <1>26 DEF RemovalProgress, Put, Remains, Removing, Exists
  <2> QED
    BY <2>1, <2>2, <2>3, <2>4, <2>5, <2>6, <1>0 DEF Inv
<1>27. CASE GpuFailure
  BY <1>27, <1>0 DEF GpuFailure
<1>28. CASE GuestReady
  BY <1>28, <1>0 DEF GuestReady
<1>29. CASE EndSession
  BY <1>29, <1>0 DEF EndSession
<1>30. CASE Crash
  BY <1>30, <1>0 DEF Crash
<1> QED
  BY <1>1, <1>2, <1>3, <1>4, <1>5, <1>6, <1>7, <1>8, <1>9, <1>10, <1>11, <1>12, <1>13, <1>14, <1>15, <1>16, <1>17, <1>18, <1>19, <1>20, <1>21, <1>22, <1>23, <1>24, <1>25, <1>26, <1>27, <1>28, <1>29, <1>30 DEF Next, Step

(* The inductive invariant.                                                *)
LEMMA InvHolds == ASSUME OneRelease PROVE Spec => []Inv
<1>1. Init => Inv
  <2> SUFFICES ASSUME Init PROVE Inv
    OBVIOUS
  <2>1. TypeOK
    BY InitType
  <2>2. FallbackKept /\ UnconfirmedIsJournaled /\ PreviousIsBase
    BY DEF Init, FallbackKept, UnconfirmedIsJournaled, PreviousIsBase, Exists, Payloads, Slots
  <2>3. SettledAt /\ OneVersion /\ BaseAt
    BY DEF Init, SettledAt, OneVersion, BaseAt, Payloads, RollbackPCs, StagingPCs
  <2> QED
    BY <2>1, <2>2, <2>3 DEF Inv
<1>2. Inv /\ [Next]_vars => Inv'
  <2> SUFFICES ASSUME Inv, [Next]_vars PROVE Inv'
    OBVIOUS
  <2>1. CASE Next
    BY <2>1, OneRelease, StepInv
  <2>2. CASE UNCHANGED vars
    BY <2>2 DEF vars, Inv, TypeOK, FallbackKept, UnconfirmedIsJournaled, PreviousIsBase,
                SettledAt, OneVersion, BaseAt, Settled, Exists
  <2> QED
    BY <2>1, <2>2
<1> QED
  BY <1>1, <1>2, PTL DEF Spec

(* The tree an unconfirmed update replaces is never lost: at every moment  *)
(* of publishDirectoryUpdate, rollbackDirectoryUpdate and the repeated     *)
(* launches around them it lies intact under one of its two names.         *)
THEOREM FallbackIsKept == ASSUME OneRelease PROVE Spec => []FallbackKept
  BY InvHolds, PTL DEF Inv

(* With one release for both payloads recordPayloadUpdate never forgets an *)
(* unconfirmed update.                                                     *)
THEOREM UnconfirmedStaysJournaled == ASSUME OneRelease PROVE Spec => []UnconfirmedIsJournaled
  BY InvHolds, PTL DEF Inv

(***************************************************************************)
(* The guest that boots.                                                   *)
(***************************************************************************)

Sound(t) == t # NoTree /\ t.body # "gutted" => t.body = "whole" /\ t.receipt = t.rel

InSession == \/ pc \in {"boot", "gpu_clean", "ct_remove", "ct_clean"}
             \/ pc \in RollbackPCs /\ caller = "session"

Serves(t) == t # NoTree /\ t.body # "gutted"

(* No guest tree that passes for complete lacks a file, because a receipt  *)
(* is written last and a removal takes a checked file with it; the session *)
(* holds on to such a tree, and one is staged before it is published.      *)
GuestInv ==
  /\ \A s \in Slots : Sound(tree["guest"][s])
  /\ InSession => Serves(tree["guest"]["current"])
  /\ item = "guest" /\ pc \in StagingPCs \ {"stage"} => Serves(tree["guest"]["next"])
  /\ pc \in RollbackPCs /\ caller = "session" => item = "runtime"
  /\ pc = "gpu_clean" => item = "runtime"
  /\ pc \in {"rt_swap", "rt_place"} => item = "runtime"

(* Every step keeps the guest payload whole where it passes for whole.     *)
LEMMA StepGuest ==
  ASSUME TypeOK, GuestInv, Next
  PROVE  GuestInv'
<1> USE ConstantsAssumption
    DEF Payloads, Slots, launch, history, Go, Smooth, Fault, TypeOK, GuestInv, Sound,
        Serves, InSession, Exists, RollbackPCs, StagingPCs
<1>1. ASSUME NEW w \in Wants, Launch(w) PROVE GuestInv'
  BY <1>1 DEF Launch
<1>2. CASE StartRollback
  BY <1>2 DEF StartRollback
<1>3. CASE RollbackClear
  BY <1>3 DEF RollbackClear, RollbackDone, Put
<1>4. CASE RollbackAside
  BY <1>4 DEF RollbackAside, RollbackFailed, Move
<1>5. CASE RollbackRestore
  BY <1>5 DEF RollbackRestore, RollbackFailed, Move
<1>6. CASE RollbackSweep
  BY <1>6 DEF RollbackSweep, RollbackDone, Put
<1>7. CASE RollbackClean
  BY <1>7 DEF RollbackClean
<1>8. CASE Pin
  BY <1>8 DEF Pin, HasReceipt
<1>9. CASE SkipRuntime
  BY <1>9 DEF SkipRuntime
<1>10. CASE RestoredRuntime
  BY <1>10 DEF RestoredRuntime, UseRuntime
<1>11. CASE EnsureRuntime
  BY <1>11 DEF EnsureRuntime, PutRuntimeReceipt, UseRuntime, Failed
<1>12. CASE SwapRuntime
  BY <1>12 DEF SwapRuntime, Put
<1>13. CASE PlaceRuntime
  BY <1>13 DEF PlaceRuntime, Move, UseRuntime, Failed
<1>14. CASE RestoredGuest
  BY <1>14 DEF RestoredGuest, ReceiptMatches
<1>15. CASE EnsureGuest
  BY <1>15 DEF EnsureGuest, Put, ReceiptMatches, HasReceipt
<1>16. CASE FillGuest
  BY <1>16 DEF FillGuest, Put, Fresh, Tree
<1>17. CASE Stage
  BY <1>17 DEF Stage, Put, Fresh, Failed, Tree
<1>18. CASE Record
  BY <1>18 DEF Record, Failed
<1>19. CASE PublishClear
  BY <1>19 DEF PublishClear, Put, Failed
<1>20. CASE PublishAside
  BY <1>20 DEF PublishAside, Move, Failed
<1>21. CASE PublishPlace
  BY <1>21 DEF PublishPlace, Move, Failed, UseRuntime
<1>22. CASE PublishUndo
  BY <1>22 DEF PublishUndo, Move, Failed
<1>23. CASE GpuClean
  BY <1>23 DEF GpuClean
<1>24. CASE CommitRemove
  BY <1>24 DEF CommitRemove, Put
<1>25. CASE CommitClean
  BY <1>25 DEF CommitClean
<1>26. CASE RemovalProgress
  BY <1>26 DEF RemovalProgress, Put, Remains, Removing
<1>27. CASE GpuFailure
  BY <1>27 DEF GpuFailure
<1>28. CASE GuestReady
  BY <1>28 DEF GuestReady
<1>29. CASE EndSession
  BY <1>29 DEF EndSession
<1>30. CASE Crash
  BY <1>30 DEF Crash
<1> QED
  BY <1>1, <1>2, <1>3, <1>4, <1>5, <1>6, <1>7, <1>8, <1>9, <1>10, <1>11, <1>12, <1>13, <1>14, <1>15, <1>16, <1>17, <1>18, <1>19, <1>20, <1>21, <1>22, <1>23, <1>24, <1>25, <1>26, <1>27, <1>28, <1>29, <1>30 DEF Next, Step

(* The invariant of the guest payload.                                     *)
LEMMA GuestInvHolds == Spec => []GuestInv
<1>1. Init => GuestInv
  BY DEF Init, GuestInv, Sound, InSession, Serves, Slots, Payloads, StagingPCs, RollbackPCs
<1>2. TypeOK /\ GuestInv /\ [Next]_vars => GuestInv'
  <2> SUFFICES ASSUME TypeOK, GuestInv, [Next]_vars PROVE GuestInv'
    OBVIOUS
  <2>1. CASE UNCHANGED vars
    BY <2>1 DEF vars, GuestInv, InSession
  <2> QED
    BY <2>1, StepGuest
<1> QED
  BY <1>1, <1>2, TypeCorrect, PTL DEF Spec

(* No mix of updates, rollbacks, repairs and deaths boots an incomplete    *)
(* guest or one under another release's receipt.                           *)
THEOREM GuestIsWhole == Spec => []BootsWholeGuest
<1>1. GuestInv => BootsWholeGuest
  BY DEF GuestInv, BootsWholeGuest, Whole, Exists, Sound, Serves, InSession, Slots
<1> QED
  BY <1>1, GuestInvHolds, PTL

(***************************************************************************)
(* The receipt of the runtime.                                             *)
(***************************************************************************)

(* A complete runtime without a receipt is the legacy one, and one with a  *)
(* receipt came in the archive that the receipt names: under every name,   *)
(* because a rollback and a publication move trees between them.           *)
RuntimeInv == \A s \in Slots : LET t == tree["runtime"][s] IN
  t # NoTree /\ t.body = "whole" =>
    /\ t.receipt = NoRelease => t.rel = LegacyRelease
    /\ t.receipt \in Releases => ArchiveOf[t.receipt] = ArchiveOf[t.rel]

(* Every step keeps the receipts of complete runtimes truthful.            *)
LEMMA StepRuntime ==
  ASSUME TypeOK, RuntimeInv, Next
  PROVE  RuntimeInv'
<1> USE ConstantsAssumption DEF Payloads, Slots, launch, history, Smooth, Fault, TypeOK, RuntimeInv, Exists
<1>1. CASE UNCHANGED tree
  BY <1>1
<1>2. CASE RollbackClear
  BY <1>2 DEF RollbackClear, RollbackDone, Put
<1>3. CASE RollbackAside
  BY <1>3 DEF RollbackAside, Move
<1>4. CASE RollbackRestore
  BY <1>4 DEF RollbackRestore, Move
<1>5. CASE RollbackSweep
  BY <1>5 DEF RollbackSweep, Put
<1>6. CASE EnsureRuntime
  <2> DEFINE cur == tree["runtime"]["current"]
  <2>1. \/ UNCHANGED tree
        \/ /\ cur # NoTree /\ cur.receipt \in Releases /\ ArchiveOf[cur.receipt] = ArchiveOf[want["runtime"]]
           /\ PutRuntimeReceipt(want["runtime"])
        \/ cur # NoTree /\ cur.receipt = NoRelease /\ PutRuntimeReceipt(LegacyRelease)
        \/ cur # NoTree /\ PutRuntimeReceipt(BadReceipt)
    BY <1>6 DEF EnsureRuntime, HasReceipt, HasExecutable, SameArchive
  <2>2. ASSUME NEW r, cur # NoTree, PutRuntimeReceipt(r),
               cur.body = "whole" => /\ r = NoRelease => cur.rel = LegacyRelease
                                     /\ r \in Releases => ArchiveOf[r] = ArchiveOf[cur.rel]
        PROVE  RuntimeInv'
    <3> DEFINE new == tree'["runtime"]["current"]
    <3>0. tree' = [tree EXCEPT !["runtime"] = [tree["runtime"] EXCEPT !["current"] = [cur EXCEPT !.receipt = r]]]
      BY <2>2 DEF PutRuntimeReceipt
    <3>1. new.rel = cur.rel /\ new.body = cur.body /\ new.receipt = r
      <4>1. cur \in Tree
        BY <2>2
      <4>2. new = [cur EXCEPT !.receipt = r]
        BY <3>0
      <4> QED
        BY <4>1, <4>2 DEF Tree
    <3>2. \A s \in Slots \ {"current"} : tree'["runtime"][s] = tree["runtime"][s]
      BY <3>0
    <3>3. new.body = "whole" => /\ new.receipt = NoRelease => new.rel = LegacyRelease
                                /\ new.receipt \in Releases => ArchiveOf[new.receipt] = ArchiveOf[new.rel]
      BY <2>2, <3>1
    <3> HIDE DEF new
    <3> QED
      BY <3>2, <3>3 DEF new
  <2>3. cur # NoTree /\ cur.body = "whole" =>
          /\ cur.receipt = NoRelease => cur.rel = LegacyRelease
          /\ cur.receipt \in Releases => ArchiveOf[cur.receipt] = ArchiveOf[cur.rel]
    OBVIOUS
  <2>4. want["runtime"] \in Releases
    OBVIOUS
  <2> QED
    BY <1>1, <2>1, <2>2, <2>3, <2>4
<1>7. CASE SwapRuntime
  BY <1>7 DEF SwapRuntime, Put
<1>8. CASE PlaceRuntime
  BY <1>8 DEF PlaceRuntime, Move
<1>9. CASE EnsureGuest
  BY <1>9 DEF EnsureGuest, Put
<1>10. CASE FillGuest
  BY <1>10 DEF FillGuest, Put
<1>11. CASE Stage
  BY <1>11 DEF Stage, Put, Fresh
<1>12. CASE PublishClear
  BY <1>12 DEF PublishClear, Put
<1>13. CASE PublishAside
  BY <1>13 DEF PublishAside, Move
<1>14. CASE PublishPlace
  BY <1>14 DEF PublishPlace, Move
<1>15. CASE PublishUndo
  BY <1>15 DEF PublishUndo, Move
<1>16. CASE CommitRemove
  BY <1>16 DEF CommitRemove, Put
<1>17. CASE RemovalProgress
  BY <1>17 DEF RemovalProgress, Put, Remains
<1> QED
  BY <1>1, <1>2, <1>3, <1>4, <1>5, <1>6, <1>7, <1>8, <1>9, <1>10, <1>11, <1>12, <1>13, <1>14, <1>15, <1>16, <1>17
     DEF Next, Step, Launch, StartRollback, RollbackClean, Pin, SkipRuntime, RestoredRuntime, RestoredGuest, Record, GpuClean, CommitClean, GpuFailure, GuestReady, EndSession, Crash

(* The receipt of a complete runtime names the archive it came in, after   *)
(* any mix of updates, rollbacks, adoptions and process deaths, whatever   *)
(* archives the releases share.                                            *)
THEOREM ReceiptIsTruthful == Spec => []RuntimeReceiptIsTruthful
<1>1. Init => RuntimeInv
  BY ConstantsAssumption DEF Init, RuntimeInv, Slots, Payloads
<1>2. TypeOK /\ RuntimeInv /\ [Next]_vars => RuntimeInv'
  BY StepRuntime DEF vars, RuntimeInv
<1>3. RuntimeInv => RuntimeReceiptIsTruthful
  BY DEF RuntimeInv, RuntimeReceiptIsTruthful, HasReceipt, Whole, Exists, Slots
<1> QED
  BY <1>1, <1>2, <1>3, TypeCorrect, PTL DEF Spec

(***************************************************************************)
(* Recovery launches.                                                      *)
(***************************************************************************)

(* A recovery launch starts with nothing pending and only checks, boots    *)
(* and listens.                                                            *)
RecoveryInv ==
  rolledBack /\ pc # "off" => /\ pc \in {"pin", "runtime", "guest", "boot"}
                             /\ journal = NoJournal

Frozen == rolledBack /\ pc # "off" /\ pc' # "off"
            => \A p \in Payloads : tree'[p]["current"] = tree[p]["current"]

(* The branch of a recovery launch in every action.                        *)
LEMMA StepRecovery ==
  ASSUME TypeOK, RecoveryInv, Next
  PROVE  RecoveryInv' /\ Frozen
<1> USE DEF launch, history, Go, Smooth, Fault, RecoveryInv, NoJournal, Frozen
<1>1. ASSUME NEW w \in Wants, Launch(w) PROVE RecoveryInv' /\ Frozen
  BY <1>1 DEF Launch
<1>2. CASE StartRollback
  BY <1>2 DEF StartRollback
<1>3. CASE RollbackClear
  BY <1>3 DEF RollbackClear, RollbackDone
<1>4. CASE RollbackAside
  BY <1>4 DEF RollbackAside, RollbackFailed
<1>5. CASE RollbackRestore
  BY <1>5 DEF RollbackRestore, RollbackFailed
<1>6. CASE RollbackSweep
  BY <1>6 DEF RollbackSweep, RollbackDone
<1>7. CASE RollbackClean
  BY <1>7 DEF RollbackClean
<1>8. CASE Pin
  BY <1>8 DEF Pin
<1>9. CASE SkipRuntime
  BY <1>9 DEF SkipRuntime
<1>10. CASE RestoredRuntime
  BY <1>10 DEF RestoredRuntime, UseRuntime
<1>11. CASE EnsureRuntime
  BY <1>11 DEF EnsureRuntime
<1>12. CASE SwapRuntime
  BY <1>12 DEF SwapRuntime
<1>13. CASE PlaceRuntime
  BY <1>13 DEF PlaceRuntime
<1>14. CASE RestoredGuest
  BY <1>14 DEF RestoredGuest
<1>15. CASE EnsureGuest
  BY <1>15 DEF EnsureGuest
<1>16. CASE FillGuest
  BY <1>16 DEF FillGuest
<1>17. CASE Stage
  BY <1>17 DEF Stage
<1>18. CASE Record
  BY <1>18 DEF Record
<1>19. CASE PublishClear
  BY <1>19 DEF PublishClear
<1>20. CASE PublishAside
  BY <1>20 DEF PublishAside
<1>21. CASE PublishPlace
  BY <1>21 DEF PublishPlace
<1>22. CASE PublishUndo
  BY <1>22 DEF PublishUndo
<1>23. CASE GpuClean
  BY <1>23 DEF GpuClean
<1>24. CASE CommitRemove
  BY <1>24 DEF CommitRemove
<1>25. CASE CommitClean
  BY <1>25 DEF CommitClean
<1>26. CASE RemovalProgress
  BY <1>26 DEF RemovalProgress, Removing
<1>27. CASE GpuFailure
  BY <1>27 DEF GpuFailure
<1>28. CASE GuestReady
  BY <1>28 DEF GuestReady
<1>29. CASE EndSession
  BY <1>29 DEF EndSession
<1>30. CASE Crash
  BY <1>30 DEF Crash
<1> QED
  BY <1>1, <1>2, <1>3, <1>4, <1>5, <1>6, <1>7, <1>8, <1>9, <1>10, <1>11, <1>12, <1>13, <1>14, <1>15, <1>16, <1>17, <1>18, <1>19, <1>20, <1>21, <1>22, <1>23, <1>24, <1>25, <1>26, <1>27, <1>28, <1>29, <1>30 DEF Next, Step

(* Nothing but a process death or the end of the launch touches the        *)
(* payloads after RollbackClean has marked the launch.                     *)
THEOREM RecoveryIsFrozen == Spec => RecoveryLaunchIsFrozen
<1>1. Init => RecoveryInv
  BY DEF Init, RecoveryInv
<1>2. TypeOK /\ RecoveryInv /\ [Next]_vars => RecoveryInv'
  BY StepRecovery DEF vars, RecoveryInv
<1>3. TypeOK /\ RecoveryInv /\ [Next]_vars => [Frozen]_vars
  BY StepRecovery
<1> QED
  BY <1>1, <1>2, <1>3, TypeCorrect, PTL DEF Spec, RecoveryLaunchIsFrozen, Frozen

(***************************************************************************)
(* PayloadUpdate implements AtomicUpdate.                                  *)
(***************************************************************************)

(* What a guest on trial may be booted from: the staged tree, the replaced *)
(* one when publishing failed half way, or nothing at all.                 *)
Presentable(p, t) == Content(t) \in {c \in Contents : c.body = "whole"} \cup {NoTree, Content(base[p])}

(* A staged tree stays whole until it is published.                        *)
NextIsWhole == pc \in (StagingPCs \ {"stage"}) \cup {"rt_swap", "rt_place"} => Whole(item, "next")

(* What a launch has on trial can be booted, and so can what its rollback  *)
(* puts back when the restoring rename fails.                              *)
TrialShown ==
  /\ \A p \in Trial : Phase \notin {"off", "recovering"} /\ ~(pc = "rb_sweep" /\ p = item) =>
       Presentable(p, tree[p]["current"])
  /\ pc = "rb_restore" /\ caller = "session" /\ item \in Trial => Presentable(item, tree[item]["failed"])

(* The GPU is used only by a launch that has a runtime.                    *)
OnGpu ==
  /\ pc \in RollbackPCs /\ caller = "session" => qemu = "gpu"
  /\ Phase = "recovering" \/ pc \in {"runtime", "rt_swap", "rt_place"}
       \/ (pc \in StagingPCs /\ item = "runtime") => qemu # "gpu"
  /\ qemu = "gpu" /\ pc \notin {"off", "rb_restore"} => Exists("runtime", "current")

(* Only what is incomplete is installed in place.                          *)
RepairInv ==
  /\ pc = "gt_fill" => Exists("guest", "current") /\ tree["guest"]["current"].body = "gutted"
  /\ pc = "rt_swap" => ~HasExecutable

(* There is something to go back to before anything is replaced.           *)
Replaceable ==
  /\ pc = "stage" /\ item = "guest" => Exists("guest", "current")
  /\ pc = "record" => Exists(item, "current")
  /\ pc \in {"pub_clear", "pub_aside", "pub_place", "pub_undo"} => base[item] # NoTree

TrialInv == NextIsWhole /\ TrialShown /\ OnGpu /\ RepairInv /\ Replaceable

(* A staged tree is left alone until the launch ends or publishes it.      *)
LEMMA StepStaged ==
  ASSUME Inv, Inv', NextIsWhole, Next
  PROVE  NextIsWhole'
<1> USE ConstantsAssumption DEF Payloads, Slots, launch, history, Go, Smooth, Fault, Exists, Inv, TypeOK, RollbackPCs, StagingPCs, NextIsWhole, Whole
<1>1. ASSUME NEW w \in Wants, Launch(w) PROVE NextIsWhole'
  BY <1>1 DEF Launch
<1>2. CASE StartRollback
  BY <1>2 DEF StartRollback
<1>3. CASE RollbackClear
  BY <1>3 DEF RollbackClear, Put, RollbackDone
<1>4. CASE RollbackAside
  BY <1>4 DEF RollbackAside, Move, RollbackFailed
<1>5. CASE RollbackRestore
  BY <1>5 DEF RollbackRestore, Move, RollbackFailed
<1>6. CASE RollbackSweep
  BY <1>6 DEF RollbackSweep, Put, RollbackDone
<1>7. CASE RollbackClean
  BY <1>7 DEF RollbackClean
<1>8. CASE Pin
  BY <1>8 DEF Pin
<1>9. CASE SkipRuntime
  BY <1>9 DEF SkipRuntime
<1>10. CASE RestoredRuntime
  BY <1>10 DEF RestoredRuntime, UseRuntime, HasExecutable
<1>11. CASE EnsureRuntime
  BY <1>11 DEF EnsureRuntime, PutRuntimeReceipt, HasExecutable, HasReceipt, ReceiptMatches, UseRuntime, Failed
<1>12. CASE SwapRuntime
  BY <1>12 DEF SwapRuntime, Put, HasExecutable
<1>13. CASE PlaceRuntime
  BY <1>13 DEF PlaceRuntime, Move, UseRuntime, Failed
<1>14. CASE RestoredGuest
  BY <1>14 DEF RestoredGuest
<1>15. CASE EnsureGuest
  BY <1>15 DEF EnsureGuest, Put
<1>16. CASE FillGuest
  BY <1>16 DEF FillGuest, Put, Fresh
<1>17. CASE Stage
  BY <1>17 DEF Stage, Put, Fresh, Failed, HasExecutable, Tree
<1>18. CASE Record
  BY <1>18 DEF Record, Failed
<1>19. CASE PublishClear
  BY <1>19 DEF PublishClear, Put, Failed
<1>20. CASE PublishAside
  BY <1>20 DEF PublishAside, Move, Failed
<1>21. CASE PublishPlace
  BY <1>21 DEF PublishPlace, Move, UseRuntime, Failed
<1>22. CASE PublishUndo
  BY <1>22 DEF PublishUndo, Move, Failed
<1>23. CASE GpuClean
  BY <1>23 DEF GpuClean
<1>24. CASE CommitRemove
  BY <1>24 DEF CommitRemove, Put
<1>25. CASE CommitClean
  BY <1>25 DEF CommitClean
<1>26. CASE RemovalProgress
  BY <1>26 DEF RemovalProgress, Put, Remains, Removing
<1>27. CASE GpuFailure
  BY <1>27 DEF GpuFailure
<1>28. CASE GuestReady
  BY <1>28 DEF GuestReady
<1>29. CASE EndSession
  BY <1>29 DEF EndSession
<1>30. CASE Crash
  BY <1>30 DEF Crash
<1> QED
  BY <1>1, <1>2, <1>3, <1>4, <1>5, <1>6, <1>7, <1>8, <1>9, <1>10, <1>11, <1>12, <1>13, <1>14, <1>15, <1>16, <1>17, <1>18, <1>19, <1>20, <1>21, <1>22, <1>23, <1>24, <1>25, <1>26, <1>27, <1>28, <1>29, <1>30 DEF Next, Step

(* A runtime the GPU is used with goes only with that use.                 *)
LEMMA StepOnGpu ==
  ASSUME Inv, Inv', OnGpu, NextIsWhole, Next
  PROVE  OnGpu'
<1> USE ConstantsAssumption DEF Payloads, Slots, launch, history, Go, Smooth, Fault, Exists, Inv, TypeOK, RollbackPCs, StagingPCs, OnGpu, Phase, SettledAt, BaseAt
<1>1. ASSUME NEW w \in Wants, Launch(w) PROVE OnGpu'
  BY <1>1 DEF Launch
<1>2. CASE StartRollback
  BY <1>2 DEF StartRollback
<1>3. CASE RollbackClear
  BY <1>3 DEF RollbackClear, Put, RollbackDone
<1>4. CASE RollbackAside
  BY <1>4 DEF RollbackAside, Move, RollbackFailed
<1>5. CASE RollbackRestore
  BY <1>5 DEF RollbackRestore, Move, RollbackFailed
<1>6. CASE RollbackSweep
  BY <1>6 DEF RollbackSweep, Put, RollbackDone
<1>7. CASE RollbackClean
  BY <1>7 DEF RollbackClean
<1>8. CASE Pin
  BY <1>8 DEF Pin
<1>9. CASE SkipRuntime
  BY <1>9 DEF SkipRuntime
<1>10. CASE RestoredRuntime
  BY <1>10 DEF RestoredRuntime, UseRuntime, HasExecutable
<1>11. CASE EnsureRuntime
  BY <1>11 DEF EnsureRuntime, PutRuntimeReceipt, HasExecutable, HasReceipt, Tree, ReceiptMatches, UseRuntime, Failed
<1>12. CASE SwapRuntime
  BY <1>12 DEF SwapRuntime, Put, HasExecutable
<1>13. CASE PlaceRuntime
  BY <1>13 DEF PlaceRuntime, Move, UseRuntime, Failed, Whole, NextIsWhole
<1>14. CASE RestoredGuest
  BY <1>14 DEF RestoredGuest
<1>15. CASE EnsureGuest
  BY <1>15 DEF EnsureGuest, Put
<1>16. CASE FillGuest
  BY <1>16 DEF FillGuest, Put, Fresh
<1>17. CASE Stage
  BY <1>17 DEF Stage, Put, Fresh, Failed, HasExecutable
<1>18. CASE Record
  BY <1>18 DEF Record, Failed
<1>19. CASE PublishClear
  BY <1>19 DEF PublishClear, Put, Failed
<1>20. CASE PublishAside
  BY <1>20 DEF PublishAside, Move, Failed
<1>21. CASE PublishPlace
  BY <1>21 DEF PublishPlace, Move, UseRuntime, Failed, Whole, NextIsWhole
<1>22. CASE PublishUndo
  BY <1>22 DEF PublishUndo, Move, Failed
<1>23. CASE GpuClean
  BY <1>23 DEF GpuClean
<1>24. CASE CommitRemove
  BY <1>24 DEF CommitRemove, Put
<1>25. CASE CommitClean
  BY <1>25 DEF CommitClean
<1>26. CASE RemovalProgress
  BY <1>26 DEF RemovalProgress, Put, Remains, Removing
<1>27. CASE GpuFailure
  BY <1>27 DEF GpuFailure
<1>28. CASE GuestReady
  BY <1>28 DEF GuestReady
<1>29. CASE EndSession
  BY <1>29 DEF EndSession
<1>30. CASE Crash
  BY <1>30 DEF Crash
<1> QED
  BY <1>1, <1>2, <1>3, <1>4, <1>5, <1>6, <1>7, <1>8, <1>9, <1>10, <1>11, <1>12, <1>13, <1>14, <1>15, <1>16, <1>17, <1>18, <1>19, <1>20, <1>21, <1>22, <1>23, <1>24, <1>25, <1>26, <1>27, <1>28, <1>29, <1>30 DEF Next, Step

(* What is about to be installed in place stays incomplete until it is.    *)
LEMMA StepRepair ==
  ASSUME Inv, Inv', RepairInv, GuestInv, Next
  PROVE  RepairInv'
<1> USE ConstantsAssumption DEF Payloads, Slots, launch, history, Go, Smooth, Fault, Exists, Inv, TypeOK, RollbackPCs, StagingPCs, RepairInv, HasExecutable
<1>1. ASSUME NEW w \in Wants, Launch(w) PROVE RepairInv'
  BY <1>1 DEF Launch
<1>2. CASE StartRollback
  BY <1>2 DEF StartRollback
<1>3. CASE RollbackClear
  BY <1>3 DEF RollbackClear, Put, RollbackDone
<1>4. CASE RollbackAside
  BY <1>4 DEF RollbackAside, Move, RollbackFailed
<1>5. CASE RollbackRestore
  BY <1>5 DEF RollbackRestore, Move, RollbackFailed
<1>6. CASE RollbackSweep
  BY <1>6 DEF RollbackSweep, Put, RollbackDone
<1>7. CASE RollbackClean
  BY <1>7 DEF RollbackClean
<1>8. CASE Pin
  BY <1>8 DEF Pin
<1>9. CASE SkipRuntime
  BY <1>9 DEF SkipRuntime
<1>10. CASE RestoredRuntime
  BY <1>10 DEF RestoredRuntime, UseRuntime, HasExecutable
<1>11. CASE EnsureRuntime
  BY <1>11 DEF EnsureRuntime, PutRuntimeReceipt, HasExecutable, HasReceipt, ReceiptMatches, UseRuntime, Failed
<1>12. CASE SwapRuntime
  BY <1>12 DEF SwapRuntime, Put, HasExecutable
<1>13. CASE PlaceRuntime
  BY <1>13 DEF PlaceRuntime, Move, UseRuntime, Failed
<1>14. CASE RestoredGuest
  BY <1>14 DEF RestoredGuest
<1>15. CASE EnsureGuest
  BY <1>15 DEF EnsureGuest, Put, Tree
<1>16. CASE FillGuest
  BY <1>16 DEF FillGuest, Put, Fresh
<1>17. CASE Stage
  BY <1>17 DEF Stage, Put, Fresh, Failed, HasExecutable
<1>18. CASE Record
  BY <1>18 DEF Record, Failed
<1>19. CASE PublishClear
  BY <1>19 DEF PublishClear, Put, Failed
<1>20. CASE PublishAside
  BY <1>20 DEF PublishAside, Move, Failed
<1>21. CASE PublishPlace
  BY <1>21 DEF PublishPlace, Move, UseRuntime, Failed
<1>22. CASE PublishUndo
  BY <1>22 DEF PublishUndo, Move, Failed
<1>23. CASE GpuClean
  BY <1>23 DEF GpuClean
<1>24. CASE CommitRemove
  BY <1>24 DEF CommitRemove, Put
<1>25. CASE CommitClean
  BY <1>25 DEF CommitClean
<1>26. CASE RemovalProgress
  BY <1>26 DEF RemovalProgress, Put, Remains, Removing
<1>27. CASE GpuFailure
  BY <1>27 DEF GpuFailure
<1>28. CASE GuestReady
  BY <1>28 DEF GuestReady
<1>29. CASE EndSession
  BY <1>29 DEF EndSession
<1>30. CASE Crash
  BY <1>30 DEF Crash
<1> QED
  BY <1>1, <1>2, <1>3, <1>4, <1>5, <1>6, <1>7, <1>8, <1>9, <1>10, <1>11, <1>12, <1>13, <1>14, <1>15, <1>16, <1>17, <1>18, <1>19, <1>20, <1>21, <1>22, <1>23, <1>24, <1>25, <1>26, <1>27, <1>28, <1>29, <1>30 DEF Next, Step

(* An update starts only where a tree is to be replaced.                   *)
LEMMA StepReplaceable ==
  ASSUME Inv, Inv', Replaceable, Next
  PROVE  Replaceable'
<1> USE ConstantsAssumption DEF Payloads, Slots, launch, history, Go, Smooth, Fault, Exists, Inv, TypeOK, Replaceable, Tree
<1>1. ASSUME NEW w \in Wants, Launch(w) PROVE Replaceable'
  BY <1>1 DEF Launch
<1>2. CASE StartRollback
  BY <1>2 DEF StartRollback
<1>3. CASE RollbackClear
  BY <1>3 DEF RollbackClear, RollbackDone
<1>4. CASE RollbackAside
  BY <1>4 DEF RollbackAside, RollbackFailed
<1>5. CASE RollbackRestore
  BY <1>5 DEF RollbackRestore, RollbackFailed
<1>6. CASE RollbackSweep
  BY <1>6 DEF RollbackSweep, RollbackDone
<1>7. CASE RollbackClean
  BY <1>7 DEF RollbackClean
<1>8. CASE Pin
  BY <1>8 DEF Pin
<1>9. CASE SkipRuntime
  BY <1>9 DEF SkipRuntime
<1>10. CASE RestoredRuntime
  BY <1>10 DEF RestoredRuntime, UseRuntime
<1>11. CASE EnsureRuntime
  BY <1>11 DEF EnsureRuntime, PutRuntimeReceipt, UseRuntime, Failed
<1>12. CASE SwapRuntime
  BY <1>12 DEF SwapRuntime
<1>13. CASE PlaceRuntime
  BY <1>13 DEF PlaceRuntime, UseRuntime, Failed
<1>14. CASE RestoredGuest
  BY <1>14 DEF RestoredGuest
<1>15. CASE EnsureGuest
  BY <1>15 DEF EnsureGuest, Put, HasReceipt
<1>16. CASE FillGuest
  BY <1>16 DEF FillGuest
<1>17. CASE Stage
  BY <1>17 DEF Stage, Put, Failed, HasExecutable
<1>18. CASE Record
  BY <1>18 DEF Record, Failed
<1>19. CASE PublishClear
  BY <1>19 DEF PublishClear, Put, Failed
<1>20. CASE PublishAside
  BY <1>20 DEF PublishAside, Move, Failed
<1>21. CASE PublishPlace
  BY <1>21 DEF PublishPlace, Move, UseRuntime, Failed
<1>22. CASE PublishUndo
  BY <1>22 DEF PublishUndo, Failed
<1>23. CASE GpuClean
  BY <1>23 DEF GpuClean
<1>24. CASE CommitRemove
  BY <1>24 DEF CommitRemove
<1>25. CASE CommitClean
  BY <1>25 DEF CommitClean
<1>26. CASE RemovalProgress
  BY <1>26 DEF RemovalProgress, Put, Removing
<1>27. CASE GpuFailure
  BY <1>27 DEF GpuFailure
<1>28. CASE GuestReady
  BY <1>28 DEF GuestReady
<1>29. CASE EndSession
  BY <1>29 DEF EndSession
<1>30. CASE Crash
  BY <1>30 DEF Crash
<1> QED
  BY <1>1, <1>2, <1>3, <1>4, <1>5, <1>6, <1>7, <1>8, <1>9, <1>10, <1>11, <1>12, <1>13, <1>14, <1>15, <1>16, <1>17, <1>18, <1>19, <1>20, <1>21, <1>22, <1>23, <1>24, <1>25, <1>26, <1>27, <1>28, <1>29, <1>30 DEF Next, Step

(* What is on trial stays presentable while it is published, rolled back   *)
(* by a session, or left half way by either.                               *)
LEMMA StepShown ==
  ASSUME Inv, Inv', OnGpu, NextIsWhole, TrialShown, Next
  PROVE  TrialShown'
<1> USE ConstantsAssumption DEF Payloads, Slots, launch, history, Go, Smooth, Fault, Exists, Inv, TypeOK, RollbackPCs,
        StagingPCs, TrialShown, Trial, Phase, SettledAt, BaseAt, Settled, Presentable, Content, Contents, Tree
<1>1. ASSUME NEW w \in Wants, Launch(w) PROVE TrialShown'
  BY <1>1 DEF Launch
<1>2. CASE StartRollback
  BY <1>2 DEF StartRollback
<1>3. CASE RollbackClear
  BY <1>3 DEF RollbackClear, Put, RollbackDone
<1>4. CASE RollbackAside
  BY <1>4 DEF RollbackAside, Move, RollbackFailed, OnGpu
<1>5. CASE RollbackRestore
  BY <1>5 DEF RollbackRestore, Move, RollbackFailed
<1>6. CASE RollbackSweep
  BY <1>6 DEF RollbackSweep, Put, RollbackDone
<1>7. CASE RollbackClean
  BY <1>7 DEF RollbackClean
<1>8. CASE Pin
  BY <1>8 DEF Pin
<1>9. CASE SkipRuntime
  BY <1>9 DEF SkipRuntime
<1>10. CASE RestoredRuntime
  BY <1>10 DEF RestoredRuntime, UseRuntime
<1>11. CASE EnsureRuntime
  BY <1>11 DEF EnsureRuntime, UseRuntime, Failed
<1>12. CASE SwapRuntime
  BY <1>12 DEF SwapRuntime, Put
<1>13. CASE PlaceRuntime
  BY <1>13 DEF PlaceRuntime, Move, UseRuntime, Failed
<1>14. CASE RestoredGuest
  BY <1>14 DEF RestoredGuest
<1>15. CASE EnsureGuest
  BY <1>15 DEF EnsureGuest, Put
<1>16. CASE FillGuest
  BY <1>16 DEF FillGuest, Put
<1>17. CASE Stage
  BY <1>17 DEF Stage, Put, Failed
<1>18. CASE Record
  BY <1>18 DEF Record, Failed
<1>19. CASE PublishClear
  BY <1>19 DEF PublishClear, Put, Failed
<1>20. CASE PublishAside
  <2>1. UNCHANGED base /\ pc' # "rb_restore" /\ Phase = "updating" /\ pc # "rb_sweep"
    BY <1>20 DEF PublishAside, Failed
  <2>2. \A p \in Payloads : tree'[p]["current"] \in {tree[p]["current"], NoTree}
    BY <1>20 DEF PublishAside, Move
  <2>3. ASSUME NEW p \in Trial' PROVE Presentable(p, tree[p]["current"])'
    BY <2>1, <2>2
  <2> QED
    BY <2>1, <2>3
<1>21. CASE PublishPlace
  BY <1>21 DEF PublishPlace, Move, UseRuntime, Failed, NextIsWhole, Whole
<1>22. CASE PublishUndo
  BY <1>22 DEF PublishUndo, Move, Failed
<1>23. CASE GpuClean
  BY <1>23 DEF GpuClean
<1>24. CASE CommitRemove
  BY <1>24 DEF CommitRemove, Put
<1>25. CASE CommitClean
  BY <1>25 DEF CommitClean
<1>26. CASE RemovalProgress
  <2>1. UNCHANGED <<base, pc, item, caller>>
    BY <1>26 DEF RemovalProgress
  <2>2. \A p \in Trial : tree'[p]["current"] = tree[p]["current"]
    BY <1>26 DEF RemovalProgress, Put, Removing
  <2>3. pc = "rb_restore" => UNCHANGED tree
    BY <1>26 DEF RemovalProgress, Removing
  <2> QED
    BY <2>1, <2>2, <2>3
<1>27. CASE GpuFailure
  BY <1>27 DEF GpuFailure
<1>28. CASE GuestReady
  BY <1>28 DEF GuestReady
<1>29. CASE EndSession
  BY <1>29 DEF EndSession
<1>30. CASE Crash
  BY <1>30 DEF Crash
<1> QED
  BY <1>1, <1>2, <1>3, <1>4, <1>5, <1>6, <1>7, <1>8, <1>9, <1>10, <1>11, <1>12, <1>13, <1>14, <1>15, <1>16, <1>17, <1>18, <1>19, <1>20, <1>21, <1>22, <1>23, <1>24, <1>25, <1>26, <1>27, <1>28, <1>29, <1>30 DEF Next, Step

Leftovers == {p \in Payloads : leftover[p]}
Running == [p \in Payloads |-> Content(tree[p]["current"])]

(* A launch goes through the phases of AtomicUpdate: it tries nothing      *)
(* before all earlier trials are undone.                                   *)
LEMMA PhaseStep ==
  ASSUME Inv, Inv', Next
  PROVE  Phase' \in {Phase} \cup AtomicUpdate!NextPhases
<1> USE ConstantsAssumption DEF Payloads, Go, launch, history, Phase, AtomicUpdate!NextPhases, Trial, Inv, RollbackPCs
<1>1. ASSUME NEW w \in Wants, Launch(w) PROVE Phase' \in {Phase} \cup AtomicUpdate!NextPhases
  BY <1>1 DEF Launch
<1>2. CASE StartRollback
  BY <1>2 DEF StartRollback, NoJournal, UnconfirmedIsJournaled
<1>3. CASE RollbackClear
  BY <1>3 DEF RollbackClear, RollbackDone
<1>4. CASE RollbackAside
  BY <1>4 DEF RollbackAside, RollbackFailed
<1>5. CASE RollbackRestore
  BY <1>5 DEF RollbackRestore, RollbackFailed
<1>6. CASE RollbackSweep
  BY <1>6 DEF RollbackSweep, RollbackDone
<1>7. CASE RollbackClean
  BY <1>7 DEF RollbackClean
<1>8. CASE Pin
  BY <1>8 DEF Pin, SettledAt, Settled
<1>9. CASE SkipRuntime
  BY <1>9 DEF SkipRuntime
<1>10. CASE RestoredRuntime
  BY <1>10 DEF RestoredRuntime, UseRuntime
<1>11. CASE EnsureRuntime
  BY <1>11 DEF EnsureRuntime, UseRuntime, Failed
<1>12. CASE SwapRuntime
  BY <1>12 DEF SwapRuntime
<1>13. CASE PlaceRuntime
  BY <1>13 DEF PlaceRuntime, UseRuntime, Failed
<1>14. CASE RestoredGuest
  BY <1>14 DEF RestoredGuest
<1>15. CASE EnsureGuest
  BY <1>15 DEF EnsureGuest
<1>16. CASE FillGuest
  BY <1>16 DEF FillGuest
<1>17. CASE Stage
  BY <1>17 DEF Stage, Failed
<1>18. CASE Record
  BY <1>18 DEF Record, Failed
<1>19. CASE PublishClear
  BY <1>19 DEF PublishClear, Failed
<1>20. CASE PublishAside
  BY <1>20 DEF PublishAside, Failed
<1>21. CASE PublishPlace
  BY <1>21 DEF PublishPlace, UseRuntime, Failed
<1>22. CASE PublishUndo
  BY <1>22 DEF PublishUndo, Failed
<1>23. CASE GpuClean
  BY <1>23 DEF GpuClean
<1>24. CASE CommitRemove
  BY <1>24 DEF CommitRemove
<1>25. CASE CommitClean
  BY <1>25 DEF CommitClean
<1>26. CASE RemovalProgress
  BY <1>26 DEF RemovalProgress
<1>27. CASE GpuFailure
  BY <1>27 DEF GpuFailure
<1>28. CASE GuestReady
  BY <1>28 DEF GuestReady
<1>29. CASE EndSession
  BY <1>29 DEF EndSession
<1>30. CASE Crash
  BY <1>30 DEF Crash
<1> QED
  BY <1>1, <1>2, <1>3, <1>4, <1>5, <1>6, <1>7, <1>8, <1>9, <1>10, <1>11, <1>12, <1>13, <1>14, <1>15, <1>16, <1>17, <1>18, <1>19, <1>20, <1>21, <1>22, <1>23, <1>24, <1>25, <1>26, <1>27, <1>28, <1>29, <1>30 DEF Next, Step

(* A tree without its receipt is what a payload can be.                    *)
LEMMA ContentType ==
  ASSUME NEW t \in Tree \cup {NoTree}
  PROVE  /\ Content(t) \in Contents \cup {NoTree}
         /\ Content(t) = NoTree <=> t = NoTree
BY ConstantsAssumption DEF Content, Contents, Tree

(* What a launch boots is stable, or on trial.                             *)
LEMMA Booted ==
  ASSUME TypeOK', TrialShown', Phase' = "running"
  PROVE  AtomicUpdate!Boots
<1>1. Running' \in [Payloads -> Contents \cup {NoTree}]
  BY ContentType DEF TypeOK, Running, Slots
<1>2. ASSUME NEW p \in Payloads, Running'[p] # Stable'[p]
      PROVE  p \in Trial' /\ Running'[p] \in {c \in Contents : c.body = "whole"} \cup {NoTree}
  <2>1. Running'[p] = Content(tree[p]["current"])'
    BY DEF Running
  <2>2. Stable'[p] = Content(IF base[p] # NoTree THEN base[p] ELSE tree[p]["current"])'
    BY DEF Stable
  <2>3. p \in Trial' /\ Stable'[p] = Content(base[p])'
    BY <1>2, <2>1, <2>2 DEF Trial
  <2>4. Presentable(p, tree[p]["current"])'
    BY <2>3 DEF TrialShown, Phase
  <2> QED
    BY <1>2, <2>1, <2>3, <2>4 DEF Presentable
<1> QED
  BY <1>1, <1>2 DEF AtomicUpdate!Boots, Running

(* A guest that runs goes on running what it was booted from.              *)
LEMMA StillRunning ==
  ASSUME Inv, Next, Phase = "running", Phase' = "running"
  PROVE  Running' = Running
<1>1. pc \in {"boot", "ct_remove", "ct_clean"} /\ pc' \in {"boot", "ct_remove", "ct_clean"}
  BY DEF Phase
<1>2. \/ GpuFailure \/ GuestReady \/ CommitRemove \/ CommitClean \/ RemovalProgress
  BY <1>1 DEF Next, Step, Go, Launch, StartRollback, RollbackClear, RollbackAside, RollbackRestore, RollbackSweep,
              RollbackClean, Pin, SkipRuntime, RestoredRuntime, EnsureRuntime, SwapRuntime, PlaceRuntime, RestoredGuest,
              EnsureGuest, FillGuest, Stage, Record, PublishClear, PublishAside, PublishPlace, PublishUndo, GpuClean,
              EndSession, Crash
<1>3. \A p \in Payloads : tree'[p]["current"] = tree[p]["current"]
  BY <1>1, <1>2 DEF Inv, TypeOK, Payloads, Slots, GpuFailure, GuestReady, CommitRemove, CommitClean, RemovalProgress,
                    Removing, Put
<1> QED
  BY <1>3 DEF Running

(* The step changes no payload that is stable, tries and confirms nothing. *)
Silent == \A p \in Payloads :
  /\ base'[p] = base[p] /\ leftover'[p] = leftover[p]
  /\ base[p] = NoTree => Content(tree[p]["current"])' = Content(tree[p]["current"])

(* It touches no other payload.                                            *)
Only(p) == \A q \in Payloads \ {p} :
  base'[q] = base[q] /\ leftover'[q] = leftover[q] /\ tree'[q]["current"] = tree[q]["current"]

AtomicStep ==
  \/ UNCHANGED <<Stable, Trial, Leftovers>>
  \/ AtomicUpdate!Confirm /\ UNCHANGED Phase
  \/ \E p \in Payloads : \/ AtomicUpdate!Try(p) \/ AtomicUpdate!Undo(p) \/ AtomicUpdate!Repair(p)
                         \/ AtomicUpdate!Tidy(p) \/ AtomicUpdate!Relapse(p)

(* What such a step does not change.                                       *)
LEMMA Silence == Silent => AtomicStep
BY DEF Silent, AtomicStep, Stable, Trial, Leftovers

(* One payload is stable as something else, or no longer on trial, or both.*)
LEMMA ChangeOf ==
  ASSUME Inv, Inv', NEW p \in Payloads,
         Only(p)
  PROVE  /\ \E t \in Contents \cup {NoTree} : Stable' = [Stable EXCEPT ![p] = t]
         /\ base'[p] # NoTree => Trial' = Trial \cup {p}
         /\ base'[p] = NoTree => Trial' = Trial \ {p}
         /\ leftover'[p] => Leftovers' = Leftovers \cup {p}
         /\ ~leftover'[p] => Leftovers' = Leftovers \ {p}
<1>1. Stable'[p] \in Contents \cup {NoTree}
  BY ContentType DEF Stable, Inv, TypeOK, Slots
<1>2. Stable' = [Stable EXCEPT ![p] = Stable'[p]]
  BY DEF Stable, Only
<1>3. Trial' \ {p} = Trial \ {p} /\ Leftovers' \ {p} = Leftovers \ {p}
  BY DEF Trial, Leftovers, Only
<1> QED
  BY <1>1, <1>2, <1>3 DEF Trial, Leftovers

(* A rollback over the remains of a confirmed update.                      *)
LEMMA RollbackRelapses ==
  ASSUME Inv, Inv', pc \in RollbackPCs, leftover[item], Only(item), base'[item] \in {base[item], NoTree}
  PROVE  AtomicStep
<1>1. item \in Payloads /\ Phase \in {"recovering", "retrying"}
  BY DEF Inv, TypeOK, Phase, RollbackPCs
<1>2. item \in Leftovers /\ Leftovers' \in {Leftovers, Leftovers \ {item}}
  BY <1>1, ChangeOf DEF Leftovers
<1>3. Trial' \in {Trial, Trial \ {item}}
  BY <1>1, ChangeOf DEF Trial
<1>4. \E t \in Contents \cup {NoTree} : Stable' = [Stable EXCEPT ![item] = t]
  BY <1>1, ChangeOf
<1>5. \E p \in Payloads : AtomicUpdate!Relapse(p)
  BY <1>1, <1>2, <1>3, <1>4 DEF AtomicUpdate!Relapse, Leftovers
<1> QED
  BY <1>5 DEF AtomicStep

(* A rollback that is done: the replaced tree is back, or was never moved. *)
LEMMA RollbackUndoes ==
  ASSUME Inv, Inv', pc \in RollbackPCs, RollbackDone, UNCHANGED caller,
         \A p \in Payloads : tree'[p]["current"] = tree[p]["current"],
         ~Exists(item, "previous")
  PROVE  AtomicStep
<1>1. item \in Payloads /\ Phase \in {"recovering", "retrying"}
  BY DEF Inv, TypeOK, Phase, RollbackPCs
<1>2. Only(item) /\ base'[item] = NoTree /\ ~leftover'[item]
  BY <1>1 DEF RollbackDone, Only, Inv, TypeOK
<1>3. CASE leftover[item]
  BY <1>2, <1>3, RollbackRelapses
<1>4. CASE ~leftover[item]
  <2>1. base[item] # NoTree => base[item] = tree[item]["current"]
    BY <1>1, <1>4 DEF Inv, FallbackKept, Exists
  <2>2. Stable' = Stable
    BY <1>1, <1>2, <2>1 DEF Stable, Only
  <2>3. Trial' = Trial \ {item} /\ Leftovers' = Leftovers
    BY <1>1, <1>2, <1>4, ChangeOf DEF Leftovers
  <2>4. AtomicUpdate!Undo(item)
    BY <1>1, <2>2, <2>3 DEF AtomicUpdate!Undo, Leftovers
  <2> QED
    BY <1>1, <2>4 DEF AtomicStep
<1> QED
  BY <1>3, <1>4

(* Something incomplete is replaced in place, while nothing of it is on    *)
(* trial.                                                                  *)
LEMMA Repairs ==
  ASSUME Inv, Inv', NEW p \in Payloads, Only(p), Phase = "updating", base[p] = NoTree,
         UNCHANGED history, ~Whole(p, "current")
  PROVE  AtomicStep
<1>1. p \notin Trial /\ Trial' = Trial /\ Leftovers' = Leftovers
  BY DEF Trial, Leftovers, history
<1>2. Stable[p] \notin {c \in Contents : c.body = "whole"}
  <2>1. Stable[p] = Content(tree[p]["current"])
    BY DEF Stable
  <2>2. CASE tree[p]["current"] = NoTree
    BY <2>1, <2>2, ConstantsAssumption DEF Content
  <2>3. CASE tree[p]["current"] # NoTree
    BY <2>1, <2>3 DEF Content, Whole, Exists
  <2> QED
    BY <2>2, <2>3
<1>3. \E t \in Contents \cup {NoTree} : Stable' = [Stable EXCEPT ![p] = t]
  BY ChangeOf
<1>4. AtomicUpdate!Repair(p)
  BY <1>1, <1>2, <1>3 DEF AtomicUpdate!Repair, Leftovers
<1> QED
  BY <1>4 DEF AtomicStep

(* Every step of the launcher is one of the transaction's, or silent.      *)
LEMMA ChangeStep ==
  ASSUME Inv, Inv', GuestInv, TrialInv, Next
  PROVE  AtomicStep
<1> USE ConstantsAssumption DEF Payloads, Slots, Go, Smooth, Fault, launch, history, Inv, TypeOK, RollbackPCs, StagingPCs, TrialInv, Settled, Exists, Silent
<1>1. ASSUME NEW w \in Wants, Launch(w) PROVE AtomicStep
  <2>1. Silent
    BY <1>1 DEF Launch
  <2> QED
    BY <2>1, Silence
<1>2. CASE StartRollback
  <2>1. Silent
    BY <1>2 DEF StartRollback
  <2> QED
    BY <2>1, Silence
<1>3. CASE RollbackClear
  <2>1. CASE ~Exists(item, "previous")
    BY <1>3, <2>1, RollbackUndoes DEF RollbackClear
  <2>2. CASE Exists(item, "previous")
    <3>1. Silent
      BY <1>3, <2>2 DEF RollbackClear, Put
    <3> QED
      BY <3>1, Silence
  <2> QED
    BY <2>1, <2>2
<1>4. CASE RollbackAside
  <2>1. base[item] = NoTree => leftover[item]
    BY <1>4 DEF RollbackAside, PreviousIsBase, BaseAt
  <2>2. Only(item) /\ base' = base /\ leftover' = leftover
    BY <1>4 DEF RollbackAside, Move, Only
  <2>3. CASE leftover[item]
    BY <1>4, <2>2, <2>3, RollbackRelapses DEF RollbackAside
  <2>4. CASE ~leftover[item]
    <3>1. Silent
      BY <2>1, <2>2, <2>4 DEF Only
    <3> QED
      BY <3>1, Silence
  <2> QED
    BY <2>3, <2>4
<1>5. CASE RollbackRestore
  <2>1. base[item] = NoTree => leftover[item]
    BY <1>5 DEF RollbackRestore, PreviousIsBase, BaseAt
  <2>2. Only(item) /\ base' = base /\ leftover' = leftover
    BY <1>5 DEF RollbackRestore, Move, Only
  <2>3. CASE leftover[item]
    BY <1>5, <2>2, <2>3, RollbackRelapses DEF RollbackRestore
  <2>4. CASE ~leftover[item]
    <3>1. Silent
      BY <2>1, <2>2, <2>4 DEF Only
    <3> QED
      BY <3>1, Silence
  <2> QED
    BY <2>3, <2>4
<1>6. CASE RollbackSweep
  <2>1. ~Exists(item, "previous")
    BY <1>6 DEF RollbackSweep, BaseAt
  <2>2. \A p \in Payloads : tree'[p]["current"] = tree[p]["current"]
    BY <1>6 DEF RollbackSweep, Put
  <2> QED
    BY <1>6, <2>1, <2>2, RollbackUndoes DEF RollbackSweep
<1>7. CASE RollbackClean
  <2>1. Silent
    BY <1>7 DEF RollbackClean
  <2> QED
    BY <2>1, Silence
<1>8. CASE Pin
  <2>1. Silent
    BY <1>8 DEF Pin
  <2> QED
    BY <2>1, Silence
<1>9. CASE SkipRuntime
  <2>1. Silent
    BY <1>9 DEF SkipRuntime
  <2> QED
    BY <2>1, Silence
<1>10. CASE RestoredRuntime
  <2>1. Silent
    BY <1>10 DEF RestoredRuntime
  <2> QED
    BY <2>1, Silence
<1>11. CASE EnsureRuntime
  <2>1. Silent
    BY <1>11 DEF EnsureRuntime, PutRuntimeReceipt, HasReceipt, HasExecutable, Content, Exists, Tree
  <2> QED
    BY <2>1, Silence
<1>12. CASE SwapRuntime
  <2>1. CASE UNCHANGED tree
    <3>1. Silent
      BY <1>12, <2>1 DEF SwapRuntime
    <3> QED
      BY <3>1, Silence
  <2>2. CASE ~UNCHANGED tree
    <3>1. Only("runtime") /\ UNCHANGED history
      BY <1>12 DEF SwapRuntime, Put, Only
    <3>2. Phase = "updating" /\ base["runtime"] = NoTree
      BY <1>12, <2>2 DEF SwapRuntime, Phase, SettledAt
    <3>3. ~Whole("runtime", "current")
      BY <1>12, <2>2 DEF SwapRuntime, Whole, RepairInv, HasExecutable, GuestInv, Sound, ReceiptMatches, HasReceipt, Tree
    <3> QED
      BY <3>1, <3>2, <3>3, Repairs
  <2> QED
    BY <2>1, <2>2
<1>13. CASE PlaceRuntime
  <2>1. CASE UNCHANGED tree
    <3>1. Silent
      BY <1>13, <2>1 DEF PlaceRuntime
    <3> QED
      BY <3>1, Silence
  <2>2. CASE ~UNCHANGED tree
    <3>1. Only("runtime") /\ UNCHANGED history
      BY <1>13 DEF PlaceRuntime, Move, Only
    <3>2. Phase = "updating" /\ base["runtime"] = NoTree
      BY <1>13, <2>2 DEF PlaceRuntime, Phase, SettledAt
    <3>3. ~Whole("runtime", "current")
      BY <1>13, <2>2 DEF PlaceRuntime, Whole, RepairInv, HasExecutable, GuestInv, Sound, ReceiptMatches, HasReceipt, Tree
    <3> QED
      BY <3>1, <3>2, <3>3, Repairs
  <2> QED
    BY <2>1, <2>2
<1>14. CASE RestoredGuest
  <2>1. Silent
    BY <1>14 DEF RestoredGuest
  <2> QED
    BY <2>1, Silence
<1>15. CASE EnsureGuest
  <2>1. CASE UNCHANGED tree
    <3>1. Silent
      BY <1>15, <2>1 DEF EnsureGuest
    <3> QED
      BY <3>1, Silence
  <2>2. CASE ~UNCHANGED tree
    <3>1. Only("guest") /\ UNCHANGED history
      BY <1>15 DEF EnsureGuest, Put, Only
    <3>2. Phase = "updating" /\ base["guest"] = NoTree
      BY <1>15, <2>2 DEF EnsureGuest, Phase, SettledAt
    <3>3. ~Whole("guest", "current")
      BY <1>15, <2>2 DEF EnsureGuest, Whole, RepairInv, HasExecutable, GuestInv, Sound, ReceiptMatches, HasReceipt, Tree
    <3> QED
      BY <3>1, <3>2, <3>3, Repairs
  <2> QED
    BY <2>1, <2>2
<1>16. CASE FillGuest
  <2>1. CASE UNCHANGED tree
    <3>1. Silent
      BY <1>16, <2>1 DEF FillGuest
    <3> QED
      BY <3>1, Silence
  <2>2. CASE ~UNCHANGED tree
    <3>1. Only("guest") /\ UNCHANGED history
      BY <1>16 DEF FillGuest, Put, Only
    <3>2. Phase = "updating" /\ base["guest"] = NoTree
      BY <1>16, <2>2 DEF FillGuest, Phase, SettledAt
    <3>3. ~Whole("guest", "current")
      BY <1>16, <2>2 DEF FillGuest, Whole, RepairInv, HasExecutable, GuestInv, Sound, ReceiptMatches, HasReceipt, Tree
    <3> QED
      BY <3>1, <3>2, <3>3, Repairs
  <2> QED
    BY <2>1, <2>2
<1>17. CASE Stage
  <2>1. Silent
    BY <1>17 DEF Stage, Put
  <2> QED
    BY <2>1, Silence
<1>18. CASE Record
  <2>1. CASE UNCHANGED base
    <3>1. Silent
      BY <1>18, <2>1 DEF Record
    <3> QED
      BY <3>1, Silence
  <2>2. CASE ~UNCHANGED base
    <3>1. base' = [base EXCEPT ![item] = tree[item]["current"]] /\ UNCHANGED <<tree, leftover>>
      BY <1>18, <2>2 DEF Record
    <3>2. base[item] = NoTree /\ base'[item] = tree[item]["current"] /\ tree[item]["current"] # NoTree
      BY <1>18, <3>1 DEF Record, SettledAt, Replaceable, StagingPCs
    <3>3. Stable' = Stable
      BY <3>1, <3>2 DEF Stable
    <3>4. Stable[item] # NoTree
      BY <3>2, ContentType DEF Stable
    <3>5. Trial' = Trial \cup {item} /\ Leftovers' = Leftovers /\ item \notin Trial
      BY <3>1, <3>2 DEF Trial, Leftovers
    <3>6. Phase = "updating"
      BY <1>18 DEF Record, Phase
    <3>7. \E p \in Payloads : AtomicUpdate!Try(p)
      BY <3>3, <3>4, <3>5, <3>6 DEF AtomicUpdate!Try, Leftovers
    <3> QED
      BY <3>7 DEF AtomicStep
  <2> QED
    BY <2>1, <2>2
<1>19. CASE PublishClear
  <2>1. CASE UNCHANGED <<tree, leftover>>
    <3>1. Silent
      BY <1>19, <2>1 DEF PublishClear
    <3> QED
      BY <3>1, Silence
  <2>2. CASE ~UNCHANGED <<tree, leftover>>
    <3>1. UNCHANGED base /\ leftover' = [leftover EXCEPT ![item] = FALSE]
      BY <1>19, <2>2 DEF PublishClear
    <3>2. \A p \in Payloads : tree'[p]["current"] = tree[p]["current"]
      BY <1>19 DEF PublishClear, Put
    <3>3. Stable' = Stable /\ Trial' = Trial
      BY <3>1, <3>2 DEF Stable, Trial
    <3>4. Leftovers' = Leftovers \ {item}
      BY <3>1 DEF Leftovers
    <3>5. Phase = "updating"
      BY <1>19 DEF PublishClear, Phase
    <3>6. \E p \in Payloads : AtomicUpdate!Tidy(p)
      BY <3>3, <3>4, <3>5 DEF AtomicUpdate!Tidy, Leftovers
    <3> QED
      BY <3>6 DEF AtomicStep
  <2> QED
    BY <2>1, <2>2
<1>20. CASE PublishAside
  <2>1. Silent
    BY <1>20 DEF PublishAside, Move, Replaceable
  <2> QED
    BY <2>1, Silence
<1>21. CASE PublishPlace
  <2>1. Silent
    BY <1>21 DEF PublishPlace, Move, Replaceable
  <2> QED
    BY <2>1, Silence
<1>22. CASE PublishUndo
  <2>1. Silent
    BY <1>22 DEF PublishUndo, Move, Replaceable
  <2> QED
    BY <2>1, Silence
<1>23. CASE GpuClean
  <2>1. Silent
    BY <1>23 DEF GpuClean
  <2> QED
    BY <2>1, Silence
<1>24. CASE CommitRemove
  <2>1. CASE UNCHANGED <<tree, leftover>>
    <3>1. Silent
      BY <1>24, <2>1 DEF CommitRemove
    <3> QED
      BY <3>1, Silence
  <2>2. CASE ~UNCHANGED <<tree, leftover>>
    <3>1. UNCHANGED base /\ leftover' = [leftover EXCEPT ![item] = FALSE]
      BY <1>24, <2>2 DEF CommitRemove
    <3>2. \A p \in Payloads : tree'[p]["current"] = tree[p]["current"]
      BY <1>24 DEF CommitRemove, Put
    <3>3. Stable' = Stable /\ Trial' = Trial
      BY <3>1, <3>2 DEF Stable, Trial
    <3>4. Leftovers' = Leftovers \ {item}
      BY <3>1 DEF Leftovers
    <3>5. Phase = "running"
      BY <1>24 DEF CommitRemove, Phase
    <3>6. \E p \in Payloads : AtomicUpdate!Tidy(p)
      BY <3>3, <3>4, <3>5 DEF AtomicUpdate!Tidy, Leftovers
    <3> QED
      BY <3>6 DEF AtomicStep
  <2> QED
    BY <2>1, <2>2
<1>25. CASE CommitClean
  <2>1. Silent
    BY <1>25 DEF CommitClean
  <2> QED
    BY <2>1, Silence
<1>26. CASE RemovalProgress
  <2>1. Silent
    BY <1>26 DEF RemovalProgress, Removing, Put, Remains, Content, Tree, RepairInv, HasExecutable, SettledAt
  <2> QED
    BY <2>1, Silence
<1>27. CASE GpuFailure
  <2>1. Silent
    BY <1>27 DEF GpuFailure
  <2> QED
    BY <2>1, Silence
<1>28. CASE GuestReady
  <2>1. Phase = "running" /\ Phase' = Phase
    BY <1>28 DEF GuestReady, Phase
  <2>2. Trial' = {}
    BY <1>28 DEF GuestReady, Trial
  <2>3. Stable' = [p \in Payloads |-> IF p \in Trial THEN Running[p] ELSE Stable[p]]
    BY <1>28 DEF GuestReady, Stable, Trial, Running
  <2>4. Leftovers \subseteq Leftovers'
    BY <1>28 DEF GuestReady, Leftovers
  <2>5. Leftovers' \subseteq Leftovers \cup Trial
    BY <1>28 DEF GuestReady, Leftovers, Trial, PreviousIsBase
  <2>6. AtomicUpdate!Confirm
    BY <2>1, <2>2, <2>3, <2>4, <2>5 DEF AtomicUpdate!Confirm, Leftovers, Running
  <2> QED
    BY <2>1, <2>6 DEF AtomicStep
<1>29. CASE EndSession
  <2>1. Silent
    BY <1>29 DEF EndSession
  <2> QED
    BY <2>1, Silence
<1>30. CASE Crash
  <2>1. Silent
    BY <1>30 DEF Crash
  <2> QED
    BY <2>1, Silence
<1> QED
  BY <1>1, <1>2, <1>3, <1>4, <1>5, <1>6, <1>7, <1>8, <1>9, <1>10, <1>11, <1>12, <1>13, <1>14, <1>15, <1>16, <1>17, <1>18, <1>19, <1>20, <1>21, <1>22, <1>23, <1>24, <1>25, <1>26, <1>27, <1>28, <1>29, <1>30 DEF Next, Step

(* The invariants of the trial, together.                                  *)
LEMMA StepTrial ==
  ASSUME Inv, Inv', GuestInv, TrialInv, [Next]_vars
  PROVE  TrialInv'
<1>1. CASE Next
  BY <1>1, StepStaged, StepOnGpu, StepRepair, StepReplaceable, StepShown DEF TrialInv
<1>2. CASE UNCHANGED vars
  BY <1>2 DEF vars, TrialInv, NextIsWhole, TrialShown, OnGpu, RepairInv, Replaceable, Presentable, Trial, Phase,
              Whole, Exists, HasExecutable
<1> QED
  BY <1>1, <1>2

(* A step of the launcher is a step of the transaction.                    *)
LEMMA Simulates ==
  ASSUME Inv, Inv', GuestInv, TrialInv, TrialInv', Next
  PROVE  AtomicUpdate!Next
<1>1. Phase' \in {Phase} \cup AtomicUpdate!NextPhases
  BY PhaseStep
<1>2. AtomicStep
  BY ChangeStep
<1>3. ASSUME Phase' = "running", Phase = "running" PROVE UNCHANGED Running
  BY <1>3, StillRunning
<1>4. ASSUME Phase' = "running" PROVE AtomicUpdate!Boots
  BY <1>4, Booted DEF Inv, TrialInv
<1> QED
  BY <1>1, <1>2, <1>3, <1>4 DEF AtomicUpdate!Next, AtomicUpdate!transaction, AtomicStep, Running, Leftovers

(* An update of payloads is a transaction, for every number of faults and  *)
(* at every step of publishDirectoryUpdate, rollbackDirectoryUpdate and    *)
(* commitPayloadUpdates: only the guest's readiness changes what the next  *)
(* launch runs, for all payloads on trial at once.                         *)
THEOREM Implements == ASSUME OneRelease PROVE Spec => Promise
<1>1. Init => AtomicUpdate!Init
  <2> SUFFICES ASSUME Init PROVE AtomicUpdate!Init
    OBVIOUS
  <2>1. Stable \in [Payloads -> Contents \cup {NoTree}] /\ Running \in [Payloads -> Contents \cup {NoTree}]
    BY InitType, ContentType DEF Stable, Running, TypeOK, Slots
  <2>2. Trial = {} /\ Leftovers = {} /\ Phase = "off"
    BY DEF Init, Trial, Leftovers, Phase
  <2> QED
    BY <2>1, <2>2 DEF AtomicUpdate!Init, Running, Leftovers
<1>2. Init => TrialInv
  BY DEF Init, TrialInv, NextIsWhole, TrialShown, OnGpu, RepairInv, Replaceable, Trial, Phase, StagingPCs, RollbackPCs
<1>3. Inv /\ Inv' /\ GuestInv /\ TrialInv /\ [Next]_vars => TrialInv'
  BY StepTrial
<1>4. Inv /\ Inv' /\ GuestInv /\ TrialInv /\ TrialInv' /\ [Next]_vars => [AtomicUpdate!Next]_(AtomicUpdate!vars)
  <2> SUFFICES ASSUME Inv, Inv', GuestInv, TrialInv, TrialInv', [Next]_vars
               PROVE  [AtomicUpdate!Next]_(AtomicUpdate!vars)
    OBVIOUS
  <2>1. CASE Next
    BY <2>1, Simulates
  <2>2. CASE UNCHANGED vars
    BY <2>2 DEF vars, AtomicUpdate!vars, AtomicUpdate!transaction, Stable, Trial, Phase, Content
  <2> QED
    BY <2>1, <2>2
<1> QED
  BY <1>1, <1>2, <1>3, <1>4, InvHolds, GuestInvHolds, PTL DEF Spec, Promise, AtomicUpdate!Spec

(***************************************************************************)
(* What a confirmation deletes.                                            *)
(***************************************************************************)

(* Without a stock QEMU a launch has a runtime to boot from when it has    *)
(* one on trial, for a failed publication ends it.                         *)
CommitInv ==
  /\ pc \in {"pin", "runtime", "rt_swap", "rt_place"} => journal = NoJournal
  /\ pc \in {"guest", "gt_fill", "boot", "ct_remove", "ct_clean"} \/ (pc \in StagingPCs /\ item = "guest")
       => "runtime" \notin journal.pending \/ qemu # "other"
  /\ pc \in {"stage", "record"} /\ item = "runtime" => journal = NoJournal
  /\ pc \in RollbackPCs \cup {"gpu_clean"} /\ (pc = "gpu_clean" \/ caller = "session") => qemu # "other"
  /\ pc \in {"ct_remove", "ct_clean"} /\ item = "runtime" => Exists("runtime", "current")

(* Every step keeps it.                                                    *)
LEMMA StepCommit ==
  ASSUME TypeOK, ~HaveStock, CommitInv, Next
  PROVE  CommitInv'
<1> USE ConstantsAssumption DEF Payloads, Slots, Go, Smooth, Fault, launch, history, TypeOK, CommitInv, RollbackPCs, StagingPCs, Exists
<1>1. ASSUME NEW w \in Wants, Launch(w) PROVE CommitInv'
  BY <1>1 DEF Launch
<1>2. CASE StartRollback
  BY <1>2 DEF StartRollback
<1>3. CASE RollbackClear
  BY <1>3 DEF RollbackClear, RollbackDone, Put
<1>4. CASE RollbackAside
  BY <1>4 DEF RollbackAside, RollbackFailed, Move
<1>5. CASE RollbackRestore
  BY <1>5 DEF RollbackRestore, RollbackFailed, Move
<1>6. CASE RollbackSweep
  BY <1>6 DEF RollbackSweep, RollbackDone, Put
<1>7. CASE RollbackClean
  BY <1>7 DEF RollbackClean, NoJournal
<1>8. CASE Pin
  BY <1>8 DEF Pin
<1>9. CASE SkipRuntime
  BY <1>9 DEF SkipRuntime, NoJournal
<1>10. CASE RestoredRuntime
  BY <1>10 DEF RestoredRuntime, UseRuntime
<1>11. CASE EnsureRuntime
  BY <1>11 DEF EnsureRuntime, UseRuntime, Failed, NoJournal, PutRuntimeReceipt
<1>12. CASE SwapRuntime
  BY <1>12 DEF SwapRuntime, Put
<1>13. CASE PlaceRuntime
  BY <1>13 DEF PlaceRuntime, UseRuntime, Failed, Move, NoJournal
<1>14. CASE RestoredGuest
  BY <1>14 DEF RestoredGuest
<1>15. CASE EnsureGuest
  BY <1>15 DEF EnsureGuest, Put
<1>16. CASE FillGuest
  BY <1>16 DEF FillGuest, Put
<1>17. CASE Stage
  BY <1>17 DEF Stage, Put, Failed, HasExecutable
<1>18. CASE Record
  BY <1>18 DEF Record, Recorded, Journal, NoJournal, Failed
<1>19. CASE PublishClear
  BY <1>19 DEF PublishClear, Put, Failed
<1>20. CASE PublishAside
  BY <1>20 DEF PublishAside, Move, Failed
<1>21. CASE PublishPlace
  BY <1>21 DEF PublishPlace, Move, UseRuntime, Failed
<1>22. CASE PublishUndo
  BY <1>22 DEF PublishUndo, Move, Failed
<1>23. CASE GpuClean
  BY <1>23 DEF GpuClean, JournalWithout, Journal, NoJournal
<1>24. CASE CommitRemove
  BY <1>24 DEF CommitRemove, Put
<1>25. CASE CommitClean
  BY <1>25 DEF CommitClean, JournalWithout, Journal, NoJournal
<1>26. CASE RemovalProgress
  BY <1>26 DEF RemovalProgress, Put, Removing, Remains
<1>27. CASE GpuFailure
  BY <1>27 DEF GpuFailure
<1>28. CASE GuestReady
  BY <1>28 DEF GuestReady, HasExecutable, NoJournal
<1>29. CASE EndSession
  BY <1>29 DEF EndSession
<1>30. CASE Crash
  BY <1>30 DEF Crash
<1> QED
  BY <1>1, <1>2, <1>3, <1>4, <1>5, <1>6, <1>7, <1>8, <1>9, <1>10, <1>11, <1>12, <1>13, <1>14, <1>15, <1>16, <1>17, <1>18, <1>19, <1>20, <1>21, <1>22, <1>23, <1>24, <1>25, <1>26, <1>27, <1>28, <1>29, <1>30 DEF Next, Step

(* commitPayloadUpdates deletes the replaced tree of a payload only when   *)
(* the update that replaced it is installed, where no stock QEMU lets a    *)
(* guest get ready without it.                                             *)
THEOREM NothingLostOnCommit == ASSUME ~HaveStock PROVE Spec => []CommitKeepsATree
<1>1. Init => CommitInv
  BY DEF Init, CommitInv, RollbackPCs, StagingPCs
<1>2. TypeOK /\ CommitInv /\ [Next]_vars => CommitInv'
  BY StepCommit DEF vars, CommitInv, Exists
<1>3. TypeOK /\ GuestInv /\ CommitInv => CommitKeepsATree
  BY DEF TypeOK, Payloads, GuestInv, CommitInv, CommitKeepsATree, Exists, InSession, Serves
<1> QED
  BY <1>1, <1>2, <1>3, TypeCorrect, GuestInvHolds, PTL DEF Spec
=============================================================================
