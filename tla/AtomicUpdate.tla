---------------------------- MODULE AtomicUpdate ----------------------------
(***************************************************************************)
(* What the transactional update of an installation promises to its user:  *)
(* an update is a transaction.  A launch may run new payloads on trial.    *)
(* When the guest that runs on them gets ready they are confirmed, all in  *)
(* one step; whatever else happens, the next launch runs what was there    *)
(* before the first of them was tried.  A complete payload is replaced in  *)
(* no other way, but for one exception the implementation has: as long as  *)
(* the remains of a confirmed update's old tree lie beside it, a launch    *)
(* may fall back to those.  See Promise in PayloadUpdate.                  *)
(***************************************************************************)
CONSTANTS
  Payloads,
  Contents,   \* what a payload can be
  Complete,   \* and with nothing missing
  None        \* nothing is installed

VARIABLES
  stable,    \* what each payload is when every trial is undone
  trial,     \* the payloads on trial
  remains,   \* those with remains of what a confirmed update replaced
  phase,     \* what the launch is doing
  running    \* what the guest was booted from

transaction == <<stable, trial, remains>>
vars == <<transaction, phase, running>>

Init ==
  /\ stable \in [Payloads -> Contents \cup {None}]
  /\ trial = {} /\ remains = {}
  /\ phase = "off"
  /\ running \in [Payloads -> Contents \cup {None}]

(* Nothing is tried, and nothing is booted, before every earlier trial has *)
(* been undone; a launch may end at any time.                              *)
NextPhases ==
  CASE phase = "off"        -> {"recovering"}
    [] phase = "recovering" -> {"off"} \cup IF trial = {} THEN {"updating"} ELSE {}
    [] phase = "updating"   -> {"off", "running"}
    [] phase = "running"    -> {"off", "retrying"}
    [] phase = "retrying"   -> {"off", "running"}

(* A guest boots from what is stable and from what is on trial.            *)
Boots ==
  /\ running' \in [Payloads -> Contents \cup {None}]
  /\ \A p \in Payloads : running'[p] # stable'[p] =>
       p \in trial' /\ running'[p] \in Complete \cup {None}

-----------------------------------------------------------------------------
Try(p) ==
  /\ phase = "updating"
  /\ p \notin trial /\ stable[p] # None
  /\ trial' = trial \cup {p}
  /\ UNCHANGED <<stable, remains>>

Undo(p) ==
  /\ phase \in {"recovering", "retrying"}
  /\ trial' = trial \ {p}
  /\ UNCHANGED <<stable, remains>>

(* The guest on trial is ready. *)
Confirm ==
  /\ phase = "running"
  /\ stable' = [p \in Payloads |-> IF p \in trial THEN running[p] ELSE stable[p]]
  /\ trial' = {}
  /\ remains \subseteq remains' /\ remains' \subseteq remains \cup trial

(* What is incomplete is installed anew, in place. *)
Repair(p) ==
  /\ phase = "updating"
  /\ p \notin trial /\ stable[p] \notin Complete
  /\ \E t \in Contents \cup {None} : stable' = [stable EXCEPT ![p] = t]
  /\ UNCHANGED <<trial, remains>>

Tidy(p) ==
  /\ phase \in {"updating", "running"}
  /\ remains' = remains \ {p}
  /\ UNCHANGED <<stable, trial>>

(* The exception. *)
Relapse(p) ==
  /\ phase \in {"recovering", "retrying"}
  /\ p \in remains
  /\ \E t \in Contents \cup {None} : stable' = [stable EXCEPT ![p] = t]
  /\ trial' \in {trial, trial \ {p}}
  /\ remains' \in {remains, remains \ {p}}

-----------------------------------------------------------------------------
Next ==
  /\ phase' \in {phase} \cup NextPhases
  /\ \/ UNCHANGED transaction
     \/ Confirm /\ UNCHANGED phase
     \/ \E p \in Payloads : Try(p) \/ Undo(p) \/ Repair(p) \/ Tidy(p) \/ Relapse(p)
  /\ phase' = "running" => IF phase = "running" THEN UNCHANGED running ELSE Boots

Spec == Init /\ [][Next]_vars

=============================================================================
