-------------------------- MODULE SupervisorProofs --------------------------
(***************************************************************************)
(* Proofs about Supervisor for every number of attempts, every starting    *)
(* memory the settings accept and every number of reboots.  One inductive  *)
(* invariant carries the safety properties: the budget of the ladder, who  *)
(* may have set which flag, and what the QMP lines can say.                *)
(***************************************************************************)
EXTENDS Supervisor, TLAPS

Session == {"probe", "watch", "select", "reap", "drain", "decide"}
Watched == {"watch", "select", "reap", "drain", "decide"}

Budget ==
  /\ attempt + Rungs <= 11 + wedges
  /\ pc = "probe" => attempt <= MaxAttempts
  /\ pc = "exhausted" => attempt > MaxAttempts

Processes ==
  /\ pc \in {"start", "drain", "decide"} \cup Ended => qemu \in {"none", "dead"}
  /\ pc = "reap" => qemu # "run"

(* A flag is set, or about to be, only by the guest that runs now, and a   *)
(* reboot that was announced stays on record until it is decided upon.     *)
Announcements ==
  /\ guestReady \/ "ready" \in mail => ready
  /\ pendingReboot \/ "reboot" \in mail => told
  /\ told => intent = "reboot"
  /\ told /\ pc \in Session => pendingReboot \/ "reboot" \in mail
  /\ intent = "reboot" /\ pc \in Session => boots < MaxBoots

(* A SHUTDOWN line, read or unread, says what the guest did, and QEMU does *)
(* not run on after it.                                                    *)
Events ==
  /\ \A i \in 1 .. Len(lines) : lines[i] \in Stops => lines[i] = intent /\ qemu # "run"
  /\ pc \in Watched => reason \in {None, intent}

(* A running QEMU owes at most the answer that is on its way. *)
Silence ==
  pc \in {"watch", "select"} =>
    /\ silent < SilentLimit
    /\ qemu = "run" => silent <= Len(lines)

Inv == TypeOK /\ Budget /\ Processes /\ Announcements /\ Events /\ Silence

-----------------------------------------------------------------------------
(* The bounds of the memory setting, as inequalities: a prover that knows  *)
(* the numbers unfolds the interval between them.                          *)
LEMMA Bounds ==
  /\ MinMemory \in Int /\ 1024 <= MinMemory /\ MinMemory <= 1024
  /\ MaxMemory \in Int /\ 65536 <= MaxMemory /\ MaxMemory <= 65536
BY DEF MinMemory, MaxMemory

(* The memory rung gives up one halving and stays within the bounds. *)
LEMMA HalfStep ==
  ASSUME NEW mem \in MinMemory .. MaxMemory, mem > MinMemory
  PROVE  Half(mem) \in MinMemory .. MaxMemory /\ Halvings(Half(mem)) + 1 <= Halvings(mem)
<1>1. mem \in Int /\ 1024 < mem /\ mem <= 65536
  BY Bounds
<1>2. PICK h \in Int : h = mem \div 2 /\ 2 * h <= mem /\ mem <= 2 * h + 1
  BY <1>1
<1>3. Half(mem) = IF h < 1024 THEN 1024 ELSE h
  BY <1>2, Bounds DEF Half
<1>4. Half(mem) \in MinMemory .. MaxMemory
  <2>1. Half(mem) \in Int /\ 1024 <= Half(mem) /\ Half(mem) <= 65536
    BY <1>1, <1>2, <1>3
  <2> QED
    BY <2>1, Bounds
<1>5. Halvings(Half(mem)) + 1 <= Halvings(mem)
  <2>1. CASE mem <= 2048
    <3>1. Half(mem) = 1024
      BY <1>2, <1>3, <2>1
    <3> QED
      BY <1>1, <2>1, <3>1 DEF Halvings
  <2>2. CASE mem > 2048
    <3>1. Half(mem) = h /\ h > 1023
      BY <1>1, <1>2, <1>3, <2>2
    <3> QED
      BY <1>1, <1>2, <2>2, <3>1 DEF Halvings
  <2> QED
    BY <1>1, <2>1, <2>2
<1> QED
  BY <1>4, <1>5

(* The rungs of the memory.                                                *)
LEMMA HalvingsRange ==
  ASSUME NEW mem
  PROVE  Halvings(mem) \in 0 .. 6
BY DEF Halvings

(* The rungs of a switch.                                                  *)
LEMMA OneRange ==
  ASSUME NEW b
  PROVE  One(b) \in 0 .. 1
BY DEF One

(* Ten rungs at most are left in any configuration, before a step and      *)
(* after it.                                                               *)
LEMMA RungsRange == Rungs \in 0 .. 10 /\ Rungs' \in 0 .. 10
<1>1. /\ Halvings(cfg.mem) \in 0 .. 6 /\ Halvings(cfg'.mem) \in 0 .. 6
      /\ One(~cfg.irqchipOff) \in 0 .. 1 /\ One(~cfg'.irqchipOff) \in 0 .. 1
      /\ One(cfg.audio) \in 0 .. 1 /\ One(cfg'.audio) \in 0 .. 1
      /\ One(cfg.gpu) \in 0 .. 1 /\ One(cfg'.gpu) \in 0 .. 1
      /\ One(journal) \in 0 .. 1 /\ One(journal') \in 0 .. 1
  BY HalvingsRange, OneRange
<1> QED
  BY <1>1 DEF Rungs

(* The comparison of integers the budget needs.                            *)
LEMMA StrictlyLess ==
  ASSUME NEW a \in Int, NEW b \in Int, a + 1 <= b
  PROVE  a < b
OBVIOUS

(* Every complaint that is answered with another attempt takes a rung.     *)
LEMMA RungTaken ==
  ASSUME cfg \in Config, journal \in BOOLEAN, NEW c \in Complaints,
         StartupFailed(c), pc' # "fatal"
  PROVE  Rungs' + 1 <= Rungs
<1>1. cfg \in Config /\ Halvings(cfg.mem) \in Int /\ journal \in BOOLEAN
  BY HalvingsRange
<1>2. CASE cfg' = [cfg EXCEPT !.irqchipOff = TRUE] /\ ~cfg.irqchipOff /\ UNCHANGED journal
  BY <1>1, <1>2 DEF Rungs, One, Config
<1>3. CASE cfg' = [cfg EXCEPT !.audio = FALSE] /\ cfg.audio /\ UNCHANGED journal
  BY <1>1, <1>3 DEF Rungs, One, Config
<1>4. CASE cfg' = [cfg EXCEPT !.mem = Half(cfg.mem)] /\ cfg.mem > MinMemory
           /\ UNCHANGED journal
  <2>1. Halvings(Half(cfg.mem)) + 1 <= Halvings(cfg.mem)
    BY <1>1, <1>4, HalfStep DEF Config
  <2>2. Halvings(Half(cfg.mem)) \in Int
    BY HalvingsRange
  <2>3. cfg'.mem = Half(cfg.mem) /\ cfg'.irqchipOff = cfg.irqchipOff
        /\ cfg'.audio = cfg.audio /\ cfg'.gpu = cfg.gpu
    BY <1>1, <1>4 DEF Config
  <2>4. /\ One(~cfg.irqchipOff) \in 0 .. 1 /\ One(cfg.audio) \in 0 .. 1
        /\ One(cfg.gpu) \in 0 .. 1 /\ One(journal) \in 0 .. 1 /\ journal' = journal
    BY <1>4, OneRange
  <2>5. Rungs' = One(~cfg.irqchipOff) + One(cfg.audio) + One(cfg.gpu) + One(journal)
                 + Halvings(Half(cfg.mem))
    BY <2>3, <2>4 DEF Rungs
  <2> QED
    BY <1>1, <2>1, <2>2, <2>4, <2>5 DEF Rungs
<1>5. CASE journal /\ journal' = FALSE /\ UNCHANGED cfg
  BY <1>1, <1>5 DEF Rungs, One
<1>6. CASE cfg' = [cfg EXCEPT !.gpu = FALSE] /\ cfg.gpu /\ UNCHANGED journal
  BY <1>1, <1>6 DEF Rungs, One, Config
<1> QED
  BY <1>2, <1>3, <1>4, <1>5, <1>6 DEF StartupFailed, GraphicsRung

(* Spending no more attempts than rungs keeps the budget.                  *)
LEMMA Spend ==
  ASSUME NEW a \in Int, NEW r \in Int, NEW w \in Int, NEW s \in Int, a + r <= 11 + w
  PROVE  /\ s + 1 <= r => (a + 1) + s <= 11 + w
         /\ s <= r => a + s <= 11 + w
OBVIOUS

(* Most steps touch neither the rungs nor the attempts.                    *)
LEMMA BudgetStays ==
  ASSUME Budget, UNCHANGED <<cfg, journal, attempt, wedges>>, pc' = pc \/ pc' \notin {"probe", "exhausted"}
  PROVE  Budget'
<1>1. Rungs' = Rungs
  BY DEF Rungs
<1> QED
  BY <1>1 DEF Budget

(* The first state of a session.                                           *)
LEMMA InitInv == Init => Inv
<1> SUFFICES ASSUME Init PROVE Inv
  OBVIOUS
<1>1. TypeOK
  <2>1. cfg \in Config
    BY SupervisorAssumption DEF Init, Config
  <2>2. lines \in Seq({"answer"} \cup Stops)
    BY DEF Init
  <2>3. attempt \in 1 .. MaxAttempts + 1 /\ silent \in 0 .. SilentLimit /\ boots \in 0 .. MaxBoots
    BY SupervisorAssumption DEF Init
  <2> QED
    BY <2>1, <2>2, <2>3 DEF Init, TypeOK
<1>2. Budget
  BY SupervisorAssumption, <1>1, RungsRange DEF Init, Budget
<1>3. Processes /\ Announcements /\ Events /\ Silence
  BY DEF Init, Processes, Announcements, Events, Silence, Session, Watched, Ended
<1> QED
  BY <1>1, <1>2, <1>3 DEF Inv

-----------------------------------------------------------------------------
(* Every step keeps the inductive invariant.                               *)
LEMMA StepInv == Inv /\ [Next]_vars => Inv'
<1> SUFFICES ASSUME Inv, [Next]_vars PROVE Inv'
  OBVIOUS
<1> USE SupervisorAssumption DEF Inv, config, flags, watching, history
<1>1. CASE Userspace
  <2>1. TypeOK'
    BY <1>1 DEF Userspace, TypeOK, Ended
  <2>2. Budget'
    BY <1>1, BudgetStays DEF Userspace
  <2>3. Processes'
    BY <1>1 DEF Userspace, Processes, TypeOK, Ended, Events
  <2>4. Announcements'
    BY <1>1 DEF Userspace, Announcements, TypeOK, Session, Ended, Stops, Events, Watched
  <2>5. Events'
    BY <1>1 DEF Userspace, Events, TypeOK, Stops, Watched, Ended
  <2>6. Silence'
    BY <1>1 DEF Userspace, Silence, TypeOK, Events, Watched
  <2> QED
    BY <2>1, <2>2, <2>3, <2>4, <2>5, <2>6
<1>2. ASSUME NEW stop \in Stops, GoDown(stop) PROVE Inv'
  <2>1. TypeOK'
    <3>1. told' \in BOOLEAN /\ mail' \subseteq {"ready", "reboot"}
      BY <1>2 DEF GoDown, TypeOK
    <3> QED
      BY <1>2, <3>1 DEF GoDown, TypeOK
  <2>2. Budget'
    BY <1>2, BudgetStays DEF GoDown
  <2>3. Processes'
    BY <1>2 DEF GoDown, Processes, TypeOK, Ended, Events
  <2>4. Announcements'
    <3>1. told' \in BOOLEAN /\ (told' => stop = "reboot") /\ ~told /\ ~pendingReboot
      BY <1>2 DEF GoDown, TypeOK, Announcements
    <3>2. mail' = IF told' THEN mail \cup {"reboot"} ELSE mail
      BY <1>2 DEF GoDown
    <3> QED
      BY <1>2, <3>1, <3>2 DEF GoDown, Announcements, TypeOK, Stops
  <2>5. Events'
    BY <1>2 DEF GoDown, Events, TypeOK, Stops, Watched, Ended
  <2>6. Silence'
    BY <1>2 DEF GoDown, Silence, TypeOK, Events, Watched
  <2> QED
    BY <2>1, <2>2, <2>3, <2>4, <2>5, <2>6
<1>3. CASE Shutdown
  <2>1. TypeOK'
    BY <1>3 DEF Shutdown, TypeOK, Ended
  <2>2. Budget'
    BY <1>3, BudgetStays DEF Shutdown
  <2>3. Processes'
    BY <1>3 DEF Shutdown, Processes, TypeOK, Ended, Events
  <2>4. Announcements'
    BY <1>3 DEF Shutdown, Announcements, TypeOK, Session, Ended, Stops, Events, Watched
  <2>5. Events'
    BY <1>3 DEF Shutdown, Events, TypeOK, Stops, Watched, Ended
  <2>6. Silence'
    BY <1>3 DEF Shutdown, Silence, TypeOK, Events, Watched
  <2> QED
    BY <2>1, <2>2, <2>3, <2>4, <2>5, <2>6
<1>4. CASE Exit
  <2>1. TypeOK'
    BY <1>4 DEF Exit, TypeOK, Ended
  <2>2. Budget'
    BY <1>4, BudgetStays DEF Exit
  <2>3. Processes'
    BY <1>4 DEF Exit, Processes, TypeOK, Ended, Events
  <2>4. Announcements'
    BY <1>4 DEF Exit, Announcements, TypeOK, Session, Ended, Stops, Events, Watched
  <2>5. Events'
    BY <1>4 DEF Exit, Events, TypeOK, Stops, Watched, Ended
  <2>6. Silence'
    BY <1>4 DEF Exit, Silence, TypeOK, Events, Watched
  <2> QED
    BY <2>1, <2>2, <2>3, <2>4, <2>5, <2>6
<1>5. CASE Hang
  <2>1. TypeOK'
    BY <1>5 DEF Hang, TypeOK, Ended
  <2>2. Budget'
    BY <1>5, BudgetStays DEF Hang
  <2>3. Processes'
    BY <1>5 DEF Hang, Processes, TypeOK, Ended, Events
  <2>4. Announcements'
    BY <1>5 DEF Hang, Announcements, TypeOK, Session, Ended, Stops, Events, Watched
  <2>5. Events'
    BY <1>5 DEF Hang, Events, TypeOK, Stops, Watched, Ended
  <2>6. Silence'
    BY <1>5 DEF Hang, Silence, TypeOK, Events, Watched
  <2> QED
    BY <2>1, <2>2, <2>3, <2>4, <2>5, <2>6
<1>6. CASE Crash
  <2>1. TypeOK'
    BY <1>6 DEF Crash, TypeOK, Ended
  <2>2. Budget'
    BY <1>6, BudgetStays DEF Crash
  <2>3. Processes'
    BY <1>6 DEF Crash, Processes, TypeOK, Ended, Events
  <2>4. Announcements'
    BY <1>6 DEF Crash, Announcements, TypeOK, Session, Ended, Stops, Events, Watched
  <2>5. Events'
    BY <1>6 DEF Crash, Events, TypeOK, Stops, Watched, Ended
  <2>6. Silence'
    BY <1>6 DEF Crash, Silence, TypeOK, Events, Watched
  <2> QED
    BY <2>1, <2>2, <2>3, <2>4, <2>5, <2>6
<1>7. ASSUME NEW m \in mail, Deliver(m) PROVE Inv'
  <2>1. TypeOK'
    BY <1>7 DEF Deliver, TypeOK, Ended
  <2>2. Budget'
    BY <1>7, BudgetStays DEF Deliver
  <2>3. Processes'
    BY <1>7 DEF Deliver, Processes, TypeOK, Ended, Events
  <2>4. Announcements'
    BY <1>7 DEF Deliver, Announcements, TypeOK, Session, Ended, Stops, Events, Watched
  <2>5. Events'
    BY <1>7 DEF Deliver, Events, TypeOK, Stops, Watched, Ended
  <2>6. Silence'
    BY <1>7 DEF Deliver, Silence, TypeOK, Events, Watched
  <2> QED
    BY <2>1, <2>2, <2>3, <2>4, <2>5, <2>6
<1>8. CASE Cancel
  <2>1. TypeOK'
    BY <1>8 DEF Cancel, TypeOK, Ended
  <2>2. Budget'
    BY <1>8, BudgetStays DEF Cancel
  <2>3. Processes'
    BY <1>8 DEF Cancel, Processes, TypeOK, Ended, Events
  <2>4. Announcements'
    BY <1>8 DEF Cancel, Announcements, TypeOK, Session, Ended, Stops, Events, Watched
  <2>5. Events'
    BY <1>8 DEF Cancel, Events, TypeOK, Stops, Watched, Ended
  <2>6. Silence'
    BY <1>8 DEF Cancel, Silence, TypeOK, Events, Watched
  <2> QED
    BY <2>1, <2>2, <2>3, <2>4, <2>5, <2>6
<1>9. CASE StartQemu
  <2>1. TypeOK'
    <3>1. lines' \in Seq({"answer"} \cup Stops)
      BY <1>9 DEF StartQemu
    <3>2. intent' \in Stops \cup {None} /\ mail' \subseteq {"ready", "reboot"}
      BY <1>9 DEF StartQemu, MailRead
    <3>3. qemu' \in {"none", "run", "exiting", "hung", "dead"} /\ pc' \in {"probe", "fatal"}
      BY <1>9 DEF StartQemu, TypeOK
    <3> QED
      BY <1>9, <3>1, <3>2, <3>3 DEF StartQemu, TypeOK, Ended
  <2>2. Budget'
    <3>1. Rungs' = Rungs
      BY <1>9 DEF StartQemu, Rungs
    <3> QED
      BY <1>9, <3>1, RungsRange DEF StartQemu, MailRead, TypeOK, Budget
  <2>3. Processes'
    BY <1>9 DEF StartQemu, MailRead, Processes, TypeOK, Ended, Events
  <2>4. Announcements'
    BY <1>9 DEF StartQemu, MailRead, Announcements, TypeOK, Session, Ended, Stops, Events, Watched
  <2>5. Events'
    BY <1>9 DEF StartQemu, MailRead, Events, TypeOK, Stops, Watched, Ended
  <2>6. Silence'
    BY <1>9 DEF StartQemu, MailRead, Silence, TypeOK, Events, Watched
  <2> QED
    BY <2>1, <2>2, <2>3, <2>4, <2>5, <2>6
<1>10. CASE GiveUp
  <2>1. TypeOK'
    BY <1>10 DEF GiveUp, TypeOK, Ended
  <2>2. Budget'
    <3>1. Rungs' = Rungs
      BY <1>10 DEF GiveUp, Rungs
    <3> QED
      BY <1>10, <3>1, RungsRange DEF GiveUp, TypeOK, Budget
  <2>3. Processes'
    BY <1>10 DEF GiveUp, Processes, TypeOK, Ended, Events
  <2>4. Announcements'
    BY <1>10 DEF GiveUp, Announcements, TypeOK, Session, Ended, Stops, Events, Watched
  <2>5. Events'
    BY <1>10 DEF GiveUp, Events, TypeOK, Stops, Watched, Ended
  <2>6. Silence'
    BY <1>10 DEF GiveUp, Silence, TypeOK, Events, Watched
  <2> QED
    BY <2>1, <2>2, <2>3, <2>4, <2>5, <2>6
<1>11. CASE CancelProbe
  <2>1. TypeOK'
    BY <1>11 DEF CancelProbe, TypeOK, Ended
  <2>2. Budget'
    BY <1>11, BudgetStays DEF CancelProbe
  <2>3. Processes'
    BY <1>11 DEF CancelProbe, Processes, TypeOK, Ended, Events
  <2>4. Announcements'
    BY <1>11 DEF CancelProbe, Announcements, TypeOK, Session, Ended, Stops, Events, Watched
  <2>5. Events'
    BY <1>11 DEF CancelProbe, Events, TypeOK, Stops, Watched, Ended
  <2>6. Silence'
    BY <1>11 DEF CancelProbe, Silence, TypeOK, Events, Watched
  <2> QED
    BY <2>1, <2>2, <2>3, <2>4, <2>5, <2>6
<1>12. CASE Connect
  <2>1. TypeOK'
    BY <1>12 DEF Connect, TypeOK, Ended
  <2>2. Budget'
    BY <1>12, BudgetStays DEF Connect
  <2>3. Processes'
    BY <1>12 DEF Connect, Processes, TypeOK, Ended, Events
  <2>4. Announcements'
    BY <1>12 DEF Connect, Announcements, TypeOK, Session, Ended, Stops, Events, Watched
  <2>5. Events'
    BY <1>12 DEF Connect, Events, TypeOK, Stops, Watched, Ended
  <2>6. Silence'
    BY <1>12 DEF Connect, Silence, TypeOK, Events, Watched
  <2> QED
    BY <2>1, <2>2, <2>3, <2>4, <2>5, <2>6
<1>13. CASE LaunchWedged
  <2>1. TypeOK'
    <3>1. attempt' \in 1 .. MaxAttempts + 1 /\ wedges' \in Nat
      BY <1>13 DEF LaunchWedged, Retry, TypeOK, Budget
    <3> QED
      BY <1>13, <3>1 DEF LaunchWedged, Retry, TypeOK
  <2>2. Budget'
    <3>1. Rungs' = Rungs
      BY <1>13 DEF LaunchWedged, Rungs
    <3> QED
      BY <1>13, <3>1, RungsRange DEF LaunchWedged, Retry, TypeOK, Budget
  <2>3. Processes'
    BY <1>13 DEF LaunchWedged, Retry, Processes, TypeOK, Ended, Events
  <2>4. Announcements'
    BY <1>13 DEF LaunchWedged, Retry, Announcements, TypeOK, Session, Ended, Stops, Events, Watched
  <2>5. Events'
    BY <1>13 DEF LaunchWedged, Retry, Events, TypeOK, Stops, Watched, Ended
  <2>6. Silence'
    BY <1>13 DEF LaunchWedged, Retry, Silence, TypeOK, Events, Watched
  <2> QED
    BY <2>1, <2>2, <2>3, <2>4, <2>5, <2>6
<1>14. ASSUME NEW c \in Complaints, StartupFailed(c) PROVE Inv'
  <2>1. TypeOK'
    <3>1. cfg' \in Config /\ journal' \in BOOLEAN
      BY <1>14, HalfStep DEF StartupFailed, Retry, GraphicsRung, TypeOK, Config
    <3>2. attempt' \in 1 .. MaxAttempts + 1 /\ pc' \in {"start", "fatal"}
      BY <1>14 DEF StartupFailed, Retry, TypeOK, Budget
    <3> QED
      BY <1>14, <3>1, <3>2 DEF StartupFailed, TypeOK, Ended
  <2>2. Budget'
    <3>1. CASE pc' = "fatal"
      <4>1. Rungs' = Rungs /\ attempt' = attempt /\ wedges' = wedges
        BY <1>14, <3>1 DEF StartupFailed, Retry, Rungs
      <4> QED
        BY <3>1, <4>1 DEF Budget
    <3>2. CASE pc' # "fatal"
      <4>1. pc' = "start" /\ attempt' = attempt + 1 /\ wedges' = wedges
        BY <1>14, <3>2 DEF StartupFailed, Retry
      <4>2. Rungs' + 1 <= Rungs
        BY <1>14, <3>2, RungTaken DEF TypeOK
      <4>3. Rungs \in Int /\ Rungs' \in Int /\ attempt \in Int /\ wedges \in Int
        BY RungsRange DEF TypeOK
      <4>4. attempt + Rungs <= 11 + wedges
        BY DEF Budget
      <4>5. (attempt + 1) + Rungs' <= 11 + wedges
        BY ONLY <4>2, <4>3, <4>4, Spend
      <4>6. attempt' + Rungs' <= 11 + wedges'
        BY ONLY <4>1, <4>5
      <4> QED
        BY <4>1, <4>6 DEF Budget
    <3> QED
      BY <3>1, <3>2
  <2>3. Processes'
    BY <1>14 DEF StartupFailed, Retry, GraphicsRung, Processes, TypeOK, Ended, Events
  <2>4. Announcements'
    BY <1>14 DEF StartupFailed, Retry, GraphicsRung, Announcements, TypeOK, Session, Ended, Stops, Events, Watched
  <2>5. Events'
    BY <1>14 DEF StartupFailed, Retry, GraphicsRung, Events, TypeOK, Stops, Watched, Ended
  <2>6. Silence'
    BY <1>14 DEF StartupFailed, Retry, GraphicsRung, Silence, TypeOK, Events, Watched
  <2> QED
    BY <2>1, <2>2, <2>3, <2>4, <2>5, <2>6
<1>15. CASE LoopHead
  <2>1. TypeOK'
    <3>1. journal' \in BOOLEAN
      BY <1>15, Zenon DEF LoopHead
    <3> QED
      BY <1>15, <3>1 DEF LoopHead, TypeOK
  <2>2. Budget'
    <3>1. Rungs' <= Rungs
      <4>1. One(journal') <= One(journal) /\ UNCHANGED cfg
        BY <1>15 DEF LoopHead, One, TypeOK
      <4>2. /\ Halvings(cfg.mem) \in 0 .. 6 /\ One(~cfg.irqchipOff) \in 0 .. 1
            /\ One(cfg.audio) \in 0 .. 1 /\ One(cfg.gpu) \in 0 .. 1
            /\ One(journal) \in 0 .. 1 /\ One(journal') \in 0 .. 1
        BY HalvingsRange, OneRange
      <4> QED
        BY <4>1, <4>2 DEF Rungs
    <3>2. UNCHANGED <<attempt, wedges>>
      BY <1>15 DEF LoopHead
    <3>3. pc' = "select"
      BY <1>15 DEF LoopHead
    <3>4. /\ attempt \in Int /\ wedges \in Int /\ attempt' \in Int /\ wedges' \in Int
          /\ Rungs \in Int /\ Rungs' \in Int
      BY <2>1, RungsRange DEF TypeOK
    <3>5. attempt + Rungs <= 11 + wedges
      BY DEF Budget
    <3>6. attempt + Rungs' <= 11 + wedges
      BY ONLY <3>1, <3>4, <3>5, Spend
    <3>7. attempt' = attempt /\ wedges' = wedges
      BY ONLY <3>2
    <3>8. attempt' + Rungs' <= 11 + wedges'
      BY ONLY <3>6, <3>7
    <3> QED
      BY <3>3, <3>8 DEF Budget
  <2>3. Processes'
    BY <1>15 DEF LoopHead, Processes, TypeOK, Ended, Events
  <2>4. Announcements'
    BY <1>15 DEF LoopHead, Announcements, TypeOK, Session, Ended, Stops, Events, Watched
  <2>5. Events'
    BY <1>15 DEF LoopHead, Events, TypeOK, Stops, Watched, Ended
  <2>6. Silence'
    BY <1>15 DEF LoopHead, Silence, TypeOK, Events, Watched
  <2> QED
    BY <2>1, <2>2, <2>3, <2>4, <2>5, <2>6
<1>16. CASE ReadLine
  <2>1. TypeOK'
    BY <1>16 DEF ReadLine, TypeOK, Ended
  <2>2. Budget'
    BY <1>16, BudgetStays DEF ReadLine
  <2>3. Processes'
    BY <1>16 DEF ReadLine, Processes, TypeOK, Ended, Events
  <2>4. Announcements'
    BY <1>16 DEF ReadLine, Announcements, TypeOK, Session, Ended, Stops, Events, Watched
  <2>5. Events'
    BY <1>16 DEF ReadLine, Events, TypeOK, Stops, Watched, Ended
  <2>6. Silence'
    BY <1>16 DEF ReadLine, Silence, TypeOK, Events, Watched
  <2> QED
    BY <2>1, <2>2, <2>3, <2>4, <2>5, <2>6
<1>17. CASE Exited
  <2>1. TypeOK'
    BY <1>17 DEF Exited, TypeOK, Ended
  <2>2. Budget'
    BY <1>17, BudgetStays DEF Exited
  <2>3. Processes'
    BY <1>17 DEF Exited, Processes, TypeOK, Ended, Events
  <2>4. Announcements'
    BY <1>17 DEF Exited, Announcements, TypeOK, Session, Ended, Stops, Events, Watched
  <2>5. Events'
    BY <1>17 DEF Exited, Events, TypeOK, Stops, Watched, Ended
  <2>6. Silence'
    BY <1>17 DEF Exited, Silence, TypeOK, Events, Watched
  <2> QED
    BY <2>1, <2>2, <2>3, <2>4, <2>5, <2>6
<1>18. CASE Query
  <2>1. TypeOK'
    <3>1. lines' \in Seq({"answer"} \cup Stops)
      <4>1. <<"answer">> \in Seq({"answer"} \cup Stops)
        OBVIOUS
      <4>2. lines' = <<"answer">> \/ lines' = lines
        BY <1>18 DEF Query
      <4> QED
        BY <4>1, <4>2 DEF TypeOK
    <3>2. silent' \in 0 .. SilentLimit
      BY <1>18 DEF Query, TypeOK, Silence
    <3> QED
      BY <1>18, <3>1, <3>2 DEF Query, TypeOK, Ended
  <2>2. Budget'
    BY <1>18, BudgetStays DEF Query
  <2>3. Processes'
    <3>1. qemu = "run" => silent = 0
      BY <1>18 DEF Query, TypeOK, Silence
    <3> QED
      BY <1>18, <3>1 DEF Query, TypeOK, Processes, Ended
  <2>4. Announcements'
    BY <1>18 DEF Query, Announcements, TypeOK, Session, Ended, Stops, Events, Watched
  <2>5. Events'
    BY <1>18 DEF Query, Events, TypeOK, Stops, Watched, Ended
  <2>6. Silence'
    BY <1>18 DEF Query, Silence, TypeOK, Events, Watched
  <2> QED
    BY <2>1, <2>2, <2>3, <2>4, <2>5, <2>6
<1>19. CASE Reaped
  <2>1. TypeOK'
    BY <1>19 DEF Reaped, Gone, TypeOK, Ended
  <2>2. Budget'
    BY <1>19, BudgetStays DEF Reaped, Gone
  <2>3. Processes'
    BY <1>19 DEF Reaped, Gone, Processes, TypeOK, Ended, Events
  <2>4. Announcements'
    BY <1>19 DEF Reaped, Gone, Announcements, TypeOK, Session, Ended, Stops, Events, Watched
  <2>5. Events'
    BY <1>19 DEF Reaped, Gone, Events, TypeOK, Stops, Watched, Ended
  <2>6. Silence'
    BY <1>19 DEF Reaped, Gone, Silence, TypeOK, Events, Watched
  <2> QED
    BY <2>1, <2>2, <2>3, <2>4, <2>5, <2>6
<1>20. CASE Kill
  <2>1. TypeOK'
    BY <1>20 DEF Kill, Gone, TypeOK, Ended
  <2>2. Budget'
    BY <1>20, BudgetStays DEF Kill, Gone
  <2>3. Processes'
    BY <1>20 DEF Kill, Gone, Processes, TypeOK, Ended, Events
  <2>4. Announcements'
    BY <1>20 DEF Kill, Gone, Announcements, TypeOK, Session, Ended, Stops, Events, Watched
  <2>5. Events'
    BY <1>20 DEF Kill, Gone, Events, TypeOK, Stops, Watched, Ended
  <2>6. Silence'
    BY <1>20 DEF Kill, Gone, Silence, TypeOK, Events, Watched
  <2> QED
    BY <2>1, <2>2, <2>3, <2>4, <2>5, <2>6
<1>21. CASE Drain
  <2>1. TypeOK'
    BY <1>21 DEF Drain, TypeOK, Ended
  <2>2. Budget'
    BY <1>21, BudgetStays DEF Drain
  <2>3. Processes'
    BY <1>21 DEF Drain, Processes, TypeOK, Ended, Events
  <2>4. Announcements'
    BY <1>21 DEF Drain, Announcements, TypeOK, Session, Ended, Stops, Events, Watched
  <2>5. Events'
    BY <1>21 DEF Drain, Events, TypeOK, Stops, Watched, Ended
  <2>6. Silence'
    BY <1>21 DEF Drain, Silence, TypeOK, Events, Watched
  <2> QED
    BY <2>1, <2>2, <2>3, <2>4, <2>5, <2>6
<1>22. CASE Decide
  <2>1. TypeOK'
    <3>1. Rebooted => intent = "reboot" /\ boots < MaxBoots
      BY <1>22 DEF Decide, Rebooted, Announcements, Events, Session, Watched
    <3>2. pc' \in {"start", "over"} /\ attempt' \in 1 .. MaxAttempts + 1
      BY <1>22 DEF Decide, TypeOK
    <3>3. wedges' \in Nat /\ boots' \in 0 .. MaxBoots
      BY <1>22, <3>1 DEF Decide, TypeOK
    <3>4. pendingReboot' \in BOOLEAN /\ guestUp' \in BOOLEAN
      BY <1>22 DEF Decide, TypeOK
    <3> QED
      BY <1>22, <3>2, <3>3, <3>4 DEF Decide, TypeOK, Ended
  <2>2. Budget'
    <3>1. Rungs' = Rungs
      BY <1>22 DEF Decide, Rungs
    <3> QED
      BY <1>22, <3>1, RungsRange DEF Decide, TypeOK, Budget
  <2>3. Processes'
    BY <1>22 DEF Decide, MailRead, Rebooted, Processes, TypeOK, Ended, Events
  <2>4. Announcements'
    BY <1>22 DEF Decide, MailRead, Rebooted, Announcements, TypeOK, Session, Ended, Stops, Events, Watched
  <2>5. Events'
    BY <1>22 DEF Decide, MailRead, Rebooted, Events, TypeOK, Stops, Watched, Ended
  <2>6. Silence'
    BY <1>22 DEF Decide, MailRead, Rebooted, Silence, TypeOK, Events, Watched
  <2> QED
    BY <2>1, <2>2, <2>3, <2>4, <2>5, <2>6
<1>24. CASE Disconnected
  <2>1. TypeOK'
    BY <1>24 DEF Disconnected, TypeOK, Ended
  <2>2. Budget'
    BY <1>24, BudgetStays DEF Disconnected
  <2>3. Processes'
    BY <1>24 DEF Disconnected, Processes, TypeOK, Ended, Events
  <2>4. Announcements'
    BY <1>24 DEF Disconnected, Announcements, TypeOK, Session, Ended, Stops, Events, Watched
  <2>5. Events'
    BY <1>24 DEF Disconnected, Events, TypeOK, Stops, Watched, Ended
  <2>6. Silence'
    BY <1>24 DEF Disconnected, Silence, TypeOK, Events, Watched
  <2> QED
    BY <2>1, <2>2, <2>3, <2>4, <2>5, <2>6
<1>23. CASE UNCHANGED vars
  BY <1>23 DEF vars, TypeOK, Budget, Rungs, Processes, Announcements, Events, Silence
<1> QED
  BY <1>1, <1>2, <1>3, <1>4, <1>5, <1>6, <1>7, <1>8, <1>9, <1>10, <1>11, <1>12, <1>13, <1>14, <1>15, <1>16, <1>17, <1>18, <1>19, <1>20, <1>21, <1>22, <1>23, <1>24 DEF Next, Launcher, Guest

-----------------------------------------------------------------------------
(* The inductive invariant holds throughout.                               *)
LEMMA Invariant == Spec => []Inv
<1>1. Init => Inv
  BY InitInv
<1>2. Inv /\ [Next]_vars => Inv'
  BY StepInv
<1> QED
  BY <1>1, <1>2, PTL DEF Spec

(* The supervisor's state keeps its type, the reboot counter its bound     *)
(* included.                                                               *)
THEOREM TypeCorrect == Spec => []TypeOK
<1>1. Inv => TypeOK
  BY DEF Inv
<1> QED
  BY <1>1, Invariant, PTL

(* The ladder of supervise alone never uses up the attempts: whenever they *)
(* are exhausted, all but ten went to launches that hung.  With            *)
(* maxLaunchAttempts = 12 that takes two.                                  *)
THEOREM LadderAlwaysFits == Spec => []LadderFits
<1>1. Inv => LadderFits
  <2> SUFFICES ASSUME Inv, pc = "exhausted" PROVE wedges >= MaxAttempts - 10
    BY DEF LadderFits
  <2>1. attempt + Rungs <= 11 + wedges /\ attempt > MaxAttempts
    BY DEF Inv, Budget
  <2>2. attempt \in Int /\ wedges \in Int /\ MaxAttempts \in Int
    BY SupervisorAssumption DEF Inv, TypeOK
  <2> QED
    BY <2>1, <2>2, RungsRange
<1> QED
  BY <1>1, Invariant, PTL

(* No startup failure is answered with a configuration already tried: each *)
(* further attempt has a rung fewer, unless the launch itself hung.        *)
THEOREM LadderAlwaysDescends == Spec => LadderDescends
<1>1. Inv /\ [Next]_vars =>
        [(pc = "probe" /\ pc' = "start") => (wedges' > wedges \/ Rungs' < Rungs)]_vars
  <2> SUFFICES ASSUME Inv, Next, pc = "probe", pc' = "start"
               PROVE  wedges' > wedges \/ Rungs' < Rungs
    BY DEF vars
  <2>1. CASE LaunchWedged
    BY <2>1 DEF LaunchWedged, Inv, TypeOK
  <2>2. ASSUME NEW c \in Complaints, StartupFailed(c) PROVE Rungs' < Rungs
    <3>1. Rungs' + 1 <= Rungs
      BY <2>2, RungTaken DEF Inv, TypeOK
    <3>2. Rungs \in Int /\ Rungs' \in Int
      BY RungsRange
    <3> QED
      BY ONLY <3>1, <3>2, StrictlyLess
  <2>3. LaunchWedged \/ \E c \in Complaints : StartupFailed(c)
    BY DEF Next, Launcher, Guest, StartQemu, GiveUp, CancelProbe, Connect, LoopHead, ReadLine,
           Exited, Disconnected, Query, Reaped, Kill, Drain, Decide, Userspace, GoDown,
           Shutdown, Exit, Hang, Crash, Deliver, Cancel
  <2> QED
    BY <2>1, <2>2, <2>3
<1> QED
  BY <1>1, Invariant, PTL DEF LadderDescends, Spec

(* However supervise ends, cancelled, failed, exhausted or because the     *)
(* guest is off, no QEMU process is left behind.                           *)
THEOREM NoQemuLeft == Spec => []NoOrphan
<1>1. Inv => NoOrphan
  BY DEF Inv, Processes, NoOrphan
<1> QED
  BY <1>1, Invariant, PTL

(* The commit at the head of watch's loop acts on the word of the guest    *)
(* that runs now.                                                          *)
THEOREM CommitsAreFresh == Spec => CommitOnlyWhenReady
<1>1. Inv => [LoopHead /\ guestReady => ready]_vars
  BY DEF Inv, Announcements
<1> QED
  BY <1>1, Invariant, PTL DEF CommitOnlyWhenReady

(* A relaunch follows a reboot and nothing else, and an announced reboot   *)
(* is always followed by one.                                              *)
THEOREM RebootsAreUnderstood == Spec => RebootIsUnderstood
<1>1. Inv => [Decide => /\ pc' = "start" => intent = "reboot"
                        /\ intent = "reboot" /\ told => pc' = "start"]_vars
  <2> SUFFICES ASSUME Inv, Decide
               PROVE  /\ pc' = "start" => intent = "reboot"
                      /\ intent = "reboot" /\ told => pc' = "start"
    OBVIOUS
  <2>1. /\ pc = "decide" /\ mail = {}
        /\ pc' = IF Rebooted THEN "start" ELSE "over"
    BY DEF Decide, MailRead
  <2>2. Rebooted => intent = "reboot"
    BY <2>1, SupervisorAssumption DEF Inv, Rebooted, Events, Announcements, Watched
  <2>3. intent = "reboot" /\ told => Rebooted
    BY <2>1 DEF Inv, Rebooted, Events, Announcements, Watched, Session
  <2> QED
    BY <2>1, <2>2, <2>3
<1> QED
  BY <1>1, Invariant, PTL DEF RebootIsUnderstood

(* watch never kills a QEMU whose main loop still answers.                 *)
THEOREM HealthyAreSpared == Spec => OnlyHungIsKilled
<1>1. Inv => [Kill => qemu = "hung"]_vars
  BY DEF Inv, Processes, Kill
<1> QED
  BY <1>1, Invariant, PTL DEF OnlyHungIsKilled

=============================================================================
