----------------------------- MODULE Supervisor -----------------------------
(***************************************************************************)
(* The QEMU supervisor of app/main.go: supervise, watch, waitExit and the  *)
(* lifecycle listener, with readLines and shutdownReason of app/qmp.go.    *)
(*                                                                         *)
(* supervise starts QEMU up to MaxAttempts times.  A QEMU that exits       *)
(* before it answered QMP takes one rung of a ladder (irqchip, audio,      *)
(* memory, runtime rollback, CPU rendering); one that does not answer for  *)
(* a minute is killed.  Once QMP answers, watch follows the guest until    *)
(* QEMU exits, reports SHUTDOWN or stops answering, reaps it, and decides  *)
(* from the event, or from the guest's own announcement, whether the guest *)
(* rebooted and must be launched again.                                    *)
(*                                                                         *)
(* The guest announces "ready" and "reboot" on a TCP port; each            *)
(* announcement is read by a goroutine that sets a flag.                   *)
(***************************************************************************)
EXTENDS Integers, Sequences

CONSTANTS
  MaxAttempts,  \* maxLaunchAttempts
  SilentLimit,  \* unanswered queries before the main loop counts as stuck
  Memories,     \* guest memory in MiB a launch may start with
  MaxBoots,     \* bound on the guest reboots of one launcher run
  None

MinMemory == 1024    \* MiB, the floor of the memory ladder
MaxMemory == 65536   \* MiB, settings and -memory accept no more

ASSUME SupervisorAssumption ==
  /\ MaxAttempts \in Nat \ {0}
  /\ SilentLimit \in Nat \ {0, 1}
  /\ Memories \subseteq MinMemory .. MaxMemory
  /\ MaxBoots \in Nat
  /\ None \notin {"reboot", "poweroff"}

Stops == {"reboot", "poweroff"}
Ended == {"over", "fatal", "exhausted"}

VARIABLES
  cfg,           \* what the ladder changes of the configuration
  journal,       \* a runtime update waits for its first ready guest
  attempt,       \* attempt of this call of supervise
  pc,            \* where supervise or watch is
  reason,        \* watch's reason
  silent,        \* watch's silent
  qemu,          \* the QEMU process
  lines,         \* QMP lines QEMU has written and watch has not read
  mail,          \* announcements not yet read by their goroutine
  pendingReboot, guestReady, guestUp,
  cancel,        \* setupCancelled
  knownCPU,      \* the render probe says this machine boots on CPU only
  ready,         \* history: this QEMU's guest reached userspace
  intent,        \* history: what this QEMU's guest is going down for
  told,          \* history: the reboot announcement left the guest
  wedges,        \* history: attempts of this call that hung at launch
  boots          \* history: relaunches

config  == <<cfg, journal, knownCPU>>
flags   == <<pendingReboot, guestReady, guestUp>>
history == <<ready, intent, told, wedges, boots>>
watching == <<reason, silent>>
vars == <<config, attempt, pc, watching, qemu, lines, mail, flags, cancel, history>>

Config == [irqchipOff: BOOLEAN, audio: BOOLEAN, mem: MinMemory .. MaxMemory, gpu: BOOLEAN]

TypeOK ==
  /\ cfg \in Config
  /\ journal \in BOOLEAN /\ knownCPU \in BOOLEAN /\ cancel \in BOOLEAN
  /\ attempt \in 1 .. MaxAttempts + 1
  /\ pc \in {"start", "probe", "watch", "select", "reap", "drain", "decide"} \cup Ended
  /\ reason \in Stops \cup {None}
  /\ silent \in 0 .. SilentLimit
  /\ qemu \in {"none", "run", "exiting", "hung", "dead"}
  /\ lines \in Seq({"answer"} \cup Stops)
  /\ mail \subseteq {"ready", "reboot"}
  /\ pendingReboot \in BOOLEAN /\ guestReady \in BOOLEAN /\ guestUp \in BOOLEAN
  /\ ready \in BOOLEAN /\ told \in BOOLEAN
  /\ intent \in Stops \cup {None}
  /\ wedges \in Nat /\ boots \in 0 .. MaxBoots

Init ==
  /\ cfg \in [irqchipOff: {FALSE}, audio: {TRUE}, mem: Memories, gpu: BOOLEAN]
  /\ journal \in BOOLEAN /\ knownCPU \in BOOLEAN
  /\ attempt = 1 /\ pc = "start"
  /\ reason = None /\ silent = 0
  /\ qemu = "none" /\ lines = <<>> /\ mail = {}
  /\ pendingReboot = FALSE /\ guestReady = FALSE /\ guestUp = FALSE
  /\ cancel = FALSE
  /\ ready = FALSE /\ intent = None /\ told = FALSE /\ wedges = 0 /\ boots = 0

-----------------------------------------------------------------------------
(* QEMU and its guest. *)

(* The in-guest readiness service announces userspace. *)
Userspace ==
  /\ qemu = "run" /\ ~ready /\ intent = None
  /\ ready' = TRUE
  /\ mail' = mail \cup {"ready"}
  /\ UNCHANGED <<config, attempt, pc, watching, qemu, lines, flags, cancel,
                 intent, told, wedges, boots>>

(* The guest goes down; its shutdown unit announces a reboot, unless the   *)
(* network is already gone.                                                *)
GoDown(stop) ==
  /\ qemu = "run" /\ intent = None
  /\ stop = "reboot" => boots < MaxBoots
  /\ intent' = stop
  /\ told' \in IF stop = "reboot" THEN BOOLEAN ELSE {FALSE}
  /\ mail' = IF told' THEN mail \cup {"reboot"} ELSE mail
  /\ UNCHANGED <<config, attempt, pc, watching, qemu, lines, flags, cancel,
                 ready, wedges, boots>>

(* With -no-reboot a reset, like a poweroff, makes QEMU report SHUTDOWN    *)
(* and exit.                                                               *)
Shutdown ==
  /\ qemu = "run" /\ intent # None
  /\ qemu' = "exiting"
  /\ lines' = Append(lines, intent)
  /\ UNCHANGED <<config, attempt, pc, watching, mail, flags, cancel, history>>

Exit ==
  /\ qemu = "exiting"
  /\ qemu' = "dead"
  /\ UNCHANGED <<config, attempt, pc, watching, lines, mail, flags, cancel, history>>

(* The main loop wedges: at launch, while running or at the shutdown.      *)
Hang ==
  /\ qemu \in {"run", "exiting"}
  /\ qemu' = "hung"
  /\ UNCHANGED <<config, attempt, pc, watching, lines, mail, flags, cancel, history>>

(* A startup error or a crash. *)
Crash ==
  /\ qemu = "run"
  /\ qemu' = "dead"
  /\ UNCHANGED <<config, attempt, pc, watching, lines, mail, flags, cancel, history>>

(* runLifecycleListener: a goroutine per announcement. *)
Deliver(m) ==
  /\ m \in mail
  /\ mail' = mail \ {m}
  /\ pendingReboot' = (pendingReboot \/ m = "reboot")
  /\ guestReady' = (guestReady \/ m = "ready")
  /\ UNCHANGED <<config, attempt, pc, watching, qemu, lines, guestUp, cancel, history>>

(* The user cancels setup. *)
Cancel ==
  /\ ~cancel
  /\ cancel' = TRUE
  /\ UNCHANGED <<config, attempt, pc, watching, qemu, lines, mail, flags, history>>

-----------------------------------------------------------------------------
(* supervise. *)

(* Announcements are read long before the next decision: a goroutine needs *)
(* milliseconds, supervise sleeps two seconds between attempts and waits   *)
(* for the process in between.                                             *)
MailRead == mail = {}

\* Mutant: an attempt inherits the readiness announced to the one before.
StartKeepsReady ==
  /\ pc = "start" /\ ~cancel /\ attempt <= MaxAttempts
  /\ MailRead
  /\ pendingReboot' = FALSE /\ UNCHANGED guestReady
  /\ ready' = FALSE /\ intent' = None /\ told' = FALSE
  /\ lines' = <<>>
  /\ qemu' = "run" /\ pc' = "probe"
  /\ UNCHANGED <<config, attempt, watching, mail, guestUp, cancel, wedges, boots>>

StartQemu ==
  /\ pc = "start" /\ ~cancel /\ attempt <= MaxAttempts
  /\ MailRead
  /\ pendingReboot' = FALSE /\ guestReady' = FALSE
  /\ ready' = FALSE /\ intent' = None /\ told' = FALSE
  /\ lines' = <<>>
  /\ \/ qemu' = "run" /\ pc' = "probe"
     \/ UNCHANGED qemu /\ pc' = "fatal"
  /\ UNCHANGED <<config, attempt, watching, mail, guestUp, cancel, wedges, boots>>

GiveUp ==
  /\ pc = "start"
  /\ \/ cancel /\ pc' = "over"
     \/ ~cancel /\ attempt > MaxAttempts /\ pc' = "exhausted"
  /\ UNCHANGED <<config, attempt, watching, qemu, lines, mail, flags, cancel, history>>

\* Mutant: a cancelled setup leaves QEMU running.
CancelWithoutKill ==
  /\ pc = "probe" /\ cancel
  /\ pc' = "over"
  /\ UNCHANGED <<config, attempt, watching, qemu, lines, mail, flags, cancel, history>>

CancelProbe ==
  /\ pc = "probe" /\ cancel
  /\ qemu' = "dead" /\ pc' = "over"
  /\ UNCHANGED <<config, attempt, watching, lines, mail, flags, cancel, history>>

Connect ==
  /\ pc = "probe" /\ qemu = "run"
  /\ pc' = "watch"
  /\ guestUp' = TRUE
  /\ reason' = None /\ silent' = 0
  /\ UNCHANGED <<config, attempt, qemu, lines, mail, pendingReboot, guestReady, cancel, history>>

Retry == pc' = "start" /\ attempt' = attempt + 1

(* Nobody answered QMP for a minute. *)
LaunchWedged ==
  /\ pc = "probe" /\ qemu = "hung"
  /\ qemu' = "dead"
  /\ wedges' = wedges + 1
  /\ Retry
  /\ UNCHANGED <<config, watching, lines, mail, flags, cancel, ready, intent, told, boots>>

\* Mutant: no floor under the memory ladder.
HalfOfAnything(mem) == mem \div 2

Half(mem) == IF mem \div 2 < MinMemory THEN MinMemory ELSE mem \div 2

\* Mutant: the rollback is forgotten and taken again at the next attempt.
GraphicsRungRepeats ==
  \/ journal /\ ~knownCPU /\ UNCHANGED <<journal, cfg>>
  \/ UNCHANGED journal /\ cfg' = [cfg EXCEPT !.gpu = FALSE]

(* The last rung, with GPU rendering: keep the updated runtime on a        *)
(* machine known to need the CPU, else restore the previous one, else (or  *)
(* when that fails) fall back to the CPU.                                  *)
GraphicsRung ==
  \/ /\ journal /\ ~knownCPU
     /\ journal' = FALSE /\ UNCHANGED cfg
  \/ UNCHANGED journal /\ cfg' = [cfg EXCEPT !.gpu = FALSE]

(* QEMU exited before it answered; complaint is what it wrote to stderr.   *)
StartupFailed(complaint) ==
  /\ pc = "probe" /\ qemu = "dead"
  /\ \/ /\ complaint = "nested"
        /\ IF cfg.irqchipOff
           THEN pc' = "fatal" /\ UNCHANGED <<cfg, journal, attempt>>
           ELSE cfg' = [cfg EXCEPT !.irqchipOff = TRUE] /\ UNCHANGED journal /\ Retry
     \/ /\ complaint = "audio" /\ cfg.audio
        /\ cfg' = [cfg EXCEPT !.audio = FALSE] /\ UNCHANGED journal /\ Retry
     \/ /\ complaint = "memory"
        /\ IF cfg.mem > MinMemory
           THEN cfg' = [cfg EXCEPT !.mem = Half(cfg.mem)] /\ UNCHANGED journal /\ Retry
           ELSE pc' = "fatal" /\ UNCHANGED <<cfg, journal, attempt>>
     \/ /\ complaint = "other" \/ (complaint = "audio" /\ ~cfg.audio)
        /\ IF cfg.gpu
           THEN GraphicsRung /\ Retry
           ELSE pc' = "fatal" /\ UNCHANGED <<cfg, journal, attempt>>
  /\ UNCHANGED <<knownCPU, watching, qemu, lines, mail, flags, cancel, history>>

-----------------------------------------------------------------------------
(* watch. *)

(* The head of the loop: the guest's readiness commits pending updates.    *)
LoopHead ==
  /\ pc = "watch"
  /\ pc' = "select"
  /\ guestReady' = FALSE
  /\ journal' = (journal /\ ~guestReady)
  /\ UNCHANGED <<cfg, knownCPU, attempt, watching, qemu, lines, mail, pendingReboot, guestUp,
                 cancel, history>>

ReadLine ==
  /\ pc = "select" /\ lines # <<>>
  /\ silent' = 0
  /\ lines' = Tail(lines)
  /\ IF Head(lines) \in Stops
     THEN reason' = Head(lines) /\ pc' = "reap"
     ELSE UNCHANGED reason /\ pc' = "watch"
  /\ UNCHANGED <<config, attempt, qemu, mail, flags, cancel, history>>

Exited ==
  /\ pc = "select" /\ qemu = "dead"
  /\ pc' = "drain"
  /\ UNCHANGED <<config, attempt, watching, qemu, lines, mail, flags, cancel, history>>

(* The QMP connection breaks when QEMU exits: reading or writing fails.    *)
Disconnected ==
  /\ pc = "select" /\ qemu \in {"exiting", "dead"}
  /\ pc' = "reap"
  /\ UNCHANGED <<config, attempt, watching, qemu, lines, mail, flags, cancel, history>>

\* Mutant: queries are sent but nobody counts the missing answers.
QueryUncounted ==
  /\ pc = "select" /\ qemu \in {"run", "hung"} /\ lines = <<>>
  /\ lines' = IF qemu = "run" THEN <<"answer">> ELSE lines
  /\ pc' = "watch"
  /\ UNCHANGED <<config, attempt, watching, qemu, mail, flags, cancel, history>>

(* Every five seconds query-status; a healthy main loop answers before the *)
(* next one.                                                               *)
Query ==
  /\ pc = "select" /\ qemu \in {"run", "hung"} /\ lines = <<>>
  /\ lines' = IF qemu = "run" THEN <<"answer">> ELSE lines
  /\ silent' = silent + 1
  /\ pc' = IF silent' >= SilentLimit THEN "reap" ELSE "watch"
  /\ UNCHANGED <<config, attempt, reason, qemu, mail, flags, cancel, history>>

Gone == pc' = IF reason = None THEN "drain" ELSE "decide"

(* waitExit: the process ends by itself, ... *)
Reaped ==
  /\ pc = "reap" /\ qemu = "dead"
  /\ Gone
  /\ UNCHANGED <<config, attempt, watching, qemu, lines, mail, flags, cancel, history>>

\* Mutant: the grace period has no end.
WaitWithoutKill ==
  /\ pc = "reap" /\ qemu = "dead"
  /\ Gone
  /\ UNCHANGED <<config, attempt, watching, qemu, lines, mail, flags, cancel, history>>

(* ... or is killed after the grace period. *)
Kill ==
  /\ pc = "reap" /\ qemu \in {"run", "hung"}
  /\ qemu' = "dead"
  /\ Gone
  /\ UNCHANGED <<config, attempt, watching, lines, mail, flags, cancel, history>>

(* A SHUTDOWN the pending read completed with after the loop ended. *)
Drain ==
  /\ pc = "drain"
  /\ IF lines = <<>>
     THEN pc' = "decide" /\ UNCHANGED <<reason, lines>>
     ELSE /\ lines' = Tail(lines)
          /\ IF Head(lines) \in Stops
             THEN reason' = Head(lines) /\ pc' = "decide"
             ELSE UNCHANGED <<reason, pc>>
  /\ UNCHANGED <<config, attempt, silent, qemu, mail, flags, cancel, history>>

\* Mutant: only the SHUTDOWN event counts.
RebootEventOnly == reason = "reboot"

Rebooted == reason = "reboot" \/ (reason = None /\ pendingReboot)

(* A reboot launches again with a new budget of attempts. *)
Decide ==
  /\ pc = "decide"
  /\ MailRead
  /\ guestUp' = FALSE
  /\ pendingReboot' = (pendingReboot /\ reason # None)
  /\ IF Rebooted
     THEN /\ pc' = "start" /\ attempt' = 1
          /\ wedges' = 0 /\ boots' = boots + 1
     ELSE pc' = "over" /\ UNCHANGED <<attempt, wedges, boots>>
  /\ UNCHANGED <<config, watching, qemu, lines, mail, guestReady, cancel, ready, intent, told>>

-----------------------------------------------------------------------------
Complaints == {"nested", "audio", "memory", "other"}

Launcher == \/ StartQemu \/ GiveUp \/ CancelProbe \/ Connect \/ LaunchWedged
            \/ \E c \in Complaints : StartupFailed(c)
            \/ LoopHead \/ ReadLine \/ Exited \/ Disconnected \/ Query
            \/ Reaped \/ Kill \/ Drain \/ Decide

Guest == Userspace \/ (\E stop \in Stops : GoDown(stop)) \/ Shutdown \/ Exit \/ Hang \/ Crash

Next == Launcher \/ Guest \/ (\E m \in mail : Deliver(m)) \/ Cancel

Spec == Init /\ [][Next]_vars

(* The launcher and its goroutines run, a process that is exiting exits,   *)
(* a guest that goes down gets there unless QEMU hangs or crashes.         *)
FairSpec == /\ Spec
            /\ WF_vars(Launcher)
            /\ WF_vars(\E m \in mail : Deliver(m))
            /\ WF_vars(Shutdown) /\ WF_vars(Exit)

-----------------------------------------------------------------------------
(* Properties. *)

(* How often memory can still be halved before it reaches the floor. *)
Halvings(mem) ==
  IF mem <= 1024 THEN 0 ELSE IF mem <= 2048 THEN 1 ELSE IF mem <= 4096 THEN 2
  ELSE IF mem <= 8192 THEN 3 ELSE IF mem <= 16384 THEN 4 ELSE IF mem <= 32768 THEN 5 ELSE 6

One(b) == IF b THEN 1 ELSE 0

(* The rungs of the ladder not yet taken. *)
Rungs == One(~cfg.irqchipOff) + One(cfg.audio) + One(cfg.gpu) + One(journal) + Halvings(cfg.mem)

(* "The worst case can consume one attempt each for nested virtualization, *)
(* audio, runtime rollback, and GPU fallback before walking 64 GiB down to *)
(* a final 1 GiB memory attempt": the ladder alone never uses up the       *)
(* attempts, and the margin is one launch wedge.                           *)
LadderFits == pc = "exhausted" => wedges >= MaxAttempts - 10

(* What the margin rests on: every attempt that follows a failed start has *)
(* one rung fewer to try, so that no combination of complaints repeats a   *)
(* configuration; only a launch that hung is repeated as it was.           *)
LadderDescends ==
  [][(pc = "probe" /\ pc' = "start") => (wedges' > wedges \/ Rungs' < Rungs)]_vars

(* Whatever ends a run of the launcher, no QEMU is left behind. *)
NoOrphan == pc \in Ended => qemu \in {"none", "dead"}

(* Pending updates are committed, and a rendering result recorded, only on *)
(* the word of the guest that runs now, never of an earlier attempt.       *)
CommitOnlyWhenReady == [][LoopHead /\ guestReady => ready]_vars

(* A session is relaunched only for a guest that went down to reboot, and  *)
(* a reboot that was announced is never taken for a poweroff, even when    *)
(* QEMU wedged without its SHUTDOWN event.                                 *)
RebootIsUnderstood ==
  [][Decide => /\ pc' = "start" => intent = "reboot"
               /\ intent = "reboot" /\ told => pc' = "start"]_vars

(* The watchdog never kills a guest whose main loop still answers. *)
OnlyHungIsKilled == [][Kill => qemu = "hung"]_vars

(* A wedged QEMU is found and reaped, and a guest that went down is never  *)
(* waited for in vain.                                                     *)
HungIsReaped == qemu = "hung" ~> qemu # "hung"
EveryStopEnds == intent # None ~> intent = None \/ pc \in Ended

=============================================================================
