------------------------------ MODULE Session ------------------------------
(***************************************************************************)
(* What runs beside the supervisor while a guest is up, and what follows   *)
(* its shutdown: the forwarder of the Windows key (app/winkey.go), the     *)
(* close guard (app/closeguard.go), the guest agent's channel              *)
(* (app/agent.go) and the compaction of disk.raw (app/compact.go).         *)
(*                                                                         *)
(* They share one QEMU, which reboots, hangs and ends under them.  Of      *)
(* supervise and watch only what the others see is kept: the life of the   *)
(* QEMU process, qemuPid, qemuHwnd and guestUp.  A QEMU whose QMP is dialed *)
(* in the first seconds of the guest's boot wedges (docs/FINDINGS.md:230), *)
(* which is why "early" and "safe" are told apart.                         *)
(***************************************************************************)
EXTENDS Integers, Sequences, FiniteSets, SequencesExt

CONSTANTS
    QueueCap,    \* capacity of keyEvents (64)
    NBlocks,     \* compactBlock-sized blocks of disk.raw
    Setups,      \* bound: what a session exercises: the "window" (keys, closing),
                 \* the "agent" (its port is free, the guest has it), or "both"
    MaxBoots,    \* bound: launches of QEMU
    MaxInputs,   \* bound: key events, clicks, hangs and QMP failures
    MaxEvents    \* bound: wake-ups, requests and failures of the agent's channel

ASSUME SessionAssumption ==
    /\ Setups \subseteq {"window", "agent", "both"}
    /\ QueueCap \in Nat \ {0} /\ NBlocks \in Nat \ {0}
    /\ MaxBoots \in Nat \ {0} /\ MaxInputs \in Nat /\ MaxEvents \in Nat

VARIABLES
    setup,      \* what this session exercises
    \* supervise and the QEMU process
    phase,      \* "launch", "probe", "watch", "over" (no relaunch)
    qemu,       \* "off", "early", "safe", "hung"
    window,     \* qemuHwnd # 0
    guestUp,
    stop,       \* how the guest went down
    wedgedBy,   \* whose connection reached QMP in early boot (history)
    spare,      \* launches the forwarder may wedge before the next handshake (history)
    \* the forwarder
    held,       \* the key is physically down
    focus,      \* the VM window is in the foreground
    winDown,
    keyEvents,
    fwd,        \* runWinKeyQmp: "idle", "dial" (guestUp was read), "drain",
                \* "broken" (as "drain", but the QEMU it reached is gone)
    guestKey,   \* the guest believes the key is down
    lost,       \* a release never reached the guest (history)
    \* the close guard
    confirm,    \* confirmQuit holds a request
    dialog,
    \* the agent
    aconn,      \* guestAgent.conn (0: nil)
    readers,    \* connections with a read goroutine
    open,       \* connections the host has not closed
    greet,      \* accept is about to send the time
    resumed,    \* hostResumed holds a signal
    again,      \* run is about to send the time a second time
    zeroFilled,
    gconn,      \* the guest agent's connection (0: none)
    gopened,    \* connections it opened so far
    accepted,   \* connections accept has taken
    outbox,     \* lines the guest agent has not handled
    inbox,      \* its reports no read goroutine has seen
    skewed,     \* the guest's clock is wrong
    \* compaction
    disk, was,  \* disk.raw by blocks, now and when compaction began
    scan, run,  \* punchZeroBlocks: block to read, <<runStart, runLength>>
    boots, inputs, events \* so far

life    == <<phase, qemu, window, guestUp, stop, wedgedBy, spare>>
keys    == <<held, focus, winDown, keyEvents, fwd, guestKey, lost>>
guard   == <<confirm, dialog>>
host    == <<aconn, readers, open, greet, resumed, again, zeroFilled, accepted>>
guest   == <<gconn, gopened, outbox, inbox, skewed>>
compact == <<disk, was, scan, run>>
counts  == <<setup, boots, inputs, events>>
vars    == <<life, keys, guard, host, guest, compact, counts>>

Conns  == 1 .. (MaxBoots + MaxEvents)
Blocks == 1 .. NBlocks
Input  == /\ inputs < MaxInputs /\ inputs' = inputs + 1
          /\ UNCHANGED <<setup, boots, events>>
Event  == /\ events < MaxEvents /\ events' = events + 1
          /\ UNCHANGED <<setup, boots, inputs>>

TypeOK ==
    /\ setup \in Setups
    /\ phase \in {"launch", "probe", "watch", "over", "compacting", "compacted", "ended"}
    /\ qemu \in {"off", "early", "safe", "hung"}
    /\ window \in BOOLEAN /\ guestUp \in BOOLEAN
    /\ stop \in {"reboot", "poweroff"}
    /\ wedgedBy \subseteq {"forwarder", "guard"} /\ spare \in Int
    /\ held \in BOOLEAN /\ focus \in BOOLEAN /\ winDown \in BOOLEAN
    /\ keyEvents \in Seq(BOOLEAN) /\ Len(keyEvents) <= QueueCap
    /\ fwd \in {"idle", "dial", "drain", "broken"} /\ guestKey \in BOOLEAN /\ lost \in BOOLEAN
    /\ confirm \in BOOLEAN /\ dialog \in BOOLEAN
    /\ aconn \in {0} \cup Conns /\ gconn \in {0} \cup Conns
    /\ gopened \in {0} \cup Conns /\ accepted \in {0} \cup Conns
    /\ readers \subseteq Conns /\ open \subseteq Conns
    /\ greet \in BOOLEAN /\ resumed \in BOOLEAN /\ again \in BOOLEAN
    /\ zeroFilled \in BOOLEAN /\ skewed \in BOOLEAN
    /\ outbox \in Seq({"time", "old time", "zero-fill"})
    /\ inbox \subseteq Conns
    /\ disk \in [Blocks -> {"data", "zero", "hole"}] /\ was \in [Blocks -> {"data", "zero", "hole"}]
    /\ scan \in 1 .. NBlocks + 1 /\ run \in (0 .. NBlocks) \X (0 .. NBlocks)
    /\ boots \in 0 .. MaxBoots /\ inputs \in 0 .. MaxInputs
    /\ events \in 0 .. MaxEvents

Init ==
    /\ setup \in Setups
    /\ phase = "launch" /\ qemu = "off" /\ window = FALSE /\ guestUp = FALSE
    /\ stop = "poweroff" /\ wedgedBy = {} /\ spare = 0
    /\ held = FALSE /\ focus = FALSE /\ winDown = FALSE /\ keyEvents = <<>>
    /\ fwd = "idle" /\ guestKey = FALSE /\ lost = FALSE
    /\ confirm = FALSE /\ dialog = FALSE
    /\ aconn = 0 /\ readers = {} /\ open = {} /\ greet = FALSE
    /\ resumed = FALSE /\ again = FALSE /\ zeroFilled = FALSE /\ accepted = 0
    /\ gconn = 0 /\ gopened = 0 /\ outbox = <<>> /\ inbox = {}
    /\ skewed = FALSE
    /\ disk = [b \in Blocks |-> "hole"] /\ was = disk
    /\ scan = 1 /\ run = <<0, 0>>
    /\ boots = 0 /\ inputs = 0 /\ events = 0

-----------------------------------------------------------------------------
(* The life of QEMU (Supervisor has the whole of it).                      *)

Launch ==
    /\ phase = "launch" /\ boots < MaxBoots
    /\ boots' = boots + 1 /\ UNCHANGED <<setup, inputs, events>>
    /\ phase' = "probe" /\ qemu' = "early"
    /\ guestKey' = FALSE
    /\ UNCHANGED <<window, guestUp, stop, wedgedBy, spare, held, focus, winDown,
                   keyEvents, fwd, lost, guard, host, guest, compact>>

\* The title enforcer finds the window and stores its handle.
WindowOpens ==
    /\ qemu # "off" /\ phase \in {"probe", "watch"} /\ ~window
    /\ window' = TRUE
    /\ UNCHANGED <<phase, qemu, guestUp, stop, wedgedBy, spare, keys, guard, host,
                   guest, compact, counts>>

PastEarlyBoot ==
    /\ qemu = "early" /\ qemu' = "safe"
    /\ UNCHANGED <<phase, window, guestUp, stop, wedgedBy, spare, keys, guard, host,
                   guest, compact, counts>>

\* The first probe comes ten seconds after the launch.
Handshake ==
    /\ phase = "probe" /\ qemu = "safe"
    /\ phase' = "watch" /\ guestUp' = TRUE /\ spare' = 1
    /\ UNCHANGED <<qemu, window, stop, wedgedBy, keys, guard, host, guest,
                   compact, counts>>

\* The QEMU process ends: its connections break, its window is gone, and the
\* guest that boots next reads the clock of the host.
QemuEnds ==
    /\ qemu' = "off" /\ focus' = FALSE
    /\ fwd' = IF fwd = "drain" THEN "broken" ELSE fwd
    /\ gconn' = 0 /\ outbox' = <<>> /\ skewed' = FALSE
    /\ UNCHANGED <<held, winDown, keyEvents, guestKey, lost, guard, host,
                   gopened, inbox, compact>>

GuestStops(how) ==
    /\ qemu = "safe" /\ stop' = how /\ QemuEnds
    /\ UNCHANGED <<phase, window, guestUp, wedgedBy, spare, counts>>

\* The main loop hangs with the guest.
Hangs ==
    /\ qemu = "safe" /\ phase = "watch" /\ Input
    /\ qemu' = "hung"
    /\ UNCHANGED <<phase, window, guestUp, stop, wedgedBy, spare, keys, guard, host,
                   guest, compact>>

\* supervise and watch kill a QEMU that does not answer.
KillHung ==
    /\ qemu = "hung" /\ QemuEnds
    /\ stop' = "poweroff"
    /\ UNCHANGED <<phase, window, guestUp, wedgedBy, spare, counts>>

\* An end before the handshake is a failed launch, whatever the guest meant.
LaunchFailed ==
    /\ phase = "probe" /\ qemu = "off"
    /\ phase' = IF boots < MaxBoots THEN "launch" ELSE "over"
    /\ window' = FALSE
    /\ UNCHANGED <<qemu, guestUp, stop, wedgedBy, spare, keys, guard, host, guest,
                   compact, counts>>

\* Mutant: guestUp survives the guest.
WatchLeavesGuestUp ==
    /\ phase = "watch" /\ qemu = "off"
    /\ window' = FALSE
    /\ phase' = IF stop = "reboot" /\ boots < MaxBoots
                THEN "launch" ELSE "over"
    /\ UNCHANGED <<qemu, guestUp, stop, wedgedBy, spare, keys, guard, host, guest,
                   compact, counts>>

\* What watch does once QEMU is gone; until here guestUp holds, also while
\* waitExit waits for a QEMU that takes its time to end.
WatchEnds ==
    /\ phase = "watch" /\ qemu = "off"
    /\ guestUp' = FALSE /\ window' = FALSE
    /\ phase' = IF stop = "reboot" /\ boots < MaxBoots
                THEN "launch" ELSE "over"
    /\ UNCHANGED <<qemu, stop, wedgedBy, spare, keys, guard, host, guest,
                   compact, counts>>

-----------------------------------------------------------------------------
(* The hook: hookCallback, forwardKey, releaseKey.                         *)

FocusChanges ==
    /\ setup \in {"window", "both"} /\ window /\ qemu # "off" /\ Input
    /\ focus' = ~focus
    /\ UNCHANGED <<life, held, winDown, keyEvents, fwd, guestKey, lost, guard,
                   host, guest, compact>>

\* A non-blocking send: a full queue drops the event.
Enqueue(down) ==
    IF Len(keyEvents) < QueueCap
    THEN keyEvents' = Append(keyEvents, down) /\ lost' = (lost /\ down)
    ELSE UNCHANGED keyEvents /\ lost' = (lost \/ ~down)

\* forwardKey with focus, releaseKey without: only changes of state cross.
Forward(down) ==
    IF down # winDown
    THEN winDown' = down /\ Enqueue(down)
    ELSE UNCHANGED <<winDown, keyEvents, lost>>

Foreground == phase \in {"probe", "watch"} /\ focus

\* Mutant: without the focus the key's events are left alone.
KeyEventFocused(down) ==
    /\ setup \in {"window", "both"} /\ (down \/ held) /\ Input
    /\ held' = down
    /\ IF Foreground THEN Forward(down) ELSE UNCHANGED <<winDown, keyEvents, lost>>
    /\ UNCHANGED <<life, focus, fwd, guestKey, guard, host, guest, compact>>

\* A press, its auto-repeats and the release, as the hook sees them.  Losing
\* the focus with the key down is noticed at the key's next event.
KeyEvent(down) ==
    /\ setup \in {"window", "both"} /\ (down \/ held) /\ Input
    /\ held' = down
    /\ Forward(down /\ Foreground)
    /\ UNCHANGED <<life, focus, fwd, guestKey, guard, host, guest, compact>>

\* The hook is torn down and installed again every 800 ms: an event in between
\* goes past it.
KeyMissed(down) ==
    /\ setup \in {"window", "both"} /\ (down \/ held) /\ Input
    /\ held' = down
    /\ lost' = (lost \/ (winDown /\ ~down))
    /\ UNCHANGED <<life, focus, winDown, keyEvents, fwd, guestKey, guard, host,
                   guest, compact>>

-----------------------------------------------------------------------------
(* runWinKeyQmp.                                                           *)

\* A dial reaches whatever QEMU runs: an early one is wedged by it, one that
\* is hung or gone does not answer.
Dial(who) ==
    /\ qemu' = IF qemu = "early" THEN "hung" ELSE qemu
    /\ wedgedBy' = IF qemu = "early" THEN wedgedBy \cup {who} ELSE wedgedBy
    /\ spare' = IF qemu = "early" /\ who = "forwarder" THEN spare - 1 ELSE spare

\* guestUp is read first ...
ForwarderChecks ==
    /\ fwd = "idle" /\ guestUp /\ setup \in {"window", "both"}
    /\ fwd' = "dial"
    /\ UNCHANGED <<life, held, focus, winDown, keyEvents, guestKey, lost, guard,
                   host, guest, compact, counts>>

\* ... and the dial comes after it and takes up to three seconds: the QEMU it
\* reaches may be another one, or none.
ForwarderDials ==
    /\ fwd = "dial"
    /\ Dial("forwarder")
    /\ fwd' = IF qemu = "safe" THEN "drain" ELSE "idle"
    /\ UNCHANGED <<phase, window, guestUp, stop, held, focus, winDown,
                   keyEvents, guestKey, lost, guard, host, guest, compact,
                   counts>>

\* The event reaches a guest that runs, and is swallowed by one that hangs.
Drain ==
    /\ fwd = "drain" /\ keyEvents # <<>>
    /\ keyEvents' = Tail(keyEvents)
    /\ guestKey' = IF qemu = "safe" THEN Head(keyEvents) ELSE guestKey
    /\ UNCHANGED <<life, held, focus, winDown, fwd, lost, guard, host, guest,
                   compact, counts>>

\* The write fails, or goes to a QEMU that is gone: the event taken from the
\* queue is lost; the connection is given up when the error shows.
DrainFails ==
    /\ keyEvents # <<>>
    /\ \/ fwd = "drain" /\ fwd' = "idle" /\ Input
       \/ fwd = "broken" /\ fwd' \in {"broken", "idle"} /\ UNCHANGED counts
    /\ keyEvents' = Tail(keyEvents)
    /\ lost' = (lost \/ ~Head(keyEvents))
    /\ UNCHANGED <<life, held, focus, winDown, guestKey, guard, host, guest,
                   compact>>

\* readLines closed the channel: QEMU is gone.
LinesClosed ==
    /\ fwd = "broken" /\ fwd' = "idle"
    /\ UNCHANGED <<life, held, focus, winDown, keyEvents, guestKey, lost, guard,
                   host, guest, compact, counts>>

-----------------------------------------------------------------------------
(* The close guard.                                                        *)

\* The X, Alt+F4 and the tray's "Shut down" ask for a confirmation; a request
\* that finds one waiting adds nothing.
RequestQuitConfirm ==
    /\ setup \in {"window", "both"} /\ window /\ qemu # "off" /\ Input
    /\ confirm' = TRUE
    /\ UNCHANGED <<life, keys, dialog, host, guest, compact>>

OpenDialog ==
    /\ confirm /\ ~dialog
    /\ confirm' = FALSE /\ dialog' = TRUE
    /\ UNCHANGED <<life, keys, host, guest, compact, counts>>

AnswerNo ==
    /\ dialog /\ dialog' = FALSE
    /\ UNCHANGED <<life, keys, confirm, host, guest, compact, counts>>

\* Yes dials QMP at once; a guest that answers is powered down.
AnswerYes ==
    /\ dialog /\ dialog' = FALSE
    /\ IF qemu = "safe"
       THEN /\ stop' = "poweroff" /\ qemu' = "off" /\ focus' = FALSE
            /\ fwd' = IF fwd = "drain" THEN "broken" ELSE fwd
            /\ gconn' = 0 /\ outbox' = <<>> /\ skewed' = FALSE
            /\ UNCHANGED <<wedgedBy, spare>>
       ELSE Dial("guard") /\ UNCHANGED <<stop, focus, fwd, gconn, outbox, skewed>>
    /\ UNCHANGED <<phase, window, guestUp, held, winDown, keyEvents,
                   guestKey, lost, confirm, host, gopened, inbox, compact,
                   counts>>

-----------------------------------------------------------------------------
(* The guest agent's channel.                                              *)

AgentConnects ==
    /\ setup \in {"agent", "both"} /\ gconn = 0 /\ qemu = "safe" /\ gopened < MaxBoots + MaxEvents
    /\ gopened' = gopened + 1 /\ gconn' = gopened + 1
    /\ UNCHANGED <<life, keys, guard, host, outbox, inbox, skewed, compact,
                   counts>>

\* accept: the old connection is closed, the new one gets a read goroutine.
AgentAccept ==
    /\ accepted < gopened /\ ~greet
    /\ accepted' = accepted + 1 /\ aconn' = accepted + 1
    /\ open' = (open \ {aconn}) \cup {accepted + 1}
    /\ readers' = readers \cup {accepted + 1}
    /\ greet' = TRUE
    /\ UNCHANGED <<resumed, again, zeroFilled, life, keys, guard, guest,
                   compact, counts>>

\* Two equal lines in a row have the effect of one.
Add(line) == IF outbox # <<>> /\ Last(outbox) = line THEN outbox
             ELSE Append(outbox, line)

\* sendTime and requestZeroFill: without a connection nothing happens; a
\* write succeeds (also to a peer that has just gone), or closes it.
Write(line) ==
    \/ aconn = 0 /\ UNCHANGED <<aconn, open, outbox, counts>>
    \/ /\ aconn # 0
       /\ outbox' = IF aconn = gconn THEN Add(line) ELSE outbox
       /\ UNCHANGED <<aconn, open, counts>>
    \/ /\ aconn # 0
       /\ IF aconn = gconn THEN Event ELSE UNCHANGED counts
       /\ open' = open \ {aconn} /\ aconn' = 0
       /\ UNCHANGED outbox

SendTime == Write("time")

Greet ==
    /\ greet /\ greet' = FALSE /\ SendTime
    /\ UNCHANGED <<life, keys, guard, readers, resumed, again, zeroFilled,
                   accepted, gconn, gopened, inbox, skewed, compact>>

\* The ticker of run, every five minutes.
Tick ==
    /\ ~again /\ qemu = "safe" /\ SendTime
    /\ UNCHANGED <<life, keys, guard, readers, greet, resumed, again,
                   zeroFilled, accepted, gconn, gopened, inbox, skewed, compact>>

\* Windows wakes: the guest's clock is behind, and so is the time in a line
\* it has not handled yet.
HostResumes ==
    /\ setup \in {"agent", "both"} /\ qemu = "safe" /\ Event
    /\ skewed' = TRUE /\ resumed' = TRUE
    /\ outbox' = [n \in DOMAIN outbox |->
                    IF outbox[n] = "time" THEN "old time" ELSE outbox[n]]
    /\ UNCHANGED <<life, keys, guard, aconn, readers, open, greet, again,
                   zeroFilled, accepted, gconn, gopened, inbox, compact>>

SendResumed ==
    /\ \/ resumed /\ ~again /\ resumed' = FALSE /\ again' = TRUE
       \/ again /\ again' = FALSE /\ UNCHANGED resumed
    /\ SendTime
    /\ UNCHANGED <<life, keys, guard, readers, greet, zeroFilled, accepted,
                   gconn, gopened, inbox, skewed, compact>>

\* requestReclaim: only with a budget and a connected agent.
RequestReclaim ==
    /\ Event
    /\ aconn # 0
    /\ outbox' = IF aconn = gconn THEN Add("zero-fill") ELSE outbox
    /\ UNCHANGED <<life, keys, guard, host, gconn, gopened, inbox, skewed,
                   compact>>

\* The guest handles one line: it sets its clock, or fills its free space
\* and reports on the connection it has.
AgentHandles ==
    /\ gconn # 0 /\ outbox # <<>> /\ qemu = "safe"
    /\ outbox' = Tail(outbox)
    /\ skewed' = CASE Head(outbox) = "time"     -> FALSE
                   [] Head(outbox) = "old time" -> TRUE
                   [] OTHER                     -> skewed
    /\ inbox' \in IF Head(outbox) = "zero-fill"
                  THEN {inbox \cup {gconn}, inbox}   \* "done", "failed"
                  ELSE {inbox}
    /\ UNCHANGED <<life, keys, guard, host, gconn, gopened, compact, counts>>

\* The guest sees the host's close and connects again; or its service
\* restarts by itself.
AgentLoses ==
    /\ gconn # 0
    /\ IF gconn <= accepted /\ gconn \notin open THEN UNCHANGED counts ELSE Event
    /\ gconn' = 0 /\ outbox' = <<>>
    /\ UNCHANGED <<life, keys, guard, host, gopened, inbox, skewed, compact>>

\* "zero-fill done" on any connection that is still read.
ReadDone(c) ==
    /\ c \in readers \cap open \cap inbox
    /\ zeroFilled' = TRUE /\ inbox' = inbox \ {c}
    /\ UNCHANGED <<life, keys, guard, aconn, readers, open, greet, resumed,
                   again, accepted, gconn, gopened, outbox, skewed, compact,
                   counts>>

ReaderIsDone(c) == c \in readers /\ (c \notin open \/ (c # gconn /\ c \notin inbox))

\* Mutant: a reader that ends forgets whatever connection there is.
ForgetAny(c) == aconn' = 0

\* Only its own connection is forgotten.
Forget(c) == aconn' = IF aconn = c THEN 0 ELSE aconn

ReadEnds(c) ==
    /\ ReaderIsDone(c)
    /\ readers' = readers \ {c} /\ open' = open \ {c}
    /\ Forget(c)
    /\ UNCHANGED <<life, keys, guard, greet, resumed, again, zeroFilled,
                   accepted, guest, compact, counts>>

-----------------------------------------------------------------------------
(* compactAfterShutdown: compactDisk and punchZeroBlocks.                  *)

\* A block that is a hole already reads, and counts, as a zero block.
Reads(b) == IF disk[b] = "data" THEN "data" ELSE "zero"

\* Nothing was reported, the disk is an overlay, or it cannot be opened.
NoCompaction ==
    /\ phase = "over" /\ phase' = "ended"
    /\ UNCHANGED <<qemu, window, guestUp, stop, wedgedBy, spare, keys, guard, host,
                   guest, compact, counts>>

StartCompaction ==
    /\ phase = "over" /\ zeroFilled
    /\ phase' = "compacting"
    /\ disk' \in [Blocks -> {"data", "zero"}] /\ was' = disk'
    /\ scan' = 1 /\ run' = <<0, 0>>
    /\ UNCHANGED <<qemu, window, guestUp, stop, wedgedBy, spare, keys, guard, host,
                   guest, counts>>

\* Mutant: the run survives its punch and grows from where it began.
PunchKeepsRun ==
    /\ disk' = [b \in Blocks |-> IF b \in run[1] .. run[1] + run[2] - 1
                                 THEN "hole" ELSE disk[b]]
    /\ UNCHANGED run

\* flush: the run becomes a hole, and a new one may begin.
Punch ==
    /\ disk' = [b \in Blocks |-> IF b \in run[1] .. run[1] + run[2] - 1
                                 THEN "hole" ELSE disk[b]]
    /\ run' = <<run[1], 0>>

ScanBlock ==
    /\ phase = "compacting" /\ scan <= NBlocks
    /\ scan' = scan + 1
    /\ IF Reads(scan) = "zero"
       THEN /\ run' = IF run[2] = 0 THEN <<scan, 1>> ELSE <<run[1], run[2] + 1>>
            /\ UNCHANGED disk
       ELSE Punch
    /\ UNCHANGED <<life, keys, guard, host, guest, was, counts>>

LastPunch ==
    /\ phase = "compacting" /\ scan > NBlocks
    /\ Punch /\ phase' = "compacted"
    /\ UNCHANGED <<qemu, window, guestUp, stop, wedgedBy, spare, keys, guard, host,
                   guest, was, scan, counts>>

\* A read or a punch fails, or the launcher dies: what was punched stays.
CompactionStops ==
    /\ phase = "compacting" /\ phase' = "ended"
    /\ UNCHANGED <<qemu, window, guestUp, stop, wedgedBy, spare, keys, guard, host,
                   guest, compact, counts>>

-----------------------------------------------------------------------------
Supervise == \/ Launch \/ WindowOpens \/ PastEarlyBoot \/ Handshake \/ KillHung
             \/ LaunchFailed \/ WatchEnds

Forwarder == ForwarderChecks \/ ForwarderDials \/ Drain \/ LinesClosed

Guard == OpenDialog \/ AnswerNo \/ AnswerYes

Channel ==
    \/ AgentConnects \/ AgentAccept \/ Greet \/ Tick \/ SendResumed
    \/ AgentHandles \/ AgentLoses
    \/ \E c \in readers : ReadDone(c) \/ ReadEnds(c)

Compaction == \/ NoCompaction \/ StartCompaction \/ ScanBlock \/ LastPunch
              \/ CompactionStops

Inputs ==
    \/ \E how \in {"reboot", "poweroff"} : GuestStops(how)
    \/ Hangs \/ FocusChanges \/ (\E down \in BOOLEAN : KeyEvent(down) \/ KeyMissed(down))
    \/ RequestQuitConfirm \/ HostResumes \/ RequestReclaim
    \/ DrainFails

\* While the launcher runs down, the only step beside its own that still
\* matters is a report that arrives at the last moment.
Next ==
    \/ /\ phase \in {"launch", "probe", "watch"}
       /\ Supervise \/ Forwarder \/ Guard \/ Channel \/ Inputs
    \/ phase = "over" /\ \E c \in readers : ReadDone(c)
    \/ Compaction

\* The goroutines, QEMU's connections and the guest's agent go on; users and
\* failures need not.
Fairness ==
    /\ WF_vars(Supervise) /\ WF_vars(Compaction)
    /\ WF_vars(AgentConnects) /\ WF_vars(AgentAccept)
    /\ WF_vars(Greet) /\ WF_vars(Tick) /\ WF_vars(SendResumed)
    /\ WF_vars(AgentHandles)
    /\ WF_vars(gconn <= accepted /\ gconn \notin open /\ AgentLoses)
    /\ WF_vars(\E c \in readers : ReadEnds(c))

Spec == Init /\ [][Next]_vars /\ Fairness

-----------------------------------------------------------------------------
\* A key the user has let go of is not left down in the guest once the queue
\* is drained, through focus changes, reboots and reconnects: unless its
\* release was dropped by a full queue (winkey.go:32), lost with the QMP
\* connection, or came while the hook was being re-installed (winkey.go:125).
KeyReleased ==
    fwd = "drain" /\ qemu = "safe" /\ keyEvents = <<>> /\ ~held /\ ~lost
        => ~guestKey

\* A dial that was begun for a guest that was up may reach the next one in its
\* early boot and wedge it (ForwarderWaits is false), but guestUp keeps the
\* forwarder from doing so again before the next handshake: a reboot costs at
\* most one launch, whose retries are spared, and the first launch is spared.
ForwarderWedgesOne == spare >= 0

\* "It never dials before the supervisor's handshake succeeds" (winkey.go:134):
\* what the code does not keep across a reboot (SessionForwarderDial.cfg).
ForwarderWaits == "forwarder" \notin wedgedBy

\* After Windows wakes, the guest's clock is right again, whatever happened
\* to the agent's connection meanwhile: a lost one, one replaced while its
\* reader still runs, a line that was under way since before the sleep.
ClockIsCorrected == setup # "window" /\ skewed ~> ~skewed

\* Compaction turns blocks into holes only where the disk read zeros
\* (compact.go:37), also when it stops half way; when it succeeds no zero
\* block is left.
HolesWereZeros ==
    /\ \A b \in Blocks : disk[b] = "hole" => was[b] # "data"
    /\ phase = "compacted" => \A b \in Blocks : was[b] # "data" => disk[b] = "hole"

\* "Rule: never touch any QMP socket before the guest is past early boot"
\* (docs/FINDINGS.md:241).
NeverDialsEarly == wedgedBy = {}
=============================================================================
