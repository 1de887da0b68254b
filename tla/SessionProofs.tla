---------------------------- MODULE SessionProofs ---------------------------
(***************************************************************************)
(* Beside the supervisor of Session the forwarder's late dials spare every *)
(* second launch, no released key is left down and no data becomes a hole, *)
(* for every capacity of the queue, every number of blocks and however     *)
(* many boots and events.                                                  *)
(***************************************************************************)
EXTENDS Session, TLAPS

(* guestUp is set from the handshake to the end of that QEMU.  A dial that *)
(* is under way was begun since the last handshake, and no dial after that *)
(* handshake has wedged a launch.                                          *)
Spared ==
  /\ spare \in 0 .. 1
  /\ guestUp => spare = 1 /\ phase = "watch"
  /\ phase = "watch" => qemu # "early"
  /\ fwd = "dial" => spare = 1

(* What the guest will believe once the queue is drained.                  *)
Pressed ==
  /\ keyEvents \in Seq(BOOLEAN) /\ held \in BOOLEAN /\ winDown \in BOOLEAN /\ lost \in BOOLEAN
  /\ guestKey \in BOOLEAN
  /\ winDown => held \/ lost
  /\ qemu = "early" => ~guestKey
  /\ ~lost /\ ~winDown =>
       /\ keyEvents # <<>> => ~Last(keyEvents)
       /\ keyEvents = <<>> /\ qemu \in {"early", "safe"} => ~guestKey

(* How far a compaction is: blocks behind it are punched or in the run,    *)
(* which ends where it reads next; blocks before it are as they were.      *)
InRun(b) == b >= run[1] /\ b < run[1] + run[2]
Scanning ==
  /\ disk \in [Blocks -> {"data", "zero", "hole"}] /\ was \in [Blocks -> {"data", "zero", "hole"}]
  /\ scan \in Nat \ {0} /\ run[1] \in Nat /\ run[2] \in Nat
  /\ \A b \in Blocks : disk[b] = "hole" => was[b] # "data"
  /\ phase = "compacting" =>
       /\ scan <= NBlocks + 1
       /\ run[2] # 0 => run[1] + run[2] = scan
       /\ \A b \in Blocks : b >= scan => disk[b] = was[b]
       /\ \A b \in Blocks : InRun(b) => was[b] # "data"
       /\ \A b \in Blocks : b < scan /\ was[b] # "data" => disk[b] = "hole" \/ InRun(b)
  /\ phase = "compacted" => \A b \in Blocks : was[b] # "data" => disk[b] = "hole"

-----------------------------------------------------------------------------
(* What a step may change, and which steps do.                             *)
LEMMA Frame ==
  ASSUME [Next]_vars
  PROVE  /\ \/ UNCHANGED <<phase, guestUp>>
            \/ Launch \/ Handshake \/ LaunchFailed \/ WatchEnds
            \/ phase \in {"over", "compacting"} /\ UNCHANGED guestUp /\ phase' # "watch"
         /\ \/ UNCHANGED qemu
            \/ Launch
            \/ qemu' = "safe" /\ qemu = "early"
            \/ qemu' \in {"off", "hung"}
         /\ \/ UNCHANGED <<held, winDown, keyEvents, guestKey, lost>>
            \/ Launch \/ Drain \/ DrainFails
            \/ \E down \in BOOLEAN : KeyEvent(down) \/ KeyMissed(down)
         /\ \/ UNCHANGED spare /\ (fwd' = "dial" => fwd = "dial")
            \/ Handshake \/ ForwarderChecks \/ ForwarderDials
         /\ \/ UNCHANGED compact /\ (phase' \in {"compacting", "compacted"} => phase' = phase)
            \/ StartCompaction \/ ScanBlock \/ LastPunch
<1>1. CASE Supervise
  BY <1>1 DEF Supervise, Launch, WindowOpens, PastEarlyBoot, Handshake, KillHung, LaunchFailed, WatchEnds,
     QemuEnds, compact, keys
<1>2. CASE Forwarder \/ Guard
  BY <1>2 DEF Forwarder, ForwarderChecks, ForwarderDials, Drain, LinesClosed, Guard, OpenDialog, AnswerNo, AnswerYes, Dial,
     compact, keys, life, host, guard
<1>3. CASE Channel \/ \E c \in readers : ReadDone(c)
  BY <1>3 DEF Channel, AgentConnects, AgentAccept, Greet, Tick, SendResumed, AgentHandles, AgentLoses,
     ReadDone, ReadEnds, compact, keys, life
<1>4. CASE Inputs
  BY <1>4 DEF Inputs, GuestStops, QemuEnds, Hangs, FocusChanges, KeyEvent, KeyMissed, RequestQuitConfirm,
     HostResumes, RequestReclaim, DrainFails, compact, keys, life
<1>5. CASE Compaction
  BY <1>5 DEF Compaction, NoCompaction, StartCompaction, ScanBlock, LastPunch, CompactionStops, compact,
     keys, life
<1>6. CASE UNCHANGED vars
  BY <1>6 DEF vars, life, keys, compact
<1> QED
  BY <1>1, <1>2, <1>3, <1>4, <1>5, <1>6 DEF Next

(* A dial that is begun after the handshake, and ends whenever it likes.   *)
LEMMA SparedStep ==
  ASSUME Spared, [Next]_vars
  PROVE  Spared'
<1>1. (phase = "watch" => qemu # "early")'
  BY Frame DEF Spared, Launch, Handshake, LaunchFailed, WatchEnds
<1>2. CASE Handshake
  BY <1>1, <1>2 DEF Spared, Handshake, keys
<1>3. CASE ForwarderChecks
  BY <1>1, <1>3 DEF Spared, ForwarderChecks, life
<1>4. CASE ForwarderDials
  <2>1. fwd = "dial" /\ fwd' # "dial" /\ UNCHANGED <<phase, guestUp>>
    BY <1>4 DEF ForwarderDials
  <2>2. CASE qemu = "early"
    BY <1>1, <1>4, <2>1, <2>2 DEF Spared, ForwarderDials, Dial
  <2>3. CASE qemu # "early"
    BY <1>1, <1>4, <2>1, <2>3 DEF Spared, ForwarderDials, Dial
  <2> QED
    BY <2>2, <2>3
<1>5. CASE UNCHANGED spare /\ (fwd' = "dial" => fwd = "dial")
  <2>1. guestUp' => spare' = 1 /\ phase' = "watch"
    BY <1>2, <1>5, Frame DEF Spared, Launch, LaunchFailed, WatchEnds
  <2> QED
    BY <1>1, <1>5, <2>1 DEF Spared
<1> QED
  BY <1>2, <1>3, <1>4, <1>5, Frame

(* A dial that was begun for a guest that was up may wedge the next launch *)
(* but no other one: until the next handshake every further launch is      *)
(* spared, and so is everyone before the first.                            *)
THEOREM RetriesAreSpared == Spec => []ForwarderWedgesOne
<1>1. Init => Spared
  BY DEF Init, Spared
<1>2. Spared /\ [Next]_vars => Spared'
  BY SparedStep
<1>3. Spared => ForwarderWedgesOne
  BY DEF Spared, ForwarderWedgesOne
<1> QED
  BY <1>1, <1>2, <1>3, PTL DEF Spec

-----------------------------------------------------------------------------
(* Nothing waits in an empty queue.                                        *)
LEMMA EmptyLength == Len(<<>>) = 0
OBVIOUS

(* What the head of a queue leaves behind, and which event is last then.   *)
LEMMA LastOfTail ==
  ASSUME NEW S, NEW q \in Seq(S), q # <<>>
  PROVE  /\ Head(q) \in S /\ Tail(q) \in Seq(S)
         /\ Tail(q) = <<>> => Last(q) = Head(q)
         /\ Tail(q) # <<>> => Last(Tail(q)) = Last(q)
<1>1. Len(q) \in Nat /\ Len(q) > 0 /\ Len(Tail(q)) = Len(q) - 1
  OBVIOUS
<1>2. Tail(q) = <<>> => Len(q) = 1
  <2>1. \A n \in Nat : n - 1 = 0 => n = 1
    OBVIOUS
  <2>2. Tail(q) = <<>> => Len(Tail(q)) = 0
    BY Zenon, EmptyLength
  <2> QED
    BY <1>1, <2>1, <2>2, Zenon
<1>3. Tail(q) # <<>> => Len(q) > 1
  BY <1>1
<1> QED
  BY <1>1, <1>2, <1>3 DEF Last

(* An event that joins a queue is its last.                                *)
LEMMA LastOfAppend ==
  ASSUME NEW S, NEW q \in Seq(S), NEW x \in S
  PROVE  Append(q, x) \in Seq(S) /\ Append(q, x) # <<>> /\ Last(Append(q, x)) = x
BY DEF Last

(* A key's event, dropped or not, and the queue of the others.             *)
LEMMA PressedStep ==
  ASSUME Pressed, [Next]_vars
  PROVE  Pressed'
<1>1. CASE UNCHANGED <<held, winDown, keyEvents, guestKey, lost>>
  BY <1>1, Frame DEF Pressed, Launch
<1>2. CASE Launch
  BY <1>2 DEF Pressed, Launch, guard
<1>3. ASSUME NEW down \in BOOLEAN, KeyEvent(down) PROVE Pressed'
  <2> DEFINE d == down /\ Foreground
  <2>0. d \in BOOLEAN /\ (d => down)
    BY DEF Foreground
  <2>1. held' = down /\ Forward(d) /\ guestKey' = guestKey /\ qemu' = qemu /\ (down \/ held)
    BY <1>3 DEF KeyEvent, life
  <2> HIDE DEF d
  <2>2. CASE d = winDown
    BY <2>0, <2>1, <2>2 DEF Forward, Pressed
  <2>3. CASE d # winDown
    <3>1. winDown' = d /\ Enqueue(d)
      BY <2>1, <2>3 DEF Forward
    <3>2. CASE keyEvents' = Append(keyEvents, d) /\ lost' = (lost /\ d)
      BY <2>0, <2>1, <2>3, <3>1, <3>2, LastOfAppend DEF Pressed
    <3>3. CASE UNCHANGED keyEvents /\ lost' = (lost \/ ~d)
      BY <2>0, <2>1, <2>3, <3>1, <3>3 DEF Pressed
    <3> QED
      BY <3>1, <3>2, <3>3 DEF Enqueue
  <2> QED
    BY <2>2, <2>3
<1>4. CASE Drain
  <2>1. /\ Head(keyEvents) \in BOOLEAN /\ Tail(keyEvents) \in Seq(BOOLEAN)
        /\ Tail(keyEvents) = <<>> => Last(keyEvents) = Head(keyEvents)
        /\ Tail(keyEvents) # <<>> => Last(Tail(keyEvents)) = Last(keyEvents)
    BY <1>4, LastOfTail DEF Drain, Pressed
  <2> QED
    BY <1>4, <2>1 DEF Drain, life, Pressed
<1>5. CASE DrainFails
  <2>1. /\ Head(keyEvents) \in BOOLEAN /\ Tail(keyEvents) \in Seq(BOOLEAN)
        /\ Tail(keyEvents) = <<>> => Last(keyEvents) = Head(keyEvents)
        /\ Tail(keyEvents) # <<>> => Last(Tail(keyEvents)) = Last(keyEvents)
    BY <1>5, LastOfTail DEF DrainFails, Pressed
  <2> QED
    BY <1>5, <2>1 DEF DrainFails, life, Pressed
<1>6. ASSUME NEW down \in BOOLEAN, KeyMissed(down) PROVE Pressed'
  BY <1>6 DEF Pressed, KeyMissed, life
<1> QED
  BY <1>1, <1>2, <1>3, <1>4, <1>5, <1>6, Frame

(* A key that was let go of is not left down in a guest that has read      *)
(* everything, unless its release was dropped, lost with a connection or   *)
(* missed by the hook.                                                     *)
THEOREM KeyIsReleased == Spec => []KeyReleased
<1>1. Init => Pressed
  <2>1. <<>> \in Seq(BOOLEAN)
    OBVIOUS
  <2> QED
    BY <2>1 DEF Init, Pressed
<1>2. Pressed /\ [Next]_vars => Pressed'
  BY PressedStep
<1>3. Pressed => KeyReleased
  BY DEF Pressed, KeyReleased
<1> QED
  BY <1>1, <1>2, <1>3, PTL DEF Spec

-----------------------------------------------------------------------------
(* What a punch leaves.                                                    *)
LEMMA Punched ==
  ASSUME Scanning, Punch
  PROVE  /\ disk' \in [Blocks -> {"data", "zero", "hole"}]
         /\ \A b \in Blocks : disk'[b] = IF InRun(b) THEN "hole" ELSE disk[b]
         /\ run'[1] = run[1] /\ run'[2] = 0
<1>1. \A b \in Blocks : b \in run[1] .. run[1] + run[2] - 1 <=> InRun(b)
  BY DEF Scanning, InRun, Blocks
<1> QED
  BY <1>1 DEF Punch, Scanning

(* One block further, with a run that grows, begins or ends.               *)
LEMMA ScanningStep ==
  ASSUME Scanning, [Next]_vars
  PROVE  Scanning'
<1> USE SessionAssumption
<1>1. CASE UNCHANGED compact /\ (phase' \in {"compacting", "compacted"} => phase' = phase)
  BY <1>1 DEF compact, Scanning, InRun
<1>2. CASE StartCompaction
  <2>1. /\ disk' \in [Blocks -> {"data", "zero"}] /\ was' = disk' /\ scan' = 1
        /\ run'[1] = 0 /\ run'[2] = 0 /\ phase' = "compacting"
    BY <1>2 DEF StartCompaction
  <2> QED
    BY <2>1 DEF Scanning, InRun, Blocks
<1>3. CASE ScanBlock
  <2>1. scan \in Blocks /\ scan' = scan + 1 /\ was' = was /\ phase = "compacting" /\ phase' = phase
    BY <1>3 DEF ScanBlock, Scanning, Blocks, life
  <2>2. CASE Reads(scan) = "zero"
    <3>1. was[scan] # "data"
      BY <2>1, <2>2 DEF Reads, Scanning
    <3>2. disk' = disk /\ run' = IF run[2] = 0 THEN <<scan, 1>> ELSE <<run[1], run[2] + 1>>
      BY <1>3, <2>2 DEF ScanBlock
    <3>3. \A b \in Blocks : InRun(b)' <=> InRun(b) \/ b = scan
      BY <2>1, <3>2 DEF InRun, Scanning, Blocks
    <3> QED
      BY <2>1, <3>1, <3>2, <3>3 DEF Scanning, Blocks
  <2>3. CASE Reads(scan) # "zero"
    <3>1. was[scan] = "data" /\ Punch
      BY <1>3, <2>1, <2>3 DEF ScanBlock, Reads, Scanning
    <3>2. \A b \in Blocks : ~InRun(b)' /\ (b >= scan => ~InRun(b))
      BY <2>1, <3>1, Punched DEF InRun, Scanning, Blocks
    <3> QED
      BY <2>1, <3>1, <3>2, Punched DEF Scanning, Blocks
  <2> QED
    BY <2>2, <2>3
<1>4. CASE LastPunch
  <2>1. /\ phase = "compacting" /\ scan > NBlocks /\ Punch /\ phase' = "compacted"
        /\ was' = was /\ scan' = scan
    BY <1>4 DEF LastPunch
  <2> QED
    BY <2>1, Punched DEF Scanning, Blocks
<1> QED
  BY <1>1, <1>2, <1>3, <1>4, Frame

(* Compaction makes holes only of blocks that read as zeros, also when it  *)
(* stops half way, and of all of them when it succeeds.                    *)
THEOREM HolesOnlyOfZeros == Spec => []HolesWereZeros
<1>1. Init => Scanning
  BY SessionAssumption DEF Init, Scanning, Blocks
<1>2. Scanning /\ [Next]_vars => Scanning'
  BY ScanningStep
<1>3. Scanning => HolesWereZeros
  BY DEF Scanning, HolesWereZeros
<1> QED
  BY <1>1, <1>2, <1>3, PTL DEF Spec
=============================================================================
