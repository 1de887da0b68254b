----------------------------- MODULE ClipBridge -----------------------------
(***************************************************************************)
(* The two-way clipboard bridge: the launcher's clipBridge                 *)
(* (src/app/clipboard_bridge.go) and the guest's clipboard-bridge script   *)
(* (src/scripts/guest/clipboard-bridge.sh).                                *)
(*                                                                         *)
(* Host to guest there is one "pull" connection, which the guest opens and *)
(* reopens; guest to host every change is a connection of its own, served  *)
(* by a goroutine of its own.  Each side suppresses the content it has     *)
(* just exchanged: the host with state.lastSeen and the clipboard sequence *)
(* number, the guest with the file last_content.                           *)
(*                                                                         *)
(* A clipboard item is a model value: what tells two items apart is their  *)
(* key.  The sequence number only ever matters through "has the clipboard  *)
(* been written since lastSequence was recorded", the variable moved.      *)
(***************************************************************************)
EXTENDS Naturals, Sequences, SequencesExt

CONSTANTS
    Items,      \* what users copy (transferable items)
    None,       \* nothing that crosses: an empty clipboard, a file list; no file
    MaxCopies,  \* bound: copies the users make
    MaxFaults   \* bound: failures of the clipboards, the transfers and the guest

ASSUME ClipAssumption ==
    /\ None \notin Items
    /\ MaxCopies \in Nat
    /\ MaxFaults \in Nat

VARIABLES
    clip,       \* host: the Windows clipboard
    byUser,     \* host: the clipboard was last written by a Windows program
    moved,      \* host: clipboardSequence() # lastSequence
    lastSeen,   \* host: clipBridge.state.lastSeen
    pullConn,   \* host: clipBridge.pullConn (0: nil)
    accepted,   \* host: connections taken from the pull listener
    mu,         \* host: who holds clipBridge.mu
    item,       \* host: the item acceptGuestItem is writing
    fresh,      \* host: the connection acceptPull is about to serve (0: none)
    poll,       \* host: pollHost: [at |-> ..., conn |-> ...]
    pushes,     \* pushed frames the host has not looked at yet
    conn,       \* guest: its pull connection (0: none)
    opened,     \* guest: pull connections opened so far
    wire,       \* lines on the guest's pull connection
    incoming,   \* guest: the line read from it, being received
    sel,        \* guest: the Wayland selection
    announced,  \* guest: wl-paste --watch has a change to report
    pushing,    \* guest: the content --push was given
    last,       \* guest: the file last_content
    copied,     \* what the bridge was doing at the last copy (history)
    copies,
    faults

hostVars  == <<clip, byUser, moved, lastSeen, pullConn, accepted, mu, item,
               fresh, poll>>
guestVars == <<conn, opened, wire, incoming, sel, announced, pushing, last>>
vars == <<hostVars, guestVars, pushes, copied, copies, faults>>

Conns == 1 .. (MaxFaults + 1)
Keys  == Items \cup {None}

TypeOK ==
    /\ clip \in Keys /\ lastSeen \in Keys /\ item \in Keys
    /\ sel \in Keys /\ last \in Keys /\ pushing \in Keys /\ incoming \in Keys
    /\ byUser \in BOOLEAN /\ moved \in BOOLEAN /\ announced \in BOOLEAN
    /\ pullConn \in {0} \cup Conns /\ conn \in {0} \cup Conns
    /\ fresh \in {0} \cup Conns
    /\ accepted \in {0} \cup Conns /\ opened \in {0} \cup Conns
    /\ mu \in {"free", "accept", "pull", "poll"}
    /\ poll \in [at : {"sleep", "check", "send"}, conn : {0} \cup Conns]
    /\ pushes \in Seq(Items) /\ wire \in Seq(Items)
    /\ copied \in {"settled", "at rest", "busy"}
    /\ copies \in 0 .. MaxCopies /\ faults \in 0 .. MaxFaults

Init ==
    /\ clip \in Keys
    /\ byUser = TRUE /\ moved = TRUE
    /\ lastSeen = None /\ pullConn = 0 /\ accepted = 0
    /\ mu = "free" /\ item = None /\ fresh = 0
    /\ poll = [at |-> "sleep", conn |-> 0]
    /\ pushes = <<>> /\ wire = <<>>
    /\ conn = 0 /\ opened = 0 /\ incoming = None
    /\ sel = None /\ announced = FALSE /\ pushing = None /\ last = None
    /\ copied = "settled" /\ copies = 0 /\ faults = 0

-----------------------------------------------------------------------------
\* Nothing is on its way in either direction, and the next poll will do
\* nothing.
AtRest ==
    /\ pullConn # 0 /\ pullConn = conn /\ accepted = opened
    /\ mu = "free" /\ fresh = 0 /\ poll.at # "send" /\ ~moved
    /\ pushes = <<>> /\ wire = <<>> /\ incoming = None
    /\ ~announced /\ pushing = None

\* The two sides agree, and both know it.
Settled == AtRest /\ clip = sel /\ lastSeen = clip /\ last = sel

Moment == IF Settled THEN "settled" ELSE IF AtRest THEN "at rest" ELSE "busy"

Fault == faults < MaxFaults /\ faults' = faults + 1

-----------------------------------------------------------------------------
(* The users.                                                              *)

\* A Windows program writes or empties the clipboard: any time, also while the
\* bridge holds its own mutex.
CopyInWindows(i) ==
    /\ copies < MaxCopies /\ copies' = copies + 1
    /\ clip' = i /\ byUser' = TRUE /\ moved' = TRUE
    /\ copied' = IF i = None THEN "busy" ELSE Moment
    /\ UNCHANGED <<lastSeen, pullConn, accepted, mu, item, fresh, poll,
                   guestVars, pushes, faults>>

\* A guest program takes the selection; wl-paste --watch is told, even when
\* the content is what it was.
CopyInGuest(i) ==
    /\ copies < MaxCopies /\ copies' = copies + 1
    /\ sel' = i /\ announced' = TRUE
    /\ copied' = Moment
    /\ UNCHANGED <<hostVars, conn, opened, wire, incoming, pushing, last,
                   pushes, faults>>

-----------------------------------------------------------------------------
(* The guest's script.                                                     *)

\* socat connects to the pull port; the kernel completes the connection
\* before acceptPull takes it.
Connect ==
    /\ conn = 0 /\ opened < MaxFaults + 1
    /\ opened' = opened + 1 /\ conn' = opened + 1
    /\ UNCHANGED <<hostVars, wire, incoming, sel, announced, pushing, last,
                   pushes, copied, copies, faults>>

\* The host closed the connection (or replaced it): after the lines that were
\* still under way, read sees the end of the stream and the loop sleeps and
\* reconnects.
EndOfStream ==
    /\ conn # 0 /\ conn <= accepted /\ pullConn # conn
    /\ wire = <<>> /\ incoming = None
    /\ conn' = 0
    /\ UNCHANGED <<hostVars, opened, wire, incoming, sel, announced, pushing,
                   last, pushes, copied, copies, faults>>

ReadLine ==
    /\ wire # <<>> /\ incoming = None
    /\ incoming' = Head(wire) /\ wire' = Tail(wire)
    /\ UNCHANGED <<hostVars, conn, opened, sel, announced, pushing, last,
                   pushes, copied, copies, faults>>

\* --receive, under the lock: last_content first, then wl-copy, whose
\* selection wl-paste --watch reports like any other.
Receive ==
    /\ incoming # None
    /\ last' = incoming /\ sel' = incoming /\ announced' = TRUE
    /\ incoming' = None
    /\ UNCHANGED <<hostVars, conn, opened, wire, pushing, pushes, copied,
                   copies, faults>>

\* wl-copy fails: last_content is removed and the loop leaves the
\* connection, with whatever was buffered on it.
ReceiveFails ==
    /\ incoming # None /\ Fault
    /\ last' = None /\ incoming' = None
    /\ conn' = 0 /\ wire' = <<>>
    /\ UNCHANGED <<hostVars, opened, sel, announced, pushing, pushes, copied,
                   copies>>

\* wl-paste runs --push, one at a time, with the content of the selection.
WatchRuns ==
    /\ announced /\ pushing = None
    /\ announced' = FALSE /\ pushing' = sel
    /\ UNCHANGED <<hostVars, conn, opened, wire, incoming, sel, last, pushes,
                   copied, copies, faults>>

\* --push holds the lock over the comparison, the delivery and the record of
\* it: the content that last crossed is not sent, and only what was sent is
\* recorded.
Push ==
    /\ pushing # None /\ pushing' = None
    /\ IF pushing = last
       THEN UNCHANGED <<pushes, last>>
       ELSE pushes' = Append(pushes, pushing) /\ last' = pushing
    /\ UNCHANGED <<hostVars, conn, opened, wire, incoming, sel, announced,
                   copied, copies, faults>>

\* The transfer fails: the script ends, nothing runs it again until the
\* selection changes.
PushFails ==
    /\ pushing # None /\ pushing # last /\ Fault
    /\ pushing' = None /\ copied' = "busy"
    /\ UNCHANGED <<hostVars, conn, opened, wire, incoming, sel, announced, last,
                   pushes, copies>>

\* The guest restarts: the selection, the state directory (on a tmpfs) and
\* the connection are gone.  Pushed frames already left the guest.
GuestRestarts ==
    /\ opened > 0 /\ Fault
    /\ conn' = 0 /\ wire' = <<>> /\ incoming' = None
    /\ sel' = None /\ announced' = FALSE /\ pushing' = None /\ last' = None
    /\ copied' = IF Settled THEN copied ELSE "busy"
    /\ UNCHANGED <<hostVars, opened, pushes, copies>>

-----------------------------------------------------------------------------
(* acceptPush, acceptGuestItem: one goroutine per frame, so any frame of   *)
(* those waiting may be next.                                              *)

\* clipItem.allowed: text and PNG images within their limits.
Allowed(i) == i \in Items

\* clipboardSyncState.shouldAcceptGuest, shouldSendHost: items that are
\* allowed, and are not the one that crossed last.
ShouldCross(i) == Allowed(i) /\ i # lastSeen

\* Mutant: the write is not recorded.
MarkNothing == UNCHANGED <<lastSeen, moved>>

\* markGuestAccepted after a successful setHost, before the lock is given up.
MarkAccepted ==
    /\ lastSeen' = item
    /\ moved' = FALSE        \* lastSequence = sequence()

AcceptGuest(n) ==
    /\ mu = "free" /\ pushes' = RemoveAt(pushes, n)
    /\ IF ShouldCross(pushes[n])
       THEN /\ clip' = pushes[n] /\ byUser' = FALSE /\ moved' = TRUE
            /\ mu' = "accept" /\ item' = pushes[n]
       ELSE UNCHANGED <<clip, byUser, moved, mu, item>>
    /\ UNCHANGED <<lastSeen, pullConn, accepted, fresh, poll, guestVars, copied,
                   copies, faults>>

AcceptGuestDone ==
    /\ mu = "accept" /\ mu' = "free" /\ item' = None
    /\ MarkAccepted
    /\ UNCHANGED <<clip, byUser, pullConn, accepted, fresh, poll, guestVars,
                   pushes, copied, copies, faults>>

\* setHost fails: before it touches the clipboard (openClipboard gave up after
\* 20 attempts, the conversion failed), or after it emptied it.  The item is
\* dropped, and nothing is recorded.
AcceptGuestFails(n) ==
    /\ mu = "free" /\ ShouldCross(pushes[n]) /\ Fault
    /\ pushes' = RemoveAt(pushes, n) /\ copied' = "busy"
    /\ \/ UNCHANGED <<clip, byUser, moved>>
       \/ clip' = None /\ byUser' = FALSE /\ moved' = TRUE
    /\ UNCHANGED <<lastSeen, pullConn, accepted, mu, item, fresh, poll,
                   guestVars, copies>>

-----------------------------------------------------------------------------
(* acceptPull, pollHost, sendCurrentHost.                                  *)

\* Mutant: the state survives the connection.
KeepState == UNCHANGED lastSeen

\* The synchronisation state starts again with each connection.
ResetState == lastSeen' = None

\* Mutant: a new connection waits until the old one is known to have failed.
AcceptPullWhenIdle ==
    /\ mu = "free" /\ fresh = 0 /\ accepted < opened /\ pullConn = 0
    /\ accepted' = accepted + 1
    /\ pullConn' = accepted + 1 /\ fresh' = accepted + 1
    /\ ResetState
    /\ UNCHANGED <<clip, byUser, moved, mu, item, poll, guestVars, pushes,
                   copied, copies, faults>>

AcceptPull ==
    /\ mu = "free" /\ fresh = 0 /\ accepted < opened
    /\ accepted' = accepted + 1
    /\ pullConn' = accepted + 1 /\ fresh' = accepted + 1
    /\ ResetState
    /\ UNCHANGED <<clip, byUser, moved, mu, item, poll, guestVars, pushes,
                   copied, copies, faults>>

\* pollHost takes pullConn under the lock, and uses it after giving it up.
PollReads ==
    /\ poll.at = "sleep" /\ mu = "free" /\ pullConn # 0
    /\ poll' = [at |-> "check", conn |-> pullConn]
    /\ UNCHANGED <<clip, byUser, moved, lastSeen, pullConn, accepted, mu, item,
                   fresh, guestVars, pushes, copied, copies, faults>>

PollChecks ==
    /\ poll.at = "check"
    /\ poll' = IF moved THEN [poll EXCEPT !.at = "send"]
                        ELSE [at |-> "sleep", conn |-> 0]
    /\ UNCHANGED <<clip, byUser, moved, lastSeen, pullConn, accepted, mu, item,
                   fresh, guestVars, pushes, copied, copies, faults>>

\* The two callers of sendCurrentHost and the connection each was given.
Calls(who, c) ==
    \/ who = "pull" /\ fresh # 0 /\ c = fresh
    \/ who = "poll" /\ poll.at = "send" /\ c = poll.conn

Returns(who) ==
    IF who = "pull" THEN fresh' = 0 /\ UNCHANGED poll
    ELSE poll' = [at |-> "sleep", conn |-> 0] /\ UNCHANGED fresh

StillCurrent(c) == pullConn = c

\* sendCurrentHost up to the read of the clipboard: a connection that has been
\* replaced is left alone; otherwise the sequence number is recorded first.
SendBegins(who, c) ==
    /\ Calls(who, c) /\ mu = "free"
    /\ IF StillCurrent(c)
       THEN mu' = who /\ moved' = FALSE /\ UNCHANGED <<fresh, poll>>
       ELSE Returns(who) /\ UNCHANGED <<mu, moved>>
    /\ UNCHANGED <<clip, byUser, lastSeen, pullConn, accepted, item, guestVars,
                   pushes, copied, copies, faults>>

\* Nothing to send: an empty clipboard, or what last crossed.
SendSkips(who) ==
    /\ mu = who /\ ~ShouldCross(clip) /\ mu' = "free" /\ Returns(who)
    /\ UNCHANGED <<clip, byUser, moved, lastSeen, pullConn, accepted, item,
                   guestVars, pushes, copied, copies, faults>>

\* clipboardGetItem finds text or an image to read.
Offered == Allowed(clip)

\* Another program holds the clipboard: the read fails, the copy is not sent.
SendReadFails(who) ==
    /\ mu = who /\ Offered /\ Fault
    /\ mu' = "free" /\ Returns(who) /\ copied' = "busy"
    /\ UNCHANGED <<clip, byUser, moved, lastSeen, pullConn, accepted, item,
                   guestVars, pushes, copies>>

\* The write succeeds, and so does one to a peer that has just gone.
SendWrites(who, c) ==
    /\ Calls(who, c) /\ mu = who /\ ShouldCross(clip)
    /\ mu' = "free" /\ Returns(who)
    /\ wire' = IF c = conn THEN Append(wire, clip) ELSE wire
    /\ lastSeen' = clip
    /\ UNCHANGED <<clip, byUser, moved, pullConn, accepted, item, conn, opened,
                   incoming, sel, announced, pushing, last, pushes, copied,
                   copies, faults>>

\* The write fails (the peer has gone, or did not read for 3 seconds): the
\* connection is closed and the item stays unmarked.
SendWriteFails(who, c) ==
    /\ Calls(who, c) /\ mu = who /\ ShouldCross(clip)
    /\ mu' = "free" /\ Returns(who)
    /\ IF c = conn THEN Fault ELSE UNCHANGED faults
    /\ pullConn' = 0
    /\ UNCHANGED <<clip, byUser, moved, lastSeen, accepted, item, guestVars,
                   pushes, copied, copies>>

-----------------------------------------------------------------------------
Send(who) ==
    \/ SendSkips(who)
    \/ \E c \in Conns : \/ SendBegins(who, c)
                        \/ SendWrites(who, c) \/ SendWriteFails(who, c)

HostNext ==
    \/ \E n \in 1 .. Len(pushes) : AcceptGuest(n) \/ AcceptGuestFails(n)
    \/ AcceptGuestDone
    \/ AcceptPull \/ PollReads \/ PollChecks
    \/ \E who \in {"pull", "poll"} : Send(who) \/ SendReadFails(who)

GuestNext ==
    \/ Connect \/ EndOfStream \/ ReadLine \/ Receive \/ ReceiveFails
    \/ WatchRuns \/ Push \/ PushFails \/ GuestRestarts

Next ==
    \/ \E i \in Keys : CopyInWindows(i)
    \/ \E i \in Items : CopyInGuest(i)
    \/ HostNext \/ GuestNext

\* Every goroutine and every process of the script goes on; nothing makes a
\* user copy, and nothing makes a call fail.
Fairness ==
    /\ WF_vars(\E n \in 1 .. Len(pushes) : AcceptGuest(n))
    /\ WF_vars(AcceptGuestDone)
    /\ WF_vars(AcceptPull) /\ WF_vars(PollReads) /\ WF_vars(PollChecks)
    /\ WF_vars(Send("pull")) /\ WF_vars(Send("poll"))
    /\ WF_vars(Connect) /\ WF_vars(EndOfStream) /\ WF_vars(ReadLine)
    /\ WF_vars(Receive) /\ WF_vars(WatchRuns) /\ WF_vars(Push)

Spec == Init /\ [][Next]_vars /\ Fairness

-----------------------------------------------------------------------------
\* A copy made on either side while the two clipboards agreed, both sides had
\* recorded it and nothing was under way has crossed, and is recorded on both
\* sides, once the bridge is at rest again: across reconnects, refused lines,
\* failed writes and guest restarts, and whatever the poll loop had read before
\* the connection was replaced (clipboard_bridge.go:81).
AgreeAtRest == AtRest /\ copied = "settled" => Settled

\* What the bridge itself wrote to the Windows clipboard is never sent back to
\* the guest on the connection of the time it was accepted (the loop prevention
\* of clipboard_bridge.go:21): only a copy made in Windows is sent, or the
\* whole clipboard to a connection that starts afresh.
NothingEchoed ==
    [][(mu \in {"pull", "poll"} /\ lastSeen' # lastSeen)
         => (byUser \/ lastSeen = None)]_vars

\* When the users stop copying and nothing fails any more, the bridge comes to
\* rest for good, connected: no copy bounces between the two sides and no
\* connection stays half closed.
ComesToRest == <>[]AtRest

\* "overlapping transfers no longer suppress a later copy"
\* (.github/release-notes/v0.0.12-preview.md:15): a copy made when nothing is
\* under way crosses, also after transfers that overlapped.
LaterCopyCrosses == AtRest /\ copied # "busy" => clip = sel
=============================================================================
