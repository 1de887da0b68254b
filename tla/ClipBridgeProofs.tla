-------------------------- MODULE ClipBridgeProofs --------------------------
(***************************************************************************)
(* The bridge of ClipBridge sends nothing back, and a copy made while both *)
(* sides agreed crosses: for every set of items, however many copies are   *)
(* made, connections replaced, and transfers, clipboards and guests fail.  *)
(***************************************************************************)
EXTENDS ClipBridge, TLAPS

(* Who uses which connection.  The guest's is the newest one; the host's   *)
(* is the newest one it took, or none; whoever sends holds the mutex and   *)
(* writes to the host's connection.                                        *)
Links ==
    /\ opened \in Nat /\ accepted \in Nat /\ accepted <= opened
    /\ conn \in {0, opened} /\ pullConn \in {0, accepted}
    /\ poll.at # "sleep" => poll.conn # 0
    /\ mu = "poll" => poll.at = "send" /\ poll.conn = pullConn
    /\ mu = "pull" => fresh = pullConn /\ fresh # 0

(* What the bridge wrote to the Windows clipboard is on record as soon as  *)
(* the mutex is free.                                                      *)
Recorded ==
    ~byUser => IF mu = "accept" THEN clip = item
               ELSE clip = None \/ lastSeen = None \/ clip = lastSeen

-----------------------------------------------------------------------------
(* Where a copy is that was made while the two sides agreed.               *)

Linked   == pullConn # 0 /\ pullConn = conn /\ accepted = opened
Waiting  == mu = "free" /\ fresh = 0 /\ poll.at # "send" /\ ~moved
Quiet    == wire = <<>> /\ incoming = None
Silent   == ~announced /\ pushing = None /\ pushes = <<>>

(* Both sides have it, or the watcher has still to see that they do.       *)
Agreed ==
    /\ Linked /\ Quiet /\ mu # "accept" /\ pushes = <<>> /\ pushing \in {None, sel}
    /\ clip = sel /\ lastSeen = clip /\ last = sel

(* Windows has it: the connection is down, or someone is about to send.    *)
ToBeSent ==
    /\ Silent /\ Quiet /\ mu # "accept"
    /\ clip = None => sel = None /\ last = None
    /\ Linked => /\ clip # None /\ lastSeen # clip
                 /\ moved \/ mu # "free" \/ fresh = pullConn

(* The guest is about to receive it.                                       *)
OnTheWire ==
    /\ Linked /\ Silent /\ mu # "accept" /\ clip # None /\ lastSeen = clip
    /\ \/ wire = <<clip>> /\ incoming = None
       \/ wire = <<>> /\ incoming = clip

(* The guest has it: the watcher is about to push it, or has.              *)
FromGuest ==
    /\ Linked /\ Waiting /\ Quiet /\ sel # None /\ lastSeen = clip
    /\ \/ announced /\ pushing = None /\ pushes = <<>> /\ last = clip
       \/ ~announced /\ pushing = sel /\ pushes = <<>> /\ last = clip
       \/ ~announced /\ pushing = None /\ pushes = <<sel>> /\ last = sel /\ sel # clip

(* The host has written it to the clipboard, and not recorded it yet.      *)
Accepting ==
    /\ Linked /\ Silent /\ Quiet /\ mu = "accept"
    /\ item = clip /\ clip = sel /\ last = sel

Crossing ==
    copied = "settled" => Agreed \/ ToBeSent \/ OnTheWire \/ FromGuest \/ Accepting

-----------------------------------------------------------------------------
(* The queues never hold more than one item that matters.                  *)
LEMMA OneItem ==
  ASSUME NEW x
  PROVE  /\ Append(<<>>, x) = <<x>> /\ Head(<<x>>) = x /\ Tail(<<x>>) = <<>> /\ RemoveAt(<<x>>, 1) = <<>>
         /\ Len(<<x>>) = 1 /\ <<x>>[1] = x /\ <<x>> # <<>> /\ Len(<<>>) = 0
<1>1. SubSeq(<<x>>, 1, 0) = <<>> /\ SubSeq(<<x>>, 2, 1) = <<>>
  OBVIOUS
<1>2. RemoveAt(<<x>>, 1) = <<>>
  BY <1>1 DEF RemoveAt
<1> QED
  BY <1>2

(* A caller of sendCurrentHost that is through with it.                    *)
LEMMA ReturnsTo ==
  ASSUME NEW who \in {"pull", "poll"}, Returns(who)
  PROVE  /\ who = "pull" => fresh' = 0 /\ poll' = poll
         /\ who = "poll" => poll'.at = "sleep" /\ poll'.conn = 0 /\ fresh' = fresh
BY DEF Returns

(* The numbers of the connections.                                         *)
LEMMA NextConn ==
  ASSUME NEW n \in {0} \cup Conns
  PROVE  /\ n \in Nat /\ (n < MaxFaults + 1 => n + 1 \in Conns)
         /\ \A m \in {0} \cup Conns : n < m => n + 1 \in Conns
BY ClipAssumption DEF Conns

(* The bounds of the model.                                                *)
LEMMA Counts ==
  /\ faults \in 0 .. MaxFaults /\ Fault => faults' \in 0 .. MaxFaults
  /\ copies \in 0 .. MaxCopies /\ copies < MaxCopies => copies + 1 \in 0 .. MaxCopies
BY ClipAssumption DEF Fault

(* What a polled connection is.                                            *)
LEMMA Polled ==
  /\ \A c \in {0} \cup Conns, a \in {"sleep", "check", "send"} :
       [at |-> a, conn |-> c] \in [at : {"sleep", "check", "send"}, conn : {0} \cup Conns]
  /\ \A who \in {"pull", "poll"} : TypeOK /\ Returns(who) =>
       /\ fresh' \in {0} \cup Conns
       /\ poll' \in [at : {"sleep", "check", "send"}, conn : {0} \cup Conns]
<1>1. \A c \in {0} \cup Conns, a \in {"sleep", "check", "send"} :
        [at |-> a, conn |-> c] \in [at : {"sleep", "check", "send"}, conn : {0} \cup Conns]
  OBVIOUS
<1>2. TypeOK => fresh \in {0} \cup Conns /\ poll \in [at : {"sleep", "check", "send"}, conn : {0} \cup Conns]
  BY DEF TypeOK
<1> QED
  BY <1>1, <1>2 DEF Returns

(* The queues of items.                                                    *)
LEMMA Queues ==
  ASSUME NEW s \in Seq(Items)
  PROVE  /\ <<>> \in Seq(Items) /\ \A x \in Items : Append(s, x) \in Seq(Items)
         /\ s # <<>> => Head(s) \in Items /\ Tail(s) \in Seq(Items)
         /\ \A n \in 1 .. Len(s) : s[n] \in Items /\ RemoveAt(s, n) \in Seq(Items)
<1>1. ASSUME NEW n \in 1 .. Len(s) PROVE RemoveAt(s, n) \in Seq(Items)
  <2>1. SubSeq(s, 1, n - 1) \in Seq(Items) /\ SubSeq(s, n + 1, Len(s)) \in Seq(Items)
    OBVIOUS
  <2> QED
    BY <2>1 DEF RemoveAt
<1> QED
  BY <1>1

(* The types, taken apart.                                                 *)
ItemsOK ==
    /\ clip \in Keys /\ lastSeen \in Keys /\ item \in Keys
    /\ sel \in Keys /\ last \in Keys /\ pushing \in Keys /\ incoming \in Keys
    /\ pushes \in Seq(Items) /\ wire \in Seq(Items)
ConnsOK ==
    /\ pullConn \in {0} \cup Conns /\ conn \in {0} \cup Conns /\ fresh \in {0} \cup Conns
    /\ accepted \in {0} \cup Conns /\ opened \in {0} \cup Conns
    /\ poll \in [at : {"sleep", "check", "send"}, conn : {0} \cup Conns]
RestOK ==
    /\ byUser \in BOOLEAN /\ moved \in BOOLEAN /\ announced \in BOOLEAN
    /\ mu \in {"free", "accept", "pull", "poll"} /\ copied \in {"settled", "at rest", "busy"}
    /\ copies \in 0 .. MaxCopies /\ faults \in 0 .. MaxFaults

(* Each part is kept on its own.                                           *)
LEMMA Parts == (TypeOK <=> ItemsOK /\ ConnsOK /\ RestOK) /\ (TypeOK' <=> ItemsOK' /\ ConnsOK' /\ RestOK')
BY DEF TypeOK, ItemsOK, ConnsOK, RestOK

(* The items.                                                              *)
LEMMA ItemsStep ==
  ASSUME TypeOK, [Next]_vars
  PROVE  ItemsOK'
<1> USE DEF hostVars, guestVars
<1>0. ItemsOK /\ None \in Keys /\ Items \subseteq Keys
  BY Parts DEF Keys
<1>1. ASSUME NEW i \in Keys, CopyInWindows(i) \/ (i \in Items /\ CopyInGuest(i)) PROVE ItemsOK'
  BY <1>0, <1>1 DEF CopyInWindows, CopyInGuest, ItemsOK
<1>2. CASE Connect \/ EndOfStream \/ WatchRuns \/ PushFails
  BY <1>0, <1>2 DEF Connect, EndOfStream, WatchRuns, PushFails, ItemsOK
<1>3. CASE ReadLine
  <2>1. incoming' \in Items /\ wire' \in Seq(Items)
    BY <1>0, <1>3, Queues DEF ReadLine, ItemsOK
  <2> QED
    BY <1>0, <1>3, <2>1 DEF ReadLine, ItemsOK
<1>4. CASE Receive
  BY <1>0, <1>4 DEF Receive, ItemsOK
<1>5. CASE ReceiveFails \/ GuestRestarts
  <2>1. wire' \in Seq(Items)
    <3>1. wire' = <<>>
      BY <1>5 DEF ReceiveFails, GuestRestarts
    <3> QED
      BY <3>1
  <2> QED
    BY <1>0, <1>5, <2>1 DEF ReceiveFails, GuestRestarts, ItemsOK
<1>6. CASE Push
  <2>1. pushes' \in Seq(Items)
    <3>1. pushing \in Items
      BY <1>0, <1>6 DEF Push, ItemsOK, Keys
    <3> QED
      BY <1>0, <1>6, <3>1, Queues DEF Push, ItemsOK
  <2> QED
    BY <1>0, <1>6, <2>1 DEF Push, ItemsOK
<1>7. ASSUME NEW n \in 1 .. Len(pushes), AcceptGuest(n) \/ AcceptGuestFails(n) PROVE ItemsOK'
  <2>1. pushes[n] \in Items /\ RemoveAt(pushes, n) \in Seq(Items)
    BY <1>0, Queues DEF ItemsOK
  <2> QED
    BY <1>0, <1>7, <2>1 DEF AcceptGuest, AcceptGuestFails, ItemsOK
<1>8. CASE AcceptGuestDone \/ AcceptPull \/ PollReads \/ PollChecks
  BY <1>0, <1>8 DEF AcceptGuestDone, MarkAccepted, AcceptPull, ResetState, PollReads, PollChecks, ItemsOK
<1>9. ASSUME NEW who \in {"pull", "poll"}, NEW c \in Conns, SendWrites(who, c) PROVE ItemsOK'
  <2>1. wire' \in Seq(Items)
    <3>1. clip \in Items
      BY <1>9 DEF SendWrites, ShouldCross, Allowed
    <3> QED
      BY <1>0, <1>9, <3>1, Queues DEF SendWrites, ItemsOK
  <2> QED
    BY <1>0, <1>9, <2>1 DEF SendWrites, ItemsOK
<1>10. ASSUME NEW who \in {"pull", "poll"}, NEW c \in Conns,
              SendSkips(who) \/ SendReadFails(who) \/ SendBegins(who, c) \/ SendWriteFails(who, c)
       PROVE  ItemsOK'
  BY <1>0, <1>10 DEF SendSkips, SendReadFails, SendBegins, SendWriteFails, ItemsOK
<1>11. CASE UNCHANGED vars
  BY <1>0, <1>11 DEF vars, ItemsOK
<1>12. 1 \in Conns
  BY ClipAssumption DEF Conns
<1> QED
  BY <1>1, <1>2, <1>3, <1>4, <1>5, <1>6, <1>7, <1>8, <1>9, <1>10, <1>11, <1>12
     DEF Next, GuestNext, HostNext, Send, Keys

(* The connections.                                                        *)
LEMMA ConnsStep ==
  ASSUME TypeOK, [Next]_vars
  PROVE  ConnsOK'
<1> USE DEF hostVars, guestVars
<1>0. ConnsOK
  BY Parts
<1>1. ASSUME NEW i \in Keys, CopyInWindows(i) \/ (i \in Items /\ CopyInGuest(i)) PROVE ConnsOK'
  BY <1>0, <1>1 DEF CopyInWindows, CopyInGuest, ConnsOK
<1>2. CASE Connect
  <2>1. opened + 1 \in Conns
    BY <1>0, <1>2, NextConn DEF Connect, ConnsOK
  <2> QED
    BY <1>0, <1>2, <2>1 DEF Connect, ConnsOK
<1>3. CASE EndOfStream \/ ReadLine \/ Receive \/ ReceiveFails \/ WatchRuns \/ Push \/ PushFails \/ GuestRestarts
  BY <1>0, <1>3 DEF EndOfStream, ReadLine, Receive, ReceiveFails, WatchRuns, Push, PushFails, GuestRestarts, ConnsOK
<1>4. ASSUME NEW n \in 1 .. Len(pushes), AcceptGuest(n) \/ AcceptGuestFails(n) PROVE ConnsOK'
  BY <1>0, <1>4 DEF AcceptGuest, AcceptGuestFails, ConnsOK
<1>5. CASE AcceptPull
  <2>1. accepted + 1 \in Conns
    BY <1>0, <1>5, NextConn DEF AcceptPull, ConnsOK
  <2> QED
    BY <1>0, <1>5, <2>1 DEF AcceptPull, ConnsOK
<1>6. CASE AcceptGuestDone \/ PollReads
  BY <1>0, <1>6, Polled DEF AcceptGuestDone, PollReads, ConnsOK
<1>7. CASE PollChecks
  <2>1. [poll EXCEPT !.at = "send"] \in [at : {"sleep", "check", "send"}, conn : {0} \cup Conns]
    BY <1>0 DEF ConnsOK
  <2> QED
    BY <1>0, <1>7, <2>1, Polled DEF PollChecks, ConnsOK
<1>8. ASSUME NEW who \in {"pull", "poll"}, Send(who) \/ SendReadFails(who) PROVE ConnsOK'
  <2>1. /\ pullConn' \in {0, pullConn} /\ UNCHANGED <<conn, accepted, opened>>
        /\ Returns(who) \/ UNCHANGED <<fresh, poll>>
    BY <1>8 DEF Send, SendSkips, SendBegins, SendWrites, SendWriteFails, SendReadFails
  <2> QED
    BY <1>0, <2>1, Polled DEF ConnsOK
<1>9. CASE UNCHANGED vars
  BY <1>0, <1>9 DEF vars, ConnsOK
<1> QED
  BY <1>1, <1>2, <1>3, <1>4, <1>5, <1>6, <1>7, <1>8, <1>9 DEF Next, GuestNext, HostNext, Keys

(* The switches and the counts.                                            *)
LEMMA RestStep ==
  ASSUME TypeOK, [Next]_vars
  PROVE  RestOK'
<1> USE DEF hostVars, guestVars
<1>0. RestOK
  BY Parts
<1>1. ASSUME NEW i \in Keys, CopyInWindows(i) \/ (i \in Items /\ CopyInGuest(i)) PROVE RestOK'
  <2>1. copies' \in 0 .. MaxCopies
    BY <1>0, <1>1, Counts DEF CopyInWindows, CopyInGuest, RestOK
  <2> QED
    BY <1>0, <1>1, <2>1 DEF CopyInWindows, CopyInGuest, Moment, RestOK
<1>2. Fault => faults' \in 0 .. MaxFaults
  BY <1>0, Counts DEF RestOK
<1>3. CASE ReceiveFails \/ PushFails \/ GuestRestarts
  <2>1. faults' \in 0 .. MaxFaults
    BY <1>2, <1>3 DEF ReceiveFails, PushFails, GuestRestarts
  <2> QED
    BY <1>0, <1>3, <2>1 DEF ReceiveFails, PushFails, GuestRestarts, RestOK
<1>4. CASE Connect \/ EndOfStream \/ ReadLine \/ Receive \/ WatchRuns \/ Push
  BY <1>0, <1>4 DEF Connect, EndOfStream, ReadLine, Receive, WatchRuns, Push, RestOK
<1>5. ASSUME NEW n \in 1 .. Len(pushes), AcceptGuest(n) PROVE RestOK'
  BY <1>0, <1>5 DEF AcceptGuest, RestOK
<1>6. ASSUME NEW n \in 1 .. Len(pushes), AcceptGuestFails(n) PROVE RestOK'
  <2>1. faults' \in 0 .. MaxFaults
    BY <1>2, <1>6 DEF AcceptGuestFails
  <2> QED
    BY <1>0, <1>6, <2>1 DEF AcceptGuestFails, RestOK
<1>7. CASE AcceptGuestDone \/ AcceptPull \/ PollReads \/ PollChecks
  BY <1>0, <1>7 DEF AcceptGuestDone, MarkAccepted, AcceptPull, PollReads, PollChecks, RestOK
<1>8. ASSUME NEW who \in {"pull", "poll"}, Send(who) \/ SendReadFails(who) PROVE RestOK'
  <2>1. /\ UNCHANGED <<byUser, announced, copies>> /\ (moved' = moved \/ moved' = FALSE) /\ mu' \in {"free", who, mu}
        /\ copied' \in {copied, "busy"} /\ (Fault \/ UNCHANGED faults)
    BY <1>8 DEF Send, SendSkips, SendBegins, SendWrites, SendWriteFails, SendReadFails
  <2>2. faults' \in 0 .. MaxFaults
    BY <1>0, <1>2, <2>1 DEF RestOK
  <2>3. mu' \in {"free", "accept", "pull", "poll"} /\ copied' \in {"settled", "at rest", "busy"}
    BY <1>0, <2>1 DEF RestOK
  <2>4. moved' \in BOOLEAN
    BY <1>0, <2>1, Zenon DEF RestOK
  <2> QED
    BY <1>0, <2>1, <2>2, <2>3, <2>4 DEF RestOK
<1>9. CASE UNCHANGED vars
  BY <1>0, <1>9 DEF vars, RestOK
<1> QED
  BY <1>1, <1>3, <1>4, <1>5, <1>6, <1>7, <1>8, <1>9 DEF Next, GuestNext, HostNext, Keys

(* Every step keeps the connections in order.                              *)
LEMMA LinksStep ==
  ASSUME TypeOK, Links, [Next]_vars
  PROVE  Links'
<1> USE DEF Links, hostVars, guestVars
<1>1. ASSUME NEW i \in Keys, CopyInWindows(i) \/ (i \in Items /\ CopyInGuest(i)) PROVE Links'
  BY <1>1 DEF CopyInWindows, CopyInGuest
<1>2. CASE GuestNext
  BY <1>2 DEF GuestNext, Connect, EndOfStream, ReadLine, Receive, ReceiveFails, PushFails, GuestRestarts, WatchRuns, Push
<1>3. ASSUME NEW n \in 1 .. Len(pushes), AcceptGuest(n) \/ AcceptGuestFails(n) PROVE Links'
  BY <1>3 DEF AcceptGuest, AcceptGuestFails
<1>5. CASE AcceptGuestDone
  BY <1>5 DEF AcceptGuestDone
<1>6. CASE AcceptPull
  BY <1>6 DEF AcceptPull
<1>7. CASE PollReads
  BY <1>7, Polled DEF PollReads
<1>8. CASE PollChecks
  <2>1. [poll EXCEPT !.at = "send"].conn = poll.conn
    BY DEF TypeOK
  <2> QED
    BY <1>8, <2>1 DEF PollChecks
<1>9. ASSUME NEW who \in {"pull", "poll"}, Send(who) PROVE Links'
  <2>1. CASE SendSkips(who)
    BY <2>1, ReturnsTo DEF SendSkips
  <2>2. ASSUME NEW c \in Conns, SendBegins(who, c) PROVE Links'
    BY <2>2, ReturnsTo DEF SendBegins, StillCurrent, Calls
  <2>3. ASSUME NEW c \in Conns, SendWrites(who, c) \/ SendWriteFails(who, c) PROVE Links'
    BY <2>3, ReturnsTo DEF SendWrites, SendWriteFails, Calls
  <2> QED
    BY <1>9, <2>1, <2>2, <2>3 DEF Send
<1>10. ASSUME NEW who \in {"pull", "poll"}, SendReadFails(who) PROVE Links'
  BY <1>10, ReturnsTo DEF SendReadFails
<1>11. CASE UNCHANGED vars
  BY <1>11 DEF vars
<1> QED
  BY <1>1, <1>2, <1>3, <1>5, <1>6, <1>7, <1>8, <1>9, <1>10, <1>11 DEF Next, HostNext, Keys

-----------------------------------------------------------------------------
(* What was on its way at a copy is what a later copy finds: nothing but   *)
(* two sides that agree starts another crossing.                           *)
LEMMA CopyStep ==
  ASSUME TypeOK, Crossing, NEW i \in Keys, CopyInWindows(i) \/ (i \in Items /\ CopyInGuest(i))
  PROVE  Crossing'
<1>1. CASE ~Settled
  BY <1>1 DEF CopyInWindows, CopyInGuest, Moment, Crossing
<1>2. CASE Settled /\ CopyInWindows(i)
  BY <1>2 DEF Settled, AtRest, CopyInWindows, Crossing, Agreed, ToBeSent, Linked, Quiet, Silent, guestVars, Moment
<1>3. CASE Settled /\ i \in Items /\ CopyInGuest(i)
  BY <1>3, ClipAssumption DEF Settled, AtRest, CopyInGuest, Crossing, FromGuest, Linked, Waiting, Quiet, hostVars, Moment
<1> QED
  BY <1>1, <1>2, <1>3

(* The guest's script.                                                     *)
LEMMA GuestStep ==
  ASSUME TypeOK, Links, Crossing, GuestNext
  PROVE  Crossing'
<1> SUFFICES ASSUME copied' = "settled" PROVE Agreed' \/ ToBeSent' \/ OnTheWire' \/ FromGuest' \/ Accepting'
  BY DEF Crossing
<1>0. ~PushFails /\ (GuestRestarts => Settled) /\ copied = "settled"
  BY DEF GuestNext, PushFails, GuestRestarts, Connect, EndOfStream, ReadLine, Receive, ReceiveFails, WatchRuns, Push
<1>1. Agreed \/ ToBeSent \/ OnTheWire \/ FromGuest \/ Accepting
  BY <1>0 DEF Crossing
<1> USE ClipAssumption DEF hostVars, Linked, Waiting, Quiet, Silent
<1>2. CASE Connect
  BY <1>1, <1>2 DEF Connect, Links, Agreed, ToBeSent, OnTheWire, FromGuest, Accepting
<1>3. CASE EndOfStream
  BY <1>1, <1>3 DEF EndOfStream, Agreed, ToBeSent, OnTheWire, FromGuest, Accepting
<1>4. CASE ReadLine
  BY <1>1, <1>4, OneItem DEF ReadLine, Agreed, ToBeSent, OnTheWire, FromGuest, Accepting
<1>5. CASE Receive
  BY <1>1, <1>5, OneItem DEF Receive, Agreed, ToBeSent, OnTheWire, FromGuest, Accepting
<1>6. CASE ReceiveFails
  BY <1>1, <1>6 DEF ReceiveFails, Agreed, ToBeSent, OnTheWire, FromGuest, Accepting
<1>7. CASE WatchRuns
  BY <1>1, <1>7 DEF WatchRuns, Agreed, ToBeSent, OnTheWire, FromGuest, Accepting
<1>8. CASE Push
  <2>1. pushing # None /\ (Agreed \/ FromGuest)
    BY <1>1, <1>8 DEF Push, ToBeSent, OnTheWire, Accepting
  <2>2. CASE Agreed
    BY <1>8, <2>1, <2>2 DEF Push, Agreed
  <2>3. CASE FromGuest
    <3>1. ~announced /\ pushing = sel /\ pushes = <<>> /\ last = clip
      BY <2>1, <2>3 DEF FromGuest
    <3>2. CASE pushing = last
      BY <1>8, <2>3, <3>1, <3>2 DEF Push, FromGuest, Agreed
    <3>3. CASE pushing # last
      <4>1. pushes' = <<sel>> /\ last' = sel
        BY <1>8, <3>1, <3>3, OneItem DEF Push
      <4> QED
        BY <1>8, <2>3, <3>1, <3>3, <4>1 DEF Push, FromGuest
    <3> QED
      BY <3>2, <3>3
  <2> QED
    BY <2>1, <2>2, <2>3
<1>9. CASE GuestRestarts
  BY <1>0, <1>9 DEF GuestRestarts, Settled, AtRest, ToBeSent
<1> QED
  BY <1>0, <1>2, <1>3, <1>4, <1>5, <1>6, <1>7, <1>8, <1>9 DEF GuestNext

(* acceptPush.                                                             *)
LEMMA AcceptStep ==
  ASSUME TypeOK, Links, Crossing, AcceptGuestDone \/ AcceptPull
                                  \/ \E n \in 1 .. Len(pushes) : AcceptGuest(n) \/ AcceptGuestFails(n)
  PROVE  Crossing'
<1> SUFFICES ASSUME copied' = "settled" PROVE Agreed' \/ ToBeSent' \/ OnTheWire' \/ FromGuest' \/ Accepting'
  BY DEF Crossing
<1>0. copied = "settled" /\ \A n \in 1 .. Len(pushes) : ~AcceptGuestFails(n)
  BY DEF AcceptGuest, AcceptGuestFails, AcceptGuestDone, AcceptPull
<1>1. Agreed \/ ToBeSent \/ OnTheWire \/ FromGuest \/ Accepting
  BY <1>0 DEF Crossing
<1> USE ClipAssumption DEF guestVars, Linked, Waiting, Quiet, Silent
<1>2. ASSUME NEW n \in 1 .. Len(pushes), AcceptGuest(n) PROVE Accepting'
  <2>1. pushes # <<>> /\ mu = "free"
    BY <1>2, OneItem DEF AcceptGuest
  <2>2. FromGuest /\ pushes = <<sel>> /\ ~announced /\ pushing = None /\ last = sel /\ sel # clip
    BY <1>1, <2>1 DEF Agreed, ToBeSent, OnTheWire, FromGuest, Accepting
  <2>3. n = 1 /\ pushes[n] = sel /\ RemoveAt(pushes, n) = <<>>
    BY <2>2, OneItem
  <2>4. ShouldCross(sel)
    BY <2>2 DEF FromGuest, ShouldCross, Allowed, TypeOK, Keys
  <2> QED
    BY <1>2, <2>2, <2>3, <2>4 DEF AcceptGuest, FromGuest, Accepting
<1>3. CASE AcceptGuestDone
  BY <1>1, <1>3 DEF AcceptGuestDone, MarkAccepted, Agreed, ToBeSent, OnTheWire, FromGuest, Accepting
<1>4. CASE AcceptPull
  BY <1>1, <1>4 DEF AcceptPull, ResetState, Links, Agreed, ToBeSent, OnTheWire, FromGuest, Accepting
<1> QED
  BY <1>0, <1>2, <1>3, <1>4

(* pollHost and sendCurrentHost.                                           *)
LEMMA SendStep ==
  ASSUME TypeOK, Links, Crossing, NEW who \in {"pull", "poll"},
         PollReads \/ PollChecks \/ Send(who) \/ SendReadFails(who)
  PROVE  Crossing'
<1> SUFFICES ASSUME copied' = "settled" PROVE Agreed' \/ ToBeSent' \/ OnTheWire' \/ FromGuest' \/ Accepting'
  BY DEF Crossing
<1>0. copied = "settled" /\ ~SendReadFails(who)
  BY DEF PollReads, PollChecks, Send, SendReadFails, SendSkips, SendBegins, SendWrites, SendWriteFails
<1>1. Agreed \/ ToBeSent \/ OnTheWire \/ FromGuest \/ Accepting
  BY <1>0 DEF Crossing
<1> USE ClipAssumption DEF guestVars, Linked, Waiting, Quiet, Silent
<1>2. CASE PollReads
  BY <1>1, <1>2 DEF PollReads, Agreed, ToBeSent, OnTheWire, FromGuest, Accepting
<1>3. CASE PollChecks
  BY <1>1, <1>3 DEF PollChecks, Agreed, ToBeSent, OnTheWire, FromGuest, Accepting
<1>4. CASE SendSkips(who)
  BY <1>1, <1>4, ReturnsTo DEF SendSkips, ShouldCross, Allowed, TypeOK, Keys,
     Agreed, ToBeSent, OnTheWire, FromGuest, Accepting
<1>5. ASSUME NEW c \in Conns, SendBegins(who, c) PROVE Agreed' \/ ToBeSent' \/ OnTheWire' \/ FromGuest' \/ Accepting'
  BY <1>1, <1>5, ReturnsTo DEF SendBegins, StillCurrent, Calls, Agreed, ToBeSent, OnTheWire, FromGuest, Accepting
<1>6. ASSUME NEW c \in Conns, SendWrites(who, c) PROVE Agreed' \/ ToBeSent' \/ OnTheWire' \/ FromGuest' \/ Accepting'
  <2>1. clip \in Items /\ clip # lastSeen /\ lastSeen' = clip /\ mu' = "free" /\ mu = who
    BY <1>6 DEF SendWrites, ShouldCross, Allowed
  <2>2. ToBeSent /\ c = pullConn
    BY <1>1, <1>6, <2>1 DEF SendWrites, Calls, Links, Agreed, OnTheWire, FromGuest, Accepting
  <2>3. CASE Linked
    <3>1. wire' = <<clip>>
      BY <1>6, <2>2, <2>3, OneItem DEF SendWrites, ToBeSent
    <3> QED
      BY <1>6, <2>1, <2>2, <2>3, <3>1 DEF SendWrites, ToBeSent, OnTheWire
  <2>4. CASE ~Linked
    <3>1. wire' = wire
      BY <1>6, <2>2, <2>4 DEF SendWrites, Links, TypeOK, Conns
    <3> QED
      BY <1>6, <2>1, <2>2, <2>4, <3>1 DEF SendWrites, ToBeSent
  <2> QED
    BY <2>3, <2>4
<1>7. ASSUME NEW c \in Conns, SendWriteFails(who, c) PROVE Agreed' \/ ToBeSent' \/ OnTheWire' \/ FromGuest' \/ Accepting'
  BY <1>1, <1>7, ReturnsTo DEF SendWriteFails, ShouldCross, Allowed, Agreed, ToBeSent, OnTheWire, FromGuest, Accepting
<1> QED
  BY <1>0, <1>2, <1>3, <1>4, <1>5, <1>6, <1>7 DEF Send

(* What the bridge writes to the Windows clipboard is recorded.            *)
LEMMA RecordedStep ==
  ASSUME TypeOK, Recorded, [Next]_vars
  PROVE  Recorded'
<1> USE DEF Recorded, hostVars, guestVars
<1>1. ASSUME NEW i \in Keys, CopyInWindows(i) \/ (i \in Items /\ CopyInGuest(i)) PROVE Recorded'
  BY <1>1 DEF CopyInWindows, CopyInGuest
<1>2. CASE GuestNext
  BY <1>2 DEF GuestNext, Connect, EndOfStream, ReadLine, Receive, ReceiveFails, PushFails, GuestRestarts, WatchRuns, Push
<1>3. ASSUME NEW n \in 1 .. Len(pushes), AcceptGuest(n) \/ AcceptGuestFails(n) PROVE Recorded'
  BY <1>3 DEF AcceptGuest, AcceptGuestFails
<1>4. CASE AcceptGuestDone \/ AcceptPull \/ PollReads \/ PollChecks
  BY <1>4 DEF AcceptGuestDone, MarkAccepted, AcceptPull, ResetState, PollReads, PollChecks
<1>5. ASSUME NEW who \in {"pull", "poll"}, Send(who) \/ SendReadFails(who) PROVE Recorded'
  BY <1>5 DEF Send, SendSkips, SendBegins, SendWrites, SendWriteFails, SendReadFails
<1>6. CASE UNCHANGED vars
  BY <1>6 DEF vars
<1> QED
  BY <1>1, <1>2, <1>3, <1>4, <1>5, <1>6 DEF Next, HostNext, Keys

-----------------------------------------------------------------------------
Inv == TypeOK /\ Links /\ Recorded /\ Crossing

(* The inductive invariant.                                                *)
LEMMA InvHolds == Spec => []Inv
<1>1. Init => Inv
  <2> SUFFICES ASSUME Init PROVE Inv
    OBVIOUS
  <2>1. TypeOK
    <3>1. ItemsOK
      <4>1. <<>> \in Seq(Items)
        OBVIOUS
      <4> QED
        BY <4>1 DEF Init, ItemsOK, Keys
    <3>2. ConnsOK
      BY Polled DEF Init, ConnsOK
    <3>3. RestOK
      <4>1. 0 \in 0 .. MaxCopies /\ 0 \in 0 .. MaxFaults
        BY ClipAssumption
      <4> QED
        BY <4>1, Zenon DEF Init, RestOK
    <3> QED
      BY <3>1, <3>2, <3>3, Parts
  <2>2. Links /\ Recorded
    BY DEF Init, Links, Recorded
  <2>3. Crossing
    BY DEF Init, Crossing, ToBeSent, Silent, Quiet, Linked
  <2> QED
    BY <2>1, <2>2, <2>3 DEF Inv
<1>2. Inv /\ [Next]_vars => Inv'
  <2> SUFFICES ASSUME Inv, [Next]_vars PROVE Inv'
    OBVIOUS
  <2>1. TypeOK' /\ Links' /\ Recorded'
    BY ItemsStep, ConnsStep, RestStep, Parts, LinksStep, RecordedStep DEF Inv
  <2>2. Crossing'
    <3>1. CASE UNCHANGED vars
      BY <3>1 DEF Inv, vars, hostVars, guestVars, Crossing, Agreed, ToBeSent, OnTheWire, FromGuest, Accepting,
         Linked, Waiting, Quiet, Silent
    <3> QED
      BY <3>1, CopyStep, GuestStep, AcceptStep, SendStep DEF Inv, Next, HostNext, Keys
  <2> QED
    BY <2>1, <2>2 DEF Inv
<1> QED
  BY <1>1, <1>2, PTL DEF Spec

(* The types of the variables.                                             *)
THEOREM TypeCorrect == Spec => []TypeOK
BY InvHolds, PTL DEF Inv

(* A copy made on either side while the two sides agreed has crossed, and  *)
(* both sides have it on record, whenever the bridge is at rest again.     *)
THEOREM CopyCrosses == Spec => []AgreeAtRest
<1>1. Inv => AgreeAtRest
  BY DEF Inv, Crossing, AgreeAtRest, AtRest, Settled, Agreed, ToBeSent, OnTheWire, FromGuest, Accepting,
     Linked, Waiting, Quiet, Silent
<1> QED
  BY <1>1, InvHolds, PTL

(* What the bridge itself wrote to the Windows clipboard is not sent back  *)
(* on the connection of the time it was accepted.                          *)
THEOREM NoEcho == Spec => NothingEchoed
<1> DEFINE Echo == (mu \in {"pull", "poll"} /\ lastSeen' # lastSeen) => (byUser \/ lastSeen = None)
<1>1. Inv /\ [Next]_vars => Echo
  <2> SUFFICES ASSUME Inv, [Next]_vars, mu \in {"pull", "poll"}, lastSeen' # lastSeen
               PROVE  byUser \/ lastSeen = None
    OBVIOUS
  <2>1. \E who \in {"pull", "poll"} : \E c \in Conns : SendWrites(who, c)
    BY DEF Next, CopyInWindows, CopyInGuest, GuestNext, Connect, EndOfStream, ReadLine, Receive, ReceiveFails,
       PushFails, GuestRestarts, WatchRuns, Push, HostNext, AcceptGuest, AcceptGuestFails, AcceptGuestDone, AcceptPull,
       PollReads, PollChecks, Send, SendSkips, SendBegins, SendWriteFails, SendReadFails, vars, hostVars
  <2>2. clip \in Items /\ clip # lastSeen
    BY <2>1 DEF SendWrites, ShouldCross, Allowed
  <2> QED
    BY <2>2, ClipAssumption DEF Inv, Recorded
<1>2. Inv /\ [Next]_vars => [Echo]_vars
  BY <1>1
<1> QED
  BY <1>2, InvHolds, PTL DEF Spec, NothingEchoed
=============================================================================
