# Verification of Try Omarchy for Windows

Try Omarchy is a Go program (`src/app`) that installs, updates and supervises a
QEMU guest on Windows. It downloads a guest image and a graphics runtime,
creates a writable disk, starts QEMU, watches it until the guest powers off, and
replaces both the payloads and its own executable when a newer release is
signed. Its hard part is not computation: it is a set of small protocols over
files that are renamed and deleted, processes that die, a guest that hangs, and
a user who starts the program again in the middle.

This directory holds TLA+ models of those protocols, TLC configurations that
check them on small instances, and TLAPS proofs for every instance.

## 1. The system

Paths are relative to `src/app`.

| Part | State it keeps | Operations | Interacts with | What is hard |
|---|---|---|---|---|
| payload update (`payload_update.go`, `setup.go`, `fetch.go`, `*_state.go`) | four sibling directories per payload (current, `.previous`, `.failed`, staging), receipts, `payload-update-state.json` | stage, record, publish, roll back, commit, repair | supervisor (ready, GPU failure), download | a death between any two file-system calls; ignored errors; two payloads under one journal |
| launcher update (`update_windows.go`, `update_state.go`, `launcher_files.go`) | `TryOmarchy.exe`, `TryOmarchy.previous.exe`, `update-state.json` | check, mark, replace through a helper process, tick, roll back, confirm | supervisor (ready), shortcuts (a download installs itself) | launcher and helpers run concurrently; running executables are locked; power loss |
| QEMU supervisor (`main.go`, `qmp.go`) | attempt counter, configuration, lifecycle flags, the QEMU process | start, probe QMP, watch, reap, decide | both updates, guest | hangs, lost SHUTDOWN events, announcements read by goroutines |
| portable disk (`qemu.go`, `qcow2.go`, `reset_portable.go`) | QCOW2 overlay, identity sidecar, staging and retained folders | create, check, refuse, put aside, reset | payload on the stick | a stick pulled out between four renames; exchanged payloads |
| standard disk (`qemu.go`, `reset.go`) | `vm/disk.raw`, staging and retained folders | create, grow, put aside, reset | both updates (a reset is refused while one is pending), setup cancellation | interruption; telling an interrupted copy from a small disk |
| setup cancellation (`setup_cancel.go`) | pending flag, remove-all flag | cancel, clean up | standard disk, download | the cancel that arrives as the disk gets complete |
| download (`download.go`) | `.part` file | request a range, append or restart, verify, publish | payload update | resuming over exchanged payloads and odd answers |
| clipboard bridge (`clipboard_bridge.go`, `clipboard_state.go`, guest script `clipboard-bridge.sh`) | Windows: last sequence number, last item, the pull connection, a mutex; guest: `last_content`, its pull connection | poll, send, accept a push, reconnect; receive, watch, push | Windows clipboard, Wayland selection | reads that fail, copies made between a write and a look, connections replaced under the poll loop |
| key forwarding and close guard (`winkey.go`, `closeguard.go`) | queue of 64 key events, `winDown`; one pending request | enqueue from a hook, drain to QMP; ask, power down | supervisor (`guestUp`), a QMP port of QEMU each (`qmpFwdPort`, `qmpToolsPort`) | a full queue, a failed write, a release the hook misses, a dial too early in the guest's boot |
| guest agent and compaction (`agent.go`, `compact.go`) | connection, `zeroFilled`; the disk after shutdown | accept, send time, request zero-fill, read reports; punch holes | supervisor, guest, `disk.raw` | a new connection replaces one that is being read; sleep and wake-up; stopping half way |
| backup, restore, reset from Settings, uninstall (`backup.go`, `recovery_windows.go`, `uninstall*.go`) | archives; the folder | lock the disk, copy, publish; restore into an empty folder; confirm and reset; remove through a helper | both updates, disks, data location | an orphaned QEMU that writes; a pending update; backup and reset are not one step |
| data location (`data_location.go`) | pointer file in the default folder | resolve, choose, remember, forget | everything that opens a folder | the pointer shares its folder with an installation |
| defaults, preferences, dialogs, diagnostics | see `PROJECT.json` | | | |

What makes each part correct, in a sentence:

- payload update: until a new release has booted a healthy guest, the tree it
  replaced is on the disk, the journal says so, and the next launch can go back;
- launcher update: some executable that is known to work is always installed,
  and one that never boots a guest is replaced;
- supervisor: a reboot is relaunched and nothing else is, updates are confirmed
  on the word of the guest that runs now, no QEMU hangs or is left behind;
- disks: no reset, failure or interruption loses a disk a guest has used, and no
  guest runs on a disk of another image or on half a copy;
- download: only the bytes the manifest names are published, and stale bytes
  are never in the way;
- clipboard: a copy on one side arrives on the other and goes no further;
- keys and closing: no key stays down, and nobody dials QMP in a guest's early boot
  (the code keeps this for most of the time only: finding 3);
- agent and compaction: the clock is right after a sleep, and only zeros become
  holes;
- backups and folders: an archive holds one state of one disk, whoever asked for
  a backup has it before anything is lost, and a launch finds the installation
  that is there.

## 2. Modules

| Module | Models | Abstract |
|---|---|---|
| `PayloadUpdate` | journal, publication, rollback and commit of guest and runtime, one file-system call per step | a tree is a release, a receipt and one of three degrees of damage |
| `AtomicUpdate` | the abstract specification of `PayloadUpdate`: an update of payloads is a transaction | a payload is a release and a degree of damage, or nothing |
| `LauncherUpdate` | main launcher, update helper and rollback helper as concurrent processes over three files | an executable is its version; signatures are valid |
| `Supervisor` | `supervise`, `watch`, `waitExit`, lifecycle listener, and QEMU with its guest as environment | QMP lines are "answer", "reboot", "poweroff" |
| `PortableDisk` | `preparePortableDisk`, `resetPortableDisk`, `publishPortableReset` | an image is a model value, a disk is (number, image, capacity) |
| `StandardDisk` | `prepareDisk`, `resetStandardDisk`, `publishResetDisk`, setup cancellation | a disk is (number, size, torn) |
| `GuestDisk` | the abstract specification of both disks: a reset is one step | a disk is its number |
| `Download` | `downloadVerifiedWithOptions`, `downloadAttempt` | a payload is a few blocks, each of which knows where it came from |
| `ClipBridge` | `clipBridge`'s goroutines and the guest's script, concurrently, with their connections | an item is its key; a sequence number is "changed since" |
| `Session` | forwarder, close guard, agent and compaction beside one QEMU that reboots, hangs and ends | a block is data, zero or hole; QEMU is in early boot, safe or hung |
| `Maintenance` | which folder a launch works in; backup, restore, reset from Settings, uninstall; a QEMU and a removal helper that outlive their launcher | a disk is its content; the renames of a reset or an update are one step |
| `MCPayloadUpdate`, `MCDownload` | constants for TLC | |
| `PayloadUpdateProofs`, `LauncherUpdateProofs`, `SupervisorProofs`, `PortableDiskProofs`, `StandardDiskProofs`, `ClipBridgeProofs`, `SessionProofs`, `MaintenanceProofs` | theorems, each about the module it is named after | |

The line each definition stands for is in `PROJECT.json` under `map`. Definitions
marked "Mutant" are not part of a model: each is a plausible bug of one mapped
definition, and shows that a property would notice it.

### PayloadUpdate

`tree[p][s]` is what payload `p` (guest or runtime) has under the name `s`. The
launcher is one program counter, because only one runs at a time: it owns the
lifecycle port. Every rename, `RemoveAll` and journal write is a step.

- `StartRollback` ... `RollbackClean`, `Pin`: `rollbackPendingPayloadUpdates`,
  `rollbackDirectoryUpdate`, `pinRestoredPayloads`; with `caller = "session"` the
  runtime rollback of a failed GPU start (`GpuFailure`, `GpuClean`).
- `EnsureRuntime`, `SwapRuntime`, `PlaceRuntime`, `EnsureGuest`, `FillGuest`:
  `ensureRuntime` and `ensureGuest` with adoption, legacy receipts and repair.
- `Stage`, `Record`, `PublishClear` ... `PublishUndo`: the update itself.
- `GuestReady`, `CommitRemove`, `CommitClean`: `commitPayloadUpdates`.
- `RemovalProgress`: a `RemoveAll` under way has deleted some of the files.
- `Crash`: the process dies. Failing calls are disjuncts of their actions and,
  like deaths, count as faults.

`base` and `leftover` are history: the tree an unconfirmed update replaces, and
whether something of a confirmed update's previous tree still lies there.

`AtomicUpdate` says what this amounts to for the user. Its state is what each
payload is once every trial is undone (`stable`), the payloads on `trial`, the
`phase` of the launch and what its guest was booted from (`running`). A launch
undoes (`Undo`) every earlier trial before it tries anything (`Try`); the guest's
readiness confirms all that is on trial in one step (`Confirm`); an incomplete
payload may be replaced in place (`Repair`). Receipts, the four names, the journal
and every rename are gone. The mapping (`Stable`, `Trial`, `Phase`) takes a payload
with an unconfirmed update to be the tree it replaces, wherever that lies by now,
so a publication and a rollback, half done or interrupted, are stutters. `Relapse`
is the exception the code has: a rollback over the remains of a commit's deletion
(`remains`; finding 1) makes the payload whatever is left of the old tree.

### LauncherUpdate

`main` is the launcher that owns the port, `helper` the processes that replace
executables. A running executable cannot be overwritten (`TargetLocked`,
`PreviousLocked`), which the code relies on and which decides several races.
`proven` is history: versions whose guest got ready.

A marker may also fail to be read, or not validate. A launcher that finds it so
(`RecoverUnreadable`, `update_windows.go:146-151`) removes the marker, then the
backup, and goes on; either removal may fail. A helper that finds it so ends.
`unread` is history: the versions such markers were about. If that version is
installed and unconfirmed, nothing is left to go back to: `SomeLauncherWorks` is
violated then (`LauncherUpdateUnreadable.cfg`, finding 2), and `LastGoodKept`,
`ReplacementIsRevertible` and `BrokenUpdateIsReplaced` hold for the installed
version as long as it is not in `unread`. So an unreadable marker harms the version
it was about and nothing before or after it.

Two constants state assumptions, so that they can be dropped or varied:

- `Prompt`: no update stays unconfirmed for as long as `updateCheckInterval`
  (four hours). Without it see finding 2.
- `Habits`: what users do. A *hasty* user starts the installed launcher even
  while a helper works; one who uses *downloads* waits for helpers but also opens
  launchers kept elsewhere, which install themselves. Each behaviour has one
  habit; a property says for which one it is claimed.

### Supervisor

The configuration ladder is `StartupFailed`, the loop of `watch` is `LoopHead`,
`ReadLine`, `Query`, `Exited`, `Disconnected`; `Reaped` and `Kill` are `waitExit`;
`Drain` and `Decide` what follows the loop. QEMU can hang or crash at any step,
and the guest announces readiness and reboots into `mail`, which `Deliver` reads
one announcement at a time in any order.

`MailRead` in `StartQemu` and `Decide` states an assumption: a goroutine that has
accepted a connection reads it before the next attempt resets the flags or the
loop has reaped QEMU. The code does not synchronise the two; it gives the
goroutine milliseconds to seconds to run (the QMP retry, the grace period).

### PortableDisk, StandardDisk, GuestDisk

`final`, `staged`, `retained` and `kept` are where a disk can be. In
`PortableDisk` a pair (disk, identity) moves in the four renames of
`publishPortableReset`, in the code's order, and back in reverse order when one
fails (`UndoMove`), until that fails too. `StandardDisk` also models
`setup_cancel.go`: `cancel` and `removeAll` are its two flags, `Cleanup` is
`finishSetupCancellation`.

`GuestDisk` is what both promise: there is one current disk or none; it is
replaced only on request, in one step, and is retained then; an interruption may
lose the new disk but never the old one. `Promise` in each module is that
specification under a refinement mapping. The mapping says what the user would
call the current disk: while the old disk lies between the renames it is still
that one. In `StandardDisk` a disk must be complete to count, so the beginning of
a copy may be put aside at any time; `asked` is `-fresh`. The factory image has the
same size in every release (`FactorySize`): that `qemu.go:185` takes a complete disk
for the beginning of a copy, and puts it aside, when an update brings a factory
image larger than that disk, is not represented. In `PortableDisk`
`asked` is also true of a disk that does not fit its payload, because it is
damaged or the payload was exchanged for one of another capacity: the code then
replaces it unasked.

### Download

`part` is a sequence of blocks, each the payload it came from, so that a file
put together from two payloads is visible. `Honest` answers as HTTP prescribes,
`Odd` answers wrongly, shortly or not at all, `Exchange` changes what the URL
serves, `Stop` ends the call. The clean restart of the code, one per call and
outside the count of attempts, is `restarted`.

### ClipBridge

The launcher's goroutines (`acceptPull`, `acceptPush`, `pollHost`) interleave
between their critical sections, at every point where the code holds no mutex or
calls Windows or the network. `moved` is the only thing the sequence number is
used for: has the clipboard been written since `lastSequence` was recorded.
`ReadLine` to `Push` are the guest's script. Pushed changes are connections of
their own and are served in any order. `copied` is history: what the bridge was
doing when a user last copied.

### Session

`phase` and `qemu` keep of `supervise` what the others see. A QEMU whose QMP is
dialed in the guest's early boot hangs (`Dial`), as `docs/FINDINGS.md` reports. The
forwarder and the close guard dial a port each of the same QEMU, and the agent and
the compaction share `zeroFilled`; `setup` chooses which pair a behaviour
exercises, since the pairs share nothing but QEMU's life.

The forwarder reads `guestUp` in one step (`ForwarderChecks`) and dials in another
(`ForwarderDials`). In between the QEMU it meant may hang, end and be relaunched:
`guestUp` stays true until `watch` is through with `waitExit` (`WatchEnds`), and the
dial takes up to three seconds. The dial reaches whatever QEMU runs by then, or
none. `fwd = "broken"` is a connection whose QEMU is gone and which has not shown
it yet: events written to it are lost (`DrainFails`) until the reader notices
(`LinesClosed`). `KeyMissed` is a key event in the moment in which the hook is torn
down and installed again.

`wedgedBy`, `spare` and `lost` are history: who wedged a QEMU by an early dial; how
many launches the forwarder may still wedge before the next handshake; whether a
release went missing.

### Maintenance

One process at a time holds the lifecycle port (`pc`, `job`, `at`); what may run
beside it are a QEMU whose launcher died (`qemu`, `LauncherDies`, `OrphanEnds`)
and the copy of the launcher that removes a folder (`helper`). `PlainLaunch` is
`resolveStandardDataDirectory`, `DirLaunch` a launch with `-dir`, `Maintain`
Settings. `WriteBackup` reads the disk in two steps, `head` and `tail`, so that a
write in between would show; the file stays open meanwhile (`InUse`), as it does
under a running QEMU, and a removal leaves an open file where it is. `wish` and
`home` are history.

Two constants state assumptions: `HelperFirst`, nobody starts the program while
the removal helper works; `BesidePointer = FALSE`, nobody uses `-dir` with the
default folder while its pointer leads elsewhere. Section 3 says what happens
without them.

## 3. What is checked

TLC finishes each passing run in seconds to a minute. Deadlock is checked
in `PayloadUpdate`, `LauncherUpdate` and `Maintenance`; the other systems may stop
(the supervisor and the session end, the number of disks and copies is bounded,
the download is over), so their configurations say `CHECK_DEADLOCK FALSE`.

| Run | Bounds | Shows |
|---|---|---|
| `payload_update` | 3 releases, 2 of one runtime archive; 2 faults; no stock QEMU | the replaced tree stays on the disk (`FallbackKept`), every unconfirmed update is journaled, only complete guests boot, receipts are truthful, a commit never deletes the last tree, a recovery launch changes nothing; `AtomicUpdate`'s promise; every journal settles and a session is always reached again |
| `payload_torn_rollback` | 1 fault | violation, finding 1 |
| `launcher_update` | 3 versions, 2 helpers, a download, 2 faults, both habits | a proven executable is installed or backed up, what was replaced can be reverted (hasty users); a broken update does not stay (users of downloads); all three unless a launcher could not read the marker of the installed version |
| `launcher_update_late` | without `Prompt` | violation, finding 2 |
| `supervisor` | 2 attempts, 3 missing answers (9 in the code), 1 reboot | reboot and poweroff are told apart, commits are fresh, every retry has one rung fewer left, wedged guests are reaped, every stop ends, no orphan |
| `portable_disk` | 3 images, one of them large; 3 disks; 3 faults | pairing, no foreign image, `GuestDisk`'s promise, `-fresh` always boots |
| `standard_disk` | 2 sizes, 3 disks, 3 faults | no half copy booted, `GuestDisk`'s promise |
| `download` | payloads of 1, 2, 2 and 3 blocks, 4 attempts, 5 faults | only the wanted payload is published, every call ends, stale bytes are overcome |
| `clip_bridge` | 2 items, 3 copies, 1 failure | a copy made at rest crosses and is recorded on both sides, nothing is echoed, the bridge comes to rest |
| `session` | 3 launches, a queue of 2, 3 blocks; 6 inputs, or 2 events of the agent | no key stays down, the forwarder's late dials wedge at most one launch between two handshakes, only zeros become holes, the clock is corrected |
| `session_early_dial` | one click | violation, finding 3 |
| `maintenance` | 2 folders; 1 write, 1 update, 1 fault | archives are consistent, an untried update has its journal, an asked-for backup exists, a launch finds its installation, a reset goes through in the end |

`TypeOK` is listed in one of the runs; it is proved for every module but
`Download`, `Session`, and the abstract `GuestDisk` and `AtomicUpdate`.

Further configurations are kept that are not part of the table, each to be run
by hand:

- `MCPayloadUpdateStockCommit.cfg` violates `CommitKeepsATree`: with a stock QEMU
  installed, a runtime update whose publication failed (`setup.go:311`) is
  confirmed by a boot that did not use it, and the commit (`payload_update.go:230`)
  deletes the only runtime. The comment at `setup.go:312` says "Keep the rollback
  record in case publication moved the old tree before failing. Recovery
  reconciles it on the next launch."
- `PortableDiskLarger.cfg` violates `ReplacedPayloadIsRefused`: `qemu.go:292`
  compares the size before the identity, so a payload of another capacity is not
  refused and the old payload's disk is put aside as incomplete, although
  `docs/PORTABLE_USB.md:56` promises a refusal.
- `ClipBridgeOverlap.cfg` violates `LaterCopyCrosses`: a copy made in Windows
  between the bridge's own write and its look at the sequence number
  (`clipboard_bridge.go:133`) is taken for that write. When transfers overlap the
  two sides may also end with different items and both at rest. The release notes
  of v0.0.12 say that overlapping transfers no longer suppress a later copy.
- `MaintenanceBeside.cfg` violates `HomeIsFound`: removing an installation in the
  default folder that was used with `-dir` deletes the pointer to the other one,
  although `uninstall.go:9` says that they can be removed independently.
- `MaintenanceHelper.cfg` violates `AskedBackupExists`: the removal helper does not
  take the lifecycle port (`uninstall_windows.go:176`), so a launch beside it can
  write to the disk after the backup and before the removal.
- `LauncherUpdateUnreadable.cfg` violates `SomeLauncherWorks`: one read of the marker
  fails while the launcher it is about is unconfirmed (finding 2).
- `SessionForwarderDial.cfg` violates `ForwarderWaits` with a reboot and no other
  input: the forwarder's dial for the guest that was up reaches the next one in its
  early boot (finding 3).
- `SupervisorLadder.cfg` checks `LadderFits` for 12 attempts and 64 GiB, an
  instance of the theorem `LadderAlwaysFits`.

Why these bounds are enough. A fault is a process death or a failed call. The
journals and markers have two records to disagree about, so an error needs one
fault to create a half-done state and one more while it is being repaired; the
disk runs have a third because a rename, the rename that takes it back, and the
next launch can each fail. Three releases allow an update on top of an update
(or of a rollback). Two helpers are what an impatient user can get alive at
once from one update. Sizes and attempts only need to reach their limits.
Three copies are one to start from and two that overlap; three launches of QEMU
let everything a session leaves behind meet the next boot, and the retry of that
boot; two folders are the
default and one other, which is all that the pointer can tell apart; in
`Maintenance` one write distinguishes the disk before from the disk after. The
proofs remove the bounds for every safety property of the table but
`PublishedIsAuthentic`.

Fairness. Straight-line code of a running process goes on (`WF` of `Step`,
`MainStep`, `HelperStep`, `Launcher`, and of the goroutines in `Deliver`): nothing in
it waits for anything but the calls that may fail. A QEMU that shuts down does
so unless it hangs or crashes. The payload runs assume that the user opens the
app again after a launch ended (`WF` of `Launch` and `EndSession`); the launcher
run that the *installed* launcher is opened again and again (`SF` of
`LaunchInstalled`, since downloads may be opened in between). The download
assumes a server that answers (`WF` of `Honest`). In `ClipBridge` and `Session`
every goroutine and the guest's script go on, and a pushed change is served in
the end; nothing makes a user copy, click or press a key. In `Maintenance` a
process goes on, guests are shut down and an orphaned QEMU ends one day; a user
whose reset was refused keeps starting that guest in between and keeps asking
(`SF`, since neither is possible all the time), which is what the message of the
refusal tells them to do.
No fairness makes a guest get ready, a user reset a disk or a fault stop; faults are bounded.

### Findings

1. `payload_update.go:210, 230`: a confirmed update deletes the previous tree
   before it clears the journal. A death in between makes the next launch put
   the confirmed tree aside, restore the remains and delete the confirmed one.
   `FallbackKept` therefore excepts a tree that a commit has begun to delete, and
   `AtomicUpdate` has `Relapse`. The installation recovers (`AlwaysBootsAgain`), by
   downloading again.
2. `update_windows.go:60`: an unconfirmed launcher that finds a still newer
   release overwrites the marker, and its helper backs up the unconfirmed
   launcher over the one that worked. Besides, `update_windows.go:147`: a marker that
   cannot be read is removed together with the backup, also while the launcher it is
   about is unconfirmed; if that one does not work, no launcher does
   (`LauncherUpdateUnreadable.cfg`).
3. `closeguard.go:78`: the close guard dials QMP as soon as the user confirms,
   also in the guest's early boot, where `docs/FINDINGS.md:241` forbids it. The
   guest wedges, and the supervisor kills it and launches again although the user
   asked to shut down. The forwarder does look at `guestUp`, but dials after that
   (`winkey.go:140, 144`): against `winkey.go:134`, "It never dials before the
   supervisor's handshake succeeds", a dial can reach the guest of a relaunch in its
   early boot (`SessionForwarderDial.cfg`). It does so once at most, since `guestUp` is
   false by then (`ForwarderWedgesOne`).

With `-runtime-release` the two payloads of a launch can have different versions.
`recordPayloadUpdate` then starts a new journal for the second and forgets the
first, so `UnconfirmedIsJournaled` and `AtomicUpdate`'s promise need the assumption
that a launch asks for one release, the default (`MCWants` in the runs,
`OneRelease` in the proofs).

## 4. What is proved

For every value of the constants that satisfies the modules' assumptions.

`PayloadUpdateProofs`, for any set of releases and any number of faults:

- `TypeCorrect`.
- `FallbackIsKept`, `UnconfirmedStaysJournaled`, assuming `OneRelease`. Neither is
  inductive: a step of a rollback needs to know which updates are settled by
  then. `Inv` adds `PreviousIsBase` (a previous tree is the replaced one or a
  leftover), `SettledAt` (what is settled at each program counter), `OneVersion`
  (the journal's version while a second payload is staged) and `BaseAt` (where
  the replaced tree of the update in progress lies). `StepInv` has one step per
  action.
- `GuestIsWhole`: the invariant `GuestInv` says that a guest tree with a
  release's receipt and every checked file is complete, since the receipt is
  written last and a removal takes a checked file with it, and that a session
  holds on to such a tree.
- `NothingLostOnCommit`, assuming `~HaveStock`: `CommitInv` says that a guest that does
  not run on the bundled runtime has no runtime on trial. An update is journaled
  only by a launch that recovered first, and a failed publication ends the launch;
  with a stock QEMU it does not (`MCPayloadUpdateStockCommit.cfg`).
- `RecoveryIsFrozen`: from `RecoveryInv`, a recovery launch has nothing pending
  and is never in a program counter that replaces a tree.
- `ReceiptIsTruthful`: the property is about the runtime under its own name, and is
  not inductive, since a rollback brings a tree back under that name. `RuntimeInv`
  says the same of the trees under all four names.
- `Implements`, assuming `OneRelease`: every launch maps to `AtomicUpdate`. `Init` maps to
  its `Init`; of a step, `PhaseStep` shows that the launch goes on to a phase it may
  enter, `ChangeStep` what happens to the transaction, `Booted` and `StillRunning` what
  the guest runs on, and `Simulates` puts them together. 18 of the 30 kinds of steps
  leave `stable`, `trial` and `remains` alone (`Silent`); `Record` is `Try`, `GuestReady`
  is `Confirm`, the end of a rollback is `Undo` (`RollbackUndoes`), or `Relapse` where
  remains lie (`RollbackRelapses`), and an installation in place is `Repair` (`Repairs`).
  `Inv` and `GuestInv` do not suffice. `TrialInv` adds, in five parts, what they do not
  say: a staged tree is whole until it is published (`NextIsWhole`); what is on trial
  is whole, absent, or the replaced tree itself, also after a publication or a
  session's rollback that failed half way (`TrialShown`); the GPU is used only with
  a runtime that is there, so a session's rollback has something to put back
  (`OnGpu`); only what is incomplete is installed in place (`RepairInv`); and an update
  starts only where there is something to go back to (`Replaceable`).

`LauncherUpdateProofs`, for any number of releases, helpers, deaths and failures,
assuming `Prompt` and, as the properties do, a hasty user. The invariant `Sound` has
four parts:

- `Files`: the backup is of a proven version, not newer than the launcher; an
  unconfirmed launcher has a backup, a marker that names both, and no check due,
  unless the installed version is in `unread`.
- `Launcher`: a launcher that runs is the installed one, because its file cannot
  be replaced under it; only a confirmed one starts an update.
- `Rollback`: a rollback helper is the backup, running, so nobody replaces that
  file either.
- `Update`: there is one update helper at a time. Before it replaces the launcher,
  what is installed works and is older (`Updating`); past its backup there is no
  rollback helper, and the marker is already written when it copies. This is where
  the order of `applyLauncherUpdate` (read the marker, back up, mark, copy) is needed.

A launcher that cannot read the marker (`UnreadableStep`) breaks `Files` for the
version the marker was about only: the next update starts from a confirmed launcher,
so `Files` holds again for what it installs.

`Revertible` and `GoodKept` are consequences of `Files` alone, with its exception.
`ReplacedByNewerOrBackup` holds without one. It is an
action property and takes all four parts: the installed launcher changes only from one
that works to a newer one, or to its own backup, so never from one unconfirmed
launcher to another. `Prompt` cannot be
dropped, as finding 2 shows; `TypeCorrect` holds without it and for every habit.

`SupervisorProofs`, for any number of attempts, any starting memory from 1 to
64 GiB, any number of reboots and any limit of unanswered queries, from one
invariant `Inv`:

- `Budget`: attempts spent, plus rungs left, minus launch wedges, is at most
  eleven. `LadderAlwaysFits` follows: the ladder alone never exhausts twelve
  attempts, whatever the order of failures. Its step is the lemma `RungTaken`,
  every complaint answered with another attempt takes a rung, and with it
  `LadderAlwaysDescends`.
- `Processes`: where `supervise` is determines what the QEMU process can be.
  `NoQemuLeft` follows.
- `Announcements`: a flag is set, or about to be, only by the guest that runs
  now; an announced reboot stays on record until it is decided upon.
  `CommitsAreFresh` follows, and with `Events` (a SHUTDOWN line says what the
  guest did) `RebootsAreUnderstood`.
- `Silence`: a running QEMU owes at most one answer. `HealthyAreSpared` follows.

`PortableDiskProofs`, for any set of images, any number of disks, failures and
interruptions, from one invariant `Inv` (`Safe`):

- `Paired`: in every place a pair may be, disk and identity match if both are
  there. `IdentitiesPaired` follows.
- `Preparing`: what `preparePortableDisk` has done when it is about to do each
  step; when it boots, the disk is of the factory image. `BootedOnFactory` follows.
- `Halfway`: after how many renames of a reset which of the four files lies where.
  The plan has three or four renames, depending on what the old pair consisted of;
  `Paired` is not inductive without it, because a rename or its undoing moves one
  file of a pair to where the other has to be, or nothing.
- `Numbers`: the disk being made is another than all there were.
- `Implements`: every action maps to `GuestDisk` (`Simulates`). The renames of the old
  disk, there and back, are stutters, for the mapping follows it (`MovedAside`,
  `MovedBack`); the last rename is `Replace` or `Make` (`Swapped`); a reset that stops
  in between is `Replace` with no disk (`Interrupted`).
- `PayloadSwapRefused`, assuming that all images ask for the same capacity.
  Without that it is false (`PortableDiskLarger.cfg`).

`StandardDiskProofs`, for any factory image and sizes and any number of disks,
failures, interruptions and cancellations, from one invariant `Inv` (`Safe`):

- `Places` says which files exist at each program counter: the reset's staging
  disk and its retained disk only between its steps, no `disk.raw` between the
  two renames, a whole one when the launch is done. `WholeDiskBooted` follows.
- `Removable`: while cancelling may still remove the data folder, nothing that was
  ever complete is in it. Without it the cleanup would break the promise.
- `Numbers`: the disk being made is another than all there were.
- `Implements`: `Init` and every action map to `GuestDisk` (`Simulates`). Most
  steps are stutters; the second rename of a reset is `Replace`, or `Make` when
  the old disk was torn (`Swapped`); a reset that dies between the renames or
  cannot take the first one back is `Replace` with no disk (`Interrupted`);
  setting a torn copy aside is invisible. `BootedAreKept` follows from
  `GuestDisk` alone.

`ClipBridgeProofs`, for any set of items and any number of copies, connections and
failures, from one invariant `Inv`:

- `Links`: who uses which connection. The host's is the newest it has taken, or
  none; a sender holds the mutex and writes to the host's connection.
- `Recorded`: what the bridge wrote to the Windows clipboard is the recorded item as
  soon as the mutex is free. `NoEcho` follows.
- `Crossing`: where a copy is that was made while both sides agreed. Either they
  agree still, or Windows has it and somebody is bound to send it (`ToBeSent`), or
  it is `OnTheWire`, or the guest has it and its watcher pushes it (`FromGuest`), or
  the host is `Accepting` it. `AgreeAtRest` says nothing of a bridge that is busy, so
  only the five cases together are inductive: each step leads from one of them to
  another, and a lost connection leads back to `ToBeSent`. At rest only `Agreed` is
  left (`CopyCrosses`).

`SessionProofs`, for any capacity of the queue, any number of blocks, boots and
events:

- `RetriesAreSpared`, with `Spared`: `guestUp` is set only from the handshake to the end
  of that QEMU, which is past its early boot then, so a dial that is under way was
  begun since the last handshake; there is one forwarder, and the dial that wedges
  a launch is the last until the next handshake.
- `KeyIsReleased`, with `Pressed`: unless a release was lost, the last event in the
  queue is a release when `winDown` is false, and with an empty queue the guest's
  key is up.
- `HolesOnlyOfZeros`, with `Scanning`: the run ends where the scan reads next and has
  no data in it; behind it everything without data is punched or in the run;
  ahead of it nothing has changed.

`MaintenanceProofs`, for any number of folders, updates, failures and writes:

- `ArchivesWhole`, `UntriedPending`, from `Inv`: a backup in the making is of a
  confirmed guest and of a disk no QEMU has open, whose first half is still what
  is on the disk (`Copying`). `HeldDisk` is the reason: no guest runs on it, the
  process itself does nothing else, and the helper cannot delete an open file.
- `AskedBackupKept`, assuming `HelperFirst`: `Safeguard` says at each program counter
  what is left to do or already done for a user who asked, and `Removing` hands
  that on to the helper.
- `HomeFound`, assuming `HelperFirst` and `~BesidePointer`: `Folder` says which folder a
  process works in, and that neither a process nor the helper deletes the one that
  launches without `-dir` look for.

Both assumptions are needed (`MaintenanceHelper.cfg`, `MaintenanceBeside.cfg`);
`Inv` needs neither.

Only model-checked:

- the liveness properties, since the prover does not reason about fairness:
  `PendingSettles`, `AlwaysBootsAgain`, `BrokenUpdateIsReplaced`, `HungIsReaped`,
  `EveryStopEnds`, `FreshAlwaysBoots`, `StalePartIsOvercome`, `DownloadEnds`, `ComesToRest`,
  `ClockIsCorrected`, `ResetGetsThrough`;
- `PublishedIsAuthentic`: the one step that publishes compares the digest, so a proof
  would repeat its guard. What TLC adds is that stale, mixed and shortened bytes do
  reach that step.

## 5. What is not modelled

- Contents: unpacking, signatures, QCOW2 and raw formats, archives' formats and
  sizes, clipboard formats, image contents. A digest identifies what it is the
  digest of.
- Windows dialogs, tray, diagnostics, registry entries and shortcuts: I/O in a
  straight line or window messages. The build scripts and the signing tool are
  not part of the running program. The script that sets the guest up, apart from
  its clipboard bridge, is the environment of `Supervisor` and `Session`.
- The budget of a reclaim request during a session (`agent.go:122`); the
  arithmetic of CPU, memory and disk defaults.
- Other programs that open the files.
- A cancel's way to a running operation; `StandardDisk` and `PortableDisk` let it
  arrive at every step.
- `-fresh` while a payload update is pending asks for a backup before it rolls the
  update back (`main.go:399-408`), and the backup is refused for that update:
  `Maintenance` has this path (`Ask`, `GiveUp`), and the user gets out of it by a
  plain launch or by skipping the backup.
- Uninstalling from Settings may leave the folder when the executable that shows
  Settings runs from it.

## 6. Plan

Done: all modules of section 2 and the proofs of section 4. `PayloadUpdate` implements
`AtomicUpdate`, `PortableDisk` and `StandardDisk` implement `GuestDisk`; `Maintenance`
composes the refusals of a reset with both updates and an orphaned QEMU.

Left:

1. `Sizing`: CPU, memory, disk and version arithmetic against reference
   definitions.
2. `Download`: a theorem about the length of the `.part` file (`PartFits`), which TLC
   can check as it stands.

## 7. Running

    tlc -workers 2 -config MCPayloadUpdate.cfg MCPayloadUpdate.tla
    tlc -workers 2 -config Supervisor.cfg Supervisor.tla
    tlapm PayloadUpdateProofs.tla

The other proof modules are checked the same way; each takes from half a minute to
several minutes.

Every run of `PROJECT.json` names its module and configuration.
