# easy-send in TLA+

Formal models of [easy-send](../src/README.md), a file transfer application for one
local network: a Flutter app over a Rust core, and an independent Go command line
that speaks the same protocol. The models are translated from the source, checked
with TLC on small instances, and the properties that matter most are proved with
TLAPS for instances of any size.

`PROJECT.json` lists components, runs, mutants, the source lines behind every
definition, the hazards and the theorems. This file explains them.

## 1. The system

Every device is both a client and a server. A transfer goes like this:

    sender                                   receiver
    prepare-upload (names, sizes)  ------->  Idle -> Pending, approval dialog
                                   <-------  200 with session id and tokens: Sending
    upload f1, then f2, ...        ------->  saved in the folder, counted, reported
                                   <-------  200; after the last file: Idle
    cancel (any failure, any stop) ------->  Idle

Beside it, every device announces itself by UDP every five seconds, answers the
announcements of others, and lists those it has heard in the last fifteen.

### 1.1 Components

| Component | Source | State | Operations | Hard behaviour | Correct when |
|---|---|---|---|---|---|
| Receiver | `core/transfer/recv.rs` | `State` (Idle, Pending, Sending with session, tokens, received files) behind a mutex; the trust list | `handle_prepare`, `handle_upload`, `handle_cancel` on any number of connections | no lock is held over an await: handlers overlap while a user thinks or a disk writes; hyper drops a handler when its client goes; crash | one request at a time; nothing stored without approval; nothing stored twice; it becomes free again |
| Sender | `core/transfer/send.rs`, `send_files` in `api/easy_send.rs`, `cmd_send` in `bin/easy_send_rs.rs` | the calls of one transfer, `session_slot` | `prepare_upload`, `upload_file`, `cancel` | stops at any await, lost answers, crashes; cancel and upload travel on different connections | "done" means stored; every transfer ends; the receiver is told |
| Send job and card | `api/easy_send.rs`, `lib/src/send_controller.dart` | `SENDING`, the spawned task, the event stream, the card | `send`, `cancel`, `dismiss`; `send_files`, `send_cancel` | look, spawn and store are separate steps; cancels that come late; engine replaced under a running task | one transfer at a time, its card shown, exactly one end event |
| Save folder | `save_body`, `resolve_collision` in `recv.rs` | files, chosen names | resolve, create, write, remove | look and create are separate; handlers dropped in the middle | no overwriting, reported files whole, failures leave nothing |
| Discovery socket | `core/discovery.rs` | socket cell, `read_task`, read loops | `announce`, `bind`, end of a loop, `stop` | two announcers in `bind`; the OS closes sockets; stop in the middle | a closed socket is replaced; one loop reads; quiet after stop |
| Device list | `core/discovery.rs`, `node_start`, `node_device_events`, `app_controller.dart` | device map, `last_devices`, broadcast channel, what the app shows | hear, prune, emit, subscribe | two loops emit; late and lagging subscribers | the app ends up showing the list |
| Trust store | `core/security.rs`, `trust_*`, `AppController.trusted` | map in memory, `trusted.json`, the app's cache | open, add, remove, list | save fails, crash while writing, two processes, cache read before the add | an approved device stays known, a forgotten one forgotten |
| Node lifecycle | `node_start`, `node_stop`, `applySettings` | `NODE`, receiver and discoverer of the node | start, stop, restart with new settings | failure half way; two restarts at once; connections of the old node | one node serves; a stopped one frees its port |
| Saved-file events | `node_saved_events`, `_onSaved`, `MainActivity.kt` | broadcast channel, recent files, Downloads | report, export | no snapshot for late subscribers | every reported file is shown |
| Go receiver | `go-cli/internal/transfer/recv.go`, `main.go` | its own state machine, terminal prompt | the same three routes | other completion and cancel rules; prompts that outlive their request | as the Rust receiver |
| Addresses and pinned connections | `discovery.rs`, `protocol.rs`, `send.rs` (`FingerprintVerifier`, `exchange_info`), `send_tab.dart`, `resolve_target` | who serves where, the address listed, the device chosen, its connection | announce, hear, expire, add by hand, choose, confirm, send | devices move and swap addresses while a dialog is open; datagrams late or lost; a command line that announces without serving | files reach the chosen device or nobody; the list catches up |
| Identity | `security.rs` | `cert.pem`, `key.pem` | load or create | crash between the two files | a device keeps its fingerprint |

They interact in four ways: HTTPS calls between devices (Sender and Receiver);
callbacks inside the Rust process (`on_approval`, `on_saved`, `on_changed`); broadcast
channels from Rust to Dart (devices, saved files) and one stream per send; and shared
cells under short locks (`State`, `SENDING`, `NODE`, the socket cell, the device map, the
trust store).

### 1.2 Modules

| Module | Models | Variables and the code behind them |
|---|---|---|
| `Receiver` | the handlers of `recv.rs`, one action per lock-to-await stretch | `state`/`session`/`received` = `State`; `prepare[p]` = where the handler of request p is or what it answered; `uploads` = handlers between the token check and the end of `save_body`; `reported` = files handed to `on_saved`; `trusted` = the trust list |
| `SingleSession` | what a receiver promises: one request at a time, each file taken once | abstract specification, implemented by `Receiver` |
| `Transfer` | senders against one `Receiver` (composed by `INSTANCE`), with calls in flight | `job`, `at`, `call`, `acked` = the task of `send_files`; `cancels` = cancel requests under way; and the variables of `Receiver` |
| `SendJob` | the card, `send_files` around its task, `send_cancel` | `phase`, `sub`, `presses` = the card; `events` = the stream; `at` = the call; `job`, `session`, `aborted` = the task and `session_slot`; `sending` = `SENDING` |
| `SavedFiles` | names and files of the save folder | `dir` = who wrote to the file at each path; `at`, `target` = each `save_body`, with what it left to the blocking pool when it was dropped; `raced` = those that found a name in use, and those that used it (history) |
| `DiscoverySocket` | `bind`, `current_or_rebind`, the read loop's end, `stop` | `socket`, `readTask` = the two cells; `loop`, `closed` = the sockets; `at`, `mine`, `stop` = program counters; `mixing` = what happens within a bind in this behaviour |
| `DeviceList` | the list's way from the two loops to the app | `devices`, `last`, `channel`, `shown`; `emit`, `snap` = the two loops in `emit`; `sub` = `node_device_events`; `crossed` = the newest snapshot was taken beside another hand-over (history) |
| `TrustStore` | every store opened on `trusted.json`, one after the other or side by side, and the app's list | `file` = `trusted.json`; `memory` = `TrustStore.devices`; `at`, `saving` = where each `save` is; `asked` = approvals on their way to `handle_prepare`; `calls`, `answers`, `cache` = `_refreshTrusted` and `AppController.trusted`; `settled` = what the last save of each device left, `lost` = who was forgotten with a damaged file (histories) |
| `Node` | `node_start`, `node_stop`, `applySettings`, the app's start and its crashes | `node` = `NODE`; `at`, `config` = the calls of `node_start`; `serving`, `told` = loops that run, and that were aborted; `file`, `settings` = `settings.json` and its copy; `cert`, `key` = who wrote the identity; `shown` = fingerprints peers have seen, `torn` = the writing of the identity was cut off (histories) |
| `Addressing` | where devices serve, what they announce, what one device lists, and whom its transfer reaches | `home` = the address each listener is bound to; `onWay` = datagrams; `list` = `Inner.devices`; `trusted` = the trust list, which grows and shrinks beside the transfer; `revoked` = the chosen device was forgotten during it (history); `phase`, `target`, `pool` = the transfer, the `Device` it was given, its client's idle connection |
| `MC*` | instances for TLC | |
| `ReceiverProofs`, `TransferProofs`, `SendJobProofs`, `SavedFilesProofs`, `DiscoveryProofs` (of `DiscoverySocket` and `DeviceList`), `TrustStoreProofs`, `NodeProofs`, `AddressingProofs` | theorems and proofs | |

An action is what a handler or task does under its locks and on to its next await
(or, where threads rather than awaits interleave, to its next lock). Mutants, variants
of an action with a plausible bug, stand directly before the action they spoil, are
commented as such, and no specification uses them.

`Transfer` uses the actions of `Receiver` for everything the receiver does, and implements it
(`ImplementsReceiver`, checked by `TransferFaults` and proved in `TransferProofs`): restricted to
the receiver's variables, its behaviours are those of `Receiver` where only requests whose user may
stop them in an upload, or whose calls may break, are `Overtakers`. With neither, that is the
orderly `Receiver` of the second half of `ReceiverProofs`: what is proved of orderly clients holds
of the senders in this repository when they are not stopped in the middle of an upload and no
connection breaks.

`DeviceList` calls its formulas `ListInit`, `ListNext`, `ListSpec` and `ListTypeOK`, so that
`DiscoveryProofs` can extend it beside `DiscoverySocket`.

## 2. Runs

| Run | Question | Instance | Result |
|---|---|---|---|
| `ReceiverOrderly` | What holds if cancels wait for the running upload? | four requests of two peers: two with two files, one with one, one empty; all may vanish; `Overtakers = {}` | `SavedOnce`, `OnlyApprovedFiles`, `OneSession`, `NoStrayUpload`, `SessionEndsWithLastFile` and the refinement of `SingleSession` hold |
| `ReceiverOvertaken` | And if they do not? | the same, all overtake | `OneSession` violated (finding 1) |
| `ReceiverAbandoned` | Does a dialog always end? | as `ReceiverOrderly` | `PendingEnds` violated (finding 2) |
| `TransferFaults` | What do users see under every fault, and do senders behave as `Receiver` assumes? | three transfers, of two files, one and none; the first has broken calls and may be stopped at any time; the first two may crash; the receiver may restart | `DoneMeansSaved`, `TransferEnds`, `ReceiverFreed` and the refinement of `Receiver` hold |
| `TransferStoppedEarly` | Does a stop free the receiver? | three transfers, stops while waiting, no other fault | `StopFreesReceiver` violated (finding 3) |
| `SendAny` | Is there one job, one card, one end? | two sends; cancels at any time; engines replaced | `OneJob`, `HandleEnds`, `CardShowsJob`, `OneEnd`, `CardEnds` hold |
| `SavedAny` | Is anything overwritten, damaged or left behind? | three uploads under names that collide with each other and with a file of the user; all may be dropped | `NoOverwrite`, `KeptWhole`, `NoRemains` hold; uploads that found the same name are the first two's exception |
| `SocketAny` | Is a dead socket replaced, and does stop stop? | two announcers, six sockets, five closings; each behaviour chooses which of announce, close and stop may come within a bind | `OneLoop` holds in all, `HeldIsRead` and `RecoversInTurn` if binds are left alone, `QuietAfterStop` if stop leaves binds alone |
| `DevicesAny` | Does the app end up with the list? | two devices, two announcements each, a channel of two entries, two loops that hand over when they like | `UpToDate` holds; a snapshot taken beside another hand-over is its exception |
| `TrustAny` | Does a device the user trusts stay trusted, and one forgotten forgotten? | two devices, three stores; saves that fail, crashes in a save; each behaviour has one kind of overlap, or none | `KeepsWord` holds; its first half is of stores that follow one another, the second, when the file may be damaged, of all; `CacheFollows` holds if nothing overlaps |
| `NodeAny` | Does one node serve, under the newest settings and the old fingerprint? | four starts, two settings and one whose folder cannot be created; files and sockets that fail, crashes anywhere; each behaviour chooses whether calls overlap | `KeepsFingerprint`, `StartSucceeds` and the first half of `OwnedOnly` hold in all, `NewestSettings` and the rest of `OwnedOnly` if calls do not overlap |
| `AddressingAny` | Whom does a transfer reach, and does the list catch up? | two devices on one host with two ports, so that either may come to serve where the other did; one of them has a command line that announces without serving; each may be trusted and forgotten at any time | `ReachesChosen`, `ListedServed`, `CatchesUp` hold |

`TypeOK` (`ListTypeOK` in `DeviceList`) is checked in every run that passes but `ReceiverOrderly`: that of `Receiver` is a conjunct of the one
of `Transfer`, and proved.

### Bounds

* `Receiver`, `Transfer`: no bound on steps; the finite sets are the instance. A request is
  one call and never repeats, so behaviours are finite but for trust edits and restarts.
  Two requests collide in every way two can; the third is the one that meets what the
  collision left; the fourth is the empty one. Two files make a session partly delivered.
* `SendJob`: `MaxSends = 2`: the hazards need a send and what an earlier one left. Three
  sends have been run too (2.6 million states), with the same result. `MaxEvents` bounds
  only how many progress events may wait.
* `SavedFiles`: `Numbers` is large enough for every collision of the instance: a
  name is tried at most once per file that is there.
* `DiscoverySocket`: `MaxSockets` exceeds `MaxCloses` by one in `SocketAny`, so binds in turn
  never run out of sockets; the liveness claim is only about those.
* `TrustStore`: three stores are two restarts, so that a damaged file is found, replaced and read
  again; three entries (`MaxTime`) are a device entered, lost or forgotten, and entered again beside
  another. `MaxCalls = 2` is the least with which answers overtake one another. The two devices are
  symmetric: no action or property tells them apart, and all that is checked is invariants.
* `Node`: four starts are a first one, two calls that overlap, and one after a crash.
* `Addressing`: two addresses are enough for each device to be found where the other was listed; three
  arrivals let one come, go and be followed by the other while a choice is pending, and two datagrams
  under way overtake one another. A command line's announcements share the bound of the arrivals.
* `DeviceList`: a channel of two overflows with three changes; the code's 64 only needs more.

### Fairness

* `Receiver`: sixty seconds pass (`tokio::time::timeout`) and a handler with an answer runs
  on. Nothing makes a user answer, a client call or a disk finish.
* `Transfer`: calls are carried and answered, handlers finish, a reset connection is
  noticed, the spawned tasks run. The last assumes that a receiver that dies resets its
  connections; a host that vanishes without a trace leaves the sender waiting, because
  the client sets no timeout of its own. No user, fault or crash is fair.
* `SendJob`: threads run, events are delivered, an upload does not make progress for ever.
* `DiscoverySocket`: the interval ticks, reads on a closed socket return, and a bind that is
  tried again and again succeeds at some time (strong fairness of `SpawnLoop`: a bind may
  fail, but not every one of them).
* `Node`: a call of `node_start` that was made goes on to its end (weak fairness of its steps). No user,
  crash or failure is fair.
* `Addressing`: the five-second interval announces a device that serves, again and again, although
  the network may be full (strong fairness of `Announce`); of each device's datagrams some arrive, now
  and then (strong fairness of hearing any of them, not of each); none stays under way for ever (weak
  fairness of `Hear` or `Lose`); an entry that is not renewed expires.
* `TrustStore` has safety properties only.

### Assumptions

* `Receiver`: a client uploads one file after the other, as `send_files`, `cmd_send` and the Go
  sender do. One that uploaded a file twice at once would get it stored twice
  (`recv.rs:247` checks before the body is read, `recv.rs:258` counts after it).
* Overtaking (`Receiver`): a client *overtakes* if its cancel can be handled while
  its upload is. `send_files` and `cmd_send` are orderly when they cancel after a failed
  answer; a stop or Ctrl+C in an upload overtakes. Properties are stated for all such
  clients or for orderly ones, and each says which.
* `SavedFiles`: an error of `remove_file`, which the code ignores, is left out.
* `DiscoverySocket`: `mixing` says in each behaviour what comes within a bind. The code
  excludes none of it; closing and the five-second interval make it rare.
* `TrustStore`: `mixing` names what overlaps in a behaviour. `stores` is two processes on one folder, or an old
  node's connections beside a new node; `dialogs` is incoming requests being approved; `hurry` is
  a user who makes a change before the last one shows. The code excludes none of them.
* `Node`: `overlapping` says whether `applySettings` may be called while another runs (the settings tab
  does not wait). An identity file that is only partly written is taken for one whose key is missing:
  either way no start can use it. A failed write of `settings.json` leaves it as it was or damaged.
* `Addressing`: `/info` answers come from the device whose certificate the connection shows; the user
  knows of an address only where that device has served. rustls checks that a peer owns the
  certificate it shows.
* `SendJob`: a new engine does not start while a call is on its way from its check
  of `SENDING` to the store of the handle, a stretch without an await; progress events come
  before the end event of their send.
* Where hyper drops a handler, a file operation already handed to tokio's blocking pool may happen
  at any time after it (`Dropped`, `LateCreate`, `LateRemove`).

## 3. Proofs

| Theorem | Says |
|---|---|
| `ReceiverProofs!TypeCorrect`, `SavedOnceAlways`, `ApprovedFilesAlways` | `TypeOK`, `SavedOnce`, `OnlyApprovedFiles`, for any requests, files and clients, overtaking ones included |
| `ReceiverProofs!OpenLacksFileAlways` | no session stays open that has all its files, for the same clients: whoever counts the last file ends it |
| `ReceiverProofs!OneSessionAlways`, `NoStrayUploadAlways`, `EndsWithLastFileAlways` | `OneSession`, `NoStrayUpload`, `SessionEndsWithLastFile`, assuming `Overtakers = {}` |
| `ReceiverProofs!ReceiverImplementsSingleSession` | `Receiver` implements `SingleSession`, under the same assumption |
| `TransferProofs!TransferTypeCorrect`, `DoneMeansSavedAlways` | `TypeOK` and `DoneMeansSaved`, for any transfers and files, any stops, broken calls, crashes and restarts |
| `TransferProofs!TransferImplementsReceiver` | `Transfer` implements `Receiver`, step by step, with the same faults |
| `SendJobProofs!SendTypeCorrect`, `OneJobAlways`, `HandleEndsAlways`, `CardShowsJobAlways`, `OneEndAlways` | the invariants of `SendAny`, for any number of sends and of waiting events |
| `DiscoveryProofs!SocketTypeCorrect`, `OneLoopAlways` | types, and one loop at most, for any interleaving |
| `DiscoveryProofs!QuietAfterStopAlways`, `HeldIsReadAlways` | quiet after stop; the held socket is read when binds are left alone |
| `DiscoveryProofs!ListTypeCorrect` | `ListTypeOK` |
| `DiscoveryProofs!UpToDateAlways` | `UpToDate`, for any devices, loops and capacity, however hand-overs overlap |
| `SavedFilesProofs!SavedTypeCorrect`, `NoOverwriteAlways`, `KeptWholeAlways`, `NoRemainsAlways` | the invariants of `SavedAny`, for any uploads, names and folder |
| `TrustStoreProofs!TrustTypeCorrect`, `KeepsWordAlways`, `CacheFollowsAlways` | the properties of `TrustAny`, for any devices, stores and restarts |
| `NodeProofs!NodeTypeCorrect`, `OwnedOnlyAlways`, `KeepsFingerprintAlways`, `NewestSettingsAlways` | the invariants of `NodeAny`, for any settings and number of starts |
| `NodeProofs!UnfitForAReason` | a start that fails without an error of its own has a bad folder, or an identity torn earlier |
| `AddressingProofs!AddressingTypeCorrect`, `ReachesChosenAlways`, `ListedServedAlways` | the invariants of `AddressingAny`, for any devices, addresses and moves |

The only facts about constants used are the named assumptions of the modules
(`RequestsAssumption`, `TransferAssumption`, `SendAssumption`, `BoundsAssumption`,
`DeviceListAssumption`, `SavedFilesAssumption`, `TrustStoreAssumption`, `NodeAssumption`,
`AddressingAssumption`), and what the theorem itself assumes, as the table says. Each assumption is
evaluated by the runs of its module; each one a theorem makes is met by a run
(`Overtakers = {}` by `ReceiverOrderly`, the only one).

**`CoreInv` (all clients).** `SavedOnce` (no running upload of a reported file) is not
inductive: an upload is checked against `received`, not against `reported`. What carries it
is `ReportedCounted`: a file of the *open* session that was reported is in `received`. That
in turn needs `SessionShape` (an open session is an approved request) so that a session, once
over, is never opened again. `OpenLacksFile` rests on `CountsShort`: the count of the open session is
below the number of its files, whatever files were counted. It grows by one at a time (`CountsUp`), so
it cannot pass the number, and whoever meets it makes the receiver Idle; a session starts below it
because an empty request gets no dialog (`NothingEmpty`).

**`OrderlyInv` (orderly clients).** One dialog and one session exclude each other because
only `Ask` leaves Idle, so the invariant must show that nobody else makes the state Idle
underneath a dialog. The only such steps are those of an upload handler, and
`NoStrayUpload` says that each runs for the open session. To keep *that*, a session must not
end while an upload of it runs, which needs `OneUploadEach`; and the count comparison
must not be met by foreign files, which needs `CountedIsReported` (`received` is exactly what
was reported of this session, a proper subset of its files) and finite cardinalities
(`CountDecides`). The refinement maps `state`, `session`, `received` to the abstract phase, owner and
files got; every step is then a step of `SingleSession` or a stutter (dialogs' answers, uploads
that start).

**`TransferInv` (senders and receiver).** `DoneMeansSaved` needs what joins the two sides: a 200 that is on its
way, or was counted, is of a file that was reported (`AnswerIsReport`), and a handler that stores a
file serves the call its sender made last (`UploadIsCall`). That the receiver is left free
of the session is `CountsShort` again: one whose files were all reported is not open. For
the refinement, every step but a cancel is a step of `Receiver` whoever the clients are
(`ServedHandles`). A cancel is one only if no upload of its request runs, which `CancelIsLast` says of
every sender that is not stopped and whose calls do not break: it cancels after the last answer, and sends
no more. The receiver's own invariant is proved here once more (`ReceiverKeeps`): the proof system does not
let one cite a theorem of a module that is instantiated.

**`SendInv` (send job).** The card is in flight for one call at a time and listens to it, from before the
call has looked at `SENDING` (`Busy`, `CardOfCall`), and a task runs only within its call
(`TaskOfCall`): `CardShowsJob`, and `OneJob` as long as there is one engine. Past a new engine
the card knows nothing, and `OneJob` rests on the handle: until a cancel takes it, `SENDING`
is that of the one call that has stored it, so a second call is refused (`HandleKept`). `OneEnd`
counts; the invariant says where the one end is, with the call (`Owed`) or in the queue, and that it is
the last event of its call there (`EndsOnce`).

**`Reachable` (socket).** A loop that reads is the one in `read_task` or still in the hands
of the announcer that spawned it. `OneLoop` and, with `StoppedInv` (nobody is in bind
once stop has begun), `QuietAfterStop` follow. **`TurnInv`** adds, for binds that are left
alone, that the cell is empty while someone binds and that the socket in that
announcer's hands is open and read.

**`ListInv` (device list).** `UpToDate` looks at moments of rest. In between, and as long as the newest
snapshot was taken while no other was carried (`~crossed`, so `OneCarried`), the list that is
newest is that snapshot, else `last`, unless a change waits to be emitted (`InOrder`); and with none carried
the newest entry of the channel, or what is shown if there is none, is `last` (`SentLast`). A channel that
overflows loses its oldest entry, never its newest (`SentIsLast`). A snapshot that is taken when nobody
carries one establishes all of it, whatever had crossed before.

**`FolderInv` (folder).** Who has raced with nobody has its path to itself, as long as it uses it and as
long as something of it is there (`Apart`): whoever finds a path free that another is using makes both of
them racers, and a path where something is left is not free.
Nobody ever uses a path where the user has a file (`OthersKept`): those are never free. Bytes
of an upload are at its own path only, from the creation to the removal (`Traceable`): `NoRemains`.

**`TrustInv`, `Answered` (trust store).** `KeepsWord` speaks of a store at rest. In the middle of a save, memory
may differ from what was last saved in the device being saved and nowhere else (`Follows`); that the
time of the first approval survives needs `FirstTime`: only a device that is not in memory is
entered. A damaged file always has a save under way, or a device whose save was cut off (`CutOff`).
For the app's list, every answer on its way must be the list of the store as it is
(`Answered`), which a change keeps because it waits until nothing is on its way.

**`NodeInv` (node).** A start that is past `Receiver::start` runs and was not told to stop, because only
the start in `NODE` is ever told, and that one is done (`Loops`). One start at a time, with an
empty `NODE` until it is done and the settings it took still those of the file (`InTurn`), gives the rest:
`_settings` runs ahead of the file after a write that failed, but the next start is made by a write that
succeeded. `Identified` says that all that was shown is the fingerprint of the one `cert.pem`; and
that file waits for its key only while the start that wrote it goes on, beside no other, or else the identity
was torn (`Whole`).

**`AddressingInv` (addresses).** A connection is open only while sending, to the chosen device, which was
trusted when that began, and is unless it was forgotten since (`Confirmed`). A place that is served, announced or listed is one where the device has
been, however late the datagram (`Honest`).

Every invariant that a passing run checks is proved, and so are both refinements. Only
model-checked: the liveness properties (`TransferEnds`, `ReceiverFreed`, `CardEnds`,
`RecoversInTurn`, `StartSucceeds`, `CatchesUp`), since the proof system has no rule for fairness or
ENABLED. For the same reason nothing is proved of whether an action can be taken, such as that
`resolve_collision` always finds a number. Before it was proved, each inductive invariant was
checked as an invariant of its module's run, and `SendInv` with three sends too.

## 4. Findings

### 4.1 With a run

1. **A stale upload makes a busy receiver Idle** (`ReceiverOvertaken`). The error branch
   of `handle_upload` (`recv.rs:271`) sets Idle without checking whose session is open. Cancel,
   next request's dialog, then the old upload fails: the dialog is still up, the state is
   Idle, and a second request is asked beside it. The success branch (`recv.rs:258`) has the
   same blind spot: it counts its file in whichever session is open.
2. **A client that hangs up during the dialog blocks the receiver** (`ReceiverAbandoned`). The
   sixty-second timeout lives in the handler, and the handler goes with the
   connection. Pending stays, every later request gets 409 until a restart.
3. **A stop can leave the receiver's session open** (`TransferStoppedEarly`). Whether there is a
   session to cancel is read from a slot that is filled when the answer is read, not when the
   session is opened. A session has no timeout.

### 4.2 Seen, without a run of their own

Each is found by TLC when the condition named is taken out of the property.

* **A refresh can leave discovery deaf.** Two announcers that both find the cell empty may store the socket
  whose loop was aborted; no later closing of it is ever noticed. `Recovers` of `DiscoverySocket` (checked
  as a property of `SocketAny` with five sockets and two closings) is violated, against
  `discovery.rs:34`, which promises that the announce interval binds again.
* **The app's trust list can stay behind.** `_onApproval` reads the list before the answer that adds
  the device has gone back to Rust (`app_controller.dart:118`, whose comment says that the cache
  follows), and two calls of `trust_list` may be answered out of order. `CacheFollows` fails for
  `dialogs` and for `hurry`; an approved device is missing in the settings tab until the next change.
* **Two stores on one file forget.** With `stores`, `KeepsWord` fails: `recv` and
  `send` of the command line, or the store of an old connection after a restart, write back what
  they once read. A device that was forgotten is trusted again, or the other way round.
* **A save of `trusted.json` that is cut off may forget everyone.** The file is truncated before it is
  written. A crash in between, or an error of the write, leaves it unreadable, and a store opened before the
  next save succeeds takes it for an empty list (`security.rs:87`) and writes that back. `lost` of `TrustStore` holds who was
  trusted then; without it `KeepsWord` fails. No other way to lose a device of a saved list is left
  to stores that follow one another.
* **A failed save is half done.** The device is trusted in memory until the restart, adding it again returns Ok
  without saving (`security.rs:100`), and the next save of any device writes it: that is how `settled` is
  kept.
* **A start can leak its receiver.** A discoverer that cannot start leaves the receiver
  serving without a node (the exception "failed" in `OwnedOnly`); if calls overlap, a start that is overtaken is
  dropped from `NODE` without being stopped, and the older settings may win (`OwnedOnly` and
  `NewestSettings` fail without their condition).
* **Settings that are not saved.** `applySettings` changes `_settings` before it writes the file: if that
  throws, the old node goes on, the settings tab shows what does not run, and a restart of the app has the old
  ones again. `NewestSettings` is therefore about the file, and holds while it is readable.
* **Some errors need a hand.** A crash or an error between `cert.pem` and `key.pem`, or within
  `settings.json`, and a folder that cannot be created, make every later start fail: the exceptions in
  `StartSucceeds` and `Readable`.
* **Device lists can cross.** Without `~crossed`, `UpToDate` of `DeviceList` is violated: the list taken first is
  handed over last, and the app shows a removed device, or misses a new one, until the next change.
* **Two uploads can find one name.** Without `raced`, `NoOverwrite` of `SavedFiles` is violated: the second
  truncates the file of the first. `recv.rs:297` and the project's README promise no overwriting; only a stray
  upload or an unusual client gets there, since sessions of orderly clients have one upload at a
  time (`NoStrayUpload`, and `OneUploadEach` in `ReceiverProofs`).
* **Forgetting a device does not stop a transfer to it**, nor one whose file picker or trust question is
  answered already: hence `revoked` in `ReachesChosen`.
* A handler dropped by hyper leaves a partial file under the name of a received one
  (`recv.rs:316` wants none left in silence); that is why `NoRemains` speaks of failed uploads only.
* After a new Flutter engine and a cancel, `send_files` may clear a later call's handle
  (`easy_send.rs:442`): hence the condition in `OneJob`.

## 5. Plan

Done: `Receiver`, `SingleSession`, `Transfer`, `SendJob`, `SavedFiles`, `DiscoverySocket`, `DeviceList`,
`TrustStore`, `Node`, `Addressing`, and the proofs above.

Next, in this order:

1. Proofs: that senders which are not interrupted meet `OneSession` and `SessionEndsWithLastFile`,
   stated of `Transfer` itself and not only of the `Receiver` it implements; how long a
   device list that was handed over late can stand.
2. The saved-file channel and its subscription through restarts of the node. To state: a file that
   is reported while the app listens is shown.
3. `GoReceiver`: the Go state machine against the same `SingleSession`, with the terminal prompt.

New questions are merged into the runs of their module where they can be: regimes of one module
share a run as `mixing` and `overlapping` do, and what a hazard breaks is named by a history variable rather
than excluded where that can be said.

### Not modelled

* TLS below the comparison of fingerprints: rustls'.
* The JSON of the protocol, file sizes and progress in bytes: nothing that is checked depends on them
  beyond whether sizes match.
* Widgets, layout, argument parsing and terminal prompts; generated bridge code, which hands calls and
  events over in order, as `SendJob` and `DeviceList` rely on; build glue.
* Connections of an old node that outlive it: `Receiver` drops them at a restart. What they can do
  to the trust list is in `TrustStore`.
* The Go command line and the saved-file channel: see the plan.
