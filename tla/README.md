# A TLA+ model of Portalo

Portalo sends files and folders between devices on a local network. A sender
prepares a *task* (an immutable manifest and, lazily, a snapshot of the data),
finds a receiver over mDNS and sends the task over one TCP connection that
multiplexes up to four file streams. The receiver checks every block, saves its
progress in a journal, and publishes the finished file or folder under a name
nobody else uses. Either side may be paused, cancelled, killed or lose power and
the task continues later.

This directory models the way of a file from the user's disk to its name on the
other device: the sender's task directory, capture and kernel copies, the
connection, the receiver's front, journal and publication, and the discovery of
devices. TLC checks it on small instances; for all but discovery, the safety
properties are also proved for every instance. Paths below are relative
to `src/crates/network/src/transfer/` unless they say otherwise.

## Inventory

| component | code | state | operations | interacts with | modelled by |
|---|---|---|---|---|---|
| receiver checkpoint | `storage.rs` `Session`, driven by `transport.rs` `receive_inner`, `receive_file` | `receipt.json`, `receipt`, `pending` (offsets, hashes, dirty files), the payload files, the task's lock, two mutexes | open and recover, write a block, flush, cancel, the flush and check of commit | file system; the handler's worker tasks; the sender through `Checkpoint` messages | `Checkpoint` |
| publication | `storage.rs` `commit`, `published`, `publish`, `recover`; `android_app/.../DirectTransferStorage.java`, `TransferDocuments.java` | `target`, `publishing`, `result` in `receipt.json`; staging directory or document; the Java journals; receive directory; `publication.lock` | choose a name, publish, sync, record, recognise after a crash, cancel | other tasks, the user's own files | `Publication` |
| session protocol | `transport.rs` `send`, `send_inner`, `receive`, `receive_inner`, `finish_commit`; `ui/transfers.rs` | the saved task, the `watch` command, where both ends are, messages in flight | start, pause, cancel, commit, confirm, persist | user interface, receiver checkpoint, publication | `StopProtocol` |
| flow control | `transport.rs` (select loops, `send_file`, `receive_file`), `wire.rs` | bounded queues, credits, windows | send and acknowledge frames and blocks | the socket; receiver checkpoint (one write per block) | `FlowControl` |
| task directory | `storage.rs` `tasks`, `discard`; `preparation.rs` `prepare_*`; `ui/transfers.rs` | a directory per task, `task.json`, `preparation.lock` | prepare, list and collect, complete, discard | other processes of the program | `TaskStore` |
| snapshot and capture | `preparation.rs`, `transport.rs` `CaptureAhead`, `send_file` | descriptor and data of a task, two watch channels | scan, capture ahead, read, drain | the user's files, flow control | `Capture` |
| kernel copy | `../kernel_copy.rs`, `../windows_io.rs` | position in a file, overlapped request | copy with short counts, fall back, cancel | the socket, the handler that may be dropped | `NativeSend` |
| receive ledger | `core/receive.rs`, `../receive_progress.rs`, `../lib.rs`, `ui/receive.rs` | up to two active and eight finished records, a revision, the listener's permits, the page's copy | accept, begin, update, record bytes, dismiss, snapshot | the handler, the user interface | `ReceiveLedger` |
| connecting | `../connect.rs` | none | try addresses one after the other | the listener's permits | `ReceiveLedger` |
| discovery | `discovery/lib.rs` | instances with time stamps, merged peers, registered services | scan, announce, resolve, remove, expire, rebuild | mDNS daemon, the user interface | `Discovery` |
| Android storage | `android_app/.../*.java`, `core/android_storage.rs` | document tree, its own publication journals | prepare, publish, cancel | `Session` through JNI | `Publication` (export and probing left out) |
| manifest, settings, sources, metrics, user interface | `model.rs`, `core/settings.rs`, `../source.rs`, `metrics.rs`, `ui/` | | | | left out, see below |

What is hard in this code:

- **Interleaving.** Up to four workers write blocks on blocking threads while a
  background flush, a closing worker's flush and the last flush of Pause or
  Commit contend for one mutex, and each reads state the others change.
- **Dropping is not stopping.** When a handler is dropped its blocking calls run
  on; only the last reference to the `Session` releases the task's lock.
- **Crashes between two steps**: sync and save, intent and publication,
  publication and record, removal and reset.
- **A command that changes while it is carried out.** Pause and Cancel travel on
  a `watch` channel that is read several times around awaits.
- **Bounded channels around two loops.** Each end is one `select!` loop that
  writes to the socket itself, with up to four workers behind it. Some channels
  are awaited, others filled with `try_send`, where one message too many ends
  the transfer.
- **Work nobody can abort.** A capture, a copy by `sendfile` or an overlapped
  request of Windows outlives the task that started it.
- **Several processes of the program** share the task directory, and only two of
  its operations take a lock.
- **A name space shared with the user**, on Android through a provider that
  renames and copies documents in separate calls.

What makes the parts correct: the journal never claims what the disk does not
hold and never goes back; what was called durable is resumed from; a result
means whole files; nobody's file is replaced and no task is published twice;
both ends agree on whether a task was sent, cancelled or kept; what leaves the
sender is the version that was prepared, frame by frame; lists on the screen
follow what they show; every attempt ends. The hazards behind these properties are listed line by line in
`PROJECT.json`.

## Modules

### DurablePrefix: what the receiver promises

The abstract specification. Per file it knows the prefix a restart resumes from
(`kept`), the largest prefix called durable (`told`), and whether a cancel is
under way (`voided`). `kept` only grows, `told` never exceeds it, and only a
cancel takes both back. The basis is the comment on `Message::Checkpoint`
(`wire.rs:52`): "only `durable` survives a restart".

### Checkpoint: the journal

A position counts whole verified blocks of 4 MiB. What a block contains is
abstracted to "its hash matches", because every write checks the hash first and
recovery compares hashes only. So a payload file is described by the length of
its matching prefix, once as a read sees it (`cache`) and once as a power
failure leaves it (`disk`).

| variables | code |
|---|---|
| `receipt`, `pending`, `dirty` | `Session.receipt`, `Pending.offsets`/`hashes`, keys of `Pending.dirty` |
| `journal`, `result` | offsets and hashes, and the result, in `receipt.json` |
| `worker` | where each `receive_file` task is, including whether its blocking write holds the file's mutex |
| `sync`, `job` | the background flush in `sync_jobs`; the last flush, cancel or commit |
| `flush` | the flush that holds the `checkpoint` mutex: captured positions and dirty files, files still to sync |
| `mode`, `stop`, `left` | where `receive_inner` is, the command, the files a loop has still to visit |
| `told`, `voided` | history |

A write is three steps (lock and order check, bytes, pending state) and a flush
five (capture, one sync per file, save, install, clear), because other threads
run in between. `save` is one step: it writes a temporary file, syncs it, renames
it and syncs the directory, so a crash leaves the old or the new record. `FlushFails`
is a sync or a save that fails, the save also after its rename (the record is
then the new one on disk while memory keeps the old).
`Drop` ends the handler and leaves blocking calls that are running; `Abandon` is
a blocking call that was queued and never starts; `Release` is the last
reference going. `Kill` loses memory, `PowerLoss` also what was not synced,
`WriteBack` is the kernel writing on its own.

Abstractions: a flush may start at any time (the code's 32 MiB and one second
thresholds only ask for one earlier than the tick); a failed `sync_all` leaves
the data in the page cache; at most four streams is not enforced, which only
adds interleavings; the document-provider branches of Android are left out. A
`sync_all` of a file also makes a file created since the last power failure
findable. The code syncs the directories of the staging area only in `commit`
(`storage.rs:947-960`), so this is an assumption about the file system; ext4, XFS,
btrfs, F2FS, APFS and NTFS meet it, POSIX does not promise it.

### Publication: the name

Two tasks with the same manifest name, and the user, share the receive
directory. An object is the task that made it (its inode) and its content, which
stands for kind, inventory, sizes and hashes. A task is published in one of six
layouts: a single file by hard link, or by rename on Android; a tree by rename;
a legacy task outside `publication.lock`, under its fixed name; and in an
Android document tree either *direct* (blocks are received into the document
that is renamed, `DirectTransferStorage`) or *copied* (the staged task is copied
into a document, which is renamed, `TransferDocuments`). `rec` is `receipt.json`,
`journal` the Java side's own record, `copy` the document of a copied task. The
staging directory is none, partial, whole, or *moved* (it exists without the
file that was renamed away).

The steps of `commit` and `publish` are separate actions (name check and intent,
publication, directory sync, record, removal), each may fail, and kills and
power failures come between any two. A power failure undoes publications whose
directory entry was not synced; a rename it undoes puts the data back into the
staging directory. The bytes of a *copied* document are never synced
(`copyPublishedFile`), while the journal that calls it ready is: a power failure
may leave it `Torn`, before or after its rename, and a ready document is renamed
without another copy. The properties below are about names and owners and hold
for torn copies too; that a copied task's file is whole after a power failure is
not among them. The user creates and deletes under every name, and may delete
the documents of a transfer. Content is never empty: an empty file would verify
against no hashes at all, which the model does not tell apart. The file-system
fallback of `publish` outside Linux and Android (check, then rename) is not
modelled. A document provider may put a file under another name than it was asked
for and says so; the model's provider uses the name or fails.

### StopProtocol: how an attempt ends

Both ends of a task over the connections of successive attempts, each a pair of
FIFO channels that may break. The streams inside a connection are one message
per file and its `Closed`. The command is read where the code reads it: before
a file is queued, at the stop branch, when the message is composed, for the
status, and again for what becomes of the task. `Press` is enabled as long as
the user interface shows an active status, which `send` replaces last.
`HandlerFails` stands for every error of the receiver, `Locked` for BUSY.

### FlowControl: one connection

Everything between Resume and Complete or Stopped: both loops, `send_file` and
`receive_file`, and each channel as the sequence of its contents. Sizes are
bytes, with a block of 4 and a frame of 2. A send that waits is a guard on the
length of the channel, a `try_send` or an `ensure!` a check that sets `fault`.
Once a loop has chosen the branch of a packet or a reply it does nothing until
the socket takes it: that is `writing` and `replying`. `closing` is the one
`await` on a channel inside the receiver's loop. The top of the sender's loop
runs before every `select!`, which is why its branches wait for `Selecting`.

A direction of the socket is one channel that also stands for the reader task
and its channel of one packet. Left out: the background flush (it is in
`Checkpoint`, and no branch of the loop waits for it before Pause or Commit),
`durable` in a checkpoint (also in `Checkpoint`), capturing ahead (a block is
ready whenever a worker wants it), Saving heartbeats, and failures of read and
write, which end the attempt and belong to `StopProtocol`.

### TaskStore: the sender's directory

Processes prepare, list, send and discard tasks; `remove_dir_all` takes away one
entry after the other, so a directory may lose its record first or last.
`tasks()` looks at one directory per step and may collect it when it holds
`preparation.lock` and found no record. What a process has listed stays listed
(`entries`) although another one may have finished or discarded the task.
Identifiers are UUIDs and never used twice. Power failures are `Capture`'s.

### Capture: the version that was prepared

One file of a streaming task, from its inspection over any number of attempts,
beside a user who edits it. A *version* stands for content, size, time and
identity; an edit that restores all of these is out of reach of the code
(`INTERNALS.md`). `producer` is the task of `CaptureAhead`, `job` its blocking
capture, `credit` and `ready` the two watch channels with their "seen" marks,
`worker` the `send_file` of the file, `cache` and `disk` the payload as a read
and as a power failure sees it, `journal` the file's descriptor. Dropping the
reader aborts the producer, not the job; `Drain` waits for the guards, `Persist`
comes after. A discard that fails may have removed part of the task, which is then
*damaged*: it can be discarded again and not sent. Offsets count blocks.

### NativeSend: the bytes of a frame

The payload of a `Data` frame is written by the kernel (`sendfile`,
`TransmitFile`) or by a buffered loop, on a blocking thread that goes on when
the handler is dropped. The kernel takes any number of units up to what was
asked, refuses at any call, or ends a submitted request whole or broken; a file
position is shared by the duplicates of a handle, as in the code. `late` stands
for the idle limit and the deadline. Both platforms are initial states.

### ReceiveLedger: the front of the receiver

Senders try the addresses of a device one by one and give each up at any time;
the listener grants a permit or answers BUSY; a handler begins a record, reports
its phases and bytes, and ends it; the ledger keeps every active record and a
bounded number of finished ones; the page polls revisions, and samples bytes
while something is being received. `changed` says that the revision is not the
one the page has seen. Rates and wording are left out.

### Discovery: the list of devices

A service is a host and an interface. The mDNS daemon is a lossy, late channel
that also returns the device's own announcements. It may resolve a service with
any of the addresses its cache has for the host, those the host has given up
(`stale`) included until they lapse, and may drop any service at any time.
`Listen` handles up to `Batch` events of a frame (64 in the code) and rebuilds the
list when it has noticed a change; `Cleanup` drops what was not heard for
`Lifetime` periods. Interface scans run on the I/O pool and may fail, and so may
the announcement of an interface. After `Settle` interfaces rest. An interface has
one IPv4 address at most; port, system and protocol version of a peer, and the
goodbye at exit, are left out.

### The proof modules

`CheckpointProofs`, `PublicationProofs`, `StopProtocolProofs`,
`FlowControlProofs`, `CaptureProofs`, `TaskStoreProofs`, `NativeSendProofs` and
`ReceiveLedgerProofs` extend the module they are named after. Each begins with
the inductive invariant and its named parts, goes on with lemmas about the
operators of the model, then has one step per action in `InductiveStep`, and ends
in the theorems. `FlowControlProofs` has a second part of the same layout for its
second invariant, `Orderly` (`OrderlyStep`).

In `FlowControl` the bytes of a stream in a channel are `Total`, a recursive
function inside a `LET`, so that its module stays within what can be proved
about.

### Mutants

Next to some definitions stands a wrong variant that nothing uses, with the
mistake named in the comment (`SavedAll`, `LockedNever`, ...). Each one replaces
its neighbour in a check that the property listed with it in `PROJECT.json`
fails: it shows that the property depends on that piece of the code.

## Runs

| run | question | bounds | states |
|---|---|---|---|
| `checkpoint` (`MCCheckpoint.cfg`) | safety, refinement and liveness of the journal | two files of two and one block, hashes travelling with the data | 88 171 |
| `publication` (`MCPublication.cfg`) | one name, nobody's file replaced, recognised after a crash | two tasks, suffixes 0 and 1, two contents, in four worlds: a linked file beside a folder; two equal files renamed on Android; a legacy task beside a file; a direct beside a copied task in a document tree | 976 722 |
| `stop_protocol` (`StopProtocol.cfg`) | agreement of both ends, termination | two files, two connections | 68 729 |
| `flow` (`MCFlowControl.cfg`) | overflow, credit, reuse of streams, Commit, termination of one connection | files of 9, 5, 0 and 4 bytes, two of them resumed at 4, over two streams with a window of two blocks; a socket of one packet out and two replies back | 322 415 |
| `capture` (`Capture.cfg`) | what leaves the sender, how far ahead, cleanup, termination | five blocks, batches, limit and window of two, one edit | 172 938 |
| `task_store` (`MCTaskStore.cfg`) | no process takes away what another needs | two processes, two identifiers, one file a task | 3 081 194 |
| `native_send` (`MCNativeSend.cfg`) | the exact frames, ownership of a request, termination | three frames of four units of two files, calls of three, a buffer of two, a socket that takes two | 4 754 |
| `receive_ledger` (`MCReceiveLedger.cfg`) | permits, ledger and page agree | three connections of two senders, two permits, one finished record | 2 199 588 |
| `discovery` (`MCDiscovery.cfg`) | the list follows what is heard, and converges | one interface here that comes and goes, one on another host that changes its address; two events in the channel | 216 736 |
| `publication_reopen`, `publication_durable`, `stop_switch` | claims of the documentation the code does not meet | the desktop world of `publication`; as `stop_protocol` | |

Why the bounds are enough. A flush races with at most the files it captured and
one it did not: two files. A block is behind, within or ahead of a captured
generation: two blocks in one of them. The proofs cover all other sizes. A task
finds a name free, taken by the user or taken by the other task: two tasks and
one suffix beyond the bare name. When all names are taken the code counts on; in
the model the task then stays in `choose` until it fails or a crash ends the
session. In `FlowControl` three blocks
make a window of two wrap around, the last block and frame are short, two streams
compete for every shared channel, and a third and fourth file reuse them.
Everything else bounded there is bounded by the code. An old connection's receiver can disturb one new one; a third adds only
another of the same. In `Capture` five blocks are a first block captured alone and two
batches, so that a job, a durable batch nobody has consumed and blocks in flight
exist at once; two versions tell what was prepared from everything else. Two
processes are all a lock can tell apart. In `NativeSend` a frame takes more than
one call, more than one buffer and more room than the socket has, and two frames
of one file share a position with another in between. In `ReceiveLedger` the
second address of a sender competes with another sender for the last permit, and
a second finished record evicts the first. In `Discovery` two events are the
least that make one frame handle an event that changes the list and one that
does not; the other host's interface changes its address, so that events with the
old, the new and both addresses meet. With a second interface on that host the
run would outgrow its time; that an entry merges the services of a host is the
subject of a unit test (`removing_one_interface_keeps_other_addresses`).

Deadlock is checked in `checkpoint`, `publication`, `task_store` and `discovery`.
Elsewhere the system comes to a stop: the user has finished with the task, a
connection is over, the bounded number of attempts or addresses is used up, the
listener has ended. The liveness properties say more.

What they show:

- `DurableSurvives`, `KeepsPromise`: whatever is written, flushed, dropped,
  killed or cut off, a restart resumes from at least what was called durable.
- `JournalBacked`, `ResultIsWhole`: the record never runs ahead of the disk.
- `UnsavedIsDirty`, `AcceptedBecomesDurable`: a flush beside a write forgets
  nothing, and what it left out is saved by a later one.
- `GenerationsAdvance`: no record overwrites a later one.
- `PauseSavesAll`: Stopped after Pause means everything accepted is saved.
- `StopEnds`: draining workers, background flush and last job do not wait for
  one another.
- `NeverReplaces`, `PublishedOnce`, `RecognisesItself`, `ClaimsOnlyItsOwn`: in
  all six layouts the publication neither replaces a file, nor publishes twice,
  nor receives again what is published, nor takes credit for somebody else's
  file. The last has one exception, a task whose staged data a cancel or the user
  has taken away; see the second finding.
- `SentIsPublished`, `DiscardedIsUnpublished`, `SteadyDiscardIsConfirmed`,
  `ShownAgrees`: the two records and the screen agree.
- `AttemptEnds`, `LockIsFreed`: nobody waits for ever for a peer that is gone.
- `NothingOverflows`, `NothingRefused`: two correct ends never break off a
  transfer, on any schedule; among others, a worker is never joined before its
  last checkpoint has been handled, because Close follows the last
  acknowledgement.
- `ConnectionEnds`: the two loops do not block each other. This needs a socket
  that takes the replies that may be in flight: with room for one reply and one
  packet TLC finds both ends in a write. The real kernel buffers hold many times
  the replies of some hundred bytes that a window allows, and the idle timeout
  of `wire.rs` would end such a stall.
- `CreditIsConserved`: credit and unacknowledged data add up to the window.
- `CommitIsDue`: Commit is sent when everything has arrived on both ends.
- `SentIsFixed`: whatever the user edits, whichever capture fails and whenever
  the power goes, only the prepared version leaves, and it is still there for
  the next attempt. `AheadIsBounded`, `CleanupIsAlone`, `SendEnds`: capturing
  stays within its bound, never runs beside the cleanup of its task, and neither
  channel loses a wake-up.
- `KeptIsWhole`: listing in one process never collects what another prepares or
  keeps.
- `WireIsExact`, `KernelOwnsWhatItUses`, `CopyEnds`: a fallback continues at the
  exact byte, a request of the kernel never outlives what it points to, and no
  worker stays behind for a peer that does not read.
- `GrantsSuffice`: the ledger refuses nobody who has a permit, although a
  connection its sender has given up may hold a permit beside the new one.
  `ViewAgrees`, `NothingHidden`: the page shows what
  the ledger holds, or will read it again.
- `PeersFollow`, `Converges`: the list is the merged view of what was heard, and
  loses every address nobody has once the network rests.

## Findings

1. **Pause, then Cancel** (`stop_switch`). The message is composed from the
   command at `transport.rs:389`, the fate of the task from the command at
   `transport.rs:206`. If the user cancels while the receiver is still pausing,
   the sender deletes its task and shows Cancelled; the receiver keeps its
   staged data. `README.md:24` of the repository requires the receiver's
   confirmation.
2. **Cancel keeps the intent** (`publication_reopen`). `cancel` does not reset
   `publishing` and `target`. If something else stands at the recorded name
   later, `recover` fails on every open and the task can be neither resumed nor
   cleaned up. For the same reason such a task may take equal content that
   somebody else put there for its own.
3. **Recovery records before it syncs** (`publication_durable`). `recover`
   records the result of a publication it recognises without the sync of the
   receive directory that `commit` does first.

## Fairness

Safety runs assume none. `Checkpoint!Fairness` is weak fairness of the steps a
live process takes by itself: tokio polls every ready branch and every worker,
its blocking pool runs every job, and a session has finitely many callers of
`flush`, so none waits for ever for the mutex. Nothing is assumed of packets,
user, kills or the network; in particular writes need not arrive.
`StopProtocol!Fairness` adds that a connection delivers or fails, which the idle
timeout of `wire.rs` turns any silence into. The user need never press a button.
`FlowControl!FairSpec` is weak fairness of `Work`, what the two ends do by
themselves: a connection has finitely much to do, so it suffices that something
happens while something can. The user need never press Pause, so a sender that
waits for an acknowledgement that never comes would wait for ever. `Capture` assumes the same of the steps of a live process (`Process`), not
of failures, edits or kills. `NativeSend!FairSpec` says that the blocking pool
runs a worker, that the clock goes on and that a request cancelled with
`CancelIoEx` ends, as Windows documents; the peer need not read, and no call need
fail (`CallBreaks` is outside), so only flag, idle limit and deadline end a wait.
`Discovery!FairSpec` is weak fairness of the frame's systems and of time, and
strong fairness of a heartbeat that starts a scan and of a scan that succeeds: a
scan may fail any number of times, not for ever. Of the daemon it assumes that its
cache forgets: once interfaces rest, addresses nobody has lapse. Of this device it
assumes that then the services of its interfaces can be made. Beyond that events
may be lost, late, partial, stale or groundless, only that what the device hears of
itself is what it has registered. `TaskStore`, `ReceiveLedger` and `Publication` assume
nothing.

## Proofs

Every theorem holds for all values of the constants that satisfy the assumption
its model states; there is no other assumption.

| module | theorem | states | for any |
|---|---|---|---|
| `CheckpointProofs` | `InductiveHolds`, `TypeCorrect` | `[]Inductive`, `[]TypeOK` | files and lengths, streaming or prepared whole |
| | `DurableAlwaysSurvives` | `[]DurableSurvives` | |
| | `JournalAlwaysBacked` | `[]JournalBacked` | |
| | `NothingUnsavedIsClean` | `[]UnsavedIsDirty` | |
| | `ResultAlwaysWhole` | `[]ResultIsWhole` | |
| | `GenerationsAlwaysAdvance` | `GenerationsAdvance`, an action property | |
| | `PauseAlwaysSaves` | `[]PauseSavesAll` | |
| | `ImplementsDurablePrefix` | `KeepsPromise`, the refinement of `DurablePrefix` | |
| `PublicationProofs` | `InductiveHolds` | `[]Inductive` | tasks of any layout, suffixes, contents |
| | `AlwaysPublishedOnce` | `[]PublishedOnce` | |
| | `AlwaysClaimsOnlyItsOwn` | `[]ClaimsOnlyItsOwn` | |
| | `NothingIsReplaced` | `NeverReplaces`, an action property | |
| | `AlwaysRecognisesItself` | `RecognisesItself`, an action property | |
| `StopProtocolProofs` | `InductiveHolds`, `TypeCorrect` | `[]Inductive`, `[]TypeOK` | number of files and attempts |
| | `SteadyDiscardAlwaysConfirmed` | `[]SteadyDiscardIsConfirmed` | |
| | `SentAlwaysPublished` | `[]SentIsPublished` | |
| | `DiscardedAlwaysUnpublished` | `[]DiscardedIsUnpublished` | |
| | `AlwaysShownAgrees` | `[]ShownAgrees` | |
| `FlowControlProofs` | `InductiveHolds`, `TypeCorrect` | `[]Inductive`, `[]TypeOK` | files, offsets, streams, sizes of block, frame, window and pipes |
| | `CreditAlwaysConserved` | `[]CreditIsConserved` | |
| | `CommitAlwaysDue` | `[]CommitIsDue` | |
| | `OrderlyHolds` | `[]Orderly` | |
| | `NothingEverRefused` | `[]NothingRefused` | |
| | `NothingEverOverflows` | `[]NothingOverflows` | |
| `CaptureProofs` | `InductiveHolds` | `[]Inductive` | length, batch, limit, window, number of edits |
| | `SentAlwaysFixed` | `[]SentIsFixed` | |
| | `AheadAlwaysBounded` | `[]AheadIsBounded` | |
| | `CleanupAlwaysAlone` | `[]CleanupIsAlone` | |
| `TaskStoreProofs` | `InductiveHolds` | `[]Inductive` | processes, identifiers, files a task |
| | `KeptAlwaysWhole` | `[]KeptIsWhole` | |
| `NativeSendProofs` | `InductiveHolds` | `[]Inductive` | frames, lengths of payload, call and buffer, room in the socket |
| | `WireAlwaysExact` | `[]WireIsExact` | |
| | `KernelAlwaysOwns` | `[]KernelOwnsWhatItUses` | |
| `ReceiveLedgerProofs` | `InductiveHolds` | `[]Inductive` | senders, addresses, permits, finished records, sizes |
| | `GrantsAlwaysSuffice` | `[]GrantsSuffice` | |
| | `ViewAlwaysAgrees` | `[]ViewAgrees` | |
| | `NothingEverHidden` | `[]NothingHidden` | |

The assumptions say little: sizes and limits are positive (`CaptureAssumption`,
`NativeSendAssumption`, `LedgerAssumption`, `StopAssumption`,
`TaskStoreAssumption`), files have lengths (`CheckpointAssumption`), the user is
not a task and nothing is not an object (`PublicationAssumption`). Only
`FlowControlAssumption` has arithmetic in it: a window of whole blocks, blocks of
whole frames (4 MiB and 256 KiB in `mod.rs`) and files that are resumed at a
block or at their end, which is what `receive` sends in Resume.

No property below is inductive. What has to be added tells why the code works.

**Checkpoint.** That a save cannot outrun the disk depends on what the flush
captured, that on the order of a write's steps, and that on who may still be at
work in the session's mode.

- `Ordered`: while a session works, receipt <= journal <= pending <= file;
- `Flushing`: what a flush captured lies between journal and pending, and on the
  disk for the files it has synced;
- `Recovering`, `Bounded`: recovery starts from the journal and the journal is
  on the disk, except between the removal and the reset of a cancel;
- `AllAligned`: as many hashes as blocks in every copy;
- `Phased`, `Finished`: who is at work in which mode, and that a result ends it;
- `Pausing`: once Pause's last flush has run, nothing is pending or dirty.

`DurableSurvives` then follows through `KeptIsJournal`: outside a cancel, a
restart resumes from exactly what the journal says. The refinement looks at the
few actions that change what a restart would find (`StorageSteps`) or what has
been promised (`PromiseSteps`). `StandingStep` maps each of them, while no cancel
is under way, to a save, a promise, the beginning of a cancel or a stutter;
`VoidedStep` maps each of them, during a cancel, to discarding a file, to settling
or to a stutter. `Inductive` is also an invariant of the `checkpoint` run.

**Publication.** A task could be published twice if one whose object is in the
directory came back to a phase before publication. `Recorded` says what receipt
and Java journal hold for such a task, and `Phased` and `Journalled` that no
phase with these records leads there. `Accounted` is the other direction: data
whose publication was intended is only gone because it was published or because
somebody took it away, so a result cannot claim somebody else's object. `Once`
is the property itself.

**StopProtocol.** The dangerous messages are old ones: a Commit that was sent
before the cancel, on this connection or on one that is cut. `Halted` says that
no such Commit is left anywhere once Stopped is on its way; it holds because
`Asked` knows that each of Commit, Pause and Cancel has a sender waiting for its
answer, and `Exclusive` that one session at a time holds the task. `Counted`
says that no file is counted twice on its way there and back,
`Linked` says on which connections there can be messages at all, `Published`
that whoever speaks of a result has one, `Steady` and `Stage` what the receiver
was told and the screen shows while the command does not change.

**FlowControl.** `Typed` fixes what is exchanged, `Windowed` the worker's window
(a block is acknowledged after the loop knows of it), `Told` follows the closing
of a stream round the connection, `Counted` and `Concluding` that Commit waits
for every worker. `Fresh` says that a stream that was never opened has nothing
under way, so that its first credit is the whole window; `CreditIsConserved`
preserves itself from there. `TotalSums` and the lemmas before it show what a
message added to or taken from a channel does to the `Total` of its stream.

That nothing is refused and no queue overflows needs to know where every single
message is, which is a second invariant, `Orderly`, proved step by step beside
`Inductive`. `Path(M, s, a, b)` says that the sequence `s` leads from `a` to `b`
in steps of the relation `M`. A stream stands before its Open, before a packet of
a block or before its Close, or it is closed (`Places`); `Moves` says which packet
leads from one place to the next, `Returns` which acknowledgement leads from one
mark to the next. Then:

- `Forward`: what is in `queue`, `closing`, the socket, `writing` and `packets`,
  read in this order, leads from the place of the receiver's worker to the place
  of the sender's. What is read next is thus always what is expected next, and no
  packet is lost, doubled or out of turn;
- `Backward`: what is in the sender's `acks`, the socket, `replying` and `events`
  leads in the same way from the mark the sender's worker has acted on to the mark
  the receiver's has reached (`reported` and `known` are marks in between);
- `Opened`: at most `Streams` files have a stream and its blocks fit the window;
- `Loops`: Pause, Stopped and Complete travel only when they are due;
- `Alive`: neither end has given up, which the other parts imply for every step.

What an `ensure!` compares with is the first step of such a path. A try_send
fits because of its ends: a path of `n` messages raises the number of packets or
of blocks before a place by `n` (`Rank`, `Blocks`), and its two ends are no
further apart than the window, for which `FileQueue` and `AckQueue` have room, the
Close and the last acknowledgement included.

**Capture.** `Held` is the heart: what the journal lists is the prepared version
in the payload, for a reader and after a power failure. A capture that reads the
user's file beside an edit reads a version that is not older than the prepared
one (`Reading`), so an unchanged source afterwards means that all of the batch is
that version. `Queued` says nothing is sent the journal does not list, `Limited`
and `Windowed` that a job began with credit, `Phased` what exists in which phase.

**TaskStore.** `preparation.lock` keeps collection away from a directory that is
being prepared (`Locked`). Sending and discarding take no lock, but know only
tasks that were registered (`Private`), and a registered task has no way back to
being prepared (`Settled`).

**NativeSend.** While somebody writes a frame, the length of the wire says how
much of it is out (`Placed`), and the worker's file and buffer go on exactly there
(`Aligned`); `Control` says who is at work, and that `owned` holds as long as an
overlapped request may be.

**ReceiveLedger.** Every handler that runs or is about to holds a permit
(`Granted`); every active record belongs to a running handler and is where that
handler left it (`Reported`, `Listed`); what the ledger drops is a finished
record, the oldest (`Dated`). So the ledger is never the one that is full.

Induction over data is done by a minimal counterexample: the least prefix of a
channel, or of the list of records, for which a statement fails
(`WellFoundedInduction`, `WFMin`).

Before they were proved, `Orderly` and each `Inductive` were invariants of the
runs of their models.

Three constructs are read differently by tlapm 1.4.5 and by TLA+. The models and
proofs avoid them:

- several updates of one index in a single EXCEPT (`![p].a = .., ![p].b = ..`),
- an `@` inside an EXCEPT that is itself the value of another one
  (`![p] = [@ EXCEPT !.n = @ + 1]`); the models write
  `![p] = [f[p] EXCEPT !.a = .., !.n = @ + 1]` for both;
- `Len` in an obligation that also has functions whose domain is `0..n`: an axiom
  of the SMT backend takes such a function for a sequence. The lemmas about sums
  (`Partial`, `Sums`) keep `Len` away from them, and all proofs also hold with
  that axiom corrected.

The leaves of all proofs have been tried with FALSE as their goal: only cases
that contradict their assumptions prove it.

Only model-checked: the liveness properties, since liveness under fairness is
outside TLAPS, and `PeersFollow` of `Discovery`, since what a batch of mDNS events
does to `instances` is a fold over the batch, and TLAPS has no induction over a
fold. (`GrantsSuffice`, `CreditIsConserved` and `NothingOverflows` are about sums
and sequences too, but over functions that a proof can take prefixes of.)

## Not modelled

- `Manifest::validate` and `filename.rs`: pure functions over paths, which unit
  tests of the repository reach; a model would repeat them line by line.
- `core/settings.rs`: one small file, replaced by a rename that is not synced. A
  power failure may bring back the older settings or, on some file systems, an
  empty file, which loads as the defaults.
- The picker (`MainActivity.java`, `ui/send.rs`), sources and the export of a
  picked tree: wrappers around the platform.
- The capability probe of a document tree, the JNI calls and the block clone of
  a snapshot (`clone_file`): each has one outcome the modelled code checks.
- `SIGPIPE` masking around `sendfile`, which concerns a thread's signals.
- Metrics, and the layout and wording of the user interface.
- A direct task whose temporary document the user has deleted cannot be opened
  again, hence neither resumed nor cancelled, although the message of
  `DirectTransferStorage.java:129` asks for a cancel. `Publication` contains the
  behaviour (`Refused`); it is the same end as in the second finding.

## Plan

Theorem to prove next: `PeersFollow`, once the batch is modelled as a recursive
function like the sums of `FlowControl`.

Compositions: an abstract stream per file that `FlowControl` implements and that
replaces the one message per file of `StopProtocol`; `Publication` after
`Checkpoint` (`Committed` becomes `Commit`).
