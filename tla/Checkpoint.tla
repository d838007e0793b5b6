----------------------------- MODULE Checkpoint -----------------------------
(***************************************************************************)
(* The receiver's checkpoint of one task: transfer/storage.rs (Session:    *)
(* open, recover, write_block, flush, cancel, the first half of commit)    *)
(* driven by transfer/transport.rs (receive_inner and receive_file).       *)
(*                                                                         *)
(* A position counts whole verified blocks of BLOCK bytes; the contents of *)
(* a block are abstracted to "its hash matches", so the readable part of a *)
(* payload file is the length of its matching prefix.  Every file has two  *)
(* such lengths: what a read sees (cache) and what a power failure leaves  *)
(* (disk).                                                                 *)
(***************************************************************************)
EXTENDS Naturals, FiniteSets

CONSTANTS Files,      \* indices of the manifest's entries that are files
          Blocks,     \* Blocks[f]: entry.size.div_ceil(BLOCK)
          Streaming   \* manifest.streaming: hashes travel with the data

ASSUME CheckpointAssumption ==
    /\ Blocks \in [Files -> Nat]
    /\ Streaming \in BOOLEAN

VARIABLES
    mode,      \* what the task's session is doing
    stop,      \* the command that ends it: "none", "pause" or "cancel"
    worker,    \* per file, where its receive_file task is
    sync,      \* the background flush of receive_inner (sync_jobs)
    job,       \* the final blocking job: Pause's flush, cancel() or commit()
    flush,     \* the flush that owns the `checkpoint` mutex
    journal,   \* receipt.json: offsets and hashes, always durable
    result,    \* receipt.json: a result has been recorded
    receipt,   \* Session.receipt, in memory
    pending,   \* Pending.offsets and Pending.hashes
    dirty,     \* keys of Pending.dirty
    cache,     \* per file, matching blocks a read returns
    disk,      \* per file, matching blocks that survive a power failure
    left,      \* files recover() or cancel() has still to visit
    told,      \* per file, the largest `durable` sent in a Checkpoint
    voided     \* a cancel has begun and receipt.json still predates it

session == <<mode, stop, worker, sync, job>>
memory  == <<receipt, pending, dirty>>
storage == <<cache, disk>>
vars == <<session, flush, journal, result, memory, storage, left, told, voided>>

Modes == {"down", "recover", "run", "drain", "finish", "commit", "dropped"}
WorkerStates == {"none", "idle", "locked", "written", "report",
                 "closing", "flushing", "closed", "failed"}
JobStates == {"none", "queued", "flushing", "flushed", "removing", "failed"}
FlushPhases == {"idle", "sync", "install", "clear"}

Positions == [Files -> [off : Nat, hashes : Nat]]

Least(a, b) == IF a < b THEN a ELSE b

Origin == [f \in Files |-> [off |-> 0, hashes |-> 0]]

NoFlush == [phase |-> "idle", pos |-> Origin, dirty |-> {}, left |-> {}]

\* The blocks recover() accepts of file f, given the record p of it and
\* `readable` matching blocks in the file.  The mutant counts size / BLOCK and
\* so loses a last short block.
VerifiedFloor(f, p, readable) == Least(Least(p.off, Blocks[f] - 1), readable)
Verified(f, p, readable) ==
    LET expected == Least(p.off, Blocks[f])
        known    == IF Streaming THEN p.hashes ELSE Blocks[f]
    IN  Least(Least(expected, known), readable)

TypeOK ==
    /\ mode \in Modes
    /\ stop \in {"none", "pause", "cancel"}
    /\ worker \in [Files -> WorkerStates]
    /\ sync \in {"none", "queued", "flushing", "failed"}
    /\ job \in JobStates
    /\ flush \in [phase : FlushPhases, pos : Positions,
                  dirty : SUBSET Files, left : SUBSET Files]
    /\ journal \in Positions
    /\ result \in BOOLEAN
    /\ receipt \in Positions
    /\ pending \in Positions
    /\ dirty \in SUBSET Files
    /\ cache \in [Files -> Nat]
    /\ disk \in [Files -> Nat]
    /\ left \in SUBSET Files
    /\ told \in [Files -> Nat]
    /\ voided \in BOOLEAN

Init ==
    /\ mode = "down"
    /\ stop = "none"
    /\ worker = [f \in Files |-> "none"]
    /\ sync = "none"
    /\ job = "none"
    /\ flush = NoFlush
    /\ journal = Origin
    /\ result = FALSE
    /\ receipt = Origin
    /\ pending = Origin
    /\ dirty = {}
    /\ cache = [f \in Files |-> 0]
    /\ disk = [f \in Files |-> 0]
    /\ left = {}
    /\ told = [f \in Files |-> 0]
    /\ voided = FALSE

-----------------------------------------------------------------------------
(* Opening the task: the exclusive lock on incoming/<id>/lock is taken, so  *)
(* no other session and no blocking job of an earlier one is alive.         *)

\* Everything the process keeps in memory about the task is gone.
Forget ==
    /\ mode' = "down"
    /\ stop' = "none"
    /\ worker' = [f \in Files |-> "none"]
    /\ sync' = "none"
    /\ job' = "none"
    /\ flush' = NoFlush
    /\ receipt' = Origin
    /\ pending' = Origin
    /\ dirty' = {}
    /\ left' = {}

Open ==
    /\ mode = "down"
    /\ ~result
    /\ mode' = "recover"
    /\ receipt' = journal
    /\ left' = Files
    /\ UNCHANGED <<stop, worker, sync, job, flush, journal, result, pending,
                   dirty, storage, told, voided>>

\* A finished task is answered from its record; nothing is touched.
Answer ==
    /\ mode = "down"
    /\ result
    /\ UNCHANGED vars

\* One turn of recover()'s loop: verify the recorded prefix, cut the rest off
\* and sync.
RecoverFile(f) ==
    /\ mode = "recover"
    /\ f \in left
    /\ LET valid == Verified(f, receipt[f], cache[f]) IN
          /\ cache' = [cache EXCEPT ![f] = valid]
          /\ disk' = [disk EXCEPT ![f] = valid]
          /\ receipt' = [receipt EXCEPT ![f] =
                [off |-> valid,
                 hashes |-> IF Streaming THEN Least(@.hashes, valid)
                                         ELSE @.hashes]]
    /\ left' = left \ {f}
    /\ UNCHANGED <<session, flush, journal, result, pending, dirty, told, voided>>

\* recover() saves the journal, open_at() copies it to the pending state and
\* receive_inner answers Resume.
Resume ==
    /\ mode = "recover"
    /\ left = {}
    /\ journal' = receipt
    /\ pending' = receipt
    /\ voided' = FALSE
    /\ mode' = "run"
    /\ UNCHANGED <<stop, worker, sync, job, flush, result, receipt, dirty,
                   storage, left, told>>

-----------------------------------------------------------------------------
(* One file's worker: receive_file and write_block_checked.                *)

\* Frames buffered in a worker's queue are still consumed after Pause.
Consuming == mode \in {"run", "drain"}

OpenFile(f) ==
    /\ mode = "run"
    /\ worker[f] = "none"
    /\ worker' = [worker EXCEPT ![f] = "idle"]
    /\ UNCHANGED <<mode, stop, sync, job, flush, journal, result, memory,
                   storage, left, told, voided>>

\* A whole block has arrived and its hash matches; the file lock is taken and
\* the order check passes.
WriteBegin(f) ==
    /\ Consuming
    /\ worker[f] = "idle"
    /\ pending[f].off < Blocks[f]
    /\ worker' = [worker EXCEPT ![f] = "locked"]
    /\ UNCHANGED <<mode, stop, sync, job, flush, journal, result, memory,
                   storage, left, told, voided>>

WriteBytes(f) ==
    /\ worker[f] = "locked"
    /\ cache' = [cache EXCEPT ![f] = pending[f].off + 1]
    /\ worker' = [worker EXCEPT ![f] = "written"]
    /\ UNCHANGED <<mode, stop, sync, job, flush, journal, result, memory,
                   disk, left, told, voided>>

\* The state of a worker whose blocking call has returned.
Returned(state) == IF mode = "dropped" THEN "none" ELSE state

\* The pending lock is taken for the last time: the block becomes part of the
\* accepted prefix and the file dirty.
WriteDone(f) ==
    /\ worker[f] = "written"
    /\ Streaming => pending[f].hashes = pending[f].off
    /\ pending' = [pending EXCEPT ![f] =
          [off |-> @.off + 1,
           hashes |-> IF Streaming THEN @.hashes + 1 ELSE @.hashes]]
    /\ dirty' = dirty \cup {f}
    /\ worker' = [worker EXCEPT ![f] = Returned("report")]
    /\ UNCHANGED <<mode, stop, sync, job, flush, journal, result, receipt,
                   storage, left, told, voided>>

\* A mismatching block, a misplaced frame or a failed write ends the worker.
WriteFails(f) ==
    /\ worker[f] \in {"idle", "locked"}
    /\ worker[f] = "idle" => Consuming
    /\ worker' = [worker EXCEPT ![f] = Returned("failed")]
    /\ UNCHANGED <<mode, stop, sync, job, flush, journal, result, memory,
                   storage, left, told, voided>>

\* What the receiver may call durable.  The mutant reports accepted blocks.
DurablePending(f) == pending[f].off
Durable(f) == receipt[f].off

\* The worker reads the durable offset and reports it with the credit.
Report(f) ==
    /\ Consuming
    /\ worker[f] = "report"
    /\ told' = [told EXCEPT ![f] = IF @ < Durable(f) THEN Durable(f) ELSE @]
    /\ worker' = [worker EXCEPT ![f] = "idle"]
    /\ UNCHANGED <<mode, stop, sync, job, flush, journal, result, memory,
                   storage, left, voided>>

\* The Close packet: the worker will flush before it returns.
CloseFile(f) ==
    /\ Consuming
    /\ worker[f] = "idle"
    /\ pending[f].off = Blocks[f]
    /\ worker' = [worker EXCEPT ![f] = "closing"]
    /\ UNCHANGED <<mode, stop, sync, job, flush, journal, result, memory,
                   storage, left, told, voided>>

-----------------------------------------------------------------------------
(* flush(): one caller at a time owns the `checkpoint` mutex.              *)

\* The background job starts on the one-second tick or on sync_requested.
SyncStart ==
    /\ mode = "run"
    /\ sync = "none"
    /\ sync' = "queued"
    /\ UNCHANGED <<mode, stop, worker, job, flush, journal, result, memory,
                   storage, left, told, voided>>

\* A closing worker, the background job, or the last job of Pause or Commit.
CallFlush ==
    \/ /\ \E f \in Files : /\ worker[f] = "closing"
                           /\ worker' = [worker EXCEPT ![f] = "flushing"]
       /\ UNCHANGED <<sync, job>>
    \/ /\ sync = "queued"
       /\ sync' = "flushing"
       /\ UNCHANGED <<worker, job>>
    \/ /\ job = "queued"
       /\ stop # "cancel"
       /\ job' = "flushing"
       /\ UNCHANGED <<worker, sync>>

\* The call returns to whoever made it.  The mutant never takes the job's
\* outcome from sync_jobs.
ReturnFlushLost(w, s, j) ==
    /\ worker' = [f \in Files |-> IF worker[f] = "flushing" THEN Returned(w)
                                                           ELSE worker[f]]
    /\ sync' = sync
    /\ job' = IF job = "flushing" THEN j ELSE job

ReturnFlush(w, s, j) ==
    /\ worker' = [f \in Files |-> IF worker[f] = "flushing" THEN Returned(w)
                                                           ELSE worker[f]]
    /\ sync' = IF sync = "flushing" THEN Returned(s) ELSE sync
    /\ job' = IF job = "flushing" THEN j ELSE job

\* Offsets, hashes and dirty files, captured under the pending lock.  With
\* nothing dirty the call has nothing to do.  The mutant syncs no file.
CapturedUnsynced ==
    [phase |-> IF dirty = {} THEN "clear" ELSE "sync",
     pos |-> pending, dirty |-> dirty, left |-> {}]

Captured ==
    [phase |-> IF dirty = {} THEN "clear" ELSE "sync",
     pos |-> pending, dirty |-> dirty, left |-> dirty]

\* Only the mutex holder passes.
FlushBegin ==
    /\ flush.phase = "idle"
    /\ CallFlush
    /\ flush' = Captured
    /\ UNCHANGED <<mode, stop, journal, result, memory, storage, left, told, voided>>

\* sync_all under the file's lock, which a write in progress holds.
FlushSync(f) ==
    /\ flush.phase = "sync"
    /\ f \in flush.left
    /\ worker[f] \notin {"locked", "written"}
    /\ disk' = [disk EXCEPT ![f] = cache[f]]
    /\ flush' = [flush EXCEPT !.left = @ \ {f}]
    /\ UNCHANGED <<session, journal, result, memory, cache, left, told, voided>>

\* sync_all or the save of the journal fails, the latter perhaps after its
\* rename ("install"): everything stays dirty.
FlushFails ==
    /\ flush.phase \in {"sync", "install"}
    /\ flush' = NoFlush
    /\ ReturnFlush("failed", "failed", "failed")
    /\ UNCHANGED <<mode, stop, journal, result, memory, storage, left, told, voided>>

FlushSave ==
    /\ flush.phase = "sync"
    /\ flush.left = {}
    /\ journal' = flush.pos
    /\ flush' = [flush EXCEPT !.phase = "install"]
    /\ UNCHANGED <<session, result, memory, storage, left, told, voided>>

FlushInstall ==
    /\ flush.phase = "install"
    /\ receipt' = flush.pos
    /\ flush' = [flush EXCEPT !.phase = "clear"]
    /\ UNCHANGED <<session, journal, result, pending, dirty, storage, left,
                   told, voided>>

\* Files written since the capture stay dirty for the next generation.  The
\* mutant forgets that they were written.
SavedAll == flush.dirty
Saved == {f \in flush.dirty : pending[f].off = flush.pos[f].off}

FlushClear ==
    /\ flush.phase = "clear"
    /\ dirty' = dirty \ Saved
    /\ flush' = NoFlush
    /\ ReturnFlush("closed", "none", "flushed")
    /\ UNCHANGED <<mode, stop, journal, result, receipt, pending, storage,
                   left, told, voided>>

-----------------------------------------------------------------------------
(* The commands of the sender, and the end of the session.                 *)

\* Pause or Cancel: no more packets are queued for the workers.
StopRequest(command) ==
    /\ mode = "run"
    /\ mode' = "drain"
    /\ stop' = command
    /\ UNCHANGED <<worker, sync, job, flush, journal, result, memory, storage,
                   left, told, voided>>

\* A worker whose queue is closed ends, and its outcome is ignored.
DrainWorker(f) ==
    /\ mode = "drain"
    /\ worker[f] \in {"idle", "failed", "closed"}
    /\ worker' = [worker EXCEPT ![f] = "none"]
    /\ UNCHANGED <<mode, stop, sync, job, flush, journal, result, memory,
                   storage, left, told, voided>>

CommitRequest ==
    /\ mode = "run"
    /\ \A f \in Files : worker[f] = "closed"
    /\ mode' = "commit"
    /\ UNCHANGED <<stop, worker, sync, job, flush, journal, result, memory,
                   storage, left, told, voided>>

\* The background flush has been waited for; the last blocking job starts.
StartJob ==
    /\ job = "none"
    /\ sync = "none"
    /\ \/ /\ mode = "drain"
          /\ \A f \in Files : worker[f] = "none"
          /\ mode' = "finish"
       \/ /\ mode = "commit"
          /\ UNCHANGED mode
    /\ job' = "queued"
    /\ UNCHANGED <<stop, worker, sync, flush, journal, result, memory, storage,
                   left, told, voided>>

\* Pause's flush is done: Stopped is sent and the session ends.
Paused ==
    /\ mode = "finish"
    /\ job = "flushed"
    /\ Forget
    /\ UNCHANGED <<journal, result, storage, told, voided>>

\* commit() after its flush: an incomplete task is refused.
Committed ==
    /\ mode = "commit"
    /\ job = "flushed"
    /\ result' = (\A f \in Files : receipt[f].off = Blocks[f])
    /\ Forget
    /\ UNCHANGED <<journal, storage, told, voided>>

JobFails ==
    /\ job = "failed"
    /\ Forget
    /\ UNCHANGED <<journal, result, storage, told, voided>>

\* cancel() with the checkpoint, pending and receipt locks held.
CancelBegin ==
    /\ mode = "finish"
    /\ stop = "cancel"
    /\ job = "queued"
    /\ flush.phase = "idle"
    /\ job' = "removing"
    /\ dirty' = {}
    /\ left' = Files
    /\ told' = [f \in Files |-> 0]
    /\ voided' = TRUE
    /\ UNCHANGED <<mode, stop, worker, sync, flush, journal, result, receipt,
                   pending, storage>>

CancelRemove(f) ==
    /\ job = "removing"
    /\ f \in left
    /\ cache' = [cache EXCEPT ![f] = 0]
    /\ disk' = [disk EXCEPT ![f] = 0]
    /\ left' = left \ {f}
    /\ UNCHANGED <<session, flush, journal, result, memory, told, voided>>

CancelSave ==
    /\ job = "removing"
    /\ left = {}
    /\ journal' = Origin
    /\ voided' = FALSE
    /\ Forget
    /\ UNCHANGED <<result, storage, told>>

\* The connection fails, a worker or the background flush reports an error:
\* the handler is dropped, blocking calls in progress run on and keep the
\* task's lock.
Drop ==
    /\ \/ mode = "run"
       \/ mode \in {"drain", "commit"} /\ sync = "failed"
    /\ mode' = "dropped"
    /\ stop' = "none"
    /\ worker' = [f \in Files |->
          IF worker[f] \in {"locked", "written", "closing", "flushing"}
             THEN worker[f] ELSE "none"]
    /\ sync' = IF sync = "failed" THEN "none" ELSE sync
    /\ UNCHANGED <<job, flush, journal, result, memory, storage, left, told, voided>>

\* A blocking call that had not started is never run.
Abandon ==
    /\ mode = "dropped"
    /\ \/ /\ \E f \in Files : /\ worker[f] = "closing"
                              /\ worker' = [worker EXCEPT ![f] = "none"]
          /\ UNCHANGED sync
       \/ /\ sync = "queued"
          /\ sync' = "none"
          /\ UNCHANGED worker
    /\ UNCHANGED <<mode, stop, job, flush, journal, result, memory, storage,
                   left, told, voided>>

\* The last reference to the Session goes and with it the lock.
Release ==
    /\ mode = "dropped"
    /\ sync = "none"
    /\ \A f \in Files : worker[f] = "none"
    /\ Forget
    /\ UNCHANGED <<journal, result, storage, told, voided>>

-----------------------------------------------------------------------------
(* The machine.                                                            *)

WriteBack(f) ==
    /\ disk[f] < cache[f]
    /\ disk' = [disk EXCEPT ![f] = @ + 1]
    /\ UNCHANGED <<session, flush, journal, result, memory, cache, left, told, voided>>

Kill ==
    /\ mode # "down"
    /\ Forget
    /\ UNCHANGED <<journal, result, storage, told, voided>>

PowerLoss ==
    /\ mode # "down" \/ cache # disk
    /\ cache' = disk
    /\ Forget
    /\ UNCHANGED <<journal, result, disk, told, voided>>

-----------------------------------------------------------------------------
WorkerStep(f) ==
    \/ OpenFile(f) \/ WriteBegin(f) \/ WriteBytes(f) \/ WriteDone(f)
    \/ WriteFails(f) \/ Report(f) \/ CloseFile(f)

FlushStep ==
    \/ SyncStart \/ FlushBegin \/ FlushFails \/ FlushSave \/ FlushInstall
    \/ FlushClear
    \/ \E f \in Files : FlushSync(f)

CancelStep == CancelBegin \/ CancelSave \/ \E f \in Files : CancelRemove(f)

SessionStep ==
    \/ Open \/ Answer \/ Resume \/ \E f \in Files : RecoverFile(f)
    \/ StopRequest("pause") \/ StopRequest("cancel")
    \/ CommitRequest \/ StartJob \/ Paused \/ Committed \/ JobFails
    \/ Drop \/ Abandon \/ Release
    \/ \E f \in Files : DrainWorker(f)

Machine == Kill \/ PowerLoss \/ \E f \in Files : WriteBack(f)

Next ==
    \/ \E f \in Files : WorkerStep(f)
    \/ FlushStep
    \/ CancelStep
    \/ SessionStep
    \/ Machine

Spec == Init /\ [][Next]_vars

\* tokio polls every ready branch of the select loop and of the workers, its
\* blocking pool runs every job, and no mutex is starved: a session has
\* finitely many callers of flush().  Nothing is assumed of the network, the
\* user or the machine.
Fairness ==
    /\ WF_vars(SyncStart)
    /\ WF_vars(FlushBegin)
    /\ WF_vars(FlushSave) /\ WF_vars(FlushInstall) /\ WF_vars(FlushClear)
    /\ WF_vars(StartJob) /\ WF_vars(Paused) /\ WF_vars(JobFails)
    /\ WF_vars(Drop /\ sync = "failed") /\ WF_vars(Release)
    /\ WF_vars(CancelStep)
    /\ \A f \in Files :
          /\ WF_vars(WriteBytes(f)) /\ WF_vars(WriteDone(f))
          /\ WF_vars(Report(f)) /\ WF_vars(FlushSync(f))
          /\ WF_vars(DrainWorker(f))

FairSpec == Spec /\ Fairness

-----------------------------------------------------------------------------
(* What restarting after a power failure at this moment would resume from. *)
Kept == [f \in Files |-> Verified(f, journal[f], disk[f])]

\* wire.rs: "only `durable` survives a restart".  A block the receiver called
\* durable is on the disk and in receipt.json until the task is cancelled,
\* whatever write, flush, crash or power failure comes in between.
DurableSurvives == \A f \in Files : told[f] <= Kept[f]

\* receipt.json never claims a block, or a hash, that the payload file does not
\* hold durably; an interrupted cancel is the one exception.
JournalBacked ==
    voided \/ \A f \in Files :
        /\ journal[f].off <= disk[f]
        /\ Streaming => journal[f].hashes = journal[f].off

\* While a session works, a file with accepted blocks no checkpoint has saved
\* is dirty: no flush that runs beside a write forgets the write.
UnsavedIsDirty ==
    mode \in {"run", "drain", "finish", "commit", "dropped"} /\ ~voided =>
        \A f \in Files : f \notin dirty => pending[f].off <= journal[f].off

\* A recorded result means every block of every file is durable.
ResultIsWhole == result => \A f \in Files : disk[f] = Blocks[f]

\* The generations of receipt.json never go backwards while the task stands:
\* no flush overwrites a later one, whichever session it belongs to.
GenerationsAdvance ==
    [][~voided => \A f \in Files : journal'[f].off >= journal[f].off]_vars

\* Pause answers Stopped only when every accepted block is in the journal.
PauseSavesAll == mode = "finish" /\ job = "flushed" => journal = pending

\* An accepted block is saved by some flush while the session lives.
AcceptedBecomesDurable ==
    \A f \in Files : \A n \in 1..Blocks[f] :
        (mode = "run" /\ pending[f].off >= n)
            ~> (journal[f].off >= n \/ mode # "run")

\* The receiver implements the promise: a restart resumes from Kept.
Promised == INSTANCE DurablePrefix WITH kept <- Kept
KeepsPromise == Promised!Spec

\* Pause and Cancel end the session: workers, background flush and last job
\* never wait for one another for ever.
StopEnds == (mode = "drain") ~> (mode = "down")

-----------------------------------------------------------------------------
(* The inductive invariant behind the safety properties.                   *)

Live == mode \in {"run", "drain", "finish", "commit", "dropped"}

\* As many hashes as blocks, in every copy of a position.
Aligned(pos) ==
    \A f \in Files : pos[f].hashes = IF Streaming THEN pos[f].off ELSE 0

\* Who may be at work in which mode.
Phased ==
    /\ mode \in {"down", "recover", "finish"} =>
          sync = "none" /\ \A f \in Files : worker[f] = "none"
    /\ job # "none" => mode \in {"finish", "commit"} /\ sync = "none"
    /\ job = "removing" => mode = "finish" /\ voided
    /\ flush.phase # "idle" => Live /\ job # "removing"
    /\ voided => mode \in {"down", "recover"} \/ job = "removing"

\* How far the copies of a file's position may be apart while it is received:
\* receipt <= journal <= pending <= what the file holds, one block more while a
\* write is between the file and the pending state.
Ordered ==
    Live /\ job # "removing" =>
        \A f \in Files :
            /\ receipt[f].off <= journal[f].off
            /\ journal[f].off <= pending[f].off
            /\ cache[f] = IF worker[f] = "written" THEN pending[f].off + 1
                                                  ELSE pending[f].off
            /\ worker[f] \in {"locked", "written"} => pending[f].off < Blocks[f]
            /\ f \notin dirty => pending[f].off <= journal[f].off

\* What a flush has captured lies between the journal and the pending state and
\* is on the disk for every file it has done with.
Flushing ==
    /\ flush.phase = "sync" =>
          \A f \in Files : /\ journal[f].off <= flush.pos[f].off
                           /\ flush.pos[f].off <= pending[f].off
                           /\ f \notin flush.left => flush.pos[f].off <= disk[f]
    /\ flush.phase = "install" =>
          \A f \in Files : flush.pos[f].off = journal[f].off
    /\ flush.phase = "clear" =>
          \A f \in flush.dirty : flush.pos[f].off = journal[f].off

\* The last flush of Pause has the session to itself: what it captures is
\* everything that was accepted.
Pausing ==
    /\ flush.phase # "idle" =>
          sync = "flushing" \/ job = "flushing" \/ \E f \in Files : worker[f] = "flushing"
    /\ mode = "finish" =>
          /\ flush.phase # "idle" => flush.pos = pending
          /\ flush.phase \in {"install", "clear"} \/ job = "flushed" => journal = pending

\* A file recovery has visited is cut to what it verified, a file cancel has
\* visited is gone.
Recovering ==
    /\ mode = "recover" =>
        \A f \in Files :
            /\ f \in left => receipt[f] = journal[f]
            /\ f \notin left => /\ receipt[f].off <= journal[f].off
                              /\ disk[f] = receipt[f].off /\ cache[f] = receipt[f].off
            /\ ~voided => receipt[f].off = journal[f].off
    /\ job = "removing" => \A f \in Files \ left : cache[f] = 0

Bounded ==
    \A f \in Files : /\ disk[f] <= cache[f] /\ cache[f] <= Blocks[f]
                     /\ journal[f].off <= Blocks[f]
                     /\ journal[f].off <= disk[f] \/ (voided /\ cache[f] = 0)
                     /\ told[f] <= IF voided THEN 0 ELSE journal[f].off

AllAligned ==
    Aligned(journal) /\ Aligned(receipt) /\ Aligned(pending) /\ Aligned(flush.pos)

Finished == result => mode = "down" /\ \A f \in Files : disk[f] = Blocks[f]

Inductive ==
    /\ TypeOK /\ AllAligned /\ Bounded /\ Phased
    /\ Ordered /\ Flushing /\ Pausing /\ Recovering /\ Finished
=============================================================================
