------------------------------- MODULE Capture -------------------------------
(***************************************************************************)
(* One file of a streaming task at the sender: its preparation, the        *)
(* capture of the user's file into the task's payload (preparation.rs),    *)
(* the producer CaptureAhead and the worker send_file that share it, and   *)
(* the drain at the end of send (transport.rs), over successive attempts   *)
(* with kills and power failures, beside a user who edits the file.        *)
(*                                                                         *)
(* Offsets count blocks.  A version of the user's file stands for size,    *)
(* time and identity as well as content: an edit that restores all three   *)
(* is beyond the code (INTERNALS.md:66).  A block and its hash are the     *)
(* version it was read from.                                               *)
(***************************************************************************)
EXTENDS Naturals, Sequences

CONSTANTS Blocks,      \* length of the file
          Batch,       \* 32 MiB: blocks captured at once after the first
          Ahead,       \* 32 MiB: durable blocks the worker has not consumed
          Window,      \* blocks sent and not acknowledged
          MaxVersion   \* bound: the user edits the file MaxVersion - 1 times

ASSUME CaptureAssumption ==
    /\ Blocks \in Nat \ {0} /\ Batch \in Nat \ {0} /\ Ahead \in Nat \ {0}
    /\ Window \in Nat \ {0} /\ MaxVersion \in Nat \ {0}

VARIABLES
    source,    \* the version the user's file has now
    task,      \* the saved task: none, preparing, ready, complete, discarded
    taken,     \* the version inspected when the preparation opened the file
    cache,     \* per block, what a read of the payload file returns, 0: nothing
    disk,      \* and what a power failure leaves
    journal,   \* capture.json: Source (0: None), snapshot, hashes
    phase,     \* send: idle, running, ended, draining, persisting
    outcome,   \* what the ended attempt came to: kept, complete, cancelled
    producer,  \* the task of CaptureAhead and its `next`
    job,       \* the blocking capture: where, first block, blocks read, result
    credit,    \* the watch channel consumed: value, not yet seen by producer
    ready,     \* the watch channel ready: value or error, not yet seen by worker
    worker,    \* send_file: where, offset, blocks in flight
    wire,      \* blocks queued for the socket, each with its announced hash
    acks,      \* checkpoints not yet taken by the worker
    received,  \* longest prefix the receiver ever accepted
    sent       \* history: blocks that left, with their content

store   == <<task, taken, cache, disk, journal>>
ahead   == <<producer, job, credit, ready>>
sending == <<worker, wire, acks>>
vars == <<source, store, phase, outcome, ahead, sending, received, sent>>

Versions == 1..MaxVersion
none == 0
Blank == [b \in 1..Blocks |-> none]
NoJournal == [source |-> none, snapshot |-> FALSE, hashes |-> <<>>]
NoJob == [at |-> "none", from |-> 0, read |-> <<>>, end |-> 0]
Least(a, b) == IF a < b THEN a ELSE b

ProducerOff == [at |-> "off", next |-> 0]
WorkerOff   == [at |-> "off", offset |-> 0, pending |-> 0]
CreditOff   == [value |-> 0, fresh |-> FALSE]
ReadyOff    == [end |-> 0, error |-> FALSE, fresh |-> FALSE]

\* The blocking closure runs and holds its guard until it returns.
Capturing == job.at \in {"open", "read", "save"}

Journals == [source : 0..MaxVersion, snapshot : BOOLEAN, hashes : Seq(Versions)]
Producers == [at : {"off", "check", "credit", "joining"}, next : 0..Blocks]
Jobs == [at : {"none", "open", "read", "save", "done", "failed"},
         from : 0..Blocks, read : Seq(Versions), end : 0..Blocks]
Workers == [at : {"off", "next", "wait", "changed", "read"},
            offset : 0..Blocks, pending : 0..Window]

TypeOK ==
    /\ source \in Versions
    /\ task \in {"none", "preparing", "ready", "complete", "discarded", "damaged"}
    /\ taken \in 0..MaxVersion
    /\ cache \in [1..Blocks -> 0..MaxVersion]
    /\ disk \in [1..Blocks -> 0..MaxVersion]
    /\ journal \in Journals /\ Len(journal.hashes) <= Blocks
    /\ phase \in {"idle", "running", "ended", "draining", "persisting"}
    /\ outcome \in {"kept", "complete", "cancelled"}
    /\ producer \in Producers
    /\ job \in Jobs /\ Len(job.read) <= Batch
    /\ credit \in [value : 0..Blocks, fresh : BOOLEAN]
    /\ ready \in [end : 0..Blocks, error : BOOLEAN, fresh : BOOLEAN]
    /\ worker \in Workers
    /\ wire \in Seq([block : 1..Blocks, hash : Versions])
    /\ acks \in Nat /\ Len(wire) + acks <= Window
    /\ received \in 0..Blocks
    /\ sent \subseteq [block : 1..Blocks, content : Versions]

Init ==
    /\ source = 1
    /\ task = "none" /\ taken = none
    /\ cache = Blank /\ disk = Blank /\ journal = NoJournal
    /\ phase = "idle" /\ outcome = "kept"
    /\ producer = ProducerOff /\ job = NoJob
    /\ credit = CreditOff /\ ready = ReadyOff
    /\ worker = WorkerOff /\ wire = <<>> /\ acks = 0
    /\ received = 0 /\ sent = {}

-----------------------------------------------------------------------------
(* Preparation: scan registers the file, with a snapshot where the file    *)
(* system or a private cache provides one.                                 *)

Inspect ==
    /\ task = "none"
    /\ task' = "preparing" /\ taken' = source
    /\ UNCHANGED <<source, cache, disk, journal, phase, outcome, ahead,
                   sending, received, sent>>

\* A reflink, a hard link to a private cache, or its copy.
Clone ==
    /\ task = "preparing" /\ ~journal.snapshot
    /\ journal' = [journal EXCEPT !.snapshot = TRUE]
    /\ cache' = [b \in 1..Blocks |-> source]
    /\ UNCHANGED <<source, task, taken, disk, phase, outcome, ahead, sending,
                   received, sent>>

\* Source::check.
Intact(version) == source = version

Register ==
    /\ task = "preparing"
    /\ Intact(taken)
    /\ disk' = cache
    /\ journal' = [journal EXCEPT
                     !.source = IF journal.snapshot THEN none ELSE taken]
    /\ task' = "ready"
    /\ UNCHANGED <<source, taken, cache, phase, outcome, ahead, sending,
                   received, sent>>

\* Any error, above all a changed file: the directory is removed.
Erase ==
    /\ cache' = Blank /\ disk' = Blank /\ journal' = NoJournal
    /\ UNCHANGED taken

PrepareFails ==
    /\ task = "preparing"
    /\ task' = "none" /\ Erase
    /\ UNCHANGED <<source, phase, outcome, ahead, sending, received, sent>>

\* The user edits or replaces the file.
Edit ==
    /\ source < MaxVersion
    /\ source' = source + 1
    /\ UNCHANGED <<store, phase, outcome, ahead, sending, received, sent>>

-----------------------------------------------------------------------------
(* The producer: the task CaptureAhead spawns.                             *)

\* send, then Resume with the offset the receiver still has.
Start ==
    /\ task = "ready" /\ phase = "idle"
    /\ \E from \in 0..received :
          /\ producer' = [at |-> "check", next |-> from]
          /\ credit' = [value |-> from, fresh |-> FALSE]
          /\ ready' = [end |-> from, error |-> FALSE, fresh |-> FALSE]
          /\ worker' = [at |-> "next", offset |-> from, pending |-> 0]
    /\ phase' = "running"
    /\ UNCHANGED <<source, store, outcome, job, wire, acks, received, sent>>

\* The mutant lets the producer start a batch at the limit.
HasCreditInclusive == producer.next <= credit.value + Ahead
HasCredit == producer.next < credit.value + Ahead

\* An aborted task finishes the poll it is in.
Polled == phase \in {"running", "ended"}

ProducerDone ==
    /\ producer.at = "check" /\ Polled
    /\ producer.next = Blocks
    /\ producer' = ProducerOff
    /\ UNCHANGED <<source, store, phase, outcome, job, credit, ready, sending,
                   received, sent>>

\* credit.borrow() leaves the value unseen, so changed() may return at once.
AwaitCredit ==
    /\ producer.at = "check" /\ Polled
    /\ producer.next < Blocks /\ ~HasCredit
    /\ producer' = [producer EXCEPT !.at = "credit"]
    /\ UNCHANGED <<source, store, phase, outcome, job, credit, ready, sending,
                   received, sent>>

CreditChanged ==
    /\ producer.at = "credit" /\ credit.fresh /\ phase = "running"
    /\ credit' = [credit EXCEPT !.fresh = FALSE]
    /\ producer' = [producer EXCEPT !.at = "check"]
    /\ UNCHANGED <<source, store, phase, outcome, job, ready, sending,
                   received, sent>>

\* The job takes a read guard, which no longer exists once send waits to write.
Spawn ==
    /\ producer.at = "check" /\ Polled
    /\ producer.next < Blocks /\ HasCredit
    /\ producer' = [producer EXCEPT !.at = "joining"]
    /\ job' = [NoJob EXCEPT !.at = "open", !.from = producer.next]
    /\ UNCHANGED <<source, store, phase, outcome, credit, ready, sending,
                   received, sent>>

\* An error, or a capture that ends where it began, ends the producer.
Join ==
    /\ producer.at = "joining" /\ Polled /\ job.at \in {"done", "failed"}
    /\ IF job.at = "done" /\ job.end > producer.next
       THEN /\ producer' = [at |-> "check", next |-> job.end]
            /\ ready' = [end |-> job.end, error |-> FALSE, fresh |-> TRUE]
       ELSE /\ producer' = ProducerOff
            /\ ready' = [ready EXCEPT !.error = TRUE, !.fresh = TRUE]
    /\ job' = NoJob
    /\ UNCHANGED <<source, store, phase, outcome, credit, sending, received,
                   sent>>

-----------------------------------------------------------------------------
(* The blocking capture: block and capture_ahead.                          *)

\* The first block alone, so that it can be sent at once; later a batch.
BatchEnd(from) == IF from = 0 THEN 1 ELSE Least(Blocks, from + Batch)

JobUnchanged == UNCHANGED <<source, task, taken, phase, outcome, producer,
                            credit, ready, sending, received, sent>>

\* Hash one block the payload already holds: captured before, or a snapshot.
JobHash ==
    /\ job.at = "open"
    /\ \/ job.from < Len(journal.hashes)
       \/ journal.snapshot /\ job.from = Len(journal.hashes)
    /\ LET content == cache[job.from + 1]
           captured == job.from < Len(journal.hashes)
           fits == content # none
                   /\ (captured => journal.hashes[job.from + 1] = content)
           hashes == IF captured THEN journal.hashes
                     ELSE Append(journal.hashes, content)
       IN IF fits
          THEN /\ journal' = [journal EXCEPT !.hashes = hashes]
               /\ job' = [job EXCEPT !.at = "done", !.end = Len(hashes)]
          ELSE /\ job' = [job EXCEPT !.at = "failed"]
               /\ UNCHANGED journal
    /\ UNCHANGED <<cache, disk>> /\ JobUnchanged

\* Open the source, which must still be the inspected file.
JobOpen ==
    /\ job.at = "open"
    /\ job.from = Len(journal.hashes) /\ ~journal.snapshot
    /\ Intact(journal.source)
    /\ job' = [job EXCEPT !.at = "read"]
    /\ UNCHANGED <<cache, disk, journal>> /\ JobUnchanged

\* One block from the file as it is now into the payload, and its hash.
JobRead ==
    /\ job.at = "read"
    /\ LET b == job.from + Len(job.read) + 1 IN
          /\ b <= BatchEnd(job.from)
          /\ cache' = [cache EXCEPT ![b] = source]
          /\ job' = [job EXCEPT !.read = Append(@, source)]
    /\ UNCHANGED <<disk, journal>> /\ JobUnchanged

\* The mutant leaves the payload to the kernel.
SyncedLater == disk
Synced == cache

JobSync ==
    /\ job.at = "read" /\ job.from + Len(job.read) = BatchEnd(job.from)
    /\ Intact(journal.source)
    /\ disk' = Synced
    /\ job' = [job EXCEPT !.at = "save"]
    /\ UNCHANGED <<cache, journal>> /\ JobUnchanged

\* A wholly captured file no longer needs its source.
JobSave ==
    /\ job.at = "save"
    /\ LET hashes == journal.hashes \o job.read
           whole == Len(hashes) = Blocks
       IN /\ journal' = [source   |-> IF whole THEN none ELSE journal.source,
                         snapshot |-> whole,
                         hashes   |-> hashes]
          /\ job' = [job EXCEPT !.at = "done", !.end = Len(hashes)]
    /\ UNCHANGED <<cache, disk>> /\ JobUnchanged

\* "Missing snapshot checkpoint", or a source that has changed.
JobRefused ==
    /\ \/ job.at = "open" /\ job.from > Len(journal.hashes)
       \/ /\ job.at = "open" /\ job.from = Len(journal.hashes)
          /\ ~journal.snapshot /\ ~Intact(journal.source)
       \/ /\ job.at = "read" /\ job.from + Len(job.read) = BatchEnd(job.from)
          /\ ~Intact(journal.source)
    /\ job' = [job EXCEPT !.at = "failed"]
    /\ UNCHANGED <<cache, disk, journal>> /\ JobUnchanged

\* A file or the disk fails, at any point.
JobFails ==
    /\ Capturing
    /\ job' = [job EXCEPT !.at = "failed"]
    /\ UNCHANGED <<cache, disk, journal>> /\ JobUnchanged

-----------------------------------------------------------------------------
(* The worker send_file and the socket.                                    *)

WorkerUnchanged == UNCHANGED <<source, store, phase, outcome, producer, job,
                               received, sent>>

NextBlock ==
    /\ worker.at = "next" /\ worker.offset < Blocks /\ worker.pending < Window
    /\ worker' = [worker EXCEPT !.at = "wait"]
    /\ UNCHANGED <<credit, ready, wire, acks>> /\ WorkerUnchanged

\* borrow_and_update marks the value seen.
Wait ==
    /\ worker.at = "wait" /\ ~ready.error
    /\ ready' = [ready EXCEPT !.fresh = FALSE]
    /\ worker' = [worker EXCEPT !.at = IF ready.end > worker.offset
                                       THEN "read" ELSE "changed"]
    /\ UNCHANGED <<credit, wire, acks>> /\ WorkerUnchanged

ReadyChanged ==
    /\ worker.at = "changed" /\ ready.fresh
    /\ worker' = [worker EXCEPT !.at = "wait"]
    /\ UNCHANGED <<credit, ready, wire, acks>> /\ WorkerUnchanged

\* read_captured, without the capture's lock; then Hash and the regions are
\* queued and the block counts as consumed.
Readable(b) == b <= Len(journal.hashes) /\ cache[b] = journal.hashes[b]

ReadCaptured ==
    /\ worker.at = "read"
    /\ LET b == worker.offset + 1 IN
          /\ Readable(b)
          /\ wire' = Append(wire, [block |-> b, hash |-> journal.hashes[b]])
          /\ worker' = [at |-> "next", offset |-> b,
                        pending |-> worker.pending + 1]
          /\ credit' = [value |-> b, fresh |-> TRUE]
    /\ UNCHANGED <<ready, acks>> /\ WorkerUnchanged

\* sendfile reads the payload when the socket takes it; the receiver compares
\* it with the hash and answers only what agrees.
Write ==
    /\ wire # <<>>
    /\ LET packet == Head(wire)
           content == cache[packet.block]
       IN /\ sent' = sent \cup {[block |-> packet.block, content |-> content]}
          /\ IF content = packet.hash
             THEN /\ received' = IF packet.block > received
                                THEN packet.block ELSE received
                  /\ acks' = acks + 1
             ELSE UNCHANGED <<received, acks>>
    /\ wire' = Tail(wire)
    /\ UNCHANGED <<source, store, phase, outcome, ahead, worker>>

Acknowledge ==
    /\ worker.at = "next" /\ acks > 0
    /\ worker.offset = Blocks \/ worker.pending = Window
    /\ worker' = [worker EXCEPT !.pending = @ - 1]
    /\ acks' = acks - 1
    /\ UNCHANGED <<credit, ready, wire>> /\ WorkerUnchanged

-----------------------------------------------------------------------------
(* The end of send.                                                        *)

\* Workers and producer are aborted, and their queues go.
End(how) ==
    /\ phase = "running"
    /\ phase' = "ended" /\ outcome' = how
    /\ worker' = WorkerOff /\ wire' = <<>> /\ acks' = 0
    /\ UNCHANGED <<source, store, ahead, received, sent>>

\* The receiver published the file.
Complete ==
    /\ worker.at = "next" /\ worker.offset = Blocks /\ worker.pending = 0
    /\ End("complete")

\* wait or read_captured fails.
WorkerFails ==
    /\ \/ worker.at = "wait" /\ ready.error
       \/ worker.at = "changed" /\ producer.at = "off" /\ ~ready.fresh
       \/ worker.at = "read" /\ ~Readable(worker.offset + 1)
    /\ End("kept")

\* Pause, a broken connection, another file's failure; or a confirmed Cancel.
Interrupt == \E how \in {"kept", "cancelled"} : End(how)

\* The mutant forgets that a dropped handle detaches its task.
AbortedDetached == producer.at = "credit"
Aborted == producer.at # "off"

ProducerAborted ==
    /\ phase \in {"ended", "draining"} /\ Aborted
    /\ producer' = ProducerOff
    /\ UNCHANGED <<source, store, phase, outcome, job, credit, ready, sending,
                   received, sent>>

\* captures.write(): new readers queue behind it.
Drain ==
    /\ phase = "ended"
    /\ phase' = "draining"
    /\ UNCHANGED <<source, store, outcome, ahead, sending, received, sent>>

\* No lifetime and no capture holds a guard. The mutant lets only the async
\* side hold one.
GuardsFreeAsync == producer.at = "off"
GuardsFree == producer.at = "off" /\ ~Capturing

Drained ==
    /\ phase = "draining" /\ GuardsFree
    /\ phase' = "persisting"
    /\ job' = IF Capturing THEN job ELSE NoJob
    /\ credit' = CreditOff /\ ready' = ReadyOff
    /\ UNCHANGED <<source, store, outcome, producer, sending, received, sent>>

\* The record, then the payload of a finished task; discard of a cancelled one.
Persist ==
    /\ phase = "persisting"
    /\ phase' = "idle" /\ outcome' = "kept"
    /\ IF outcome = "kept" THEN UNCHANGED store
       ELSE /\ task' = IF outcome = "complete" THEN "complete" ELSE "discarded"
            /\ Erase
    /\ UNCHANGED <<source, ahead, sending, received, sent>>

\* The record cannot be written, or not a file of the directory be removed: the
\* task and its payload stay.  A removal that fails half-way takes the payload or
\* the journal, and nothing of the task can be sent any more.
PersistFails ==
    /\ phase = "persisting" /\ outcome # "kept"
    /\ phase' = "idle" /\ outcome' = "kept"
    /\ \/ UNCHANGED store
       \/ outcome = "cancelled" /\ task' = "damaged" /\ Erase
    /\ UNCHANGED <<source, ahead, sending, received, sent>>

-----------------------------------------------------------------------------

\* The process dies; an unregistered preparation is collected (TaskStore).
Stopped ==
    /\ phase' = "idle" /\ outcome' = "kept"
    /\ producer' = ProducerOff /\ job' = NoJob
    /\ credit' = CreditOff /\ ready' = ReadyOff
    /\ worker' = WorkerOff /\ wire' = <<>> /\ acks' = 0
    /\ UNCHANGED <<source, taken, received, sent>>

Kill ==
    /\ task \in {"preparing", "ready"} /\ Stopped
    /\ IF task = "preparing" THEN task' = "none" /\ cache' = Blank
                                  /\ disk' = Blank /\ journal' = NoJournal
       ELSE UNCHANGED <<task, cache, disk, journal>>

PowerLoss ==
    /\ task = "ready" /\ Stopped
    /\ cache' = disk
    /\ UNCHANGED <<task, disk, journal>>

\* The kernel writes a block of the payload by itself.
WriteBack ==
    /\ \E b \in 1..Blocks :
          disk[b] # cache[b] /\ disk' = [disk EXCEPT ![b] = cache[b]]
    /\ UNCHANGED <<source, task, taken, cache, journal, phase, outcome, ahead,
                   sending, received, sent>>

Process ==
    \/ ProducerDone \/ AwaitCredit \/ CreditChanged \/ Spawn \/ Join
    \/ JobHash \/ JobOpen \/ JobRead \/ JobSync \/ JobSave \/ JobRefused
    \/ NextBlock \/ Wait \/ ReadyChanged \/ ReadCaptured \/ Write
    \/ Acknowledge \/ Complete \/ WorkerFails
    \/ ProducerAborted \/ Drain \/ Drained \/ Persist

Next ==
    \/ Inspect \/ Clone \/ Register \/ PrepareFails \/ Edit \/ Start
    \/ Process \/ JobFails \/ PersistFails \/ Interrupt
    \/ Kill \/ PowerLoss \/ WriteBack

\* A process that lives runs its tasks and blocking jobs, and a connection that
\* stands takes what is written. An attempt has finitely much to do.
Spec == Init /\ [][Next]_vars /\ WF_vars(Process)

-----------------------------------------------------------------------------

\* Whatever the user edits, whichever captures fail and whenever the process or
\* the power goes: every block that ever left is the prepared version's, and as
\* long as the task exists its journal and the disk hold it for the next time.
SentIsFixed ==
    \A p \in sent :
        /\ p.content = taken
        /\ task = "ready" =>
              /\ p.block <= Len(journal.hashes)
              /\ journal.hashes[p.block] = p.content
              /\ disk[p.block] = p.content

\* Capturing runs at most the limit and one batch ahead of what the worker has
\* consumed (INTERNALS.md:63).
AheadIsBounded ==
    job.at \in {"read", "save"} =>
        job.from + Len(job.read) <= credit.value + (Ahead - 1) + Batch

\* The payload is removed, and the task offered again, only when nothing of the
\* ended attempt captures any more (transport.rs:187).
CleanupIsAlone ==
    phase \in {"persisting", "idle"} => producer.at = "off" /\ ~Capturing

\* Every attempt to send ends and is recorded: producer, worker and drain wait
\* for each other without a lost wake-up or a circle.
SendEnds == phase = "running" ~> phase = "idle"
=============================================================================
