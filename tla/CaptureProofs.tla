---------------------------- MODULE CaptureProofs ----------------------------
(***************************************************************************)
(* Theorems about Capture: for a file of any length, any batch, limit and  *)
(* window, and any number of edits, only the version that was prepared     *)
(* leaves the sender, capturing stays within its bound, and nothing of an  *)
(* ended attempt captures beside the cleanup.                              *)
(***************************************************************************)
EXTENDS Capture, SequenceTheorems, TLAPS

-----------------------------------------------------------------------------
(* The inductive invariant.                                                *)

\* What exists in which phase: no connection outside "running", no capture once
\* the drain is over, and one job at a time, which its producer waits for.
Phased ==
    /\ phase # "idle" => task = "ready"
    /\ phase # "running" => worker.at = "off" /\ wire = <<>> /\ acks = 0
    /\ phase \in {"idle", "persisting"} => producer.at = "off"
    /\ phase \in {"idle", "persisting"} => job.at = "none"
    /\ producer.at \in {"check", "credit"} => job.at = "none"

\* The worker counts what is in flight, and its offset is the credit it gave.
Windowed ==
    /\ Len(wire) + acks <= worker.pending
    /\ worker.at \in {"wait", "changed", "read"} =>
          worker.pending < Window /\ worker.offset < Blocks
    /\ worker.at # "off" => credit.value = worker.offset

\* A job began with credit and stays within its batch.
Limited ==
    /\ Capturing =>
          /\ job.from < Blocks /\ job.from < credit.value + Ahead
          /\ job.from + Len(job.read) <= BatchEnd(job.from)
    /\ job.at = "open" => job.read = <<>>

\* What the journal lists, and all of a snapshot, is the prepared version, for
\* a reader and after a power failure; versions only grow.
Held ==
    /\ task \in {"none", "preparing"} => sent = {} /\ journal.hashes = <<>>
    /\ task = "none" => ~journal.snapshot
    /\ task \in {"preparing", "ready"} => taken \in Versions /\ taken <= source
    /\ task = "preparing" /\ journal.snapshot =>
          \A b \in 1..Blocks : taken <= cache[b] /\ cache[b] <= source
    /\ task = "ready" =>
          /\ journal.snapshot =>
                \A b \in 1..Blocks : cache[b] = taken /\ disk[b] = taken
          /\ ~journal.snapshot => journal.source = taken
          /\ \A b \in 1..Len(journal.hashes) :
                /\ journal.hashes[b] = taken
                /\ cache[b] = taken /\ disk[b] = taken

\* A running capture appends to the journal. What it has read is in the payload
\* and no older than the prepared version, so an unchanged source afterwards
\* means that all of it is that version.
Reading ==
    /\ job.at \in {"read", "save"} =>
          /\ ~journal.snapshot /\ job.from = Len(journal.hashes)
          /\ \A i \in 1..Len(job.read) :
                /\ cache[job.from + i] = job.read[i]
                /\ taken <= job.read[i] /\ job.read[i] <= source
    /\ job.at = "save" =>
          /\ job.from + Len(job.read) = BatchEnd(job.from)
          /\ \A i \in 1..Len(job.read) :
                job.read[i] = taken /\ disk[job.from + i] = taken

\* Nothing is queued that the journal does not list.
Queued == \A k \in 1..Len(wire) : wire[k].block <= Len(journal.hashes)

Inductive ==
    /\ TypeOK /\ Phased /\ Windowed /\ Limited /\ Held /\ Reading /\ Queued
    /\ SentIsFixed

-----------------------------------------------------------------------------
(* The end of a batch.                                                     *)

\* A batch begins and ends within the file and is no longer than Batch.
LEMMA BatchBounds ==
    ASSUME NEW from \in Nat, from < Blocks
    PROVE  /\ BatchEnd(from) \in Nat
           /\ from < BatchEnd(from) /\ BatchEnd(from) <= Blocks
           /\ BatchEnd(from) <= from + Batch
BY CaptureAssumption DEF BatchEnd, Least

-----------------------------------------------------------------------------
(* Every step keeps the invariant.                                         *)

\* One step per action. Each begins with what the action leaves alone and what
\* it does; the parts of the invariant it does not touch come last.
LEMMA InductiveStep ==
    ASSUME Inductive, [Next]_vars
    PROVE  Inductive'
<1> SUFFICES ASSUME TypeOK, Phased, Windowed, Limited, Held, Reading, Queued,
                    SentIsFixed, [Next]_vars
             PROVE  Inductive'
  BY DEF Inductive
<1>1. /\ Blocks \in Nat /\ Blocks > 0 /\ Batch \in Nat /\ Batch > 0
      /\ Ahead \in Nat /\ Ahead > 0 /\ Window \in Nat /\ Window > 0
      /\ MaxVersion \in Nat /\ MaxVersion > 0
  BY CaptureAssumption
<1>2. /\ journal \in Journals
      /\ journal.source \in 0..MaxVersion /\ journal.snapshot \in BOOLEAN
      /\ journal.hashes \in Seq(Versions) /\ Len(journal.hashes) \in 0..Blocks
      /\ \A b \in 1..Len(journal.hashes) : b \in 1..Blocks
  BY <1>1 DEF TypeOK, Journals
<1>3. /\ worker \in Workers
      /\ worker.at \in {"off", "next", "wait", "changed", "read"}
      /\ worker.offset \in 0..Blocks /\ worker.pending \in 0..Window
      /\ wire \in Seq([block : 1..Blocks, hash : Versions])
      /\ Len(wire) \in Nat /\ acks \in Nat /\ Len(wire) + acks <= Window
      /\ credit \in [value : 0..Blocks, fresh : BOOLEAN]
      /\ credit.value \in 0..Blocks /\ credit.fresh \in BOOLEAN
      /\ ready \in [end : 0..Blocks, error : BOOLEAN, fresh : BOOLEAN]
      /\ ready.end \in 0..Blocks
  BY DEF TypeOK, Workers
<1>4. /\ job \in Jobs
      /\ job.at \in {"none", "open", "read", "save", "done", "failed"}
      /\ job.from \in 0..Blocks /\ job.end \in 0..Blocks
      /\ job.read \in Seq(Versions) /\ Len(job.read) \in 0..Batch
      /\ \A i \in 1..Len(job.read) : job.read[i] \in Versions
      /\ producer \in Producers /\ producer.next \in 0..Blocks
      /\ producer.at \in {"off", "check", "credit", "joining"}
  BY SMTT(30), <1>1 DEF TypeOK, Jobs, Producers
<1>5. /\ source \in Versions /\ taken \in 0..MaxVersion
      /\ Versions \subseteq 0..MaxVersion /\ source \in Nat /\ taken \in Nat
      /\ \A b \in 1..Blocks : cache[b] \in Nat /\ disk[b] \in Nat
      /\ \A v \in Versions : v \in Nat
      /\ cache \in [1..Blocks -> 0..MaxVersion]
      /\ disk \in [1..Blocks -> 0..MaxVersion]
      /\ sent \subseteq [block : 1..Blocks, content : Versions]
  <2>1. /\ source \in Versions /\ taken \in 0..MaxVersion
        /\ cache \in [1..Blocks -> 0..MaxVersion]
        /\ disk \in [1..Blocks -> 0..MaxVersion]
        /\ sent \subseteq [block : 1..Blocks, content : Versions]
    BY ONLY TypeOK DEF TypeOK
  <2>2. Versions \subseteq 0..MaxVersion /\ \A v \in Versions : v \in Nat
    BY ONLY <1>1 DEF Versions
  <2>3. /\ taken \in Nat
        /\ \A b \in 1..Blocks : cache[b] \in Nat /\ disk[b] \in Nat
    BY ONLY <1>1, <2>1
  <2> QED BY <2>1, <2>2, <2>3
<1>6. Capturing => /\ job.from + Len(job.read) <= BatchEnd(job.from)
                   /\ job.from < BatchEnd(job.from)
                   /\ BatchEnd(job.from) \in 0..Blocks
                   /\ BatchEnd(job.from) <= job.from + Batch
  BY <1>1, <1>4, BatchBounds DEF Limited
<1>7. Capturing => \A i \in 1..Len(job.read) : job.from + i \in 1..Blocks
  BY SMTT(30), <1>1, <1>4, <1>6
<1>8. /\ task # "ready" => job.at = "none" /\ wire = <<>> /\ Len(wire) = 0
      /\ job.at # "none" \/ wire # <<>> => task = "ready"
      /\ phase # "running" => worker.at = "off" /\ Len(wire) = 0 /\ acks = 0
      /\ phase \in {"idle", "persisting"} => job.at = "none" /\ ~Capturing
  BY DEF Phased, Capturing
<1>9. /\ \A k \in 1..Len(wire) : wire[k].block \in 1..Blocks
      /\ \A p \in sent : p.block \in 1..Blocks /\ p.content \in Versions
      /\ \A i \in 1..Len(job.read) : job.read[i] \in Nat
  <2>1. \A k \in 1..Len(wire) : wire[k] \in [block : 1..Blocks, hash : Versions]
    BY <1>3, ElementOfSeq
  <2>2. \A k \in 1..Len(wire) : wire[k].block \in 1..Blocks BY ONLY <2>1
  <2>3. \A p \in sent : p.block \in 1..Blocks /\ p.content \in Versions
    BY ONLY <1>5
  <2> QED BY <1>4, <1>5, <2>2, <2>3
<1>10. /\ Blocks \in Nat /\ Batch \in Nat /\ Len(journal.hashes) \in Nat
       /\ Len(journal.hashes) <= Blocks /\ job.from \in Nat
       /\ Len(job.read) \in Nat /\ Len(job.read) <= Batch
  BY <1>1, <1>2, <1>4
<1>11. ASSUME Inspect
      PROVE  Inductive'
  <2>1. UNCHANGED <<source, cache, disk, journal, phase, outcome, producer,
          job, credit, ready, worker, wire, acks, received, sent>>
    BY <1>11 DEF Inspect, store, ahead, sending
  <2>2. task = "none" /\ task' = "preparing" /\ taken' = source
    BY <1>11 DEF Inspect
  <2>3. TypeOK'
    BY ONLY TypeOK, <1>1, <1>5, <2>1, <2>2 DEF TypeOK
  <2>4. Phased'
    BY <2>1, <2>2 DEF Phased
  <2>5. Held'
    BY ONLY Held, <1>5, <2>1, <2>2 DEF Held
  <2>6. Reading'
    BY <1>1, <1>2, <1>4, <1>5, <1>8, <2>1, <2>2 DEF Reading
  <2>7. SentIsFixed'
    BY <1>2, <2>1, <2>2 DEF SentIsFixed, Held
  <2>8. Windowed' /\ Limited' /\ Queued'
    BY <2>1 DEF Windowed, Limited, Capturing, Queued
  <2> QED BY <2>3, <2>4, <2>5, <2>6, <2>7, <2>8 DEF Inductive
<1>12. ASSUME Clone
      PROVE  Inductive'
  <2>1. UNCHANGED <<source, task, taken, disk, phase, outcome, producer, job,
          credit, ready, worker, wire, acks, received, sent>>
    BY <1>12 DEF Clone, ahead, sending
  <2>2. /\ task = "preparing" /\ ~journal.snapshot
        /\ journal' \in Journals /\ journal'.snapshot = TRUE
        /\ journal'.hashes = journal.hashes
    BY <1>2, <1>12 DEF Clone, Journals
  <2>3. /\ \A b \in 1..Blocks : cache'[b] = source
        /\ cache' \in [1..Blocks -> 0..MaxVersion]
    BY <1>5, <1>12 DEF Clone
  <2>4. TypeOK'
    <3>1. Len(wire') + acks' <= Window /\ acks' \in Nat
      BY <1>1, <1>3, <1>8, <2>1, <2>2, <2>3 DEF Windowed
    <3>2. Len(job'.read) <= Batch /\ Len(journal'.hashes) <= Blocks
      BY <1>1, <1>2, <1>4, <2>1, <2>2, <2>3
    <3> QED BY ONLY TypeOK, <1>1, <1>5, <3>1, <3>2, <2>1, <2>2, <2>3 DEF TypeOK
  <2>5. Held'
    <3>1. taken <= source /\ source \in Nat
      BY <1>5, <2>2 DEF Held
    <3>2. \A b \in 1..Blocks : taken <= cache'[b] /\ cache'[b] <= source
      BY ONLY <2>3, <3>1
    <3>3. sent = {} /\ journal.hashes = <<>> /\ taken \in Versions
      BY <2>2 DEF Held
    <3> QED BY ONLY <2>1, <2>2, <3>1, <3>2, <3>3 DEF Held
  <2>6. Reading'
    BY <1>1, <1>2, <1>4, <1>5, <1>8, <2>1, <2>2, <2>3 DEF Reading
  <2>7. Queued'
    BY <1>2, <2>1, <2>2, <2>3 DEF Queued
  <2>8. SentIsFixed'
    BY <1>2, <2>1, <2>2, <2>3 DEF SentIsFixed
  <2>9. Phased' /\ Windowed' /\ Limited'
    BY <2>1 DEF Phased, Windowed, Limited, Capturing
  <2> QED BY <2>4, <2>5, <2>6, <2>7, <2>8, <2>9 DEF Inductive
<1>13. ASSUME Register
      PROVE  Inductive'
  <2>1. UNCHANGED <<source, taken, cache, phase, outcome, producer, job,
          credit, ready, worker, wire, acks, received, sent>>
    BY <1>13 DEF Register, ahead, sending
  <2>2. /\ task = "preparing" /\ task' = "ready" /\ source = taken
        /\ disk' = cache /\ disk' \in [1..Blocks -> 0..MaxVersion]
    BY <1>5, <1>13 DEF Register, Intact
  <2>3. /\ journal' \in Journals /\ journal'.hashes = journal.hashes
        /\ journal'.snapshot = journal.snapshot
        /\ ~journal.snapshot => journal'.source = taken
    <3>1. journal' = [journal EXCEPT
                        !.source = IF journal.snapshot THEN none ELSE taken]
      BY <1>13 DEF Register
    <3>2. none \in 0..MaxVersion BY <1>1 DEF none
    <3> QED BY ONLY <1>2, <1>5, <3>1, <3>2 DEF Journals
  <2>4. sent = {} /\ Len(journal.hashes) = 0 BY <2>2 DEF Held
  <2>5. TypeOK'
    <3>1. Len(wire') + acks' <= Window /\ acks' \in Nat
      BY <1>1, <1>3, <1>8, <2>1, <2>2, <2>3, <2>4 DEF Windowed
    <3>2. Len(job'.read) <= Batch /\ Len(journal'.hashes) <= Blocks
      BY <1>1, <1>2, <1>4, <2>1, <2>2, <2>3, <2>4
    <3> QED BY ONLY TypeOK, <1>1, <1>5, <3>1, <3>2, <2>1, <2>2, <2>3, <2>4 DEF
                 TypeOK
  <2>6. Phased'
    BY <2>1, <2>2, <2>3, <2>4 DEF Phased
  <2>7. Held'
    BY <1>1, <1>2, <1>5, <2>1, <2>2, <2>3, <2>4 DEF Held
  <2>8. Reading'
    BY <1>1, <1>2, <1>4, <1>5, <1>8, <2>1, <2>2, <2>3, <2>4 DEF Reading
  <2>9. Queued'
    BY <1>2, <2>1, <2>2, <2>3, <2>4 DEF Queued
  <2>10. SentIsFixed'
    BY <1>2, <2>1, <2>2, <2>3, <2>4 DEF SentIsFixed
  <2>11. Windowed' /\ Limited'
    BY <2>1 DEF Windowed, Limited, Capturing
  <2> QED BY <2>5, <2>6, <2>7, <2>8, <2>9, <2>10, <2>11 DEF Inductive
<1>14. ASSUME PrepareFails
      PROVE  Inductive'
  <2>1. UNCHANGED <<source, taken, phase, outcome, producer, job, credit,
          ready, worker, wire, acks, received, sent>>
    BY <1>14 DEF PrepareFails, ahead, sending, Erase
  <2>2. task = "preparing" /\ task' = "none" BY <1>14 DEF PrepareFails
  <2>3. /\ cache' = Blank /\ disk' = Blank /\ journal' = NoJournal
        /\ journal' \in Journals /\ ~journal'.snapshot
        /\ journal'.hashes = <<>> /\ Len(journal'.hashes) = 0
        /\ cache' \in [1..Blocks -> 0..MaxVersion]
        /\ disk' \in [1..Blocks -> 0..MaxVersion]
    BY <1>1, <1>14 DEF PrepareFails, Erase, NoJournal, Journals, Blank, none
  <2>4. TypeOK'
    <3>1. Len(wire') + acks' <= Window /\ acks' \in Nat
      BY <1>1, <1>3, <1>8, <2>1, <2>2, <2>3 DEF Windowed
    <3>2. Len(job'.read) <= Batch /\ Len(journal'.hashes) <= Blocks
      BY <1>1, <1>2, <1>4, <2>1, <2>2, <2>3
    <3> QED BY ONLY TypeOK, <1>1, <1>5, <3>1, <3>2, <2>1, <2>2, <2>3 DEF TypeOK
  <2>5. Phased'
    BY <2>1, <2>2, <2>3 DEF Phased
  <2>6. Held'
    BY <1>1, <1>2, <1>5, <2>1, <2>2, <2>3 DEF Held
  <2>7. Reading'
    BY <1>1, <1>2, <1>4, <1>5, <1>8, <2>1, <2>2, <2>3 DEF Reading
  <2>8. Queued'
    BY <1>2, <1>8, <2>1, <2>2, <2>3 DEF Queued
  <2>9. SentIsFixed'
    BY <1>2, <2>1, <2>2, <2>3 DEF SentIsFixed
  <2>10. Windowed' /\ Limited'
    BY <2>1 DEF Windowed, Limited, Capturing
  <2> QED BY <2>4, <2>5, <2>6, <2>7, <2>8, <2>9, <2>10 DEF Inductive
<1>15. ASSUME Edit
      PROVE  Inductive'
  <2>1. UNCHANGED <<task, taken, cache, disk, journal, phase, outcome,
          producer, job, credit, ready, worker, wire, acks, received, sent>>
    BY <1>15 DEF Edit, store, ahead, sending
  <2>2. /\ source' = source + 1 /\ source' \in Versions
        /\ source \in Nat /\ taken \in Nat /\ source < source'
    BY <1>1, <1>5, <1>15 DEF Edit, Versions
  <2>3. TypeOK'
    BY ONLY TypeOK, <1>1, <1>5, <2>1, <2>2 DEF TypeOK
  <2>4. Held'
    <3>1. /\ taken <= source => taken <= source'
          /\ \A b \in 1..Blocks : cache[b] <= source => cache[b] <= source'
      BY ONLY <1>5, <2>2
    <3> QED BY ONLY Held, <2>1, <3>1 DEF Held
  <2>5. Reading'
    <3>1. \A i \in 1..Len(job.read) :
             job.read[i] <= source => job.read[i] <= source'
      BY ONLY <1>9, <2>2
    <3> QED BY ONLY Reading, <2>1, <3>1 DEF Reading
  <2>6. Phased' /\ Windowed' /\ Limited' /\ Queued' /\ SentIsFixed'
    BY <2>1 DEF Phased, Windowed, Limited, Capturing, Queued, SentIsFixed
  <2> QED BY <2>3, <2>4, <2>5, <2>6 DEF Inductive
<1>16. ASSUME Start
      PROVE  Inductive'
  <2>1. UNCHANGED <<source, task, taken, cache, disk, journal, outcome, job,
          wire, acks, received, sent>>
    BY <1>16 DEF Start, store, ahead, sending
  <2>2. task = "ready" /\ phase = "idle" /\ phase' = "running"
    BY <1>16 DEF Start
  <2>3. PICK from \in 0..received :
            /\ producer' = [at |-> "check", next |-> from]
            /\ credit' = [value |-> from, fresh |-> FALSE]
            /\ ready' = [end |-> from, error |-> FALSE, fresh |-> FALSE]
            /\ worker' = [at |-> "next", offset |-> from, pending |-> 0]
    BY <1>16 DEF Start
  <2>4. from \in 0..Blocks BY <1>1 DEF TypeOK
  <2>5. /\ producer' \in Producers /\ producer'.at = "check"
        /\ credit' \in [value : 0..Blocks, fresh : BOOLEAN]
        /\ ready' \in [end : 0..Blocks, error : BOOLEAN, fresh : BOOLEAN]
        /\ worker' \in Workers /\ worker'.at = "next" /\ worker'.pending = 0
        /\ worker'.offset = credit'.value
    BY <1>1, <2>3, <2>4 DEF Producers, Workers
  <2>6. TypeOK'
    BY ONLY TypeOK, <1>1, <1>5, <2>1, <2>2, <2>3, <2>4, <2>5 DEF TypeOK
  <2>7. Phased'
    BY <2>1, <2>2, <2>3, <2>4, <2>5 DEF Phased
  <2>8. Windowed'
    BY <1>1, <1>3, <1>8, <2>1, <2>2, <2>3, <2>4, <2>5 DEF Windowed
  <2>9. Limited'
    BY <1>1, <1>4, <1>8, <2>1, <2>2, <2>3, <2>4, <2>5 DEF Limited, Capturing
  <2>10. Held' /\ Reading' /\ Queued' /\ SentIsFixed'
    BY <2>1 DEF Held, Reading, Queued, SentIsFixed
  <2> QED BY <2>6, <2>7, <2>8, <2>9, <2>10 DEF Inductive
<1>17. ASSUME ProducerDone
      PROVE  Inductive'
  <2>1. UNCHANGED <<source, task, taken, cache, disk, journal, phase, outcome,
          job, credit, ready, worker, wire, acks, received, sent>>
    BY <1>17 DEF ProducerDone, store, sending
  <2>2. /\ producer' \in Producers /\ producer'.at = "off"
    BY <1>1, <1>17 DEF ProducerDone, Producers, ProducerOff
  <2>3. TypeOK'
    BY ONLY TypeOK, <1>1, <1>5, <2>1, <2>2 DEF TypeOK
  <2>4. Phased'
    BY <2>1, <2>2 DEF Phased
  <2>5. Windowed' /\ Limited' /\ Held' /\ Reading' /\ Queued' /\ SentIsFixed'
    BY <2>1 DEF Windowed, Limited, Capturing, Held, Reading, Queued, SentIsFixed
  <2> QED BY <2>3, <2>4, <2>5 DEF Inductive
<1>18. ASSUME AwaitCredit
      PROVE  Inductive'
  <2>1. UNCHANGED <<source, task, taken, cache, disk, journal, phase, outcome,
          job, credit, ready, worker, wire, acks, received, sent>>
    BY <1>18 DEF AwaitCredit, store, sending
  <2>2. producer.at = "check" BY <1>18 DEF AwaitCredit
  <2>3. /\ producer' \in Producers /\ producer'.at = "credit"
    BY <1>4, <1>18 DEF AwaitCredit, Producers
  <2>4. TypeOK'
    BY ONLY TypeOK, <1>1, <1>5, <2>1, <2>2, <2>3 DEF TypeOK
  <2>5. Phased'
    BY <2>1, <2>2, <2>3 DEF Phased
  <2>6. Windowed' /\ Limited' /\ Held' /\ Reading' /\ Queued' /\ SentIsFixed'
    BY <2>1 DEF Windowed, Limited, Capturing, Held, Reading, Queued, SentIsFixed
  <2> QED BY <2>4, <2>5, <2>6 DEF Inductive
<1>19. ASSUME CreditChanged
      PROVE  Inductive'
  <2>1. UNCHANGED <<source, task, taken, cache, disk, journal, phase, outcome,
          job, ready, worker, wire, acks, received, sent>>
    BY <1>19 DEF CreditChanged, store, sending
  <2>2. producer.at = "credit" BY <1>19 DEF CreditChanged
  <2>3. /\ producer' \in Producers /\ producer'.at = "check"
    BY <1>4, <1>19 DEF CreditChanged, Producers
  <2>4. /\ credit' \in [value : 0..Blocks, fresh : BOOLEAN]
        /\ credit'.value = credit.value
    BY <1>3, <1>19 DEF CreditChanged
  <2>5. TypeOK'
    BY ONLY TypeOK, <1>1, <1>5, <2>1, <2>2, <2>3, <2>4 DEF TypeOK
  <2>6. Phased'
    BY <2>1, <2>2, <2>3, <2>4 DEF Phased
  <2>7. Windowed'
    BY <1>1, <1>3, <2>1, <2>2, <2>3, <2>4 DEF Windowed
  <2>8. Limited'
    BY <1>1, <1>4, <2>1, <2>2, <2>3, <2>4 DEF Limited, Capturing
  <2>9. Held' /\ Reading' /\ Queued' /\ SentIsFixed'
    BY <2>1 DEF Held, Reading, Queued, SentIsFixed
  <2> QED BY <2>5, <2>6, <2>7, <2>8, <2>9 DEF Inductive
<1>20. ASSUME Spawn
      PROVE  Inductive'
  <2>1. UNCHANGED <<source, task, taken, cache, disk, journal, phase, outcome,
          credit, ready, worker, wire, acks, received, sent>>
    BY <1>20 DEF Spawn, store, sending
  <2>2. /\ producer.at = "check" /\ producer.next < Blocks
        /\ producer.next < credit.value + Ahead /\ phase \in {"running",
             "ended"}
    BY <1>20 DEF Spawn, HasCredit, Polled
  <2>3. /\ producer' \in Producers /\ producer'.at = "joining"
    BY <1>4, <1>20 DEF Spawn, Producers
  <2>4. /\ job' \in Jobs /\ job'.at = "open" /\ job'.from = producer.next
        /\ job'.read = <<>> /\ Len(job'.read) = 0
    <3>1. job' = [at |-> "open", from |-> producer.next, read |-> <<>>, end
            |-> 0]
      BY <1>20 DEF Spawn, NoJob
    <3>2. <<>> \in Seq(Versions) /\ Len(<<>>) = 0 /\ 0 \in 0..Blocks BY <1>1
    <3> QED BY ONLY <1>4, <3>1, <3>2 DEF Jobs
  <2>5. TypeOK'
    <3>1. Len(wire') + acks' <= Window /\ acks' \in Nat
      BY <1>1, <1>3, <1>8, <2>1, <2>2, <2>3, <2>4 DEF Windowed
    <3>2. Len(job'.read) <= Batch /\ Len(journal'.hashes) <= Blocks
      BY <1>1, <1>2, <1>4, <2>1, <2>2, <2>3, <2>4
    <3> QED BY ONLY TypeOK, <1>1, <1>5, <3>1, <3>2, <2>1, <2>2, <2>3, <2>4 DEF
                 TypeOK
  <2>6. Phased'
    BY <2>1, <2>2, <2>3, <2>4 DEF Phased
  <2>7. Limited'
    <3>1. /\ job'.from \in Nat /\ job'.from < Blocks
          /\ job'.from < credit.value + Ahead
      BY ONLY <1>4, <2>2, <2>4
    <3>2. job'.from + Len(job'.read) <= BatchEnd(job'.from)
      BY <2>4, <3>1, BatchBounds
    <3> QED BY ONLY <2>1, <2>4, <3>1, <3>2 DEF Limited, Capturing
  <2>8. Reading'
    BY <1>1, <1>2, <1>4, <1>5, <2>1, <2>2, <2>3, <2>4 DEF Reading
  <2>9. Windowed' /\ Held' /\ Queued' /\ SentIsFixed'
    BY <2>1 DEF Windowed, Held, Queued, SentIsFixed
  <2> QED BY <2>5, <2>6, <2>7, <2>8, <2>9 DEF Inductive
<1>21. ASSUME Join
      PROVE  Inductive'
  <2>1. UNCHANGED <<source, task, taken, cache, disk, journal, phase, outcome,
          credit, worker, wire, acks, received, sent>>
    BY <1>21 DEF Join, store, sending
  <2>2. phase \in {"running", "ended"} BY <1>21 DEF Join, Polled
  <2>3. /\ job' = NoJob /\ job' \in Jobs /\ job'.at = "none" /\ job'.read = <<>>
        /\ Len(job'.read) = 0
    BY <1>1, <1>21 DEF Join, NoJob, Jobs
  <2>4. /\ producer' \in Producers /\ producer'.at \in {"check", "off"}
        /\ ready' \in [end : 0..Blocks, error : BOOLEAN, fresh : BOOLEAN]
    <3>1. CASE job.at = "done" /\ job.end > producer.next
      <4>1. /\ producer' = [at |-> "check", next |-> job.end]
            /\ ready' = [end |-> job.end, error |-> FALSE, fresh |-> TRUE]
        BY <3>1, <1>21 DEF Join
      <4> QED BY ONLY <1>4, <4>1 DEF Producers
    <3>2. CASE ~(job.at = "done" /\ job.end > producer.next)
      <4>1. /\ producer' = [at |-> "off", next |-> 0]
            /\ ready' = [ready EXCEPT !.error = TRUE, !.fresh = TRUE]
        BY <3>2, <1>21 DEF Join, ProducerOff
      <4>2. ready' = [end |-> ready.end, error |-> TRUE, fresh |-> TRUE]
        BY ONLY <1>3, <4>1
      <4>3. producer' \in Producers BY ONLY <1>1, <4>1 DEF Producers
      <4>4. ready.end \in 0..Blocks BY <1>3
      <4> QED BY ONLY <4>1, <4>2, <4>3, <4>4
    <3> QED BY <3>1, <3>2
  <2>5. TypeOK'
    <3>1. Len(wire') + acks' <= Window /\ acks' \in Nat
      BY <1>1, <1>3, <1>8, <2>1, <2>2, <2>3, <2>4 DEF Windowed
    <3>2. Len(job'.read) <= Batch /\ Len(journal'.hashes) <= Blocks
      BY <1>1, <1>2, <1>4, <2>1, <2>2, <2>3, <2>4
    <3> QED BY ONLY TypeOK, <1>1, <1>5, <3>1, <3>2, <2>1, <2>2, <2>3, <2>4 DEF
                 TypeOK
  <2>6. Phased'
    BY <2>1, <2>2, <2>3, <2>4 DEF Phased
  <2>7. Limited'
    BY <1>1, <1>4, <2>1, <2>2, <2>3, <2>4 DEF Limited, Capturing
  <2>8. Reading'
    BY <1>1, <1>2, <1>4, <1>5, <2>1, <2>2, <2>3, <2>4 DEF Reading
  <2>9. Windowed' /\ Held' /\ Queued' /\ SentIsFixed'
    BY <2>1 DEF Windowed, Held, Queued, SentIsFixed
  <2> QED BY <2>5, <2>6, <2>7, <2>8, <2>9 DEF Inductive
<1>22. ASSUME JobHash
      PROVE  Inductive'
  <2>1. UNCHANGED <<source, task, taken, cache, disk, phase, outcome,
          producer, credit, ready, worker, wire, acks, received, sent>>
    BY <1>22 DEF JobHash, JobUnchanged, sending
  <2>2. /\ job.at = "open" /\ task = "ready"
        /\ phase \notin {"idle", "persisting"}
        /\ producer.at \notin {"check", "credit"}
    BY <1>22 DEF JobHash, Phased
  <2>3. /\ job' \in Jobs /\ job'.at \in {"done", "failed"}
        /\ job'.from = job.from /\ job'.read = job.read
        /\ journal' \in Journals /\ Len(journal'.hashes) <= Blocks
        /\ journal'.snapshot = journal.snapshot /\ journal'.source =
             journal.source
        /\ Len(journal.hashes) <= Len(journal'.hashes)
        /\ \A b \in 1..Len(journal.hashes) : journal'.hashes[b] =
             journal.hashes[b]
        /\ \/ journal'.hashes = journal.hashes
           \/ /\ journal.snapshot
              /\ Len(journal'.hashes) = Len(journal.hashes) + 1
              /\ journal'.hashes[Len(journal'.hashes)] =
                   cache[Len(journal'.hashes)]
    <3> DEFINE content == cache[job.from + 1]
               captured == job.from < Len(journal.hashes)
               fits == content # none
                       /\ (captured => journal.hashes[job.from + 1] = content)
    <3>1. \/ job.from < Len(journal.hashes)
          \/ journal.snapshot /\ job.from = Len(journal.hashes)
      BY <1>22 DEF JobHash
    <3>2. job.from < Blocks /\ content \in 0..MaxVersion
      <4>1. job.from < Blocks BY <2>2 DEF Limited, Capturing
      <4>2. job.from + 1 \in 1..Blocks BY ONLY <1>1, <1>4, <4>1
      <4> QED BY <1>5, <4>1, <4>2
    <3>3. CASE fits /\ captured
      <4>1. /\ journal' = [journal EXCEPT !.hashes = journal.hashes]
            /\ job' = [job EXCEPT !.at = "done", !.end = Len(journal.hashes)]
        BY <3>3, <1>22 DEF JobHash
      <4>2. journal' = journal BY ONLY <1>2, <4>1 DEF Journals
      <4>3. /\ job' \in Jobs /\ job'.at = "done"
            /\ job'.from = job.from /\ job'.read = job.read
        BY ONLY <1>1, <1>2, <1>4, <4>1 DEF Jobs
      <4> QED BY <1>1, <1>2, <4>2, <4>3
    <3>4. CASE fits /\ ~captured
      <4>1. /\ journal' = [journal EXCEPT !.hashes = Append(journal.hashes,
                 content)]
            /\ job' = [job EXCEPT !.at = "done",
                                  !.end = Len(Append(journal.hashes, content))]
        BY <3>4, <1>22 DEF JobHash
      <4>2. content \in Versions
        BY <1>1, <3>2, <3>4 DEF Versions, none
      <4>3. journal.snapshot /\ job.from = Len(journal.hashes) BY <3>1, <3>4
      <4> HIDE DEF content
      <4>4. /\ Append(journal.hashes, content) \in Seq(Versions)
            /\ Len(Append(journal.hashes, content)) = job.from + 1
            /\ Len(Append(journal.hashes, content)) = Len(journal.hashes) + 1
            /\ Append(journal.hashes, content)[job.from + 1] = content
            /\ \A b \in 1..Len(journal.hashes) :
                  Append(journal.hashes, content)[b] = journal.hashes[b]
        BY ONLY <1>2, <4>2, <4>3
      <4>5. /\ journal' \in Journals
            /\ journal'.hashes = Append(journal.hashes, content)
            /\ journal'.snapshot = journal.snapshot
            /\ journal'.source = journal.source
        BY ONLY <1>2, <4>1, <4>4 DEF Journals
      <4>6. /\ job' \in Jobs /\ job'.at = "done"
            /\ job'.from = job.from /\ job'.read = job.read
        <5>1. Len(Append(journal.hashes, content)) \in 0..Blocks
          BY ONLY <1>1, <1>4, <3>2, <4>4
        <5> QED BY ONLY <1>4, <4>1, <5>1 DEF Jobs
      <4>7. content = cache[job.from + 1] BY DEF content
      <4> QED BY ONLY SMTT(30), <1>1, <1>2, <1>4, <3>2, <4>3, <4>4, <4>5, <4>6, <4>7
    <3>5. CASE ~fits
      <4>1. journal' = journal /\ job' = [job EXCEPT !.at = "failed"]
        BY <3>5, <1>22 DEF JobHash
      <4>2. /\ job' \in Jobs /\ job'.at = "failed"
            /\ job'.from = job.from /\ job'.read = job.read
        BY ONLY <1>4, <4>1 DEF Jobs
      <4> QED BY <1>2, <4>1, <4>2
    <3> QED BY <3>3, <3>4, <3>5
  <2>4. TypeOK'
    <3>1. Len(wire') + acks' <= Window /\ acks' \in Nat
      BY <1>1, <1>3, <1>8, <2>1, <2>2, <2>3 DEF Windowed
    <3>2. Len(job'.read) <= Batch /\ Len(journal'.hashes) <= Blocks
      BY <1>1, <1>2, <1>4, <2>1, <2>2, <2>3
    <3> QED BY ONLY TypeOK, <1>1, <1>5, <3>1, <3>2, <2>1, <2>2, <2>3 DEF TypeOK
  <2>5. Phased'
    BY <2>1, <2>2, <2>3 DEF Phased
  <2>6. Limited'
    BY <1>1, <1>4, <2>1, <2>2, <2>3 DEF Limited, Capturing
  <2>7. Held'
    <3>1. ASSUME NEW b \in 1..Len(journal'.hashes)
          PROVE  /\ journal'.hashes[b] = taken
                 /\ cache[b] = taken /\ disk[b] = taken
      <4>1. CASE b \in 1..Len(journal.hashes)
        BY <2>2, <2>3, <4>1 DEF Held
      <4>2. CASE b \notin 1..Len(journal.hashes)
        <5>1. Len(journal.hashes) \in Nat /\ Len(journal'.hashes) \in 0..Blocks
          BY ONLY <1>1, <1>2, <2>3 DEF Journals
        <5>2. journal'.hashes # journal.hashes BY ONLY <3>1, <4>2
        <5>3. /\ journal.snapshot
              /\ Len(journal'.hashes) = Len(journal.hashes) + 1
              /\ journal'.hashes[Len(journal'.hashes)] =
                   cache[Len(journal'.hashes)]
          BY ONLY <2>3, <5>2
        <5>4. b = Len(journal'.hashes) BY ONLY <3>1, <4>2, <5>1, <5>3
        <5>5. b \in 1..Blocks BY ONLY <1>1, <3>1, <5>1
        <5>6. /\ journal.snapshot /\ b = Len(journal'.hashes)
              /\ journal'.hashes[b] = cache[b] /\ b \in 1..Blocks
          BY ONLY <5>3, <5>4, <5>5
        <5> QED BY <2>2, <5>6 DEF Held
      <4> QED BY <4>1, <4>2
    <3> QED BY <2>1, <2>2, <2>3, <3>1 DEF Held
  <2>8. Reading'
    BY <1>1, <1>2, <1>4, <1>5, <2>1, <2>2, <2>3 DEF Reading
  <2>9. Queued'
    <3>1. Len(journal.hashes) <= Len(journal'.hashes)
          /\ Len(journal'.hashes) \in Nat
      BY ONLY <2>3 DEF Journals
    <3> QED BY ONLY Queued, <1>2, <1>9, <2>1, <3>1 DEF Queued
  <2>10. SentIsFixed'
    <3> SUFFICES ASSUME NEW p \in sent
                 PROVE  /\ p.content = taken
                        /\ p.block <= Len(journal'.hashes)
                        /\ journal'.hashes[p.block] = p.content
                        /\ disk[p.block] = p.content
      BY <2>1, <2>2 DEF SentIsFixed
    <3>1. /\ p.content = taken /\ p.block <= Len(journal.hashes)
          /\ journal.hashes[p.block] = p.content
          /\ disk[p.block] = p.content
      BY <2>2 DEF SentIsFixed
    <3>2. p.block \in 1..Len(journal.hashes) BY ONLY <1>2, <1>9, <3>1
    <3>3. /\ p.block <= Len(journal'.hashes)
          /\ journal'.hashes[p.block] = journal.hashes[p.block]
      BY ONLY <1>2, <2>3, <3>2
    <3> QED BY ONLY <3>1, <3>3
  <2>11. Windowed'
    BY <2>1 DEF Windowed
  <2> QED BY <2>4, <2>5, <2>6, <2>7, <2>8, <2>9, <2>10, <2>11 DEF Inductive
<1>23. ASSUME JobOpen
      PROVE  Inductive'
  <2>1. UNCHANGED <<source, task, taken, cache, disk, journal, phase, outcome,
          producer, credit, ready, worker, wire, acks, received, sent>>
    BY <1>23 DEF JobOpen, JobUnchanged, sending
  <2>2. /\ job.at = "open" /\ job.from = Len(journal.hashes)
        /\ ~journal.snapshot /\ job.read = <<>> /\ Len(job.read) = 0
    BY <1>23 DEF JobOpen, Limited
  <2>3. /\ job' \in Jobs /\ job'.at = "read"
        /\ job'.from = job.from /\ job'.read = job.read
    BY <1>4, <1>23 DEF JobOpen, Jobs
  <2>4. TypeOK'
    <3>1. Len(wire') + acks' <= Window /\ acks' \in Nat
      BY <1>1, <1>3, <1>8, <2>1, <2>2, <2>3 DEF Windowed
    <3>2. Len(job'.read) <= Batch /\ Len(journal'.hashes) <= Blocks
      BY <1>1, <1>2, <1>4, <2>1, <2>2, <2>3
    <3> QED BY ONLY TypeOK, <1>1, <1>5, <3>1, <3>2, <2>1, <2>2, <2>3 DEF TypeOK
  <2>5. Phased'
    BY <2>1, <2>2, <2>3 DEF Phased
  <2>6. Limited'
    BY <1>1, <1>4, <2>1, <2>2, <2>3 DEF Limited, Capturing
  <2>7. Reading'
    BY <1>1, <1>2, <1>4, <1>5, <2>1, <2>2, <2>3 DEF Reading
  <2>8. Windowed' /\ Held' /\ Queued' /\ SentIsFixed'
    BY <2>1 DEF Windowed, Held, Queued, SentIsFixed
  <2> QED BY <2>4, <2>5, <2>6, <2>7, <2>8 DEF Inductive
<1>24. ASSUME JobRead
      PROVE  Inductive'
  <2>1. UNCHANGED <<source, task, taken, disk, journal, phase, outcome,
          producer, credit, ready, worker, wire, acks, received, sent>>
    BY <1>24 DEF JobRead, JobUnchanged, sending
  <2>2. job.at = "read" BY <1>24 DEF JobRead
  <2>3. /\ job.from + Len(job.read) + 1 <= BatchEnd(job.from)
        /\ cache' = [cache EXCEPT ![job.from + Len(job.read) + 1] = source]
        /\ job' = [job EXCEPT !.read = Append(@, source)]
    BY <1>24 DEF JobRead
  <2>4. /\ job.from + Len(job.read) + 1 \in 1..Blocks
        /\ Len(job.read) + 1 <= Batch
    BY SMTT(30), <1>1, <1>4, <1>6, <2>2, <2>3 DEF Capturing
  <2>5. /\ cache' \in [1..Blocks -> 0..MaxVersion]
        /\ \A b \in 1..Blocks : cache'[b] =
              IF b = job.from + Len(job.read) + 1 THEN source ELSE cache[b]
    BY <1>5, <2>3, <2>4
  <2>6. /\ job' \in Jobs /\ job'.at = "read" /\ job'.from = job.from
        /\ Len(job'.read) = Len(job.read) + 1
        /\ \A i \in 1..(Len(job.read) + 1) : job'.read[i] =
              IF i = Len(job.read) + 1 THEN source ELSE job.read[i]
    <3>1. /\ Append(job.read, source) \in Seq(Versions)
          /\ Len(Append(job.read, source)) = Len(job.read) + 1
          /\ \A i \in 1..(Len(job.read) + 1) : Append(job.read, source)[i] =
                IF i = Len(job.read) + 1 THEN source ELSE job.read[i]
      BY ONLY <1>4, <1>5
    <3>2. job' \in Jobs /\ job'.at = job.at /\ job'.from = job.from
          /\ job'.read = Append(job.read, source)
      BY ONLY <1>4, <2>3, <3>1 DEF Jobs
    <3> QED BY <2>2, <3>1, <3>2
  <2>7. TypeOK'
    <3>1. Len(wire') + acks' <= Window /\ acks' \in Nat
      BY <1>1, <1>3, <1>8, <2>1, <2>2, <2>3, <2>4, <2>5, <2>6 DEF Windowed
    <3>2. Len(job'.read) <= Batch /\ Len(journal'.hashes) <= Blocks
      BY <1>1, <1>2, <1>4, <2>1, <2>2, <2>3, <2>4, <2>5, <2>6
    <3> QED BY ONLY TypeOK, <1>1, <1>5, <3>1, <3>2, <2>1, <2>2, <2>3, <2>4,
                 <2>5, <2>6 DEF TypeOK
  <2>8. Phased'
    BY <2>1, <2>2, <2>3, <2>4, <2>5, <2>6 DEF Phased
  <2>9. Limited'
    <3>1. job'.from + Len(job'.read) <= BatchEnd(job'.from)
      BY ONLY <1>4, <2>3, <2>6
    <3>2. job.from < Blocks /\ job.from < credit.value + Ahead
      BY <2>2 DEF Limited, Capturing
    <3> QED BY ONLY <2>1, <2>6, <3>1, <3>2 DEF Limited, Capturing
  <2>10. Held'
    <3>1. /\ ~journal.snapshot /\ job.from = Len(journal.hashes)
          /\ task = "ready"
      BY <1>8, <2>2 DEF Reading
    <3>2. \A b \in 1..Len(journal.hashes) : cache'[b] = cache[b]
      <4>1. \A b \in 1..Len(journal.hashes) :
               b \in 1..Blocks /\ b # job.from + Len(job.read) + 1
        <5> DEFINE h == Len(journal.hashes)
                   r == Len(job.read)
        <5>1. /\ h \in Nat /\ r \in Nat /\ Blocks \in Nat /\ h <= Blocks
              /\ job.from = h
          BY ONLY <1>10, <3>1
        <5> HIDE DEF h, r
        <5>2. \A b \in 1..h : b \in 1..Blocks /\ b # job.from + r + 1
          BY ONLY <5>1
        <5> QED BY ONLY <5>2 DEF h, r
      <4> QED BY ONLY <2>5, <4>1
    <3> QED BY ONLY Held, <2>1, <3>1, <3>2 DEF Held
  <2>11. Reading'
    <3>1. /\ ~journal.snapshot /\ job.from = Len(journal.hashes)
          /\ task = "ready" /\ taken <= source
      BY <1>8, <2>2 DEF Reading, Held
    <3>2. ASSUME NEW i \in 1..Len(job'.read)
          PROVE  /\ cache'[job.from + i] = job'.read[i]
                 /\ taken <= job'.read[i] /\ job'.read[i] <= source
      <4>1. CASE i = Len(job.read) + 1
        <5>1. job.from + i = job.from + Len(job.read) + 1
          BY ONLY SMTT(30), <1>4, <4>1
        <5>2. cache'[job.from + i] = source BY ONLY <2>4, <2>5, <5>1
        <5>3. job'.read[i] = source BY ONLY <2>6, <3>2, <4>1
        <5> QED BY ONLY <1>5, <3>1, <5>2, <5>3
      <4>2. CASE i # Len(job.read) + 1
        <5>1. i \in 1..Len(job.read) /\ job'.read[i] = job.read[i]
          BY ONLY <1>4, <2>6, <3>2, <4>2
        <5>2. /\ cache[job.from + i] = job.read[i]
              /\ taken <= job.read[i] /\ job.read[i] <= source
          BY <2>2, <5>1 DEF Reading
        <5>3. /\ job.from + i \in 1..Blocks
              /\ job.from + i # job.from + Len(job.read) + 1
          BY <1>4, <1>7, <2>2, <4>2, <5>1 DEF Capturing
        <5>4. cache'[job.from + i] = cache[job.from + i] BY <2>5, <5>3
        <5> QED BY <5>1, <5>2, <5>4
      <4> QED BY <4>1, <4>2
    <3> QED BY ONLY <2>1, <2>6, <3>1, <3>2 DEF Reading
  <2>12. Windowed' /\ Queued' /\ SentIsFixed'
    BY <2>1 DEF Windowed, Queued, SentIsFixed
  <2> QED BY <2>7, <2>8, <2>9, <2>10, <2>11, <2>12 DEF Inductive
<1>25. ASSUME JobSync
      PROVE  Inductive'
  <2>1. UNCHANGED <<source, task, taken, cache, journal, phase, outcome,
          producer, credit, ready, worker, wire, acks, received, sent>>
    BY <1>25 DEF JobSync, JobUnchanged, sending
  <2>2. /\ job.at = "read" /\ job.from + Len(job.read) = BatchEnd(job.from)
        /\ source = journal.source
    BY <1>25 DEF JobSync, Intact
  <2>3. /\ disk' = cache /\ disk' \in [1..Blocks -> 0..MaxVersion]
    BY <1>5, <1>25 DEF JobSync, Synced
  <2>4. /\ job' \in Jobs /\ job'.at = "save"
        /\ job'.from = job.from /\ job'.read = job.read
    BY <1>4, <1>25 DEF JobSync, Jobs
  <2>5. TypeOK'
    <3>1. Len(wire') + acks' <= Window /\ acks' \in Nat
      BY <1>1, <1>3, <1>8, <2>1, <2>2, <2>3, <2>4 DEF Windowed
    <3>2. Len(job'.read) <= Batch /\ Len(journal'.hashes) <= Blocks
      BY <1>1, <1>2, <1>4, <2>1, <2>2, <2>3, <2>4
    <3> QED BY ONLY TypeOK, <1>1, <1>5, <3>1, <3>2, <2>1, <2>2, <2>3, <2>4 DEF
                 TypeOK
  <2>6. Phased'
    BY <2>1, <2>2, <2>3, <2>4 DEF Phased
  <2>7. Limited'
    BY <1>1, <1>4, <2>1, <2>2, <2>3, <2>4 DEF Limited, Capturing
  <2>8. Held'
    BY <1>1, <1>2, <1>5, <2>1, <2>2, <2>3, <2>4 DEF Held
  <2>9. Reading'
    <3>1. /\ ~journal.snapshot /\ job.from = Len(journal.hashes)
          /\ journal.source = taken
      BY <1>8, <2>2 DEF Reading, Held
    <3>2. ASSUME NEW i \in 1..Len(job.read)
          PROVE  cache[job.from + i] = job.read[i] /\ job.read[i] = taken
      <4>1. /\ cache[job.from + i] = job.read[i]
            /\ taken <= job.read[i] /\ job.read[i] <= source
        BY <2>2 DEF Reading
      <4> QED BY ONLY <1>5, <1>9, <2>2, <3>1, <4>1
    <3>3. taken <= taken /\ taken = source BY ONLY <1>5, <2>2, <3>1
    <3>4. job'.from + Len(job'.read) = BatchEnd(job'.from)
      BY ONLY <2>2, <2>4
    <3> QED BY ONLY <2>1, <2>3, <2>4, <3>1, <3>2, <3>3, <3>4 DEF Reading
  <2>10. SentIsFixed'
    BY <1>2, <1>5, <2>1, <2>2, <2>3, <2>4 DEF SentIsFixed, Held
  <2>11. Windowed' /\ Queued'
    BY <2>1 DEF Windowed, Queued
  <2> QED BY <2>5, <2>6, <2>7, <2>8, <2>9, <2>10, <2>11 DEF Inductive
<1>26. ASSUME JobSave
      PROVE  Inductive'
  <2>1. UNCHANGED <<source, task, taken, cache, disk, phase, outcome,
          producer, credit, ready, worker, wire, acks, received, sent>>
    BY <1>26 DEF JobSave, JobUnchanged, sending
  <2>2. job.at = "save" /\ task = "ready" BY <1>26 DEF JobSave, Phased
  <2>3. /\ job.from = Len(journal.hashes)
        /\ Len(journal.hashes) + Len(job.read) = BatchEnd(job.from)
        /\ BatchEnd(job.from) \in 0..Blocks
    BY <1>4, <1>6, <2>2 DEF Reading, Capturing
  <2>4. /\ journal.hashes \o job.read \in Seq(Versions)
        /\ Len(journal.hashes \o job.read) = Len(journal.hashes) + Len(job.read)
        /\ \A b \in 1..(Len(journal.hashes) + Len(job.read)) :
              (journal.hashes \o job.read)[b] =
                 IF b <= Len(journal.hashes) THEN journal.hashes[b]
                 ELSE job.read[b - Len(journal.hashes)]
    BY ONLY <1>2, <1>4, ConcatProperties
  <2>5. /\ journal' = [source   |-> IF Len(journal.hashes \o job.read) = Blocks
                                     THEN none ELSE journal.source,
                        snapshot |-> Len(journal.hashes \o job.read) = Blocks,
                        hashes   |-> journal.hashes \o job.read]
        /\ job' = [job EXCEPT !.at = "done", !.end = Len(journal.hashes \o
             job.read)]
    BY <1>26 DEF JobSave
  <2>6. /\ journal' \in Journals
        /\ Len(journal'.hashes) = Len(journal.hashes) + Len(job.read)
        /\ \A b \in 1..(Len(journal.hashes) + Len(job.read)) :
              journal'.hashes[b] =
                 IF b <= Len(journal.hashes) THEN journal.hashes[b]
                 ELSE job.read[b - Len(journal.hashes)]
        /\ journal'.snapshot => Len(journal'.hashes) = Blocks
        /\ ~journal'.snapshot => journal'.source = journal.source
    <3>1. none \in 0..MaxVersion BY <1>1 DEF none
    <3>2. (Len(journal.hashes \o job.read) = Blocks) \in BOOLEAN OBVIOUS
    <3>3. /\ journal'.hashes = journal.hashes \o job.read
          /\ journal'.snapshot = (Len(journal.hashes \o job.read) = Blocks)
          /\ ~journal'.snapshot => journal'.source = journal.source
          /\ journal' \in Journals
      BY ONLY <1>2, <2>4, <2>5, <3>1, <3>2 DEF Journals
    <3> QED BY ONLY <2>4, <3>3
  <2>7. /\ job' \in Jobs /\ job'.at = "done"
        /\ job'.from = job.from /\ job'.read = job.read
    BY <1>4, <2>3, <2>4, <2>5 DEF Jobs
  <2>8. /\ Len(journal'.hashes) = Len(journal.hashes) + Len(job.read)
        /\ Len(journal'.hashes) \in Nat /\ Len(journal'.hashes) <= Blocks
        /\ Len(journal.hashes) <= Len(journal'.hashes)
    <3>1. Len(journal'.hashes) = Len(journal.hashes) + Len(job.read) BY <2>6
    <3> DEFINE h == Len(journal.hashes)
               r == Len(job.read)
               k == Len(journal'.hashes)
    <3>2. /\ h \in Nat /\ r \in Nat /\ k = h + r /\ k = BatchEnd(job.from)
          /\ Blocks \in Nat /\ BatchEnd(job.from) \in 0..Blocks
      BY ONLY <1>10, <2>3, <3>1
    <3> HIDE DEF h, r, k
    <3>3. k = h + r /\ k \in Nat /\ k <= Blocks /\ h <= k BY ONLY <3>2
    <3> QED BY ONLY <3>3 DEF h, r, k
  <2>9. TypeOK'
    <3>1. Len(job'.read) <= Batch BY ONLY <1>10, <2>7
    <3>2. Len(wire') + acks' <= Window BY ONLY <1>3, <2>1
    <3> QED BY ONLY TypeOK, <2>1, <2>6, <2>7, <2>8, <3>1, <3>2 DEF TypeOK
  <2>10. Phased'
    BY <2>1, <2>2, <2>3, <2>4, <2>5, <2>6, <2>7, <2>8 DEF Phased
  <2>11. Limited'
    BY <1>1, <1>4, <2>1, <2>2, <2>3, <2>4, <2>5, <2>6, <2>7, <2>8 DEF Limited,
       Capturing
  <2>12. Held'
    <3>1. ~journal.snapshot /\ journal.source = taken
      BY <2>2 DEF Held, Reading
    <3>2. ASSUME NEW b \in 1..Len(journal'.hashes)
          PROVE  /\ journal'.hashes[b] = taken
                 /\ cache[b] = taken /\ disk[b] = taken
      <4>1. CASE b <= Len(journal.hashes)
        <5>1. b \in 1..Len(journal.hashes) BY ONLY <1>2, <3>2, <4>1
        <5>2. journal'.hashes[b] = journal.hashes[b]
          BY <2>6, <3>2, <4>1
        <5> QED BY <2>2, <5>1, <5>2 DEF Held
      <4>2. CASE ~(b <= Len(journal.hashes))
        <5>1. /\ b - Len(journal.hashes) \in 1..Len(job.read)
              /\ job.from + (b - Len(journal.hashes)) = b
              /\ b \in 1..(Len(journal.hashes) + Len(job.read))
          <6> DEFINE h == Len(journal.hashes)
                     r == Len(job.read)
                     k == Len(journal'.hashes)
          <6>1. /\ h \in Nat /\ r \in Nat /\ k = h + r /\ job.from = h
                /\ b \in 1..k /\ ~(b <= h)
            BY ONLY <1>10, <2>3, <2>8, <3>2, <4>2
          <6> HIDE DEF h, r, k
          <6>2. b - h \in 1..r /\ job.from + (b - h) = b /\ b \in 1..(h + r)
            BY ONLY <6>1
          <6> QED BY ONLY <6>2 DEF h, r
        <5>2. journal'.hashes[b] = job.read[b - Len(journal.hashes)]
          BY ONLY <2>6, <4>2, <5>1
        <5> QED BY <2>2, <5>1, <5>2 DEF Reading
      <4> QED BY <4>1, <4>2
    <3>3. journal'.snapshot => Len(journal'.hashes) = Blocks
      BY ONLY <2>6
    <3> QED BY <2>1, <2>2, <2>6, <3>1, <3>2, <3>3 DEF Held
  <2>13. Reading'
    BY <1>1, <1>2, <1>4, <1>5, <2>1, <2>2, <2>3, <2>4, <2>5, <2>6, <2>7, <2>8
       DEF Reading
  <2>14. Queued'
    <3> DEFINE h == Len(journal.hashes)
               k == Len(journal'.hashes)
    <3>1. h \in Nat /\ k \in Nat /\ h <= k BY ONLY <1>10, <2>8
    <3>2. \A i \in 1..Len(wire) : wire[i].block \in 1..Blocks BY <1>9
    <3> HIDE DEF h, k
    <3>3. \A x \in 1..Blocks : x <= h => x <= k BY ONLY <1>10, <3>1
    <3>4. \A i \in 1..Len(wire) : wire[i].block <= h BY DEF Queued, h
    <3>5. \A i \in 1..Len(wire) : wire[i].block <= k BY ONLY <3>2, <3>3, <3>4
    <3> QED BY <2>1, <3>5 DEF Queued, k
  <2>15. SentIsFixed'
    <3> SUFFICES ASSUME NEW p \in sent
                 PROVE  /\ p.content = taken
                        /\ p.block <= Len(journal'.hashes)
                        /\ journal'.hashes[p.block] = p.content
                        /\ disk[p.block] = p.content
      BY <2>1, <2>2 DEF SentIsFixed
    <3>1. /\ p.content = taken /\ p.block <= Len(journal.hashes)
          /\ journal.hashes[p.block] = p.content
          /\ disk[p.block] = p.content
      BY <2>2 DEF SentIsFixed
    <3>2. p.block \in 1..Len(journal.hashes) BY ONLY <1>2, <1>9, <3>1
    <3>3. /\ p.block <= Len(journal'.hashes)
          /\ journal'.hashes[p.block] = journal.hashes[p.block]
      <4>1. /\ p.block \in 1..(Len(journal.hashes) + Len(job.read))
            /\ p.block <= Len(journal'.hashes)
        <5> DEFINE h == Len(journal.hashes)
                   r == Len(job.read)
                   k == Len(journal'.hashes)
        <5>1. h \in Nat /\ r \in Nat /\ k = h + r /\ p.block \in 1..h
          BY ONLY <1>10, <2>8, <3>2
        <5> HIDE DEF h, r, k
        <5>2. p.block \in 1..(h + r) /\ p.block <= k BY ONLY <5>1
        <5> QED BY ONLY <5>2 DEF h, r, k
      <4> QED BY ONLY <2>6, <3>1, <4>1
    <3> QED BY ONLY <3>1, <3>3
  <2>16. Windowed'
    BY <2>1 DEF Windowed
  <2> QED BY <2>9, <2>10, <2>11, <2>12, <2>13, <2>14, <2>15, <2>16 DEF Inductive
<1>27. ASSUME JobRefused
      PROVE  Inductive'
  <2>1. UNCHANGED <<source, task, taken, cache, disk, journal, phase, outcome,
          producer, credit, ready, worker, wire, acks, received, sent>>
    BY <1>27 DEF JobRefused, JobUnchanged, sending
  <2>2. job.at \in {"open", "read"} BY <1>27 DEF JobRefused
  <2>3. /\ job' \in Jobs /\ job'.at = "failed"
        /\ job'.from = job.from /\ job'.read = job.read
    BY <1>4, <1>27 DEF JobRefused, Jobs
  <2>4. TypeOK'
    <3>1. Len(wire') + acks' <= Window /\ acks' \in Nat
      BY <1>1, <1>3, <1>8, <2>1, <2>2, <2>3 DEF Windowed
    <3>2. Len(job'.read) <= Batch /\ Len(journal'.hashes) <= Blocks
      BY <1>1, <1>2, <1>4, <2>1, <2>2, <2>3
    <3> QED BY ONLY TypeOK, <1>1, <1>5, <3>1, <3>2, <2>1, <2>2, <2>3 DEF TypeOK
  <2>5. Phased'
    BY <2>1, <2>2, <2>3 DEF Phased
  <2>6. Limited'
    BY <1>1, <1>4, <2>1, <2>2, <2>3 DEF Limited, Capturing
  <2>7. Reading'
    BY <1>1, <1>2, <1>4, <1>5, <2>1, <2>2, <2>3 DEF Reading
  <2>8. Windowed' /\ Held' /\ Queued' /\ SentIsFixed'
    BY <2>1 DEF Windowed, Held, Queued, SentIsFixed
  <2> QED BY <2>4, <2>5, <2>6, <2>7, <2>8 DEF Inductive
<1>28. ASSUME JobFails
      PROVE  Inductive'
  <2>1. UNCHANGED <<source, task, taken, cache, disk, journal, phase, outcome,
          producer, credit, ready, worker, wire, acks, received, sent>>
    BY <1>28 DEF JobFails, JobUnchanged, sending
  <2>2. Capturing BY <1>28 DEF JobFails
  <2>3. /\ job' \in Jobs /\ job'.at = "failed"
        /\ job'.from = job.from /\ job'.read = job.read
    BY <1>4, <1>28 DEF JobFails, Jobs
  <2>4. TypeOK'
    <3>1. Len(wire') + acks' <= Window /\ acks' \in Nat
      BY <1>1, <1>3, <1>8, <2>1, <2>2, <2>3 DEF Windowed
    <3>2. Len(job'.read) <= Batch /\ Len(journal'.hashes) <= Blocks
      BY <1>1, <1>2, <1>4, <2>1, <2>2, <2>3
    <3> QED BY ONLY TypeOK, <1>1, <1>5, <3>1, <3>2, <2>1, <2>2, <2>3 DEF TypeOK
  <2>5. Phased'
    BY <2>1, <2>2, <2>3 DEF Phased, Capturing
  <2>6. Limited'
    BY <1>1, <1>4, <2>1, <2>2, <2>3 DEF Limited, Capturing
  <2>7. Reading'
    BY <1>1, <1>2, <1>4, <1>5, <2>1, <2>2, <2>3 DEF Reading
  <2>8. Windowed' /\ Held' /\ Queued' /\ SentIsFixed'
    BY <2>1 DEF Windowed, Held, Queued, SentIsFixed
  <2> QED BY <2>4, <2>5, <2>6, <2>7, <2>8 DEF Inductive
<1>29. ASSUME NextBlock
      PROVE  Inductive'
  <2>1. UNCHANGED <<source, task, taken, cache, disk, journal, phase, outcome,
          producer, job, credit, ready, wire, acks, received, sent>>
    BY <1>29 DEF NextBlock, WorkerUnchanged, store
  <2>2. worker.at = "next" /\ worker.offset < Blocks /\ worker.pending < Window
    BY <1>29 DEF NextBlock
  <2>3. /\ worker' \in Workers /\ worker'.at = "wait"
        /\ worker'.offset = worker.offset /\ worker'.pending = worker.pending
    BY <1>3, <1>29 DEF NextBlock, Workers
  <2>4. TypeOK'
    BY ONLY TypeOK, <1>1, <1>5, <2>1, <2>2, <2>3 DEF TypeOK
  <2>5. Phased'
    BY <2>1, <2>2, <2>3 DEF Phased
  <2>6. Windowed'
    BY <1>1, <1>3, <2>1, <2>2, <2>3 DEF Windowed
  <2>7. Limited' /\ Held' /\ Reading' /\ Queued' /\ SentIsFixed'
    BY <2>1 DEF Limited, Capturing, Held, Reading, Queued, SentIsFixed
  <2> QED BY <2>4, <2>5, <2>6, <2>7 DEF Inductive
<1>30. ASSUME Wait
      PROVE  Inductive'
  <2>1. UNCHANGED <<source, task, taken, cache, disk, journal, phase, outcome,
          producer, job, credit, wire, acks, received, sent>>
    BY <1>30 DEF Wait, WorkerUnchanged, store
  <2>2. /\ worker' \in Workers /\ worker.at = "wait"
        /\ worker'.at \in {"read", "changed"}
        /\ worker'.offset = worker.offset /\ worker'.pending = worker.pending
    BY <1>3, <1>30 DEF Wait, Workers
  <2>3. ready' \in [end : 0..Blocks, error : BOOLEAN, fresh : BOOLEAN]
    BY <1>3, <1>30 DEF Wait
  <2>4. TypeOK'
    BY ONLY TypeOK, <1>1, <1>5, <2>1, <2>2, <2>3 DEF TypeOK
  <2>5. Phased'
    BY <2>1, <2>2, <2>3 DEF Phased
  <2>6. Windowed'
    BY <1>1, <1>3, <2>1, <2>2, <2>3 DEF Windowed
  <2>7. Limited' /\ Held' /\ Reading' /\ Queued' /\ SentIsFixed'
    BY <2>1 DEF Limited, Capturing, Held, Reading, Queued, SentIsFixed
  <2> QED BY <2>4, <2>5, <2>6, <2>7 DEF Inductive
<1>31. ASSUME ReadyChanged
      PROVE  Inductive'
  <2>1. UNCHANGED <<source, task, taken, cache, disk, journal, phase, outcome,
          producer, job, credit, ready, wire, acks, received, sent>>
    BY <1>31 DEF ReadyChanged, WorkerUnchanged, store
  <2>2. worker.at = "changed" BY <1>31 DEF ReadyChanged
  <2>3. /\ worker' \in Workers /\ worker'.at = "wait"
        /\ worker'.offset = worker.offset /\ worker'.pending = worker.pending
    BY <1>3, <1>31 DEF ReadyChanged, Workers
  <2>4. TypeOK'
    BY ONLY TypeOK, <1>1, <1>5, <2>1, <2>2, <2>3 DEF TypeOK
  <2>5. Phased'
    BY <2>1, <2>2, <2>3 DEF Phased
  <2>6. Windowed'
    BY <1>1, <1>3, <2>1, <2>2, <2>3 DEF Windowed
  <2>7. Limited' /\ Held' /\ Reading' /\ Queued' /\ SentIsFixed'
    BY <2>1 DEF Limited, Capturing, Held, Reading, Queued, SentIsFixed
  <2> QED BY <2>4, <2>5, <2>6, <2>7 DEF Inductive
<1>32. ASSUME ReadCaptured
      PROVE  Inductive'
  <2>1. UNCHANGED <<source, task, taken, cache, disk, journal, phase, outcome,
          producer, job, ready, acks, received, sent>>
    BY <1>32 DEF ReadCaptured, WorkerUnchanged, store
  <2>2. /\ worker.at = "read" /\ worker.offset + 1 <= Len(journal.hashes)
        /\ wire' = Append(wire, [block |-> worker.offset + 1,
                                 hash |-> journal.hashes[worker.offset + 1]])
        /\ worker' = [at |-> "next", offset |-> worker.offset + 1,
                      pending |-> worker.pending + 1]
        /\ credit' = [value |-> worker.offset + 1, fresh |-> TRUE]
    BY <1>32 DEF ReadCaptured, Readable
  <2>3. /\ worker.pending < Window /\ worker.offset < Blocks
        /\ credit.value = worker.offset /\ worker.offset + 1 \in 1..Blocks
    BY SMTT(30), <1>1, <1>3, <2>2 DEF Windowed
  <2>4. /\ worker' \in Workers /\ worker'.at = "next"
        /\ worker'.offset = worker.offset + 1
        /\ worker'.pending = worker.pending + 1
        /\ credit' \in [value : 0..Blocks, fresh : BOOLEAN]
        /\ credit'.value = worker.offset + 1
    BY ONLY <1>1, <1>3, <2>2, <2>3 DEF Workers
  <2>5. /\ wire' \in Seq([block : 1..Blocks, hash : Versions])
        /\ Len(wire') = Len(wire) + 1
        /\ \A k \in 1..Len(wire) : wire'[k] = wire[k]
        /\ wire'[Len(wire) + 1].block = worker.offset + 1
    <3>1. worker.offset + 1 \in 1..Len(journal.hashes)
      BY SMTT(30), <1>2, <1>3, <2>2
    <3>2. journal.hashes[worker.offset + 1] \in Versions
      BY ONLY <1>2, <3>1
    <3>3. [block |-> worker.offset + 1, hash |-> journal.hashes[worker.offset
            + 1]]
              \in [block : 1..Blocks, hash : Versions]
      BY ONLY <2>3, <3>2
    <3> QED BY ONLY <1>3, <2>2, <3>3
  <2>6. TypeOK'
    <3>1. Len(wire') + acks' <= Window /\ acks' \in Nat
      BY <1>1, <1>3, <1>8, <2>1, <2>2, <2>3, <2>4, <2>5 DEF Windowed
    <3>2. Len(job'.read) <= Batch /\ Len(journal'.hashes) <= Blocks
      BY <1>1, <1>2, <1>4, <2>1, <2>2, <2>3, <2>4, <2>5
    <3> QED BY ONLY TypeOK, <1>1, <1>5, <3>1, <3>2, <2>1, <2>2, <2>3, <2>4,
                 <2>5 DEF TypeOK
  <2>7. Phased'
    BY <2>1, <2>2, <2>3, <2>4, <2>5 DEF Phased
  <2>8. Windowed'
    BY <1>1, <1>3, <2>1, <2>2, <2>3, <2>4, <2>5 DEF Windowed
  <2>9. Limited'
    BY SMTT(30), <1>1, <1>4, <1>3, <2>1, <2>2, <2>3, <2>4, <2>5 DEF Limited, Capturing
  <2>10. Queued'
    BY <1>2, <2>1, <2>2, <2>3, <2>4, <2>5 DEF Queued
  <2>11. Held' /\ Reading' /\ SentIsFixed'
    BY <2>1 DEF Held, Reading, SentIsFixed
  <2> QED BY <2>6, <2>7, <2>8, <2>9, <2>10, <2>11 DEF Inductive
<1>33. ASSUME Write
      PROVE  Inductive'
  <2>1. UNCHANGED <<source, task, taken, cache, disk, journal, phase, outcome,
          producer, job, credit, ready, worker>>
    BY <1>33 DEF Write, store, ahead
  <2>2. /\ wire # <<>> /\ wire' = Tail(wire)
        /\ sent' = sent \cup {[block |-> Head(wire).block,
                               content |-> cache[Head(wire).block]]}
        /\ received' = Head(wire).block \/ received' = received
        /\ acks' = acks \/ acks' = acks + 1
    BY <1>33 DEF Write
  <2>3. /\ Tail(wire) \in Seq([block : 1..Blocks, hash : Versions])
        /\ Len(Tail(wire)) = Len(wire) - 1 /\ 1 \in 1..Len(wire)
        /\ \A k \in 1..Len(Tail(wire)) : Tail(wire)[k] = wire[k + 1]
                                        /\ k + 1 \in 1..Len(wire)
        /\ Head(wire) = wire[1] /\ Head(wire).block \in 1..Blocks
    <3>1. wire # <<>> BY <2>2
    <3>2. /\ Tail(wire) \in Seq([block : 1..Blocks, hash : Versions])
          /\ Len(Tail(wire)) = Len(wire) - 1
          /\ \A k \in 1..Len(Tail(wire)) : Tail(wire)[k] = wire[k + 1]
          /\ Head(wire) \in [block : 1..Blocks, hash : Versions]
      BY ONLY <1>3, <3>1, HeadTailProperties
    <3>3. Len(wire) \in Nat /\ Len(wire) > 0 /\ Head(wire) = wire[1]
      BY ONLY <1>3, <3>1
    <3>4. Head(wire).block \in 1..Blocks BY ONLY <3>2
    <3>5. 1 \in 1..Len(wire)
          /\ \A k \in 1..Len(Tail(wire)) : k + 1 \in 1..Len(wire)
      BY ONLY <3>2, <3>3
    <3> QED BY ONLY <3>2, <3>3, <3>4, <3>5
  <2>4. /\ phase = "running" /\ task = "ready"
        /\ Head(wire).block <= Len(journal.hashes)
    BY <2>2, <2>3 DEF Phased, Queued
  <2>5. /\ journal.hashes[Head(wire).block] = taken
        /\ cache[Head(wire).block] = taken /\ disk[Head(wire).block] = taken
        /\ taken \in Versions
    <3>1. Head(wire).block \in 1..Len(journal.hashes)
      BY ONLY <1>1, <1>2, <2>3, <2>4
    <3> QED BY <2>4, <3>1 DEF Held
  <2>6. /\ sent' = sent \cup {[block |-> Head(wire).block, content |-> taken]}
        /\ [block |-> Head(wire).block, content |-> taken]
               \in [block : 1..Blocks, content : Versions]
    BY ONLY <2>2, <2>3, <2>5
  <2>7. TypeOK'
    <3>1. Len(wire') + acks' <= Window /\ acks' \in Nat
      BY ONLY <1>1, <1>3, <2>2, <2>3
    <3>2. received' \in 0..Blocks
      <4>1. received \in 0..Blocks BY ONLY TypeOK DEF TypeOK
      <4>2. received' = Head(wire).block \/ received' = received BY <2>2
      <4>3. Head(wire).block \in 0..Blocks BY ONLY <1>1, <2>3
      <4> QED BY ONLY <4>1, <4>2, <4>3
    <3>3. sent' \subseteq [block : 1..Blocks, content : Versions]
      BY ONLY <1>5, <2>6
    <3>4. wire' \in Seq([block : 1..Blocks, hash : Versions])
      BY ONLY <2>2, <2>3
    <3> QED BY ONLY TypeOK, <2>1, <3>1, <3>2, <3>3, <3>4 DEF TypeOK
  <2>8. Phased'
    BY <2>1, <2>2, <2>3, <2>4, <2>5, <2>6 DEF Phased
  <2>9. Windowed'
    BY <1>1, <1>3, <2>1, <2>2, <2>3, <2>4, <2>5, <2>6 DEF Windowed
  <2>10. Held'
    BY <1>1, <1>2, <1>5, <2>1, <2>2, <2>3, <2>4, <2>5, <2>6 DEF Held
  <2>11. Queued'
    BY <1>2, <2>1, <2>2, <2>3, <2>4, <2>5, <2>6 DEF Queued
  <2>12. SentIsFixed'
    BY <1>2, <2>1, <2>2, <2>3, <2>4, <2>5, <2>6 DEF SentIsFixed
  <2>13. Limited' /\ Reading'
    BY <2>1 DEF Limited, Capturing, Reading
  <2> QED BY <2>7, <2>8, <2>9, <2>10, <2>11, <2>12, <2>13 DEF Inductive
<1>34. ASSUME Acknowledge
      PROVE  Inductive'
  <2>1. UNCHANGED <<source, task, taken, cache, disk, journal, phase, outcome,
          producer, job, credit, ready, wire, received, sent>>
    BY <1>34 DEF Acknowledge, WorkerUnchanged, store
  <2>2. worker.at = "next" /\ acks > 0 /\ acks' = acks - 1
    BY <1>34 DEF Acknowledge
  <2>3. /\ worker' \in Workers /\ worker'.at = "next"
        /\ worker'.offset = worker.offset
        /\ worker'.pending = worker.pending - 1
    <3>1. worker.pending > 0 BY <1>3, <2>2 DEF Windowed
    <3>2. worker.pending - 1 \in 0..Window BY ONLY <1>1, <1>3, <3>1
    <3>3. worker' = [worker EXCEPT !.pending = worker.pending - 1]
      BY <1>34 DEF Acknowledge
    <3> QED BY ONLY <1>3, <2>2, <3>2, <3>3 DEF Workers
  <2>4. TypeOK'
    <3>1. Len(wire') + acks' <= Window /\ acks' \in Nat
      BY <1>1, <1>3, <1>8, <2>1, <2>2, <2>3 DEF Windowed
    <3>2. Len(job'.read) <= Batch /\ Len(journal'.hashes) <= Blocks
      BY <1>1, <1>2, <1>4, <2>1, <2>2, <2>3
    <3> QED BY ONLY TypeOK, <1>1, <1>5, <3>1, <3>2, <2>1, <2>2, <2>3 DEF TypeOK
  <2>5. Phased'
    BY <2>1, <2>2, <2>3 DEF Phased
  <2>6. Windowed'
    BY <1>1, <1>3, <2>1, <2>2, <2>3 DEF Windowed
  <2>7. Limited' /\ Held' /\ Reading' /\ Queued' /\ SentIsFixed'
    BY <2>1 DEF Limited, Capturing, Held, Reading, Queued, SentIsFixed
  <2> QED BY <2>4, <2>5, <2>6, <2>7 DEF Inductive
<1>35. ASSUME Complete
      PROVE  Inductive'
  <2>1. UNCHANGED <<source, task, taken, cache, disk, journal, producer, job,
          credit, ready, received, sent>>
    BY <1>35 DEF Complete, End, store, ahead
  <2>2. /\ phase = "running" /\ phase' = "ended"
        /\ outcome' \in {"kept", "complete", "cancelled"}
    BY <1>35 DEF Complete, End
  <2>3. /\ worker' = WorkerOff /\ wire' = <<>> /\ acks' = 0 /\ Len(wire') = 0
        /\ worker' \in Workers /\ worker'.at = "off" /\ worker'.pending = 0
        /\ wire' \in Seq([block : 1..Blocks, hash : Versions])
    BY <1>1, <1>35 DEF Complete, End, WorkerOff, Workers
  <2>4. TypeOK'
    <3>1. Len(wire') + acks' <= Window /\ acks' \in Nat
      BY <1>1, <1>3, <1>8, <2>1, <2>2, <2>3 DEF Windowed
    <3>2. Len(job'.read) <= Batch /\ Len(journal'.hashes) <= Blocks
      BY <1>1, <1>2, <1>4, <2>1, <2>2, <2>3
    <3> QED BY ONLY TypeOK, <1>1, <1>5, <3>1, <3>2, <2>1, <2>2, <2>3 DEF TypeOK
  <2>5. Phased'
    BY <2>1, <2>2, <2>3 DEF Phased
  <2>6. Windowed'
    BY <1>1, <1>3, <2>1, <2>2, <2>3 DEF Windowed
  <2>7. Queued'
    BY <1>2, <2>1, <2>2, <2>3 DEF Queued
  <2>8. Limited' /\ Held' /\ Reading' /\ SentIsFixed'
    BY <2>1 DEF Limited, Capturing, Held, Reading, SentIsFixed
  <2> QED BY <2>4, <2>5, <2>6, <2>7, <2>8 DEF Inductive
<1>36. ASSUME WorkerFails
      PROVE  Inductive'
  <2>1. UNCHANGED <<source, task, taken, cache, disk, journal, producer, job,
          credit, ready, received, sent>>
    BY <1>36 DEF WorkerFails, End, store, ahead
  <2>2. /\ phase = "running" /\ phase' = "ended"
        /\ outcome' \in {"kept", "complete", "cancelled"}
    BY <1>36 DEF WorkerFails, End
  <2>3. /\ worker' = WorkerOff /\ wire' = <<>> /\ acks' = 0 /\ Len(wire') = 0
        /\ worker' \in Workers /\ worker'.at = "off" /\ worker'.pending = 0
        /\ wire' \in Seq([block : 1..Blocks, hash : Versions])
    BY <1>1, <1>36 DEF WorkerFails, End, WorkerOff, Workers
  <2>4. TypeOK'
    <3>1. Len(wire') + acks' <= Window /\ acks' \in Nat
      BY <1>1, <1>3, <1>8, <2>1, <2>2, <2>3 DEF Windowed
    <3>2. Len(job'.read) <= Batch /\ Len(journal'.hashes) <= Blocks
      BY <1>1, <1>2, <1>4, <2>1, <2>2, <2>3
    <3> QED BY ONLY TypeOK, <1>1, <1>5, <3>1, <3>2, <2>1, <2>2, <2>3 DEF TypeOK
  <2>5. Phased'
    BY <2>1, <2>2, <2>3 DEF Phased
  <2>6. Windowed'
    BY <1>1, <1>3, <2>1, <2>2, <2>3 DEF Windowed
  <2>7. Queued'
    BY <1>2, <2>1, <2>2, <2>3 DEF Queued
  <2>8. Limited' /\ Held' /\ Reading' /\ SentIsFixed'
    BY <2>1 DEF Limited, Capturing, Held, Reading, SentIsFixed
  <2> QED BY <2>4, <2>5, <2>6, <2>7, <2>8 DEF Inductive
<1>37. ASSUME Interrupt
      PROVE  Inductive'
  <2>1. UNCHANGED <<source, task, taken, cache, disk, journal, producer, job,
          credit, ready, received, sent>>
    BY <1>37 DEF Interrupt, End, store, ahead
  <2>2. /\ phase = "running" /\ phase' = "ended"
        /\ outcome' \in {"kept", "complete", "cancelled"}
    BY <1>37 DEF Interrupt, End
  <2>3. /\ worker' = WorkerOff /\ wire' = <<>> /\ acks' = 0 /\ Len(wire') = 0
        /\ worker' \in Workers /\ worker'.at = "off" /\ worker'.pending = 0
        /\ wire' \in Seq([block : 1..Blocks, hash : Versions])
    BY <1>1, <1>37 DEF Interrupt, End, WorkerOff, Workers
  <2>4. TypeOK'
    <3>1. Len(wire') + acks' <= Window /\ acks' \in Nat
      BY <1>1, <1>3, <1>8, <2>1, <2>2, <2>3 DEF Windowed
    <3>2. Len(job'.read) <= Batch /\ Len(journal'.hashes) <= Blocks
      BY <1>1, <1>2, <1>4, <2>1, <2>2, <2>3
    <3> QED BY ONLY TypeOK, <1>1, <1>5, <3>1, <3>2, <2>1, <2>2, <2>3 DEF TypeOK
  <2>5. Phased'
    BY <2>1, <2>2, <2>3 DEF Phased
  <2>6. Windowed'
    BY <1>1, <1>3, <2>1, <2>2, <2>3 DEF Windowed
  <2>7. Queued'
    BY <1>2, <2>1, <2>2, <2>3 DEF Queued
  <2>8. Limited' /\ Held' /\ Reading' /\ SentIsFixed'
    BY <2>1 DEF Limited, Capturing, Held, Reading, SentIsFixed
  <2> QED BY <2>4, <2>5, <2>6, <2>7, <2>8 DEF Inductive
<1>38. ASSUME ProducerAborted
      PROVE  Inductive'
  <2>1. UNCHANGED <<source, task, taken, cache, disk, journal, phase, outcome,
          job, credit, ready, worker, wire, acks, received, sent>>
    BY <1>38 DEF ProducerAborted, store, sending
  <2>2. /\ producer' \in Producers /\ producer'.at = "off"
    BY <1>1, <1>38 DEF ProducerAborted, Producers, ProducerOff
  <2>3. TypeOK'
    BY ONLY TypeOK, <1>1, <1>5, <2>1, <2>2 DEF TypeOK
  <2>4. Phased'
    BY <2>1, <2>2 DEF Phased
  <2>5. Windowed' /\ Limited' /\ Held' /\ Reading' /\ Queued' /\ SentIsFixed'
    BY <2>1 DEF Windowed, Limited, Capturing, Held, Reading, Queued, SentIsFixed
  <2> QED BY <2>3, <2>4, <2>5 DEF Inductive
<1>39. ASSUME Drain
      PROVE  Inductive'
  <2>1. UNCHANGED <<source, task, taken, cache, disk, journal, outcome,
          producer, job, credit, ready, worker, wire, acks, received, sent>>
    BY <1>39 DEF Drain, store, ahead, sending
  <2>2. phase = "ended" /\ phase' = "draining" BY <1>39 DEF Drain
  <2>3. TypeOK'
    BY ONLY TypeOK, <1>1, <1>5, <2>1, <2>2 DEF TypeOK
  <2>4. Phased'
    BY <2>1, <2>2 DEF Phased
  <2>5. Windowed' /\ Limited' /\ Held' /\ Reading' /\ Queued' /\ SentIsFixed'
    BY <2>1 DEF Windowed, Limited, Capturing, Held, Reading, Queued, SentIsFixed
  <2> QED BY <2>3, <2>4, <2>5 DEF Inductive
<1>40. ASSUME Drained
      PROVE  Inductive'
  <2>1. UNCHANGED <<source, task, taken, cache, disk, journal, outcome,
          producer, worker, wire, acks, received, sent>>
    BY <1>40 DEF Drained, store, sending
  <2>2. /\ phase = "draining" /\ phase' = "persisting"
        /\ producer.at = "off" /\ ~Capturing
    BY <1>40 DEF Drained, GuardsFree
  <2>3. /\ job' = NoJob /\ job' \in Jobs /\ job'.at = "none" /\ job'.read = <<>>
        /\ Len(job'.read) = 0
    BY <1>1, <2>2, <1>40 DEF Drained, NoJob, Jobs
  <2>4. /\ credit' \in [value : 0..Blocks, fresh : BOOLEAN]
        /\ ready' \in [end : 0..Blocks, error : BOOLEAN, fresh : BOOLEAN]
    BY <1>1, <1>40 DEF Drained, CreditOff, ReadyOff
  <2>5. TypeOK'
    <3>1. Len(wire') + acks' <= Window /\ acks' \in Nat
      BY <1>1, <1>3, <1>8, <2>1, <2>2, <2>3, <2>4 DEF Windowed
    <3>2. Len(job'.read) <= Batch /\ Len(journal'.hashes) <= Blocks
      BY <1>1, <1>2, <1>4, <2>1, <2>2, <2>3, <2>4
    <3> QED BY ONLY TypeOK, <1>1, <1>5, <3>1, <3>2, <2>1, <2>2, <2>3, <2>4 DEF
                 TypeOK
  <2>6. Phased'
    BY <2>1, <2>2, <2>3, <2>4 DEF Phased
  <2>7. Windowed'
    BY <1>1, <1>3, <1>8, <2>1, <2>2, <2>3, <2>4 DEF Windowed
  <2>8. Limited'
    BY <1>1, <1>4, <2>1, <2>2, <2>3, <2>4 DEF Limited, Capturing
  <2>9. Reading'
    BY <1>1, <1>2, <1>4, <1>5, <2>1, <2>2, <2>3, <2>4 DEF Reading
  <2>10. Held' /\ Queued' /\ SentIsFixed'
    BY <2>1 DEF Held, Queued, SentIsFixed
  <2> QED BY <2>5, <2>6, <2>7, <2>8, <2>9, <2>10 DEF Inductive
<1>41. ASSUME Persist
      PROVE  Inductive'
  <2>1. UNCHANGED <<source, taken, producer, job, credit, ready, worker, wire,
          acks, received, sent>>
    BY <1>41 DEF Persist, Erase, store, ahead, sending
  <2>2. phase = "persisting" /\ phase' = "idle" /\ outcome' = "kept"
    BY <1>41 DEF Persist
  <2>3. \/ UNCHANGED <<task, cache, disk, journal>>
        \/ task' \in {"complete", "discarded", "damaged"} /\ Erase
    BY <1>41 DEF Persist, store
  <2>4. /\ cache' \in [1..Blocks -> 0..MaxVersion]
        /\ disk' \in [1..Blocks -> 0..MaxVersion]
        /\ journal' \in Journals /\ Len(journal'.hashes) <= Blocks
        /\ journal' = journal \/ task' \in {"complete", "discarded", "damaged"}
    <3>1. CASE UNCHANGED <<task, cache, disk, journal>> BY <1>2, <1>5, <3>1
    <3>2. CASE task' \in {"complete", "discarded", "damaged"} /\ Erase
      BY <1>1, <3>2 DEF Erase, NoJournal, Journals, Blank, none
    <3> QED BY <2>3, <3>1, <3>2
  <2>5. TypeOK'
    <3>1. Len(wire') + acks' <= Window /\ acks' \in Nat
      BY <1>1, <1>3, <1>8, <2>1, <2>2, <2>3, <2>4 DEF Windowed
    <3>2. Len(job'.read) <= Batch /\ Len(journal'.hashes) <= Blocks
      BY <1>1, <1>2, <1>4, <2>1, <2>2, <2>3, <2>4
    <3> QED BY ONLY TypeOK, <1>1, <1>5, <3>1, <3>2, <2>1, <2>2, <2>3, <2>4 DEF
                 TypeOK
  <2>6. Phased'
    BY <2>1, <2>2, <2>3, <2>4 DEF Phased
  <2>7. Held'
    BY <1>1, <1>2, <1>5, <2>1, <2>2, <2>3, <2>4 DEF Held
  <2>8. Reading'
    BY <1>1, <1>2, <1>4, <1>5, <1>8, <2>1, <2>2, <2>3, <2>4 DEF Reading
  <2>9. Queued'
    BY <1>2, <1>8, <2>1, <2>2, <2>3, <2>4 DEF Queued
  <2>10. SentIsFixed'
    BY <1>2, <2>1, <2>2, <2>3, <2>4 DEF SentIsFixed
  <2>11. Windowed' /\ Limited'
    BY <2>1 DEF Windowed, Limited, Capturing
  <2> QED BY <2>5, <2>6, <2>7, <2>8, <2>9, <2>10, <2>11 DEF Inductive
<1>42. ASSUME PersistFails
      PROVE  Inductive'
  <2>1. UNCHANGED <<source, taken, producer, job, credit, ready, worker, wire,
          acks, received, sent>>
    BY <1>42 DEF PersistFails, Erase, store, ahead, sending
  <2>2. phase = "persisting" /\ phase' = "idle" /\ outcome' = "kept"
    BY <1>42 DEF PersistFails
  <2>3. \/ UNCHANGED <<task, cache, disk, journal>>
        \/ task' \in {"complete", "discarded", "damaged"} /\ Erase
    BY <1>42 DEF PersistFails, store
  <2>4. /\ cache' \in [1..Blocks -> 0..MaxVersion]
        /\ disk' \in [1..Blocks -> 0..MaxVersion]
        /\ journal' \in Journals /\ Len(journal'.hashes) <= Blocks
        /\ journal' = journal \/ task' \in {"complete", "discarded", "damaged"}
    <3>1. CASE UNCHANGED <<task, cache, disk, journal>> BY <1>2, <1>5, <3>1
    <3>2. CASE task' \in {"complete", "discarded", "damaged"} /\ Erase
      BY <1>1, <3>2 DEF Erase, NoJournal, Journals, Blank, none
    <3> QED BY <2>3, <3>1, <3>2
  <2>5. TypeOK'
    <3>1. Len(wire') + acks' <= Window /\ acks' \in Nat
      BY <1>1, <1>3, <1>8, <2>1, <2>2, <2>3, <2>4 DEF Windowed
    <3>2. Len(job'.read) <= Batch /\ Len(journal'.hashes) <= Blocks
      BY <1>1, <1>2, <1>4, <2>1, <2>2, <2>3, <2>4
    <3> QED BY ONLY TypeOK, <1>1, <1>5, <3>1, <3>2, <2>1, <2>2, <2>3, <2>4 DEF
                 TypeOK
  <2>6. Phased'
    BY <2>1, <2>2, <2>3, <2>4 DEF Phased
  <2>7. Held'
    BY <1>1, <1>2, <1>5, <2>1, <2>2, <2>3, <2>4 DEF Held
  <2>8. Reading'
    BY <1>1, <1>2, <1>4, <1>5, <1>8, <2>1, <2>2, <2>3, <2>4 DEF Reading
  <2>9. Queued'
    BY <1>2, <1>8, <2>1, <2>2, <2>3, <2>4 DEF Queued
  <2>10. SentIsFixed'
    BY <1>2, <2>1, <2>2, <2>3, <2>4 DEF SentIsFixed
  <2>11. Windowed' /\ Limited'
    BY <2>1 DEF Windowed, Limited, Capturing
  <2> QED BY <2>5, <2>6, <2>7, <2>8, <2>9, <2>10, <2>11 DEF Inductive
<1>43. ASSUME Kill
      PROVE  Inductive'
  <2>1. UNCHANGED <<source, taken, received, sent>>
    BY <1>43 DEF Kill, Stopped, store, ahead, sending
  <2>2. /\ phase' = "idle" /\ outcome' = "kept" BY <1>43 DEF Kill, Stopped
  <2>3. /\ producer' \in Producers /\ producer'.at = "off"
    BY <1>1, <1>43 DEF Kill, Stopped, Producers, ProducerOff
  <2>4. /\ job' = NoJob /\ job' \in Jobs /\ job'.at = "none" /\ job'.read = <<>>
        /\ Len(job'.read) = 0
    BY <1>1, <1>43 DEF Kill, Stopped, NoJob, Jobs
  <2>5. /\ credit' \in [value : 0..Blocks, fresh : BOOLEAN]
        /\ ready' \in [end : 0..Blocks, error : BOOLEAN, fresh : BOOLEAN]
    BY <1>1, <1>43 DEF Kill, Stopped, CreditOff, ReadyOff
  <2>6. /\ worker' = WorkerOff /\ wire' = <<>> /\ acks' = 0 /\ Len(wire') = 0
        /\ worker' \in Workers /\ worker'.at = "off" /\ worker'.pending = 0
        /\ wire' \in Seq([block : 1..Blocks, hash : Versions])
    BY <1>1, <1>43 DEF Kill, Stopped, WorkerOff, Workers
  <2>7. \/ UNCHANGED <<task, cache, disk, journal>>
        \/ /\ task = "preparing" /\ task' = "none" /\ cache' = Blank
           /\ disk' = Blank /\ journal' = NoJournal
    BY <1>43 DEF Kill
  <2>8. /\ cache' \in [1..Blocks -> 0..MaxVersion]
        /\ disk' \in [1..Blocks -> 0..MaxVersion]
        /\ journal' \in Journals /\ Len(journal'.hashes) <= Blocks
        /\ \/ UNCHANGED <<task, cache, disk, journal>>
           \/ /\ task = "preparing" /\ task' = "none"
              /\ ~journal'.snapshot /\ journal'.hashes = <<>>
    <3>1. CASE UNCHANGED <<task, cache, disk, journal>> BY <1>2, <1>5, <3>1
    <3>2. CASE /\ task = "preparing" /\ task' = "none" /\ cache' = Blank
               /\ disk' = Blank /\ journal' = NoJournal
      BY <1>1, <3>2 DEF NoJournal, Journals, Blank, none
    <3> QED BY <2>7, <3>1, <3>2
  <2>9. TypeOK'
    <3>1. Len(wire') + acks' <= Window /\ acks' \in Nat
      BY <1>1, <1>3, <1>8, <2>1, <2>2, <2>3, <2>4, <2>5, <2>6, <2>7, <2>8 DEF
         Windowed
    <3>2. Len(job'.read) <= Batch /\ Len(journal'.hashes) <= Blocks
      BY <1>1, <1>2, <1>4, <2>1, <2>2, <2>3, <2>4, <2>5, <2>6, <2>7, <2>8
    <3> QED BY ONLY TypeOK, <1>1, <1>5, <3>1, <3>2, <2>1, <2>2, <2>3, <2>4,
                 <2>5, <2>6, <2>7, <2>8 DEF TypeOK
  <2>10. Phased'
    BY <2>1, <2>2, <2>3, <2>4, <2>5, <2>6, <2>7, <2>8 DEF Phased
  <2>11. Windowed'
    BY <1>1, <1>3, <2>1, <2>2, <2>3, <2>4, <2>5, <2>6, <2>7, <2>8 DEF Windowed
  <2>12. Limited'
    BY <1>1, <1>4, <2>1, <2>2, <2>3, <2>4, <2>5, <2>6, <2>7, <2>8 DEF Limited,
       Capturing
  <2>13. Held'
    BY <1>1, <1>2, <1>5, <2>1, <2>2, <2>3, <2>4, <2>5, <2>6, <2>7, <2>8 DEF Held
  <2>14. Reading'
    BY <1>1, <1>2, <1>4, <1>5, <2>1, <2>2, <2>3, <2>4, <2>5, <2>6, <2>7, <2>8
       DEF Reading
  <2>15. Queued'
    BY <1>2, <2>1, <2>2, <2>3, <2>4, <2>5, <2>6, <2>7, <2>8 DEF Queued
  <2>16. SentIsFixed'
    BY <1>2, <2>1, <2>2, <2>3, <2>4, <2>5, <2>6, <2>7, <2>8 DEF SentIsFixed
  <2> QED BY <2>9, <2>10, <2>11, <2>12, <2>13, <2>14, <2>15, <2>16 DEF Inductive
<1>44. ASSUME PowerLoss
      PROVE  Inductive'
  <2>1. UNCHANGED <<source, task, taken, disk, journal, received, sent>>
    BY <1>44 DEF PowerLoss, Stopped, store, ahead, sending
  <2>2. /\ phase' = "idle" /\ outcome' = "kept" /\ task = "ready"
        /\ cache' = disk
    BY <1>44 DEF PowerLoss, Stopped
  <2>3. /\ producer' \in Producers /\ producer'.at = "off"
    BY <1>1, <1>44 DEF PowerLoss, Stopped, Producers, ProducerOff
  <2>4. /\ job' = NoJob /\ job' \in Jobs /\ job'.at = "none" /\ job'.read = <<>>
        /\ Len(job'.read) = 0
    BY <1>1, <1>44 DEF PowerLoss, Stopped, NoJob, Jobs
  <2>5. /\ credit' \in [value : 0..Blocks, fresh : BOOLEAN]
        /\ ready' \in [end : 0..Blocks, error : BOOLEAN, fresh : BOOLEAN]
    BY <1>1, <1>44 DEF PowerLoss, Stopped, CreditOff, ReadyOff
  <2>6. /\ worker' = WorkerOff /\ wire' = <<>> /\ acks' = 0 /\ Len(wire') = 0
        /\ worker' \in Workers /\ worker'.at = "off" /\ worker'.pending = 0
        /\ wire' \in Seq([block : 1..Blocks, hash : Versions])
    BY <1>1, <1>44 DEF PowerLoss, Stopped, WorkerOff, Workers
  <2>7. TypeOK'
    <3>1. Len(wire') + acks' <= Window /\ acks' \in Nat
      BY <1>1, <1>3, <1>8, <2>1, <2>2, <2>3, <2>4, <2>5, <2>6 DEF Windowed
    <3>2. Len(job'.read) <= Batch /\ Len(journal'.hashes) <= Blocks
      BY <1>1, <1>2, <1>4, <2>1, <2>2, <2>3, <2>4, <2>5, <2>6
    <3> QED BY ONLY TypeOK, <1>1, <1>5, <3>1, <3>2, <2>1, <2>2, <2>3, <2>4,
                 <2>5, <2>6 DEF TypeOK
  <2>8. Phased'
    BY <2>1, <2>2, <2>3, <2>4, <2>5, <2>6 DEF Phased
  <2>9. Windowed'
    BY <1>1, <1>3, <2>1, <2>2, <2>3, <2>4, <2>5, <2>6 DEF Windowed
  <2>10. Limited'
    BY <1>1, <1>4, <2>1, <2>2, <2>3, <2>4, <2>5, <2>6 DEF Limited, Capturing
  <2>11. Held'
    BY <1>1, <1>2, <1>5, <2>1, <2>2, <2>3, <2>4, <2>5, <2>6 DEF Held
  <2>12. Reading'
    BY <1>1, <1>2, <1>4, <1>5, <2>1, <2>2, <2>3, <2>4, <2>5, <2>6 DEF Reading
  <2>13. Queued'
    BY <1>2, <2>1, <2>2, <2>3, <2>4, <2>5, <2>6 DEF Queued
  <2>14. SentIsFixed'
    BY <2>1 DEF SentIsFixed
  <2> QED BY <2>7, <2>8, <2>9, <2>10, <2>11, <2>12, <2>13, <2>14 DEF Inductive
<1>45. ASSUME WriteBack
      PROVE  Inductive'
  <2>1. UNCHANGED <<source, task, taken, cache, journal, phase, outcome,
          producer, job, credit, ready, worker, wire, acks, received, sent>>
    BY <1>45 DEF WriteBack, ahead, sending
  <2>2. /\ disk' \in [1..Blocks -> 0..MaxVersion]
        /\ \A b \in 1..Blocks : disk'[b] = disk[b] \/ disk'[b] = cache[b]
    BY <1>5, <1>45 DEF WriteBack
  <2>3. TypeOK'
    BY ONLY TypeOK, <1>1, <1>5, <2>1, <2>2 DEF TypeOK
  <2>4. Held'
    BY <1>1, <1>2, <1>5, <2>1, <2>2 DEF Held
  <2>5. Reading'
    BY ZenonT(30), <1>1, <1>2, <1>4, <1>5, <1>7, <1>8, <2>1, <2>2 DEF Reading, Held,
       Capturing
  <2>6. SentIsFixed'
    BY <1>2, <1>5, <2>1, <2>2 DEF SentIsFixed, Held
  <2>7. Phased' /\ Windowed' /\ Limited' /\ Queued'
    BY <2>1 DEF Phased, Windowed, Limited, Capturing, Queued
  <2> QED BY <2>3, <2>4, <2>5, <2>6, <2>7 DEF Inductive
<1>46. ASSUME UNCHANGED vars
      PROVE  Inductive'
  <2>1. UNCHANGED <<source, task, taken, cache, disk, journal, phase, outcome,
          producer, job, credit, ready, worker, wire, acks, received, sent>>
    BY <1>46 DEF vars, store, ahead, sending
  <2>2. TypeOK' /\ Phased' /\ Windowed' /\ Limited' /\ Held' /\ Reading' /\
          Queued' /\ SentIsFixed'
    BY <2>1 DEF TypeOK, Phased, Windowed, Limited, Capturing, Held, Reading,
                Queued, SentIsFixed
  <2> QED BY <2>2 DEF Inductive
<1> QED
  BY <1>11, <1>12, <1>13, <1>14, <1>15, <1>16, <1>17, <1>18, <1>19, <1>20,
     <1>21, <1>22, <1>23, <1>24, <1>25, <1>26, <1>27, <1>28, <1>29, <1>30,
       <1>31, <1>32, <1>33, <1>34, <1>35, <1>36, <1>37, <1>38, <1>39, <1>40,
         <1>41, <1>42, <1>43, <1>44, <1>45, <1>46
  DEF Next, Process

-----------------------------------------------------------------------------
(* Theorems.                                                               *)

\* The invariant holds before the preparation ...
LEMMA InductiveInit ==
    ASSUME Init
    PROVE  Inductive
<1>1. /\ Blocks \in Nat /\ Batch \in Nat /\ Window \in Nat
      /\ MaxVersion \in Nat /\ MaxVersion > 0 /\ none = 0
      /\ <<>> \in Seq(Versions) /\ Len(<<>>) = 0
  BY CaptureAssumption DEF none
<1>2. /\ journal = [source |-> 0, snapshot |-> FALSE, hashes |-> <<>>]
      /\ job = [at |-> "none", from |-> 0, read |-> <<>>, end |-> 0]
      /\ producer = [at |-> "off", next |-> 0]
      /\ worker = [at |-> "off", offset |-> 0, pending |-> 0]
      /\ credit = [value |-> 0, fresh |-> FALSE]
      /\ ready = [end |-> 0, error |-> FALSE, fresh |-> FALSE]
      /\ cache = [b \in 1..Blocks |-> 0] /\ disk = [b \in 1..Blocks |-> 0]
      /\ source = 1 /\ task = "none" /\ taken = 0 /\ phase = "idle"
      /\ outcome = "kept" /\ wire = <<>> /\ acks = 0 /\ received = 0
      /\ sent = {}
  BY <1>1 DEF Init, NoJournal, NoJob, ProducerOff, WorkerOff, CreditOff,
              ReadyOff, Blank
<1>3. TypeOK
  <2>1. journal \in Journals /\ Len(journal.hashes) <= Blocks
    BY ONLY <1>1, <1>2 DEF Journals
  <2>2. job \in Jobs /\ Len(job.read) <= Batch BY ONLY <1>1, <1>2 DEF Jobs
  <2>3. producer \in Producers /\ worker \in Workers
    BY ONLY <1>1, <1>2 DEF Producers, Workers
  <2>4. /\ credit \in [value : 0..Blocks, fresh : BOOLEAN]
        /\ ready \in [end : 0..Blocks, error : BOOLEAN, fresh : BOOLEAN]
    BY ONLY <1>1, <1>2
  <2>5. /\ source \in Versions /\ taken \in 0..MaxVersion
        /\ cache \in [1..Blocks -> 0..MaxVersion]
        /\ disk \in [1..Blocks -> 0..MaxVersion]
        /\ wire \in Seq([block : 1..Blocks, hash : Versions])
        /\ acks \in Nat /\ Len(wire) + acks <= Window
        /\ received \in 0..Blocks
    BY ONLY <1>1, <1>2 DEF Versions
  <2> QED BY ONLY <1>2, <2>1, <2>2, <2>3, <2>4, <2>5 DEF TypeOK
<1>4. Phased /\ Windowed /\ Limited /\ Queued /\ SentIsFixed
  BY ONLY <1>1, <1>2 DEF Phased, Windowed, Limited, Queued, SentIsFixed,
     Capturing
<1>5. Held /\ Reading BY ONLY <1>1, <1>2 DEF Held, Reading
<1> QED BY <1>3, <1>4, <1>5 DEF Inductive

\* ... and for ever.
THEOREM InductiveHolds == Spec => []Inductive
<1>1. Init => Inductive BY InductiveInit
<1>2. Inductive /\ [Next]_vars => Inductive' BY InductiveStep
<1> QED BY <1>1, <1>2, PTL DEF Spec

\* Every block that ever left is the prepared version's, and as long as the task
\* exists its journal and the disk hold it, whatever the user edits and whenever
\* a capture, the process or the power fails.
THEOREM SentAlwaysFixed == Spec => []SentIsFixed
<1>1. Inductive => SentIsFixed BY DEF Inductive
<1> QED BY <1>1, InductiveHolds, PTL

\* INTERNALS.md: capturing runs at most the limit and one batch ahead of the
\* worker, for any sizes of the three.
THEOREM AheadAlwaysBounded == Spec => []AheadIsBounded
<1>1. ASSUME Inductive, job.at \in {"read", "save"}
      PROVE  job.from + Len(job.read) <= credit.value + (Ahead - 1) + Batch
  <2>1. /\ job.from < Blocks /\ job.from < credit.value + Ahead
        /\ job.from + Len(job.read) <= BatchEnd(job.from)
    BY <1>1 DEF Inductive, Limited, Capturing
  <2>2. /\ job.from \in Nat /\ Len(job.read) \in Nat /\ credit.value \in Nat
        /\ Ahead \in Nat /\ Batch \in Nat
    BY <1>1, CaptureAssumption DEF Inductive, TypeOK, Jobs
  <2>3. BatchEnd(job.from) \in Nat /\ BatchEnd(job.from) <= job.from + Batch
    BY <2>1, <2>2, BatchBounds
  <2> QED BY ONLY <2>1, <2>2, <2>3
<1>2. Inductive => AheadIsBounded BY <1>1 DEF AheadIsBounded
<1> QED BY <1>2, InductiveHolds, PTL

\* Nothing of an ended attempt captures when its payload is removed or the task
\* is offered again, although neither a job nor a dropped producer can be
\* stopped at once.
THEOREM CleanupAlwaysAlone == Spec => []CleanupIsAlone
<1>1. Inductive => CleanupIsAlone
  BY DEF Inductive, Phased, CleanupIsAlone, Capturing
<1> QED BY <1>1, InductiveHolds, PTL
=============================================================================
