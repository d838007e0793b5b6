-------------------------- MODULE CheckpointProofs --------------------------
(***************************************************************************)
(* Proofs about Checkpoint, for any set of files, any number of blocks and *)
(* both kinds of manifest.                                                 *)
(*                                                                         *)
(* The argument: the copies of a file's position are ordered               *)
(*     receipt <= journal <= pending <= what the file holds                *)
(* while a session works (Ordered), what a flush has captured stays in     *)
(* between (Flushing), and neither a restart nor an interrupted cancel     *)
(* leaves the journal ahead of the disk (Bounded, Recovering).  The safety *)
(* properties of Checkpoint follow from that state predicate.              *)
(***************************************************************************)
EXTENDS Checkpoint, TLAPS

\* recover() accepts what is both recorded and readable: with a hash for every
\* recorded block, the other bounds in Verified play no part.
LEMMA VerifiedIs ==
    ASSUME NEW f \in Files, NEW p \in [off : Nat, hashes : Nat],
           Streaming => p.hashes = p.off, p.off <= Blocks[f],
           NEW readable \in Nat
    PROVE  Verified(f, p, readable) = Least(p.off, readable)
<1>1. Blocks[f] \in Nat
  BY CheckpointAssumption
<1> QED
  BY <1>1, CheckpointAssumption DEF Verified, Least

\* Type correctness is kept by every action: the first conjunct of the
\* inductive invariant, proved apart because every other conjunct uses it.
LEMMA TypeStep == TypeOK /\ [Next]_vars => TypeOK'
<1> SUFFICES ASSUME TypeOK, [Next]_vars PROVE TypeOK'
  OBVIOUS
<1> USE CheckpointAssumption
    DEF TypeOK, Modes, WorkerStates, JobStates, FlushPhases, Positions, Origin,
        NoFlush, Forget, session, memory, storage
<1>1. CASE Open
  BY <1>1 DEF Open
<1>2. CASE Answer
  BY <1>2 DEF Answer, vars
<1>3. ASSUME NEW f \in Files, RecoverFile(f) PROVE TypeOK'
  BY <1>3 DEF RecoverFile, Verified, Least
<1>4. CASE Resume
  BY <1>4 DEF Resume
<1>5. ASSUME NEW f \in Files, OpenFile(f) PROVE TypeOK'
  BY <1>5 DEF OpenFile
<1>6. ASSUME NEW f \in Files, WriteBegin(f) PROVE TypeOK'
  BY <1>6 DEF WriteBegin
<1>7. ASSUME NEW f \in Files, WriteBytes(f) PROVE TypeOK'
  BY <1>7 DEF WriteBytes
<1>8. ASSUME NEW f \in Files, WriteDone(f) PROVE TypeOK'
  BY <1>8 DEF WriteDone, Returned
<1>9. ASSUME NEW f \in Files, WriteFails(f) PROVE TypeOK'
  BY <1>9 DEF WriteFails, Returned
<1>10. ASSUME NEW f \in Files, Report(f) PROVE TypeOK'
  BY <1>10 DEF Report, Durable
<1>11. ASSUME NEW f \in Files, CloseFile(f) PROVE TypeOK'
  BY <1>11 DEF CloseFile
<1>12. CASE SyncStart
  BY <1>12 DEF SyncStart
<1>13. CASE FlushBegin
  <2>1. /\ worker' \in [Files -> WorkerStates]
        /\ sync' \in {"none", "queued", "flushing", "failed"}
        /\ job' \in JobStates
    BY <1>13 DEF FlushBegin, CallFlush
  <2>2. flush' \in [phase : FlushPhases, pos : Positions,
                   dirty : SUBSET Files, left : SUBSET Files]
    <3>1. (IF dirty = {} THEN "clear" ELSE "sync") \in FlushPhases
      OBVIOUS
    <3> QED
      BY <3>1, <1>13 DEF FlushBegin, Captured
  <2> QED
    BY <2>1, <2>2, <1>13 DEF FlushBegin
<1>14. ASSUME NEW f \in Files, FlushSync(f) PROVE TypeOK'
  BY ZenonT(30), <1>14 DEF FlushSync
<1>15. CASE FlushFails
  BY <1>15 DEF FlushFails, ReturnFlush, Returned
<1>16. CASE FlushSave
  BY ZenonT(30), <1>16 DEF FlushSave
<1>17. CASE FlushInstall
  BY ZenonT(30), <1>17 DEF FlushInstall
<1>18. CASE FlushClear
  BY <1>18 DEF FlushClear, ReturnFlush, Returned, Saved
<1>19. ASSUME NEW c \in {"pause", "cancel"}, StopRequest(c) PROVE TypeOK'
  BY <1>19 DEF StopRequest
<1>20. ASSUME NEW f \in Files, DrainWorker(f) PROVE TypeOK'
  BY <1>20 DEF DrainWorker
<1>21. CASE CommitRequest
  BY <1>21 DEF CommitRequest
<1>22. CASE StartJob
  BY <1>22 DEF StartJob
<1>23. CASE Paused
  BY <1>23 DEF Paused
<1>24. CASE Committed
  BY <1>24 DEF Committed
<1>25. CASE JobFails
  BY <1>25 DEF JobFails
<1>26. CASE CancelBegin
  BY <1>26 DEF CancelBegin
<1>27. ASSUME NEW f \in Files, CancelRemove(f) PROVE TypeOK'
  BY <1>27 DEF CancelRemove
<1>28. CASE CancelSave
  BY <1>28 DEF CancelSave
<1>29. CASE Drop
  BY <1>29 DEF Drop
<1>30. CASE Abandon
  BY <1>30 DEF Abandon
<1>31. CASE Release
  BY <1>31 DEF Release
<1>32. ASSUME NEW f \in Files, WriteBack(f) PROVE TypeOK'
  BY <1>32 DEF WriteBack
<1>33. CASE Kill
  BY <1>33 DEF Kill
<1>34. CASE PowerLoss
  BY <1>34 DEF PowerLoss
<1>35. CASE UNCHANGED vars
  BY <1>35 DEF vars
<1> QED
  BY <1>1, <1>2, <1>3, <1>4, <1>5, <1>6, <1>7, <1>8, <1>9, <1>10, <1>11,
     <1>12, <1>13, <1>14, <1>15, <1>16, <1>17, <1>18, <1>19, <1>20,
     <1>21, <1>22, <1>23, <1>24, <1>25, <1>26, <1>27, <1>28, <1>29,
     <1>30, <1>31, <1>32, <1>33, <1>34, <1>35
     DEF Next, WorkerStep, FlushStep, CancelStep, SessionStep, Machine

\* Every action keeps the inductive invariant; the steps are grouped as the
\* actions are in Checkpoint.  The conjuncts a leaf does not name separately are
\* those the action leaves alone or settles by a single assignment.
LEMMA InductiveStep == Inductive /\ [Next]_vars => Inductive'
<1> SUFFICES ASSUME Inductive, [Next]_vars PROVE Inductive'
  OBVIOUS
<1> USE CheckpointAssumption
    DEF Inductive, TypeOK, AllAligned, Aligned, Bounded, Phased, Ordered,
        Flushing, Pausing, Recovering, Finished, Live, Modes, WorkerStates, JobStates,
        FlushPhases, Positions, Origin, NoFlush, Forget, session, memory,
        storage
<1>0. TypeOK'
  BY TypeStep
<1>1. CASE Open
  BY <1>0, <1>1 DEF Open
<1>2. CASE Answer
  BY <1>0, <1>2 DEF Answer, vars
<1>3. ASSUME NEW f \in Files, RecoverFile(f) PROVE Inductive'
  <2>1. AllAligned'
    BY <1>0, <1>3 DEF RecoverFile, Verified, Least
  <2>2. Bounded'
    BY <1>0, <1>3 DEF RecoverFile, Verified, Least
  <2>3. Recovering'
    <3>1. ASSUME NEW g \in Files \ {f}
          PROVE /\ g \in left' => receipt'[g] = journal'[g]
                /\ g \notin left' =>
                     /\ receipt'[g].off <= journal'[g].off
                     /\ disk'[g] = receipt'[g].off /\ cache'[g] = receipt'[g].off
                /\ ~voided' => receipt'[g].off = journal'[g].off
      BY <1>0, <1>3 DEF RecoverFile
    <3>2. Verified(f, receipt[f], cache[f]) = Least(journal[f].off, cache[f])
      <4>1. receipt[f] = journal[f]
        BY <1>3 DEF RecoverFile
      <4> QED
        BY <4>1, VerifiedIs
    <3>3. /\ receipt'[f].off = Least(journal[f].off, cache[f])
          /\ cache'[f] = receipt'[f].off
          /\ disk'[f] = receipt'[f].off
          /\ f \notin left'
      BY <1>0, <1>3, <3>2 DEF RecoverFile
    <3>4. /\ receipt'[f].off <= journal[f].off
          /\ ~voided => receipt'[f].off = journal[f].off
      <4>1. {journal[f].off, disk[f], cache[f]} \subseteq Nat
        OBVIOUS
      <4>2. disk[f] <= cache[f] /\ (~voided => journal[f].off <= disk[f])
        OBVIOUS
      <4> QED
        BY ONLY <3>3, <4>1, <4>2 DEF Least
    <3>5. job # "removing"
      BY <1>3 DEF RecoverFile
    <3> QED
      BY <3>1, <3>3, <3>4, <3>5, <1>3 DEF RecoverFile
  <2> QED
    BY <1>0, <1>3, <2>1, <2>2, <2>3 DEF RecoverFile, Verified, Least
<1>4. CASE Resume
  <2>1. AllAligned'
    BY <1>0, <1>4 DEF Resume
  <2>2. Bounded'
    <3> SUFFICES ASSUME NEW f \in Files
                 PROVE  /\ disk'[f] <= cache'[f] /\ cache'[f] <= Blocks[f]
                        /\ journal'[f].off <= Blocks[f]
                        /\ journal'[f].off <= disk'[f] \/ (voided' /\ cache'[f] = 0)
                        /\ told'[f] <= IF voided' THEN 0 ELSE journal'[f].off
      OBVIOUS
    <3>1. /\ journal'[f].off = receipt[f].off /\ ~voided'
          /\ UNCHANGED <<disk, cache, told>>
      BY <1>4 DEF Resume
    <3>2. /\ disk[f] = receipt[f].off /\ cache[f] = receipt[f].off
          /\ cache[f] <= Blocks[f] /\ disk[f] <= cache[f]
      BY <1>4 DEF Resume
    <3>3. told[f] <= receipt[f].off
      BY <1>4 DEF Resume
    <3> QED
      BY <3>1, <3>2, <3>3
  <2>3. Ordered'
    BY <1>0, <1>4 DEF Resume
  <2> QED
    BY <1>0, <1>4, <2>1, <2>2, <2>3 DEF Resume
<1>5. ASSUME NEW f \in Files, OpenFile(f) PROVE Inductive'
  BY <1>0, <1>5 DEF OpenFile
<1>6. ASSUME NEW f \in Files, WriteBegin(f) PROVE Inductive'
  BY <1>0, <1>6 DEF WriteBegin, Consuming
<1>7. ASSUME NEW f \in Files, WriteBytes(f) PROVE Inductive'
  <2>1. Bounded'
    BY <1>0, <1>7 DEF WriteBytes
  <2>2. Ordered'
    BY <1>0, <1>7 DEF WriteBytes
  <2> QED
    BY <1>0, <1>7, <2>1, <2>2 DEF WriteBytes
<1>8. ASSUME NEW f \in Files, WriteDone(f) PROVE Inductive'
  BY <1>0, <1>8 DEF WriteDone, Returned
<1>9. ASSUME NEW f \in Files, WriteFails(f) PROVE Inductive'
  BY <1>0, <1>9 DEF WriteFails, Returned
<1>10. ASSUME NEW f \in Files, Report(f) PROVE Inductive'
  BY <1>0, <1>10 DEF Report, Consuming, Durable
<1>11. ASSUME NEW f \in Files, CloseFile(f) PROVE Inductive'
  BY <1>0, <1>11 DEF CloseFile, Consuming
<1>12. CASE SyncStart
  BY <1>0, <1>12 DEF SyncStart
<1>13. CASE FlushBegin
  <2>1. AllAligned'
    BY <1>0, <1>13 DEF FlushBegin, CallFlush, Captured
  <2>2. Ordered'
    BY <1>0, <1>13 DEF FlushBegin, CallFlush, Captured
  <2>3. Flushing'
    BY <1>0, <1>13 DEF FlushBegin, CallFlush, Captured
  <2>4. Pausing'
    <3>1. sync' = "flushing" \/ job' = "flushing" \/ \E f \in Files : worker'[f] = "flushing"
      BY <1>13 DEF FlushBegin, CallFlush
    <3>2. flush'.pos = pending' /\ mode' = mode /\ (mode = "finish" => job' # "flushed")
      BY <1>13 DEF FlushBegin, CallFlush, Captured
    <3>3. ASSUME mode = "finish", flush'.phase \in {"install", "clear"}
          PROVE  journal' = pending'
      <4>1. dirty = {} /\ UNCHANGED <<journal, pending>>
        BY <3>3, <1>13 DEF FlushBegin, Captured
      <4>2. ASSUME NEW f \in Files PROVE journal[f] = pending[f]
        <5>1. job # "removing"
          BY <1>13 DEF FlushBegin, CallFlush
        <5>2. journal[f].off = pending[f].off
          BY SMTT(30), <3>3, <4>1, <5>1
        <5>3. journal[f].hashes = pending[f].hashes
          BY <5>2
        <5>4. journal[f] \in [off : Nat, hashes : Nat] /\ pending[f] \in [off : Nat, hashes : Nat]
          OBVIOUS
        <5> QED
          BY ONLY <5>2, <5>3, <5>4
      <4> QED
        BY <4>1, <4>2
    <3> QED
      BY <3>1, <3>2, <3>3
  <2>5. Phased'
    BY <1>0, <1>13 DEF FlushBegin, CallFlush, Captured
  <2> QED
    BY <1>0, <1>13, <2>1, <2>2, <2>3, <2>4, <2>5 DEF FlushBegin, CallFlush, Captured
<1>14. ASSUME NEW f \in Files, FlushSync(f) PROVE Inductive'
  <2>1. Bounded'
    BY <1>0, <1>14 DEF FlushSync
  <2>2. Flushing'
    BY <1>0, <1>14 DEF FlushSync
  <2> QED
    BY ZenonT(30), <1>0, <1>14, <2>1, <2>2 DEF FlushSync
<1>15. CASE FlushFails
  BY <1>0, <1>15 DEF FlushFails, ReturnFlush, Returned
<1>16. CASE FlushSave
  <2>1. AllAligned'
    BY <1>0, <1>16 DEF FlushSave
  <2>2. Bounded'
    BY <1>0, <1>16 DEF FlushSave
  <2>3. Ordered'
    BY <1>0, <1>16 DEF FlushSave
  <2>4. Flushing'
    BY <1>0, <1>16 DEF FlushSave
  <2> QED
    BY <1>0, <1>16, <2>1, <2>2, <2>3, <2>4 DEF FlushSave
<1>17. CASE FlushInstall
  <2>1. AllAligned'
    BY <1>0, <1>17 DEF FlushInstall
  <2>2. Ordered'
    BY <1>0, <1>17 DEF FlushInstall
  <2>3. Flushing'
    BY <1>0, <1>17 DEF FlushInstall
  <2> QED
    BY <1>0, <1>17, <2>1, <2>2, <2>3 DEF FlushInstall
<1>18. CASE FlushClear
  BY <1>0, <1>18 DEF FlushClear, ReturnFlush, Returned, Saved
<1>19. ASSUME NEW c \in {"pause", "cancel"}, StopRequest(c) PROVE Inductive'
  BY <1>0, <1>19 DEF StopRequest
<1>20. ASSUME NEW f \in Files, DrainWorker(f) PROVE Inductive'
  BY <1>0, <1>20 DEF DrainWorker
<1>21. CASE CommitRequest
  BY <1>0, <1>21 DEF CommitRequest
<1>22. CASE StartJob
  BY <1>0, <1>22 DEF StartJob
<1>23. CASE Paused
  BY <1>0, <1>23 DEF Paused
<1>24. CASE Committed
  <2>1. Finished'
    <3> SUFFICES ASSUME result', NEW f \in Files PROVE disk[f] = Blocks[f]
      BY <1>0, <1>24 DEF Committed
    <3>1. receipt[f].off = Blocks[f]
      BY <1>24 DEF Committed
    <3>2. receipt[f].off <= journal[f].off /\ journal[f].off <= disk[f]
      BY <1>24 DEF Committed
    <3>3. disk[f] <= cache[f] /\ cache[f] <= Blocks[f]
      OBVIOUS
    <3>4. {Blocks[f], cache[f], disk[f], journal[f].off} \subseteq Nat
      OBVIOUS
    <3> QED
      BY ONLY <3>1, <3>2, <3>3, <3>4
  <2> QED
    BY <1>0, <1>24, <2>1 DEF Committed
<1>25. CASE JobFails
  BY <1>0, <1>25 DEF JobFails
<1>26. CASE CancelBegin
  BY <1>0, <1>26 DEF CancelBegin
<1>27. ASSUME NEW f \in Files, CancelRemove(f) PROVE Inductive'
  BY <1>0, <1>27 DEF CancelRemove
<1>28. CASE CancelSave
  <2>1. AllAligned'
    BY <1>0, <1>28 DEF CancelSave
  <2>2. Bounded'
    BY <1>0, <1>28 DEF CancelSave
  <2> QED
    BY <1>0, <1>28, <2>1, <2>2 DEF CancelSave
<1>29. CASE Drop
  BY <1>0, <1>29 DEF Drop
<1>30. CASE Abandon
  BY <1>0, <1>30 DEF Abandon
<1>31. CASE Release
  BY <1>0, <1>31 DEF Release
<1>32. ASSUME NEW f \in Files, WriteBack(f) PROVE Inductive'
  BY <1>0, <1>32 DEF WriteBack
<1>33. CASE Kill
  BY <1>0, <1>33 DEF Kill
<1>34. CASE PowerLoss
  BY <1>0, <1>34 DEF PowerLoss
<1>35. CASE UNCHANGED vars
  BY <1>35 DEF vars
<1> QED
  BY <1>1, <1>2, <1>3, <1>4, <1>5, <1>6, <1>7, <1>8, <1>9, <1>10, <1>11,
     <1>12, <1>13, <1>14, <1>15, <1>16, <1>17, <1>18, <1>19, <1>20,
     <1>21, <1>22, <1>23, <1>24, <1>25, <1>26, <1>27, <1>28, <1>29,
     <1>30, <1>31, <1>32, <1>33, <1>34, <1>35
     DEF Next, WorkerStep, FlushStep, CancelStep, SessionStep, Machine

\* A task that was never opened satisfies the invariant.
LEMMA InductiveInit == Init => Inductive
<1> SUFFICES ASSUME Init PROVE Inductive
  OBVIOUS
<1> USE CheckpointAssumption DEF Init, Origin, NoFlush
<1>1. TypeOK
  BY DEF TypeOK, Modes, WorkerStates, JobStates, FlushPhases, Positions
<1>2. AllAligned
  BY DEF AllAligned, Aligned
<1>3. Bounded
  BY DEF Bounded
<1>4. Phased /\ Ordered /\ Recovering /\ Finished
  BY DEF Phased, Ordered, Live, Recovering, Finished
<1>5. Flushing /\ Pausing
  BY DEF Flushing, Pausing
<1> QED
  BY <1>1, <1>2, <1>3, <1>4, <1>5 DEF Inductive

\* The inductive invariant holds in every reachable state.
THEOREM InductiveHolds == Spec => []Inductive
BY InductiveInit, InductiveStep, PTL DEF Spec

\* Every variable keeps its type.
THEOREM TypeCorrect == Spec => []TypeOK
<1>1. Inductive => TypeOK
  BY DEF Inductive
<1> QED
  BY <1>1, InductiveHolds, PTL

\* The journal is durable and backed by the payload files (flush: sync_all of
\* every dirty file comes before the save, and captures only accepted blocks).
LEMMA JournalIsBacked == Inductive => JournalBacked
BY DEF Inductive, Bounded, AllAligned, Aligned, JournalBacked

\* A restart resumes from what is both in the journal and on the disk.
LEMMA KeptIs ==
    ASSUME Inductive, NEW f \in Files
    PROVE  Kept[f] = Least(journal[f].off, disk[f])
<1>1. /\ journal[f] \in [off : Nat, hashes : Nat] /\ disk[f] \in Nat
      /\ journal[f].off <= Blocks[f]
      /\ Streaming => journal[f].hashes = journal[f].off
  BY DEF Inductive, TypeOK, Positions, Bounded, AllAligned, Aligned
<1>2. Kept[f] = Verified(f, journal[f], disk[f])
  BY DEF Kept
<1> QED
  BY <1>1, <1>2, VerifiedIs

\* Outside a cancel that is exactly what the journal says.
LEMMA KeptIsJournal ==
    ASSUME Inductive, ~voided, NEW f \in Files
    PROVE  Kept[f] = journal[f].off
<1>1. {journal[f].off, disk[f]} \subseteq Nat
  BY DEF Inductive, TypeOK, Positions
<1>2. journal[f].off <= disk[f]
  BY DEF Inductive, Bounded
<1>3. Kept[f] = Least(journal[f].off, disk[f])
  BY KeptIs
<1> QED
  BY ONLY <1>1, <1>2, <1>3 DEF Least

\* The same of the next state.
LEMMA KeptIsNext ==
    Inductive' => \A f \in Files : Kept'[f] = Least(journal'[f].off, disk'[f])
<1>1. Inductive => \A f \in Files : Kept[f] = Least(journal[f].off, disk[f])
  BY KeptIs
<1>2. (Inductive => \A f \in Files : Kept[f] = Least(journal[f].off, disk[f]))'
  BY <1>1, PTL
<1> QED
  BY <1>2 DEF Least

\* In the next state, too, a restart resumes from exactly what the journal says.
LEMMA KeptIsJournalNext ==
    Inductive' /\ ~voided' => \A f \in Files : Kept'[f] = journal'[f].off
<1>1. Inductive /\ ~voided => \A f \in Files : Kept[f] = journal[f].off
  BY KeptIsJournal
<1>2. (Inductive /\ ~voided => \A f \in Files : Kept[f] = journal[f].off)'
  BY <1>1, PTL
<1> QED
  BY <1>2

\* wire.rs: what was reported as durable survives every write, flush, crash and
\* power failure that follows, until the task is cancelled.
THEOREM DurableAlwaysSurvives == Spec => []DurableSurvives
<1>1. Inductive => DurableSurvives
  <2> SUFFICES ASSUME Inductive, NEW f \in Files PROVE told[f] <= Kept[f]
    BY DEF DurableSurvives
  <2>1. CASE ~voided
    BY <2>1, KeptIsJournal DEF Inductive, Bounded
  <2>2. CASE voided
    BY SMTT(30), <2>2, KeptIs DEF Least, Inductive, TypeOK, Positions, Bounded
  <2> QED
    BY <2>1, <2>2
<1> QED
  BY <1>1, InductiveHolds, PTL

\* storage.rs, flush: receipt.json never claims what the disk does not hold.
THEOREM JournalAlwaysBacked == Spec => []JournalBacked
BY JournalIsBacked, InductiveHolds, PTL

\* storage.rs, the checkpoint and pending mutexes: a flush that runs beside a
\* write never makes the written file clean.
THEOREM NothingUnsavedIsClean == Spec => []UnsavedIsDirty
<1>1. Inductive => UnsavedIsDirty
  BY DEF Inductive, Phased, Ordered, Live, UnsavedIsDirty
<1> QED
  BY <1>1, InductiveHolds, PTL

\* storage.rs, commit: a result is recorded of whole durable files only.
THEOREM ResultAlwaysWhole == Spec => []ResultIsWhole
<1>1. Inductive => ResultIsWhole
  BY DEF Inductive, Finished, ResultIsWhole
<1> QED
  BY <1>1, InductiveHolds, PTL

\* The only actions that change what a restart would find.
LEMMA StorageSteps ==
    ASSUME Next
    PROVE  \/ UNCHANGED <<journal, disk>>
           \/ Resume \/ FlushSave \/ CancelSave
           \/ \E f \in Files : \/ RecoverFile(f) \/ FlushSync(f)
                              \/ CancelRemove(f) \/ WriteBack(f)
BY DEF Next, WorkerStep, FlushStep, CancelStep, SessionStep, Machine,
       Open, Answer, OpenFile, WriteBegin, WriteBytes, WriteDone, WriteFails,
       Report, CloseFile, SyncStart, FlushBegin, FlushFails, FlushInstall,
       FlushClear, StopRequest, DrainWorker, CommitRequest, StartJob, Paused,
       Committed, JobFails, CancelBegin, Drop, Abandon, Release, Kill,
       PowerLoss, storage, vars

\* Only recovery, a flush and a cancel write the journal.
LEMMA GenerationStep ==
    ASSUME Inductive, Next, ~voided, NEW f \in Files
    PROVE  journal'[f].off >= journal[f].off
<1>1. journal[f].off \in Nat
  BY DEF Inductive, TypeOK, Positions
<1>2. CASE journal' = journal
  BY <1>1, <1>2
<1>3. CASE Resume
  BY <1>1, <1>3 DEF Resume, Inductive, Recovering
<1>4. CASE FlushSave
  BY <1>1, <1>4 DEF FlushSave, Inductive, Flushing
<1>5. CASE CancelSave
  BY <1>5 DEF CancelSave, Inductive, Phased
<1>6. ASSUME NEW g \in Files, \/ RecoverFile(g) \/ FlushSync(g)
                              \/ CancelRemove(g) \/ WriteBack(g)
      PROVE  journal' = journal
  BY <1>6 DEF RecoverFile, FlushSync, CancelRemove, WriteBack
<1> QED
  BY <1>2, <1>3, <1>4, <1>5, <1>6, StorageSteps

\* storage.rs, flush: no generation of receipt.json is overwritten by an older
\* one while the task stands.
THEOREM GenerationsAlwaysAdvance == Spec => GenerationsAdvance
<1>1. Inductive /\ [Next]_vars
        => [~voided => \A f \in Files : journal'[f].off >= journal[f].off]_vars
  BY GenerationStep
<1> QED
  BY <1>1, InductiveHolds, PTL DEF Spec, GenerationsAdvance

\* receive_inner, Pause: Stopped is sent only after a flush that had the session
\* to itself, so nothing that was accepted is missing from receipt.json.
THEOREM PauseAlwaysSaves == Spec => []PauseSavesAll
<1>1. Inductive => PauseSavesAll
  BY DEF Inductive, Pausing, PauseSavesAll
<1> QED
  BY <1>1, InductiveHolds, PTL

-----------------------------------------------------------------------------
(* Checkpoint implements DurablePrefix.                                    *)

\* The only actions that make, or take back, a promise.
LEMMA PromiseSteps ==
    ASSUME Next
    PROVE  \/ UNCHANGED <<told, voided>>
           \/ Resume \/ CancelBegin \/ CancelSave
           \/ \E f \in Files : Report(f)
BY DEF Next, WorkerStep, FlushStep, CancelStep, SessionStep, Machine,
       Open, Answer, RecoverFile, OpenFile, WriteBegin, WriteBytes, WriteDone,
       WriteFails, CloseFile, SyncStart, FlushBegin, FlushSync, FlushFails,
       FlushSave, FlushInstall, FlushClear, StopRequest, DrainWorker,
       CommitRequest, StartJob, Paused, Committed, JobFails, CancelRemove,
       Drop, Abandon, Release, WriteBack, Kill, PowerLoss, vars

\* Nothing has been kept of a task that was never opened.
LEMMA PromiseInit == Init => Promised!Init
<1> SUFFICES ASSUME Init PROVE Kept = [f \in Files |-> 0]
  BY DEF Init, Promised!Init
<1>1. ASSUME NEW f \in Files PROVE Kept[f] = 0
  BY <1>1, InductiveInit, KeptIs DEF Init, Origin, Least
<1> QED
  BY <1>1 DEF Kept

\* While no cancel is under way a step saves, promises, begins a cancel, or
\* changes nothing a restart would see.
LEMMA StandingStep ==
    ASSUME Inductive, Inductive', Next, ~voided
    PROVE  [Promised!Next]_(Promised!vars)
<1>1. \A f \in Files : Kept[f] = journal[f].off
  BY KeptIsJournal
<1>2. CASE CancelBegin
  <2>1. Kept' = Kept
    BY <1>2 DEF CancelBegin, Kept, storage
  <2> QED
    BY <1>2, <2>1 DEF CancelBegin, Promised!Next, Promised!Cancel
<1>3. ASSUME NEW f \in Files, Report(f) PROVE Promised!Promise(f)
  <2>1. Kept' = Kept
    BY <1>3 DEF Report, Kept, storage
  <2>2. told[f] <= told'[f] /\ told'[f] <= Kept[f]
    BY <1>1, <1>3 DEF Report, Consuming, Durable, Inductive, TypeOK, Positions,
                      Ordered, Phased, Live, Bounded
  <2> QED
    BY <1>3, <2>1, <2>2 DEF Report, Promised!Promise, Inductive, TypeOK
<1>4. CASE UNCHANGED <<told, voided>>
  <2>1. \A f \in Files : Kept'[f] = journal'[f].off
    BY <1>4, KeptIsJournalNext
  <2>2. \A f \in Files : journal'[f].off >= journal[f].off
    BY GenerationStep
  <2> QED
    BY <1>1, <1>4, <2>1, <2>2 DEF Promised!Next, Promised!Save, Kept
<1>5. ~CancelSave
  BY DEF CancelSave, Inductive, Phased
<1>6. CASE Resume
  BY <1>4, <1>6 DEF Resume, Inductive, TypeOK
<1> QED
  BY <1>2, <1>3, <1>4, <1>5, <1>6, PromiseSteps DEF Promised!Next

\* During a cancel a step discards a file, settles, or changes nothing.
LEMMA VoidedStep ==
    ASSUME Inductive, Inductive', Next, voided
    PROVE  [Promised!Next]_(Promised!vars)
<1>1. /\ \A f \in Files : Kept[f] = Least(journal[f].off, disk[f])
      /\ \A f \in Files : Kept'[f] = Least(journal'[f].off, disk'[f])
  BY KeptIs, KeptIsNext
<1>2. (\A f \in Files : Kept'[f] = Kept[f]) => Kept' = Kept
  BY DEF Kept
<1>3. CASE CancelBegin
  BY <1>3 DEF CancelBegin, Inductive, Phased
<1>4. ASSUME NEW f \in Files, CancelRemove(f) PROVE Promised!Discard(f)
  <2>1. Kept'[f] = 0
    BY <1>1, <1>4 DEF CancelRemove, Least, Inductive, TypeOK, Positions, memory
  <2>2. ASSUME NEW g \in Files \ {f} PROVE Kept'[g] = Kept[g]
    BY <1>1, <1>4 DEF CancelRemove, Inductive, TypeOK
  <2>3. Kept' = [Kept EXCEPT ![f] = 0]
    BY <2>1, <2>2 DEF Kept
  <2> QED
    BY <1>4, <2>3 DEF CancelRemove, Promised!Discard
<1>5. CASE CancelSave
  <2>1. ASSUME NEW f \in Files PROVE Kept'[f] = 0 /\ Kept[f] = 0
    <3>1. disk[f] = 0 /\ disk'[f] = 0
      BY <1>5 DEF CancelSave, storage, Inductive, TypeOK, Bounded, Recovering
    <3> QED
      BY <1>1, <3>1 DEF Least, Inductive, TypeOK, Positions
  <2> QED
    BY <1>2, <1>5, <2>1 DEF CancelSave, Promised!Next, Promised!Settle
<1>6. CASE Resume
  <2>1. ASSUME NEW f \in Files PROVE Kept'[f] = Kept[f]
    <3>1. /\ receipt[f].off <= journal[f].off /\ disk[f] = receipt[f].off
          /\ journal'[f].off = receipt[f].off /\ disk'[f] = disk[f]
      BY <1>6 DEF Resume, storage, Inductive, Recovering
    <3>2. {receipt[f].off, journal[f].off, disk[f]} \subseteq Nat
      BY DEF Inductive, TypeOK, Positions
    <3>3. Kept[f] = Least(journal[f].off, disk[f]) /\ Kept'[f] = Least(journal'[f].off, disk'[f])
      BY <1>1
    <3> QED
      BY ONLY <3>1, <3>2, <3>3 DEF Least
  <2> QED
    BY <1>2, <1>6, <2>1 DEF Resume, Promised!Next, Promised!Settle
<1>7. ASSUME UNCHANGED <<told, voided>>,
             \A f \in Files : Kept'[f] = Kept[f]
      PROVE  UNCHANGED Promised!vars
  BY <1>2, <1>7 DEF Promised!vars
<1>8. ASSUME NEW f \in Files, RecoverFile(f), NEW g \in Files
      PROVE  Kept'[g] = Kept[g]
  <2>1. CASE g = f
    <3>1. receipt[f] = journal[f]
      BY <1>8 DEF RecoverFile, Inductive, Recovering
    <3>2. Verified(f, journal[f], cache[f]) = Least(journal[f].off, cache[f])
      BY VerifiedIs DEF Inductive, TypeOK, Positions, Bounded, AllAligned, Aligned
    <3>3. disk'[f] = Least(journal[f].off, cache[f]) /\ journal'[f] = journal[f]
      BY <1>8, <3>1, <3>2 DEF RecoverFile, Inductive, TypeOK
    <3>4. disk[f] <= cache[f] /\ (journal[f].off <= disk[f] \/ cache[f] = 0)
      BY DEF Inductive, Bounded
    <3>5. {journal[f].off, disk[f], cache[f]} \subseteq Nat
      BY DEF Inductive, TypeOK, Positions
    <3>6. Kept[f] = Least(journal[f].off, disk[f]) /\ Kept'[f] = Least(journal'[f].off, disk'[f])
      BY <1>1
    <3> QED
      BY ONLY <2>1, <3>3, <3>4, <3>5, <3>6 DEF Least
  <2>2. CASE g # f
    BY <1>1, <1>8, <2>2 DEF RecoverFile, Inductive, TypeOK
  <2> QED
    BY <2>1, <2>2
<1>9. ASSUME NEW f \in Files, WriteBack(f), NEW g \in Files
      PROVE  Kept'[g] = Kept[g]
  <2>1. /\ journal' = journal
        /\ g # f => disk'[g] = disk[g]
        /\ g = f => disk[g] < cache[g] /\ disk'[g] = disk[g] + 1
    BY <1>9 DEF WriteBack, Inductive, TypeOK
  <2>2. journal[g].off <= disk[g] \/ cache[g] = 0
    BY DEF Inductive, Bounded
  <2>3. {journal[g].off, disk[g], cache[g]} \subseteq Nat
    BY DEF Inductive, TypeOK, Positions
  <2>4. Kept[g] = Least(journal[g].off, disk[g]) /\ Kept'[g] = Least(journal'[g].off, disk'[g])
    BY <1>1
  <2> QED
    BY ONLY <2>1, <2>2, <2>3, <2>4 DEF Least
<1>10. ~FlushSave /\ \A f \in Files : ~FlushSync(f) /\ ~Report(f)
  BY DEF FlushSave, FlushSync, Report, Consuming, Inductive, Phased, Live
<1>11. CASE UNCHANGED <<journal, disk>>
  <2>1. \A f \in Files : Kept'[f] = Kept[f]
    BY <1>11 DEF Kept
  <2> QED
    BY <1>3, <1>5, <1>6, <1>7, <1>10, <2>1, PromiseSteps
<1>12. ASSUME NEW f \in Files, RecoverFile(f) \/ WriteBack(f)
       PROVE  UNCHANGED Promised!vars
  <2>1. UNCHANGED <<told, voided>>
    BY <1>12 DEF RecoverFile, WriteBack
  <2> QED
    BY <1>7, <1>8, <1>9, <1>12, <2>1
<1> QED
  BY <1>4, <1>5, <1>6, <1>10, <1>11, <1>12, StorageSteps DEF Promised!Next

\* wire.rs: the receiver keeps the promise of DurablePrefix, with what a restart
\* would resume from as the position kept.
THEOREM ImplementsDurablePrefix == Spec => KeepsPromise
<1>1. Inductive /\ Inductive' /\ [Next]_vars => [Promised!Next]_(Promised!vars)
  <2> SUFFICES ASSUME Inductive, Inductive', [Next]_vars
               PROVE  [Promised!Next]_(Promised!vars)
    OBVIOUS
  <2>1. CASE UNCHANGED vars
    BY <2>1 DEF vars, storage, Promised!vars, Kept
  <2>2. CASE Next
    BY <2>2, StandingStep, VoidedStep
  <2> QED
    BY <2>1, <2>2
<1> QED
  BY <1>1, PromiseInit, InductiveHolds, PTL DEF Spec, KeepsPromise, Promised!Spec

=============================================================================
