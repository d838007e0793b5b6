-------------------------- MODULE TaskStoreProofs --------------------------
(***************************************************************************)
(* Proofs about TaskStore, for any processes, any tasks and any number of  *)
(* files: KeptIsWhole is an invariant.                                     *)
(*                                                                         *)
(* The argument has two halves.  preparation.lock keeps collection away    *)
(* from a directory that is being prepared (Locked).  The steps after a    *)
(* transfer take no lock, but know only tasks that were registered once    *)
(* (Private), and a registered task has no way back to being prepared      *)
(* (Settled).                                                              *)
(***************************************************************************)
EXTENDS TaskStore, TLAPS

Preparing(p) == preparer[p].at \in {"copying", "failing"}

\* Who holds the lock is inside prepare_with_progress or collects.
Locked ==
    \A p \in Processes :
        /\ Preparing(p) => lock = p /\ ~scanner[p].cleanup
        /\ scanner[p].cleanup => lock = p
        /\ scanner[p].at \in {"removing", "emptying"} => scanner[p].cleanup
        /\ scanner[p].at = "idle" => ~scanner[p].cleanup

\* Nobody but its preparer knows a task that is not registered yet.
Private ==
    /\ \A t \in Tasks \ used : record[t] = "none" /\ t \notin present
    /\ \A p \in Processes : Preparing(p) =>
          /\ record[preparer[p].task] = "none"
          /\ \A q \in Processes :
                /\ sender[q].task # preparer[p].task
                /\ preparer[p].task \notin entries[q]
                /\ preparer[p].task \notin scanner[q].found

\* Whatever is being taken away is not offered for sending any more.
Settled ==
    \A p \in Processes :
        /\ scanner[p].at \in {"removing", "emptying"} =>
              record[scanner[p].task] # "unfinished"
        /\ sender[p].at = "emptying" => record[sender[p].task] # "unfinished"
        /\ sender[p].at = "discarding" => sender[p].task \in cancelled

Inductive == TypeOK /\ Locked /\ Private /\ Settled /\ KeptIsWhole

-----------------------------------------------------------------------------

\* Taking something away from one directory leaves the others alone and never
\* registers a task.
LEMMA TakenAway ==
    ASSUME TypeOK, NEW t \in Tasks, Remove(t) \/ Empty(t)
    PROVE  /\ present' \subseteq present
           /\ record' \in [Tasks -> {"none", "unfinished", "finished"}]
           /\ payload' \in [Tasks -> 0..Files]
           /\ record'[t] \in {record[t], "none"}
           /\ \A u \in Tasks \ {t} :
                 /\ record'[u] = record[u] /\ payload'[u] = payload[u]
                 /\ u \in present => u \in present'
<1>1. CASE payload[t] > 0 /\ payload' = [payload EXCEPT ![t] = @ - 1]
           /\ UNCHANGED <<present, record>>
  <2>1. payload[t] - 1 \in 0..Files
    BY <1>1, TaskStoreAssumption DEF TypeOK
  <2> QED
    BY <1>1, <2>1, TaskStoreAssumption DEF TypeOK
<1>2. CASE record' = [record EXCEPT ![t] = "none"] /\ UNCHANGED <<present, payload>>
  BY <1>2 DEF TypeOK
<1>3. CASE present' = present \ {t} /\ UNCHANGED <<record, payload>>
  BY <1>3 DEF TypeOK
<1> QED
  BY <1>1, <1>2, <1>3 DEF Remove, Empty

\* What scanner holds for a process.
Scans == [at : {"idle", "next", "removing", "emptying"}, task : Tasks \cup {None},
          cleanup : BOOLEAN, left : SUBSET Tasks, found : SUBSET used]

\* A look at an entry only moves the scan on to a task, which it takes away only
\* in a scan that collects, and offers only when it is registered.
LEMMA Looked ==
    ASSUME TypeOK, Private, NEW p \in Processes, Look(p)
    PROVE  /\ \E r \in Scans :
                 /\ scanner' = [scanner EXCEPT ![p] = r]
                 /\ r.at # "idle" /\ r.cleanup = scanner[p].cleanup
                 /\ r.at # "next" => /\ r.task \in Tasks /\ r.cleanup
                                     /\ record[r.task] # "unfinished"
                 /\ \A u \in r.found \ scanner[p].found : record[u] = "unfinished"
           /\ UNCHANGED <<present, record, payload, lock, entries, preparer, sender,
                          used, cancelled>>
<1>1. scanner[p] \in Scans
  BY DEF TypeOK, Scans
<1>2. PICK t \in scanner[p].left \cap present :
          scanner' = [scanner EXCEPT ![p] = [scanner[p] EXCEPT
              !.at = Fate(p, t), !.left = @ \ {t},
              !.task = IF Fate(p, t) = "next" THEN None ELSE t,
              !.found = IF record[t] = "unfinished" THEN @ \cup {t} ELSE @]]
  BY DEF Look
<1> DEFINE offered == IF record[t] = "unfinished" THEN scanner[p].found \cup {t}
                                                  ELSE scanner[p].found
           aim == IF Fate(p, t) = "next" THEN None ELSE t
           r == [scanner[p] EXCEPT !.at = Fate(p, t), !.left = scanner[p].left \ {t},
                                   !.task = aim, !.found = offered]
<1>3. /\ Fate(p, t) \in {"next", "removing", "emptying"}
      /\ Fate(p, t) # "next" => scanner[p].cleanup /\ record[t] # "unfinished"
  BY DEF Fate
<1>4. t \in Tasks
  BY <1>1 DEF Scans
<1>5. /\ offered \in SUBSET used
      /\ \A u \in offered \ scanner[p].found : record[u] = "unfinished"
  <2>1. record[t] = "unfinished" => t \in used
    BY <1>4 DEF Private
  <2> QED
    BY <1>1, <2>1 DEF Scans
<1>6. scanner' = [scanner EXCEPT ![p] = r]
  BY ONLY <1>2, Zenon
<1>7. UNCHANGED <<present, record, payload, lock, entries, preparer, sender, used,
                  cancelled>>
  BY DEF Look, ScanUnchanged, store
<1>8. aim \in Tasks \cup {None} /\ (Fate(p, t) # "next" => aim = t)
  BY <1>4
<1>9. /\ r \in Scans /\ r.at = Fate(p, t) /\ r.task = aim
      /\ r.cleanup = scanner[p].cleanup /\ r.found = offered
  <2> HIDE DEF offered, aim
  <2> QED
    BY ONLY <1>1, <1>3, <1>5, <1>8 DEF Scans
<1> HIDE DEF r, offered, aim
<1> QED
  BY <1>3, <1>4, <1>5, <1>6, <1>7, <1>8, <1>9

\* Type correctness is kept by every action.
LEMMA TypeStep == TypeOK /\ Private /\ [Next]_vars => TypeOK'
<1> SUFFICES ASSUME TypeOK, Private, [Next]_vars PROVE TypeOK'
  OBVIOUS
<1> USE TaskStoreAssumption DEF TypeOK, store, Idle, NoScan
<1>1. CASE UNCHANGED vars
  BY <1>1 DEF vars
<1>2. ASSUME NEW p \in Processes, Prepare(p) PROVE TypeOK'
  BY <1>2 DEF Prepare, PrepareUnchanged
<1>3. ASSUME NEW p \in Processes, MakeDirectory(p) PROVE TypeOK'
  BY <1>3 DEF MakeDirectory, PrepareUnchanged
<1>4. ASSUME NEW p \in Processes, Snapshot(p) PROVE TypeOK'
  BY <1>4 DEF Snapshot, PrepareUnchanged
<1>5. ASSUME NEW p \in Processes, SaveTask(p) PROVE TypeOK'
  BY <1>5 DEF SaveTask
<1>6. ASSUME NEW p \in Processes, PrepareFails(p) PROVE TypeOK'
  BY <1>6 DEF PrepareFails, PrepareUnchanged
<1>7. ASSUME NEW p \in Processes, Undo(p) PROVE TypeOK'
  <2>1. preparer[p].task \in Tasks /\ Remove(preparer[p].task)
    BY <1>7 DEF Undo
  <2>2. /\ present' \subseteq Tasks
        /\ record' \in [Tasks -> {"none", "unfinished", "finished"}]
        /\ payload' \in [Tasks -> 0..Files]
    BY <2>1, TakenAway
  <2>3. /\ preparer' = preparer \/ preparer' = [preparer EXCEPT ![p] = Idle]
        /\ lock' \in {lock, None}
    BY <1>7 DEF Undo
  <2>4. UNCHANGED <<used, scanner, entries, sender, cancelled>>
    BY <1>7 DEF Undo, PrepareUnchanged
  <2>5. lock' \in Processes \cup {None}
    BY <2>3
  <2>6. CASE preparer' = preparer
    BY <2>2, <2>4, <2>5, <2>6
  <2>7. CASE preparer' = [preparer EXCEPT ![p] = Idle]
    BY <2>2, <2>4, <2>5, <2>7
  <2> QED
    BY <2>3, <2>6, <2>7
<1>8. ASSUME NEW p \in Processes, ScanBegin(p) PROVE TypeOK'
  BY <1>8 DEF ScanBegin, ScanUnchanged, MayCollect
<1>9. ASSUME NEW p \in Processes, Look(p) PROVE TypeOK'
  <2>1. PICK r \in Scans : /\ scanner' = [scanner EXCEPT ![p] = r]
                           /\ r.at # "next" => r.task \in Tasks
    BY <1>9, Looked
  <2>2. UNCHANGED <<present, record, payload, lock, entries, preparer, sender, used,
                    cancelled>>
    BY <1>9, Looked
  <2> QED
    BY <2>1, <2>2 DEF Scans
<1>10. ASSUME NEW p \in Processes, Collect(p) PROVE TypeOK'
  <2>1. scanner[p].task \in Tasks /\ (Remove(scanner[p].task) \/ Empty(scanner[p].task))
    BY <1>10 DEF Collect
  <2>2. /\ present' \subseteq Tasks
        /\ record' \in [Tasks -> {"none", "unfinished", "finished"}]
        /\ payload' \in [Tasks -> 0..Files]
    BY <2>1, TakenAway
  <2> QED
    BY <1>10, <2>2 DEF Collect, ScanUnchanged
<1>11. ASSUME NEW p \in Processes, Collected(p) PROVE TypeOK'
  <2>1. scanner' = [scanner EXCEPT ![p] =
                       [scanner[p] EXCEPT !.at = "next", !.task = None]]
    BY <1>11 DEF Collected
  <2>2. UNCHANGED <<present, record, payload, lock, entries, preparer, sender,
                    used, cancelled>>
    BY <1>11 DEF Collected, ScanUnchanged
  <2>3. ASSUME NEW r \in Scans
        PROVE  [r EXCEPT !.at = "next", !.task = None] \in Scans
    BY DEF Scans
  <2>4. scanner \in [Processes -> Scans]
    BY DEF Scans
  <2>5. scanner' \in [Processes -> Scans]
    BY <2>1, <2>3, <2>4
  <2> QED
    BY SMTT(30), <2>1, <2>2, <2>5 DEF Scans
<1>12. ASSUME NEW p \in Processes, ScanEnd(p) PROVE TypeOK'
  BY <1>12 DEF ScanEnd, ScanUnchanged, Unlocked
<1>13. ASSUME NEW p \in Processes, ScanFails(p) PROVE TypeOK'
  BY <1>13 DEF ScanFails, ScanUnchanged, Unlocked
<1>14. ASSUME NEW p \in Processes, Resume(p) PROVE TypeOK'
  BY <1>14 DEF Resume, SendUnchanged
<1>15. ASSUME NEW p \in Processes, SendKeeps(p) PROVE TypeOK'
  BY <1>15 DEF SendKeeps, SendUnchanged
<1>16. ASSUME NEW p \in Processes, SendCompletes(p) PROVE TypeOK'
  <2>1. sender[p].task \in used
    BY <1>16 DEF SendCompletes
  <2>2. sender' \in [Processes ->
          [at : {"idle", "sending", "emptying", "discarding"}, task : used \cup {None}]]
    BY <1>16 DEF SendCompletes
  <2> QED
    BY <1>16, <2>1, <2>2 DEF SendCompletes, SendUnchanged
<1>17. ASSUME NEW p \in Processes, SendCancelled(p) PROVE TypeOK'
  BY <1>17 DEF SendCancelled, SendUnchanged
<1>18. ASSUME NEW p \in Processes, Dispose(p) PROVE TypeOK'
  <2>1. sender[p].task \in Tasks /\ (Remove(sender[p].task) \/ Empty(sender[p].task))
    BY <1>18 DEF Dispose
  <2>2. /\ present' \subseteq Tasks
        /\ record' \in [Tasks -> {"none", "unfinished", "finished"}]
        /\ payload' \in [Tasks -> 0..Files]
    BY <2>1, TakenAway
  <2> QED
    BY <1>18, <2>2 DEF Dispose, SendUnchanged
<1>19. ASSUME NEW p \in Processes, SendEnds(p) PROVE TypeOK'
  BY <1>19 DEF SendEnds, SendUnchanged
<1>20. ASSUME NEW p \in Processes, Kill(p) PROVE TypeOK'
  BY <1>20 DEF Kill
<1> QED
  BY <1>1, <1>2, <1>3, <1>4, <1>5, <1>6, <1>7, <1>8, <1>9, <1>10, <1>11, <1>12,
     <1>13, <1>14, <1>15, <1>16, <1>17, <1>18, <1>19, <1>20 DEF Next

\* Every action keeps the inductive invariant.
LEMMA InductiveStep == Inductive /\ [Next]_vars => Inductive'
<1> SUFFICES ASSUME Inductive, [Next]_vars
             PROVE  Locked' /\ Private' /\ Settled' /\ KeptIsWhole'
  BY TypeStep DEF Inductive
<1> USE TaskStoreAssumption
    DEF Inductive, TypeOK, Locked, Private, Settled, KeptIsWhole, Preparing,
        store, Idle, NoScan
<1>1. CASE UNCHANGED vars
  BY <1>1 DEF vars
<1>2. ASSUME NEW p \in Processes, Prepare(p)
       PROVE  Locked' /\ Private' /\ Settled' /\ KeptIsWhole'
  <2>1. Locked'
    BY <1>2 DEF Prepare, PrepareUnchanged
  <2>2. Private'
    BY <1>2 DEF Prepare, PrepareUnchanged
  <2>3. Settled'
    BY <1>2 DEF Prepare, PrepareUnchanged
  <2>4. KeptIsWhole'
    BY <1>2 DEF Prepare, PrepareUnchanged
  <2> QED
    BY <2>1, <2>2, <2>3, <2>4
<1>3. ASSUME NEW p \in Processes, MakeDirectory(p)
       PROVE  Locked' /\ Private' /\ Settled' /\ KeptIsWhole'
  <2>1. Locked'
    BY <1>3 DEF MakeDirectory, PrepareUnchanged
  <2>2. Private'
    BY <1>3 DEF MakeDirectory, PrepareUnchanged
  <2>3. Settled'
    BY <1>3 DEF MakeDirectory, PrepareUnchanged
  <2>4. KeptIsWhole'
    BY <1>3 DEF MakeDirectory, PrepareUnchanged
  <2> QED
    BY <2>1, <2>2, <2>3, <2>4
<1>4. ASSUME NEW p \in Processes, Snapshot(p)
       PROVE  Locked' /\ Private' /\ Settled' /\ KeptIsWhole'
  <2>1. Locked'
    BY <1>4 DEF Snapshot, PrepareUnchanged
  <2>2. Private'
    BY <1>4 DEF Snapshot, PrepareUnchanged
  <2>3. Settled'
    BY <1>4 DEF Snapshot, PrepareUnchanged
  <2>4. KeptIsWhole'
    BY <1>4 DEF Snapshot, PrepareUnchanged
  <2> QED
    BY <2>1, <2>2, <2>3, <2>4
<1>5. ASSUME NEW p \in Processes, SaveTask(p)
       PROVE  Locked' /\ Private' /\ Settled' /\ KeptIsWhole'
  <2>1. Locked'
    BY <1>5 DEF SaveTask
  <2>2. Private'
    BY <1>5 DEF SaveTask
  <2>3. Settled'
    BY <1>5 DEF SaveTask
  <2>4. KeptIsWhole'
    BY <1>5 DEF SaveTask
  <2> QED
    BY <2>1, <2>2, <2>3, <2>4
<1>6. ASSUME NEW p \in Processes, PrepareFails(p)
       PROVE  Locked' /\ Private' /\ Settled' /\ KeptIsWhole'
  <2>1. Locked'
    BY <1>6 DEF PrepareFails, PrepareUnchanged
  <2>2. Private'
    BY <1>6 DEF PrepareFails, PrepareUnchanged
  <2>3. Settled'
    BY <1>6 DEF PrepareFails, PrepareUnchanged
  <2>4. KeptIsWhole'
    BY <1>6 DEF PrepareFails, PrepareUnchanged
  <2> QED
    BY <2>1, <2>2, <2>3, <2>4
<1>7. ASSUME NEW p \in Processes, Undo(p)
       PROVE  Locked' /\ Private' /\ Settled' /\ KeptIsWhole'
  <2>1. Locked'
    BY <1>7 DEF Undo, PrepareUnchanged, Remove
  <2>2. Private'
    <3>1. Preparing(p) /\ record[preparer[p].task] = "none"
      BY <1>7 DEF Undo
    <3>2. present' \subseteq present /\ UNCHANGED record
      BY <1>7, <3>1, TakenAway DEF Undo, Remove
    <3>3. preparer' = preparer \/ preparer' = [preparer EXCEPT ![p] = Idle]
      BY <1>7 DEF Undo
    <3>4. \A q \in Processes : Preparing(q)' => Preparing(q) /\ preparer'[q] = preparer[q]
      BY <3>3
    <3> QED
      BY <1>7, <3>2, <3>4 DEF Undo, PrepareUnchanged
  <2>3. Settled'
    BY <1>7 DEF Undo, PrepareUnchanged, Remove
  <2>4. KeptIsWhole'
    BY <1>7 DEF Undo, PrepareUnchanged, Remove
  <2> QED
    BY <2>1, <2>2, <2>3, <2>4
<1>8. ASSUME NEW p \in Processes, ScanBegin(p)
       PROVE  Locked' /\ Private' /\ Settled' /\ KeptIsWhole'
  <2>1. Locked'
    BY <1>8 DEF ScanBegin, ScanUnchanged, MayCollect
  <2>2. Private'
    BY <1>8 DEF ScanBegin, ScanUnchanged, MayCollect
  <2>3. Settled'
    BY <1>8 DEF ScanBegin, ScanUnchanged, MayCollect
  <2>4. KeptIsWhole'
    BY <1>8 DEF ScanBegin, ScanUnchanged, MayCollect
  <2> QED
    BY <2>1, <2>2, <2>3, <2>4
<1>9. ASSUME NEW p \in Processes, Look(p)
       PROVE  Locked' /\ Private' /\ Settled' /\ KeptIsWhole'
  <2>1. PICK r \in Scans :
           /\ scanner' = [scanner EXCEPT ![p] = r]
           /\ r.at # "idle" /\ r.cleanup = scanner[p].cleanup
           /\ r.at # "next" => /\ r.task \in Tasks /\ r.cleanup
                               /\ record[r.task] # "unfinished"
           /\ \A u \in r.found \ scanner[p].found : record[u] = "unfinished"
    BY <1>9, Looked
  <2>2. UNCHANGED <<present, record, payload, lock, entries, preparer, sender, used,
                    cancelled>>
    BY <1>9, Looked
  <2>3. scanner[p].at = "next"
    BY <1>9 DEF Look
  <2>4. Locked'
    BY <2>1, <2>2, <2>3
  <2>5. Private'
    BY <2>1, <2>2
  <2>6. Settled'
    BY <2>1, <2>2
  <2>7. KeptIsWhole'
    BY <2>2
  <2> QED
    BY <2>4, <2>5, <2>6, <2>7
<1>10. ASSUME NEW p \in Processes, Collect(p)
       PROVE  Locked' /\ Private' /\ Settled' /\ KeptIsWhole'
  <2>1. Locked'
    BY <1>10 DEF Collect, ScanUnchanged, Remove, Empty
  <2>2. Private'
    BY <1>10 DEF Collect, ScanUnchanged, Remove, Empty
  <2>3. Settled'
    BY <1>10 DEF Collect, ScanUnchanged, Remove, Empty
  <2>4. KeptIsWhole'
    BY <1>10 DEF Collect, ScanUnchanged, Remove, Empty
  <2> QED
    BY <2>1, <2>2, <2>3, <2>4
<1>11. ASSUME NEW p \in Processes, Collected(p)
       PROVE  Locked' /\ Private' /\ Settled' /\ KeptIsWhole'
  <2>1. Locked'
    BY <1>11 DEF Collected, ScanUnchanged
  <2>2. Private'
    BY <1>11 DEF Collected, ScanUnchanged
  <2>3. Settled'
    BY <1>11 DEF Collected, ScanUnchanged
  <2>4. KeptIsWhole'
    BY <1>11 DEF Collected, ScanUnchanged
  <2> QED
    BY <2>1, <2>2, <2>3, <2>4
<1>12. ASSUME NEW p \in Processes, ScanEnd(p)
       PROVE  Locked' /\ Private' /\ Settled' /\ KeptIsWhole'
  <2>1. Locked'
    BY <1>12 DEF ScanEnd, ScanUnchanged, Unlocked
  <2>2. Private'
    BY <1>12 DEF ScanEnd, ScanUnchanged, Unlocked
  <2>3. Settled'
    BY <1>12 DEF ScanEnd, ScanUnchanged, Unlocked
  <2>4. KeptIsWhole'
    BY <1>12 DEF ScanEnd, ScanUnchanged, Unlocked
  <2> QED
    BY <2>1, <2>2, <2>3, <2>4
<1>13. ASSUME NEW p \in Processes, ScanFails(p)
       PROVE  Locked' /\ Private' /\ Settled' /\ KeptIsWhole'
  <2>1. Locked'
    BY <1>13 DEF ScanFails, ScanUnchanged, Unlocked
  <2>2. Private'
    BY <1>13 DEF ScanFails, ScanUnchanged, Unlocked
  <2>3. Settled'
    BY <1>13 DEF ScanFails, ScanUnchanged, Unlocked
  <2>4. KeptIsWhole'
    BY <1>13 DEF ScanFails, ScanUnchanged, Unlocked
  <2> QED
    BY <2>1, <2>2, <2>3, <2>4
<1>14. ASSUME NEW p \in Processes, Resume(p)
       PROVE  Locked' /\ Private' /\ Settled' /\ KeptIsWhole'
  <2>1. Locked'
    BY <1>14 DEF Resume, SendUnchanged
  <2>2. Private'
    BY <1>14 DEF Resume, SendUnchanged
  <2>3. Settled'
    BY <1>14 DEF Resume, SendUnchanged
  <2>4. KeptIsWhole'
    BY <1>14 DEF Resume, SendUnchanged
  <2> QED
    BY <2>1, <2>2, <2>3, <2>4
<1>15. ASSUME NEW p \in Processes, SendKeeps(p)
       PROVE  Locked' /\ Private' /\ Settled' /\ KeptIsWhole'
  <2>1. Locked'
    BY <1>15 DEF SendKeeps, SendUnchanged
  <2>2. Private'
    BY <1>15 DEF SendKeeps, SendUnchanged
  <2>3. Settled'
    BY <1>15 DEF SendKeeps, SendUnchanged
  <2>4. KeptIsWhole'
    BY <1>15 DEF SendKeeps, SendUnchanged
  <2> QED
    BY <2>1, <2>2, <2>3, <2>4
<1>16. ASSUME NEW p \in Processes, SendCompletes(p)
       PROVE  Locked' /\ Private' /\ Settled' /\ KeptIsWhole'
  <2>1. Locked'
    BY <1>16 DEF SendCompletes, SendUnchanged
  <2>2. Private'
    BY <1>16 DEF SendCompletes, SendUnchanged
  <2>3. Settled'
    BY <1>16 DEF SendCompletes, SendUnchanged
  <2>4. KeptIsWhole'
    BY <1>16 DEF SendCompletes, SendUnchanged
  <2> QED
    BY <2>1, <2>2, <2>3, <2>4
<1>17. ASSUME NEW p \in Processes, SendCancelled(p)
       PROVE  Locked' /\ Private' /\ Settled' /\ KeptIsWhole'
  <2>1. Locked'
    BY <1>17 DEF SendCancelled, SendUnchanged
  <2>2. Private'
    BY <1>17 DEF SendCancelled, SendUnchanged
  <2>3. Settled'
    BY <1>17 DEF SendCancelled, SendUnchanged
  <2>4. KeptIsWhole'
    BY <1>17 DEF SendCancelled, SendUnchanged
  <2> QED
    BY <2>1, <2>2, <2>3, <2>4
<1>18. ASSUME NEW p \in Processes, Dispose(p)
       PROVE  Locked' /\ Private' /\ Settled' /\ KeptIsWhole'
  <2>1. Locked'
    BY <1>18 DEF Dispose, SendUnchanged, Remove, Empty
  <2>2. Private'
    BY <1>18 DEF Dispose, SendUnchanged, Remove, Empty
  <2>3. Settled'
    BY <1>18 DEF Dispose, SendUnchanged, Remove, Empty
  <2>4. KeptIsWhole'
    BY <1>18 DEF Dispose, SendUnchanged, Remove, Empty
  <2> QED
    BY <2>1, <2>2, <2>3, <2>4
<1>19. ASSUME NEW p \in Processes, SendEnds(p)
       PROVE  Locked' /\ Private' /\ Settled' /\ KeptIsWhole'
  <2>1. Locked'
    BY <1>19 DEF SendEnds, SendUnchanged
  <2>2. Private'
    BY <1>19 DEF SendEnds, SendUnchanged
  <2>3. Settled'
    BY <1>19 DEF SendEnds, SendUnchanged
  <2>4. KeptIsWhole'
    BY <1>19 DEF SendEnds, SendUnchanged
  <2> QED
    BY <2>1, <2>2, <2>3, <2>4
<1>20. ASSUME NEW p \in Processes, Kill(p)
       PROVE  Locked' /\ Private' /\ Settled' /\ KeptIsWhole'
  <2>1. Locked'
    BY <1>20 DEF Kill
  <2>2. Private'
    BY <1>20 DEF Kill
  <2>3. Settled'
    BY <1>20 DEF Kill
  <2>4. KeptIsWhole'
    BY <1>20 DEF Kill
  <2> QED
    BY <2>1, <2>2, <2>3, <2>4
<1> QED
  BY <1>1, <1>2, <1>3, <1>4, <1>5, <1>6, <1>7, <1>8, <1>9, <1>10, <1>11, <1>12,
     <1>13, <1>14, <1>15, <1>16, <1>17, <1>18, <1>19, <1>20 DEF Next

-----------------------------------------------------------------------------

\* Types, the lock's keepers and what each step may know hold in every behaviour.
THEOREM InductiveHolds == Spec => []Inductive
<1>1. Init => Inductive
  BY TaskStoreAssumption
     DEF Init, Inductive, TypeOK, Locked, Private, Settled, KeptIsWhole,
         Preparing, Idle, NoScan
<1> QED
  BY <1>1, InductiveStep, PTL DEF Spec

\* storage.rs:64, however many processes list, send and discard tasks beside a
\* preparation, and wherever they are killed: what is being prepared is not
\* collected, and a registered task keeps its files until it is finished or
\* cancelled.
THEOREM KeptAlwaysWhole == Spec => []KeptIsWhole
BY InductiveHolds, PTL DEF Inductive
=============================================================================
