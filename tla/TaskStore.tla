------------------------------ MODULE TaskStore ------------------------------
(***************************************************************************)
(* The sender's tasks on disk (storage.rs, transfers.rs): one directory    *)
(* per task with its payload and task.json.  Several processes of the      *)
(* program prepare, list, send and discard them; each may be killed at any *)
(* point and starts again.  Only a preparation and the collection inside   *)
(* tasks() share a lock, preparation.lock.                                 *)
(***************************************************************************)
EXTENDS Naturals

CONSTANTS Processes, \* running copies of the program
          Tasks,     \* bound: task identifiers, none of which is used twice
          Files,     \* files of a task
          None       \* no process, no task

ASSUME TaskStoreAssumption == Files \in Nat \ {0} /\ None \notin Processes \cup Tasks

VARIABLES
    present,    \* tasks whose directory exists
    record,     \* what task.json says: none, unfinished, finished
    payload,    \* files in the directory data
    lock,       \* who holds preparation.lock
    preparer,   \* per process: prepare_with_progress
    scanner,    \* per process: tasks()
    entries,    \* per process: the listed tasks the user can continue or cancel
    sender,     \* per process: the end of send, with the stored steps
    used,       \* identifiers given out
    cancelled   \* history: tasks some process began to discard

vars == <<present, record, payload, lock, preparer, scanner, entries, sender,
          used, cancelled>>
store == <<present, record, payload>>

Idle == [at |-> "idle", task |-> None]
NoScan == [at |-> "idle", task |-> None, cleanup |-> FALSE, left |-> {},
           found |-> {}]

TypeOK ==
    /\ present \subseteq Tasks /\ used \subseteq Tasks /\ cancelled \subseteq used
    /\ record \in [Tasks -> {"none", "unfinished", "finished"}]
    /\ payload \in [Tasks -> 0..Files]
    /\ lock \in Processes \cup {None}
    /\ preparer \in [Processes ->
          [at : {"idle", "waiting", "copying", "failing"}, task : used \cup {None}]]
    /\ scanner \in [Processes ->
          [at : {"idle", "next", "removing", "emptying"}, task : Tasks \cup {None},
           cleanup : BOOLEAN, left : SUBSET Tasks, found : SUBSET used]]
    /\ sender \in [Processes ->
          [at : {"idle", "sending", "emptying", "discarding"}, task : used \cup {None}]]
    /\ entries \in [Processes -> SUBSET used]
    /\ \A p \in Processes :
          /\ preparer[p].at \in {"copying", "failing"} => preparer[p].task \in used
          /\ scanner[p].at \in {"removing", "emptying"} => scanner[p].task \in Tasks
          /\ sender[p].at # "idle" => sender[p].task \in used

Init ==
    /\ present = {} /\ used = {} /\ cancelled = {}
    /\ record = [t \in Tasks |-> "none"]
    /\ payload = [t \in Tasks |-> 0]
    /\ lock = None
    /\ preparer = [p \in Processes |-> Idle]
    /\ scanner = [p \in Processes |-> NoScan]
    /\ sender = [p \in Processes |-> Idle]
    /\ entries = [p \in Processes |-> {}]

-----------------------------------------------------------------------------
(* remove_dir_all takes the entries of a directory away in any order.      *)

Remove(t) ==
    \/ payload[t] > 0 /\ payload' = [payload EXCEPT ![t] = @ - 1]
                      /\ UNCHANGED <<present, record>>
    \/ record[t] # "none" /\ record' = [record EXCEPT ![t] = "none"]
                          /\ UNCHANGED <<present, payload>>
    \/ payload[t] = 0 /\ record[t] = "none" /\ present' = present \ {t}
                      /\ UNCHANGED <<record, payload>>

\* The same for the directory data of a finished task.
Empty(t) ==
    /\ payload[t] > 0
    /\ payload' = [payload EXCEPT ![t] = @ - 1]
    /\ UNCHANGED <<present, record>>

-----------------------------------------------------------------------------
(* prepare_with_progress: everything under preparation.lock.               *)

PrepareUnchanged == UNCHANGED <<scanner, entries, sender, cancelled>>

\* No transfer of this process is active (send.rs), and it waits for the lock.
Prepare(p) ==
    /\ preparer[p] = Idle /\ sender[p] = Idle
    /\ preparer' = [preparer EXCEPT ![p].at = "waiting"]
    /\ UNCHANGED <<store, lock, used>> /\ PrepareUnchanged

MakeDirectory(p) ==
    /\ preparer[p].at = "waiting" /\ lock = None
    /\ lock' = p
    /\ \E t \in Tasks \ used :
          /\ used' = used \cup {t} /\ present' = present \cup {t}
          /\ preparer' = [preparer EXCEPT ![p] = [at |-> "copying", task |-> t]]
    /\ UNCHANGED <<record, payload>> /\ PrepareUnchanged

\* A clone or a copy of one file, hashed and synced, or the link of a private
\* cache: it is in the directory before it is whole.
Snapshot(p) ==
    /\ preparer[p].at = "copying" /\ payload[preparer[p].task] < Files
    /\ payload' = [payload EXCEPT ![preparer[p].task] = @ + 1]
    /\ UNCHANGED <<present, record, lock, preparer, used>> /\ PrepareUnchanged

\* save, and the transfer of the new task follows.
SaveTask(p) ==
    /\ preparer[p].at = "copying"
    /\ LET t == preparer[p].task IN
          /\ payload[t] = Files
          /\ record' = [record EXCEPT ![t] = "unfinished"]
          /\ sender' = [sender EXCEPT ![p] = [at |-> "sending", task |-> t]]
    /\ preparer' = [preparer EXCEPT ![p] = Idle]
    /\ lock' = None
    /\ UNCHANGED <<present, payload, scanner, entries, used, cancelled>>

\* A link, a special file, a bad name, too many entries, a source that changed
\* or cannot be read, an interruption by the user.
PrepareFails(p) ==
    /\ preparer[p].at = "copying"
    /\ preparer' = [preparer EXCEPT ![p].at = "failing"]
    /\ UNCHANGED <<store, lock, used>> /\ PrepareUnchanged

Undo(p) ==
    /\ preparer[p].at = "failing"
    /\ Remove(preparer[p].task)
    /\ IF preparer[p].task \in present'
       THEN UNCHANGED <<preparer, lock>>
       ELSE preparer' = [preparer EXCEPT ![p] = Idle] /\ lock' = None
    /\ UNCHANGED used /\ PrepareUnchanged

-----------------------------------------------------------------------------
(* tasks(): lists the unfinished tasks and collects what is left over.     *)

ScanUnchanged == UNCHANGED <<preparer, sender, used, cancelled>>

\* The lock is only tried. The mutant collects without it.
MayCollectAlways == TRUE
MayCollect == lock = None

\* The page of the sender is entered.
ScanBegin(p) ==
    /\ scanner[p].at = "idle" /\ preparer[p].at = "idle" /\ sender[p].at = "idle"
    /\ scanner' = [scanner EXCEPT ![p] = [NoScan EXCEPT
                     !.at = "next", !.cleanup = MayCollect, !.left = Tasks]]
    /\ lock' = IF lock = None THEN p ELSE lock
    /\ UNCHANGED <<store, entries>> /\ ScanUnchanged

\* What a directory that read_dir returns is found to be.
Fate(p, t) ==
    IF scanner[p].cleanup /\ record[t] = "none" THEN "removing"
    ELSE IF scanner[p].cleanup /\ record[t] = "finished" /\ payload[t] > 0
         THEN "emptying" ELSE "next"

Look(p) ==
    /\ scanner[p].at = "next"
    /\ \E t \in scanner[p].left \cap present :
          scanner' = [scanner EXCEPT ![p] = [scanner[p] EXCEPT
              !.at = Fate(p, t), !.left = @ \ {t},
              !.task = IF Fate(p, t) = "next" THEN None ELSE t,
              !.found = IF record[t] = "unfinished" THEN @ \cup {t} ELSE @]]
    /\ UNCHANGED <<store, lock, entries>> /\ ScanUnchanged

Collect(p) ==
    LET t == scanner[p].task IN
    /\ \/ scanner[p].at = "removing" /\ t \in present /\ Remove(t)
       \/ scanner[p].at = "emptying" /\ Empty(t)
    /\ UNCHANGED <<lock, scanner, entries>> /\ ScanUnchanged

\* The directory is gone, also if somebody else removed the last of it.
Collected(p) ==
    /\ \/ scanner[p].at = "removing" /\ scanner[p].task \notin present
       \/ scanner[p].at = "emptying" /\ payload[scanner[p].task] = 0
    /\ scanner' = [scanner EXCEPT ![p] =
                    [scanner[p] EXCEPT !.at = "next", !.task = None]]
    /\ UNCHANGED <<store, lock, entries>> /\ ScanUnchanged

Unlocked(p) == IF scanner[p].cleanup THEN None ELSE lock

\* Directories made or removed since it began may be missing from the listing.
ScanEnd(p) ==
    /\ scanner[p].at = "next" /\ scanner[p].left \cap present = {}
    /\ entries' = [entries EXCEPT ![p] = scanner[p].found]
    /\ scanner' = [scanner EXCEPT ![p] = NoScan]
    /\ lock' = Unlocked(p)
    /\ UNCHANGED store /\ ScanUnchanged

\* One entry that cannot be read or removed ends it; the old entries stay.
ScanFails(p) ==
    /\ scanner[p].at # "idle"
    /\ scanner' = [scanner EXCEPT ![p] = NoScan]
    /\ lock' = Unlocked(p)
    /\ UNCHANGED <<store, entries>> /\ ScanUnchanged

-----------------------------------------------------------------------------
(* send: what it stores when the attempt is over.  It takes no lock.       *)

SendUnchanged == UNCHANGED <<lock, preparer, scanner, used>>

\* Continue, or cancel: one transfer of a process is active.
Resume(p) ==
    /\ sender[p] = Idle /\ preparer[p] = Idle
    /\ \E t \in entries[p] :
          sender' = [sender EXCEPT ![p] = [at |-> "sending", task |-> t]]
    /\ UNCHANGED <<store, entries, cancelled>> /\ SendUnchanged

\* Paused, failed or the connection lost.
SendKeeps(p) ==
    /\ sender[p].at = "sending"
    /\ sender' = [sender EXCEPT ![p] = Idle]
    /\ UNCHANGED <<store, entries, cancelled>> /\ SendUnchanged

\* save makes the directory again where another process has discarded it.
SendCompletes(p) ==
    /\ sender[p].at = "sending"
    /\ present' = present \cup {sender[p].task}
    /\ record' = [record EXCEPT ![sender[p].task] = "finished"]
    /\ sender' = [sender EXCEPT ![p].at = "emptying"]
    /\ UNCHANGED <<payload, entries, cancelled>> /\ SendUnchanged

SendCancelled(p) ==
    /\ sender[p].at = "sending"
    /\ cancelled' = cancelled \cup {sender[p].task}
    /\ sender' = [sender EXCEPT ![p].at = "discarding"]
    /\ UNCHANGED <<store, entries>> /\ SendUnchanged

Dispose(p) ==
    LET t == sender[p].task IN
    /\ \/ sender[p].at = "emptying" /\ Empty(t)
       \/ sender[p].at = "discarding" /\ t \in present /\ Remove(t)
    /\ UNCHANGED <<sender, entries, cancelled>> /\ SendUnchanged

\* Nothing is left, or what is left cannot be removed.
SendEnds(p) ==
    /\ sender[p].at \in {"emptying", "discarding"}
    /\ sender' = [sender EXCEPT ![p] = Idle]
    /\ UNCHANGED <<store, entries, cancelled>> /\ SendUnchanged

\* The operating system releases the lock.
Kill(p) ==
    /\ preparer' = [preparer EXCEPT ![p] = Idle]
    /\ scanner' = [scanner EXCEPT ![p] = NoScan]
    /\ sender' = [sender EXCEPT ![p] = Idle]
    /\ entries' = [entries EXCEPT ![p] = {}]
    /\ lock' = IF lock = p THEN None ELSE lock
    /\ UNCHANGED <<store, used, cancelled>>

Next ==
    \E p \in Processes :
        \/ Prepare(p) \/ MakeDirectory(p) \/ Snapshot(p) \/ SaveTask(p)
        \/ PrepareFails(p) \/ Undo(p)
        \/ ScanBegin(p) \/ Look(p) \/ Collect(p) \/ Collected(p)
        \/ ScanEnd(p) \/ ScanFails(p)
        \/ Resume(p) \/ SendKeeps(p) \/ SendCompletes(p) \/ SendCancelled(p)
        \/ Dispose(p) \/ SendEnds(p) \/ Kill(p)

Spec == Init /\ [][Next]_vars

-----------------------------------------------------------------------------

\* "Only collect interrupted snapshots when no process is preparing one"
\* (storage.rs:64): whoever lists, sends, discards or dies meanwhile, a directory
\* that is being prepared stays, and a registered task has all of its files until
\* it is finished or somebody cancels it.
KeptIsWhole ==
    /\ \A p \in Processes :
          preparer[p].at = "copying" => preparer[p].task \in present
    /\ \A t \in Tasks :
          record[t] = "unfinished" /\ t \notin cancelled =>
              t \in present /\ payload[t] = Files
=============================================================================
