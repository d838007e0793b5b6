---------------------------- MODULE Publication -----------------------------
(***************************************************************************)
(* How a finished task gets its name in the receive directory:             *)
(* transfer/storage.rs, Session::commit, published, recover's publication  *)
(* branch, cancel and publish, and on Android the two ways into a document *)
(* tree, DirectTransferStorage.java (blocks are received into the document *)
(* that is renamed) and TransferDocuments.java (a staged task is copied),  *)
(* for tasks that share a manifest name, beside a user who creates and     *)
(* deletes there, with crashes and power failures between any two steps.   *)
(*                                                                         *)
(* The receive directory maps a slot to what it holds: slot n is           *)
(* "<name>.<n>" (the bare name for 0), slot t the name-and-id target only  *)
(* the legacy task t uses.  An object is known by the task that made it    *)
(* (its inode) and by its content, which stands for type, inventory, sizes *)
(* and block hashes together; it is never empty.                           *)
(***************************************************************************)
EXTENDS Naturals, FiniteSets, FiniteSetsExt

CONSTANTS Tasks,
          Manifests,   \* [Tasks -> [layout, content, streaming]], one per world
          Contents,    \* every content an object may have
          Torn,        \* the content of a copy that lost data nobody synced
          MaxSuffix,   \* bound: the highest suffix tried
          User, Nothing

\* A single file is linked, or renamed on Android; "tree" is Directory and
\* Batch; "direct" and "copied" are the ways into a document tree.
Layouts == {"file", "renamed", "tree", "legacy", "direct", "copied"}

Kinds == [layout : Layouts, content : Contents, streaming : BOOLEAN]

ASSUME PublicationAssumption ==
    /\ Manifests \subseteq [Tasks -> Kinds]
    /\ MaxSuffix \in Nat
    /\ User \notin Tasks
    /\ Torn \notin Contents
    /\ Nothing \notin [owner : Tasks \cup {User}, content : Contents \cup {Torn}]

VARIABLES
    phase,     \* where the task's session is
    next,      \* commit's loop: the next suffix to try
    rec,       \* receipt.json: manifest, target, publishing, result, offsets
               \* complete
    staged,    \* .portalo-<id>.part: "none", "partial", "whole", or "moved"
               \* (the directory without the file that was renamed away); of a
               \* direct task the document of that name
    journal,   \* direct-target.json or .portalo-provider.json; publishing is
               \* the latter's ready, root its uri, result its published
    copy,      \* the document a copied task is copied into, like staged
    dir,       \* the receive directory
    unsynced,  \* slots whose directory entry a power failure may lose
    put,       \* tasks that have put their object in the directory
    withdrawn  \* tasks whose staged data a cancel() or the user has taken away

documents == <<journal, copy>>
vars == <<phase, next, rec, staged, documents, dir, unsynced, put, withdrawn>>

Layout(t) == rec[t].manifest.layout
Content(t) == rec[t].manifest.content
Streaming(t) == rec[t].manifest.streaming
Single(t) == Layout(t) \in {"file", "renamed"}
InTree(t) == Layout(t) \in {"direct", "copied"}

Slots == (0..MaxSuffix) \cup {t \in Tasks : \E m \in Manifests : m[t].layout = "legacy"}
Suffixes == 0..MaxSuffix
Objects == [owner : Tasks \cup {User}, content : Contents \cup {Torn}]

\* What the task t puts into the directory: a copy the journal calls ready is
\* not copied again, though a power failure may have torn it.
Own(t) == [owner |-> t,
           content |-> IF Layout(t) = "copied" /\ copy[t] = "partial"
                          THEN Torn ELSE Content(t)]

Phases == {"closed", "receive", "choose", "intent", "moved", "synced",
           "recorded", "cancelled", "create", "created", "named", "copying",
           "clear"}

NoJournal(t) == [made |-> FALSE, creating |-> FALSE, root |-> FALSE,
                 target |-> t, publishing |-> FALSE, result |-> FALSE]

Receipts == [manifest : Kinds, target : Slots \cup Tasks, publishing : BOOLEAN,
             result : BOOLEAN, whole : BOOLEAN]
Journals == [made : BOOLEAN, creating : BOOLEAN, root : BOOLEAN,
             target : Slots \cup Tasks, publishing : BOOLEAN, result : BOOLEAN]

TypeOK ==
    /\ phase \in [Tasks -> Phases]
    /\ next \in [Tasks -> 0..(MaxSuffix + 1)]
    /\ rec \in [Tasks -> Receipts]
    /\ \A t \in Tasks : \E m \in Manifests : rec[t].manifest = m[t]
    /\ staged \in [Tasks -> {"none", "partial", "whole", "moved"}]
    /\ journal \in [Tasks -> Journals]
    /\ copy \in [Tasks -> {"none", "partial", "whole"}]
    /\ dir \in [Slots -> Objects \cup {Nothing}]
    /\ unsynced \in SUBSET Slots
    /\ put \in SUBSET Tasks
    /\ withdrawn \in SUBSET Tasks

Init ==
    /\ phase = [t \in Tasks |-> "closed"]
    /\ next = [t \in Tasks |-> 0]
    /\ \E m \in Manifests :
          rec = [t \in Tasks |-> [manifest |-> m[t], target |-> t,
                     publishing |-> FALSE, result |-> FALSE, whole |-> FALSE]]
    /\ staged = [t \in Tasks |-> "none"]
    /\ journal = [t \in Tasks |-> NoJournal(t)]
    /\ copy = [t \in Tasks |-> "none"]
    /\ dir = [s \in Slots |-> Nothing]
    /\ unsynced = {}
    /\ put = {}
    /\ withdrawn = {}

Goto(t, p) == phase' = [phase EXCEPT ![t] = p]

-----------------------------------------------------------------------------
(* open_at and recover: has an earlier session published already?          *)

SourceExists(t) == staged[t] \in {"partial", "whole"}
RootExists(t) == staged[t] # "none"

\* verify_file or verify_local of what is at the recorded target: without the
\* hashes of every block a streamed task cannot be verified.
Verifies(t) ==
    /\ dir[rec[t].target].content = Content(t)
    /\ Streaming(t) => rec[t].whole

\* The publication branch of recover(): published() is asked only under a
\* recorded intent.  One mutant takes equal content for its own, the other
\* looks only at staged data that is still there.
PublishedByContent(t) ==
    rec[t].publishing /\ dir[rec[t].target] # Nothing /\ Verifies(t)

PublishedBySource(t) ==
    rec[t].publishing /\ SourceExists(t) /\ dir[rec[t].target] = Own(t)

Published(t) ==
    /\ rec[t].publishing
    /\ dir[rec[t].target] # Nothing
    /\ IF Single(t)
          THEN IF SourceExists(t) THEN dir[rec[t].target].owner = t
                                  ELSE Verifies(t)
          ELSE ~RootExists(t) /\ Verifies(t)

\* published() fails: the target is there, the staged data is not, and the
\* target does not verify.
Refused(t) ==
    /\ rec[t].publishing
    /\ dir[rec[t].target] # Nothing
    /\ IF Single(t) THEN ~SourceExists(t) ELSE ~RootExists(t)
    /\ ~Verifies(t)

\* Once the result is recorded what is left of the staging goes, and with it
\* the journal of a copied task.
Unstage(t) ==
    /\ staged' = [staged EXCEPT ![t] =
                     IF Single(t) \/ Layout(t) = "copied" THEN "none" ELSE @]
    /\ journal' = [journal EXCEPT ![t] =
                     IF Layout(t) = "copied" THEN NoJournal(t) ELSE @]
    /\ UNCHANGED <<next, rec, copy, dir, unsynced, put, withdrawn>>

Answer(t) ==
    /\ phase[t] = "closed"
    /\ rec[t].result
    /\ Unstage(t)
    /\ UNCHANGED phase

\* The publication is recognised and recorded.
Claim(t) ==
    /\ phase[t] = "closed"
    /\ ~rec[t].result
    /\ Published(t)
    /\ rec' = [rec EXCEPT ![t].result = TRUE]
    /\ Goto(t, "recorded")
    /\ UNCHANGED <<next, staged, dir, unsynced, put, withdrawn, documents>>

\* The task is received (again): recover() creates what is missing and records
\* the positions it could verify.
Resume(t) ==
    /\ phase[t] = "closed"
    /\ Layout(t) # "direct"
    /\ ~rec[t].result
    /\ ~Published(t)
    /\ ~Refused(t)
    /\ staged' = [staged EXCEPT ![t] = IF @ = "whole" THEN @ ELSE "partial"]
    /\ rec' = [rec EXCEPT ![t].whole = @ /\ staged[t] = "whole"]
    /\ Goto(t, "receive")
    /\ UNCHANGED <<next, dir, unsynced, put, withdrawn, documents>>

-----------------------------------------------------------------------------
(* Receiving, in the terms this module needs, and cancel().                *)

Fill(t) ==
    /\ phase[t] = "receive"
    /\ staged[t] = "partial"
    /\ staged' = [staged EXCEPT ![t] = "whole"]
    /\ rec' = [rec EXCEPT ![t].whole = TRUE]
    /\ UNCHANGED <<phase, next, dir, unsynced, put, withdrawn, documents>>

Interrupt(t) ==
    /\ phase[t] = "receive"
    /\ Goto(t, "closed")
    /\ UNCHANGED <<next, rec, staged, dir, unsynced, put, withdrawn, documents>>

\* A document that may already have its name is not cancelled.  The mutant
\* minds only a result.
MayBePublishedRecorded(t) == journal[t].result
MayBePublished(t) == journal[t].result \/ journal[t].publishing

\* The document goes first, then the journal that knows of it.
CancelDocument(t) ==
    /\ phase[t] = "receive"
    /\ journal[t].made
    /\ ~MayBePublished(t)
    /\ staged' = [staged EXCEPT ![t] = IF Layout(t) = "direct" THEN "none" ELSE @]
    /\ copy' = [copy EXCEPT ![t] = "none"]
    /\ withdrawn' = withdrawn \cup {t}
    /\ Goto(t, "clear")
    /\ UNCHANGED <<next, rec, journal, dir, unsynced, put>>

ClearJournal(t) ==
    /\ phase[t] = "clear"
    /\ journal[t].made
    /\ journal' = [journal EXCEPT ![t] = NoJournal(t)]
    /\ UNCHANGED <<phase, next, rec, staged, copy, dir, unsynced, put, withdrawn>>

CancelRemove(t) ==
    /\ phase[t] \in {"receive", "clear"}
    /\ ~journal[t].made
    /\ staged' = [staged EXCEPT ![t] = "none"]
    /\ withdrawn' = withdrawn \cup {t}
    /\ Goto(t, "cancelled")
    /\ UNCHANGED <<next, rec, documents, dir, unsynced, put>>

\* Offsets and hashes are reset; target and publishing stay as they are.
CancelSave(t) ==
    /\ phase[t] = "cancelled"
    /\ rec' = [rec EXCEPT ![t].whole = FALSE]
    /\ Goto(t, "closed")
    /\ UNCHANGED <<next, staged, dir, unsynced, put, withdrawn, documents>>

-----------------------------------------------------------------------------
(* commit(), after its last flush.                                         *)

\* publication.lock is held from the first name tried to the publication.
LockFree == \A t \in Tasks : Layout(t) = "legacy" \/ phase[t] \notin {"choose", "intent"}

Commit(t) ==
    /\ phase[t] = "receive"
    /\ ~InTree(t)
    /\ rec[t].whole
    /\ IF Layout(t) = "legacy"
          THEN /\ rec' = [rec EXCEPT ![t].publishing = TRUE]
               /\ Goto(t, "intent")
               /\ UNCHANGED next
          ELSE /\ LockFree
               /\ next' = [next EXCEPT ![t] = 0]
               /\ Goto(t, "choose")
               /\ UNCHANGED rec
    /\ UNCHANGED <<staged, dir, unsynced, put, withdrawn, documents>>

\* A name that exists is skipped; for one that does not, target and intent are
\* saved before anything is published.
TryName(t) ==
    /\ phase[t] = "choose"
    /\ next[t] <= MaxSuffix
    /\ IF dir[next[t]] # Nothing
          THEN UNCHANGED <<phase, rec>>
          ELSE /\ rec' = [rec EXCEPT ![t] = [@ EXCEPT !.target = next[t],
                                                 !.publishing = TRUE]]
               /\ Goto(t, "intent")
    /\ next' = [next EXCEPT ![t] = @ + 1]
    /\ UNCHANGED <<staged, dir, unsynced, put, withdrawn, documents>>

\* The publishing call itself refuses an existing target.  The mutant trusts
\* the check that chose the name.
VacantTrusted(s) == TRUE
Vacant(s) == dir[s] = Nothing

\* hard_link, or renameat2 with RENAME_NOREPLACE.
Publish(t) ==
    LET target == rec[t].target IN
    /\ phase[t] = "intent"
    /\ ~InTree(t)
    /\ Vacant(target)
    /\ dir' = [dir EXCEPT ![target] = Own(t)]
    /\ unsynced' = unsynced \cup {target}
    /\ put' = put \cup {t}
    /\ staged' = [staged EXCEPT ![t] = IF ~Single(t) THEN "none"
                                       ELSE IF Layout(t) = "renamed" THEN "moved" ELSE @]
    /\ Goto(t, "moved")
    /\ next' = [next EXCEPT ![t] = 0]
    /\ UNCHANGED <<rec, withdrawn, documents>>

\* AlreadyExists: try the next name; the legacy target has no other.
Taken(t) ==
    /\ phase[t] = "intent"
    /\ ~InTree(t)
    /\ dir[rec[t].target] # Nothing
    /\ Goto(t, IF Layout(t) = "legacy" THEN "closed" ELSE "choose")
    /\ UNCHANGED <<next, rec, staged, dir, unsynced, put, withdrawn, documents>>

SyncParent(t) ==
    /\ phase[t] = "moved"
    /\ ~InTree(t)
    /\ unsynced' = {}
    /\ Goto(t, "synced")
    /\ UNCHANGED <<next, rec, staged, dir, put, withdrawn, documents>>

Record(t) ==
    /\ phase[t] = "synced"
    /\ rec' = [rec EXCEPT ![t].result = TRUE]
    /\ Goto(t, "recorded")
    /\ UNCHANGED <<next, staged, dir, unsynced, put, withdrawn, documents>>

RemoveStaging(t) ==
    /\ phase[t] = "recorded"
    /\ Unstage(t)
    /\ Goto(t, "closed")

\* Any of these steps may fail; the session ends with the error.
Fail(t) ==
    /\ phase[t] \notin {"closed", "receive", "recorded"}
    /\ Goto(t, "closed")
    /\ next' = [next EXCEPT ![t] = 0]
    /\ UNCHANGED <<rec, staged, dir, unsynced, put, withdrawn, documents>>

-----------------------------------------------------------------------------
(* DirectTransferStorage.java: prepare, which open_at calls before recover, *)
(* and publish.                                                            *)

InDocuments == <<put, withdrawn, unsynced, dir>>
Save(t, j) == journal' = [journal EXCEPT ![t] = j]

DirectNew(t) ==
    /\ Layout(t) = "direct"
    /\ phase[t] = "closed"
    /\ ~rec[t].result /\ ~journal[t].made
    /\ Save(t, [journal[t] EXCEPT !.made = TRUE])
    /\ UNCHANGED <<phase, next, rec, staged, copy, InDocuments>>

\* The document is there, or was before the last stop.
DirectOpen(t) ==
    /\ Layout(t) = "direct"
    /\ phase[t] = "closed"
    /\ ~rec[t].result /\ journal[t].made

DirectCreate(t) ==
    /\ DirectOpen(t)
    /\ ~journal[t].result /\ ~journal[t].publishing
    /\ staged[t] = "none" /\ ~journal[t].root
    /\ Save(t, [journal[t] EXCEPT !.creating = TRUE])
    /\ Goto(t, "create")
    /\ UNCHANGED <<next, rec, staged, copy, InDocuments>>

\* Either kind of temporary document, created after its journal says so.
CreateDocument(t) ==
    /\ phase[t] = "create"
    /\ staged' = [staged EXCEPT ![t] = IF Layout(t) = "direct" THEN "partial" ELSE @]
    /\ copy' = [copy EXCEPT ![t] = IF Layout(t) = "direct" THEN @ ELSE "partial"]
    /\ Goto(t, "created")
    /\ UNCHANGED <<next, rec, journal, InDocuments>>

DirectResume(t) ==
    /\ \/ Layout(t) = "direct" /\ phase[t] = "created"
       \/ DirectOpen(t) /\ ~journal[t].result /\ journal[t].creating
    /\ staged[t] # "none"
    /\ Save(t, [journal[t] EXCEPT !.root = TRUE])
    /\ rec' = [rec EXCEPT ![t].whole = @ /\ staged[t] = "whole"]
    /\ Goto(t, "receive")
    /\ UNCHANGED <<next, staged, copy, InDocuments>>

\* The document has been renamed, or is gone: what has the recorded name is the
\* result if verify_direct finds every block in it, and an error if not.
DirectClaim(t) ==
    /\ DirectOpen(t)
    /\ journal[t].result \/ (journal[t].publishing /\ staged[t] = "none")
    /\ LET found == dir[journal[t].target] IN
          found # Nothing /\ found.content = Content(t) /\ (Streaming(t) => rec[t].whole)
    /\ rec' = [rec EXCEPT ![t].result = TRUE]
    /\ Goto(t, "recorded")
    /\ UNCHANGED <<next, staged, documents, InDocuments>>

\* One task at a time publishes in a tree.
TreeLockFree == \A t \in Tasks : ~InTree(t) \/ phase[t] \notin
    {"named", "copying", "intent", "moved"} \cup
    (IF Layout(t) = "copied" THEN {"create", "created"} ELSE {})

\* The first name from the n-th on that nothing has.
Vacancies(n) == {k \in n..MaxSuffix : dir[k] = Nothing}

DirectChoose(t) ==
    /\ Layout(t) = "direct"
    /\ phase[t] = "receive" /\ rec[t].whole
    /\ TreeLockFree
    /\ journal[t].publishing => staged[t] # "none"
    /\ Vacancies(0) # {}
    /\ Save(t, [journal[t] EXCEPT !.target = Min(Vacancies(0)), !.publishing = TRUE])
    /\ Goto(t, "intent")
    /\ UNCHANGED <<next, rec, staged, copy, InDocuments>>

-----------------------------------------------------------------------------
(* TransferDocuments.java: publish.                                        *)

CopyBegins(t) ==
    /\ Layout(t) = "copied"
    /\ phase[t] = "receive" /\ rec[t].whole
    /\ TreeLockFree

\* The earlier run renamed the document, and the journal still says ready.
Renamed(t) == journal[t].publishing /\ copy[t] = "none"

\* A name: the first free one; another if somebody has taken it since.
CopyChoose(t) ==
    LET first == ~journal[t].made
        taken == ~first /\ dir[journal[t].target] # Nothing
        names == Vacancies(IF first THEN 0 ELSE 1)
    IN
    /\ CopyBegins(t)
    /\ ~journal[t].result
    /\ taken => ~Renamed(t)
    /\ (first \/ taken) => names # {}
    /\ Save(t, [journal[t] EXCEPT !.made = TRUE,
                    !.target = IF first \/ taken THEN Min(names) ELSE @])
    /\ Goto(t, "named")
    /\ UNCHANGED <<next, rec, staged, copy, InDocuments>>

\* The name is taken and the document is gone: it is the result if its content
\* compares equal.
CopyFound(t) ==
    /\ CopyBegins(t)
    /\ journal[t].made /\ ~journal[t].result
    /\ Renamed(t)
    /\ dir[journal[t].target] # Nothing
    /\ dir[journal[t].target].content = Content(t)
    /\ Save(t, [journal[t] EXCEPT !.result = TRUE])
    /\ Goto(t, "synced")
    /\ UNCHANGED <<next, rec, staged, copy, InDocuments>>

CopyRecorded(t) ==
    /\ CopyBegins(t)
    /\ journal[t].result
    /\ Goto(t, "synced")
    /\ UNCHANGED <<next, rec, staged, documents, InDocuments>>

CopyCreate(t) ==
    /\ Layout(t) = "copied"
    /\ phase[t] = "named"
    /\ ~journal[t].root /\ copy[t] = "none"
    /\ Save(t, [journal[t] EXCEPT !.creating = TRUE])
    /\ Goto(t, "create")
    /\ UNCHANGED <<next, rec, staged, copy, InDocuments>>

CopyOpen(t) ==
    /\ Layout(t) = "copied"
    /\ \/ phase[t] = "created"
       \/ phase[t] = "named" /\ journal[t].root
       \/ phase[t] = "named" /\ journal[t].creating /\ copy[t] # "none"
    /\ Save(t, [journal[t] EXCEPT !.root = TRUE])
    /\ Goto(t, "copying")
    /\ UNCHANGED <<next, rec, staged, copy, InDocuments>>

Copied(t) ==
    /\ phase[t] = "copying" /\ ~journal[t].publishing
    /\ copy[t] = "partial"
    /\ copy' = [copy EXCEPT ![t] = "whole"]
    /\ UNCHANGED <<phase, next, rec, staged, journal, InDocuments>>

CopyReady(t) ==
    /\ phase[t] = "copying" /\ ~journal[t].publishing
    /\ copy[t] = "whole"
    /\ Save(t, [journal[t] EXCEPT !.publishing = TRUE])
    /\ UNCHANGED <<phase, next, rec, staged, copy, InDocuments>>

CopyRecheck(t) ==
    LET taken == dir[journal[t].target] # Nothing IN
    /\ phase[t] = "copying" /\ journal[t].publishing
    /\ taken => Vacancies(1) # {}
    /\ Save(t, [journal[t] EXCEPT !.target = IF taken THEN Min(Vacancies(1)) ELSE @])
    /\ Goto(t, "intent")
    /\ UNCHANGED <<next, rec, staged, copy, InDocuments>>

\* renameDocument, by the provider: a name taken since it was chosen is refused
\* (Fail) or made unique, and the answer says what the name is.
Rename(t) ==
    LET target == journal[t].target
        names == IF Vacant(target) THEN {target} ELSE Vacancies(0)
    IN
    /\ InTree(t)
    /\ phase[t] = "intent"
    /\ (IF Layout(t) = "direct" THEN staged[t] ELSE copy[t]) # "none"
    /\ \E s \in names :
          /\ dir' = [dir EXCEPT ![s] = Own(t)]
          /\ unsynced' = unsynced \cup {s}
          /\ next' = [next EXCEPT ![t] = s]
    /\ put' = put \cup {t}
    /\ staged' = [staged EXCEPT ![t] = IF Layout(t) = "direct" THEN "none" ELSE @]
    /\ copy' = [copy EXCEPT ![t] = "none"]
    /\ Goto(t, "moved")
    /\ UNCHANGED <<rec, journal, withdrawn>>

Returned(t) ==
    /\ InTree(t)
    /\ phase[t] = "moved"
    /\ Save(t, [journal[t] EXCEPT !.target = next[t], !.root = TRUE, !.result = TRUE])
    /\ next' = [next EXCEPT ![t] = 0]
    /\ Goto(t, "synced")
    /\ UNCHANGED <<rec, staged, copy, InDocuments>>

-----------------------------------------------------------------------------
(* Everyone else.                                                          *)

\* Nobody uses the name of a legacy target unless there is a legacy task.
Names == Suffixes \cup {t \in Tasks : Layout(t) = "legacy"}

UserCreates(s) ==
    /\ dir[s] = Nothing
    /\ \E c \in Contents : dir' = [dir EXCEPT ![s] = [owner |-> User, content |-> c]]
    /\ UNCHANGED <<phase, next, rec, staged, unsynced, put, withdrawn, documents>>

UserDeletes(s) ==
    /\ dir[s] # Nothing
    /\ dir' = [dir EXCEPT ![s] = Nothing]
    /\ unsynced' = unsynced \ {s}
    /\ UNCHANGED <<phase, next, rec, staged, put, withdrawn, documents>>

\* The unfinished documents are in the user's sight.
UserDeletesPart(t) ==
    /\ \/ Layout(t) = "direct" /\ staged[t] # "none"
       \/ copy[t] # "none"
    /\ staged' = [staged EXCEPT ![t] = IF Layout(t) = "direct" THEN "none" ELSE @]
    /\ copy' = [copy EXCEPT ![t] = "none"]
    /\ withdrawn' = withdrawn \cup {t}
    /\ UNCHANGED <<phase, next, rec, journal, dir, unsynced, put>>

Stopped ==
    /\ phase' = [t \in Tasks |-> "closed"]
    /\ next' = [t \in Tasks |-> 0]

Kill ==
    /\ Stopped
    /\ UNCHANGED <<rec, staged, dir, unsynced, put, withdrawn, documents>>

\* An unsynced publication is undone: what was renamed is back in the staging
\* directory; a link leaves the staging directory as it is.  The bytes of a
\* copy are never synced: before and after its rename they may be torn.
PowerLoss ==
    LET lost == {s \in unsynced : dir[s] # Nothing /\ dir[s].owner # User}
        Undone(t) == \E s \in lost : dir[s].owner = t
        Back(t) == \E s \in lost : dir[s] = [owner |-> t, content |-> Content(t)]
    IN
    /\ Stopped
    /\ \E torn \in SUBSET {t \in Tasks : Layout(t) = "copied"} :
          /\ dir' = [s \in Slots |->
                IF s \in lost THEN Nothing
                ELSE IF dir[s] # Nothing /\ dir[s].owner \in torn
                        THEN [dir[s] EXCEPT !.content = Torn] ELSE dir[s]]
          /\ copy' = [t \in Tasks |->
                IF Layout(t) # "copied" \/ ~(Undone(t) \/ copy[t] = "whole") THEN copy[t]
                ELSE IF t \notin torn /\ (copy[t] = "whole" \/ Back(t)) THEN "whole"
                ELSE "partial"]
    /\ staged' = [t \in Tasks |->
          IF Undone(t) /\ Layout(t) \notin {"file", "copied"} THEN "whole" ELSE staged[t]]
    /\ unsynced' = {}
    /\ UNCHANGED <<rec, journal, put, withdrawn>>

TaskStep(t) ==
    \/ Answer(t) \/ Claim(t) \/ Resume(t) \/ Fill(t) \/ Interrupt(t)
    \/ DirectNew(t) \/ DirectCreate(t) \/ DirectResume(t) \/ DirectClaim(t)
    \/ DirectChoose(t) \/ CreateDocument(t) \/ CopyChoose(t) \/ CopyFound(t)
    \/ CopyRecorded(t) \/ CopyCreate(t) \/ CopyOpen(t) \/ Copied(t)
    \/ CopyReady(t) \/ CopyRecheck(t) \/ Rename(t) \/ Returned(t)
    \/ CancelDocument(t) \/ ClearJournal(t)
    \/ CancelRemove(t) \/ CancelSave(t) \/ Commit(t) \/ TryName(t)
    \/ Publish(t) \/ Taken(t) \/ SyncParent(t) \/ Record(t)
    \/ RemoveStaging(t) \/ Fail(t)

Next ==
    \/ \E t \in Tasks : TaskStep(t)
    \/ \E s \in Names : UserCreates(s) \/ UserDeletes(s)
    \/ \E t \in Tasks : UserDeletesPart(t)
    \/ Kill
    \/ PowerLoss

Spec == Init /\ [][Next]_vars

-----------------------------------------------------------------------------
\* No step of a task changes what is at an occupied name: files of the user
\* and of other tasks are never replaced, published ones never removed, by
\* commit, recovery or cancel.
NeverReplaces ==
    [][(\E t \in Tasks : TaskStep(t)) =>
          \A s \in Slots : dir[s] # Nothing => dir'[s] = dir[s]]_vars

\* A task is published under one name at most, however often it crashed
\* between publication and the record of it, and in whichever of the six layouts.
PublishedOnce ==
    \A t \in Tasks :
        Cardinality({s \in Slots : dir[s] # Nothing /\ dir[s].owner = t}) <= 1

\* A task whose object is in the directory is never received again: a later
\* session recognises the publication the earlier one did not record, or still
\* has the copied task's journal that lets its commit recognise it.
RecognisesItself ==
    [][\A t \in Tasks :
          phase[t] # "receive" /\ phase'[t] = "receive" =>
              \/ Layout(t) = "copied" /\ journal[t].publishing
              \/ \A s \in Slots : dir[s] = Nothing \/ dir[s].owner # t]_vars

\* INTERNALS.md, "publication": no result is claimed for content of the same
\* name or the same bytes that the task did not put there, as long as neither
\* a cancel nor the user has taken its staged data away.
ClaimsOnlyItsOwn == \A t \in Tasks : rec[t].result => t \in put \cup withdrawn

\* A recorded result outlives a power failure: its name is synced first.
ResultIsDurable ==
    \A t \in Tasks : \A s \in unsynced :
        rec[t].result /\ dir[s] # Nothing => dir[s].owner # t

\* README.md, "cancel": an unconfirmed cancel keeps the task so that it can be
\* cleaned up later.  A task that has published nothing can be reopened.
UnpublishedReopens == \A t \in Tasks : Refused(t) => t \in put
=============================================================================
