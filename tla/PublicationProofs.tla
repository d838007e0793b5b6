------------------------- MODULE PublicationProofs --------------------------
(***************************************************************************)
(* Proofs about Publication, for any tasks with any manifests, any number  *)
(* of suffixes and any contents: the four properties its run checks.       *)
(*                                                                         *)
(* The argument: a task whose object is in the directory is in none of the *)
(* phases that lead to a publication, and what it has recorded (Recorded)  *)
(* keeps it from coming back to one.  Staged data or a document a publica- *)
(* tion was once intended for is only ever gone by the publication itself  *)
(* or by somebody who took it away (Accounted).                            *)
(***************************************************************************)
EXTENDS Publication, WellFoundedInduction, FiniteSetTheorems, TLAPS

At(t, s) == dir[s] # Nothing /\ dir[s].owner = t
Gone(t) == t \in put \cup withdrawn
Rest == {"closed", "moved", "synced", "recorded"}

\* What the phases of a session imply, and where the recorded names are.
Phased ==
    \A t \in Tasks :
        /\ rec[t].result => phase[t] \in {"closed", "recorded"}
        /\ phase[t] = "recorded" => rec[t].result
        /\ phase[t] = "choose" => ~InTree(t) /\ Layout(t) # "legacy"
        /\ phase[t] \in {"create", "created"} => InTree(t)
        /\ phase[t] \in {"named", "copying"} => Layout(t) = "copied"
        /\ rec[t].publishing => ~InTree(t) /\ rec[t].target \in Slots
        /\ Layout(t) = "legacy" => rec[t].target = t
        /\ phase[t] = "intent" /\ ~InTree(t) => rec[t].publishing
        /\ phase[t] = "intent" /\ InTree(t) =>
              journal[t].publishing /\ journal[t].target \in Suffixes
        /\ phase[t] = "moved" /\ InTree(t) => next[t] \in Suffixes

\* A task is copied under the name its journal has.
Journalled ==
    \A t \in Tasks : Layout(t) = "copied" =>
        /\ journal[t].made => journal[t].target \in Suffixes
        /\ phase[t] \in {"named", "create", "created", "copying", "intent"} =>
              journal[t].made
        /\ phase[t] \in {"copying", "intent"} => journal[t].root

\* What a task has recorded whose object is in the directory.
Recorded ==
    \A t \in Tasks, s \in Slots : At(t, s) =>
        /\ t \in put
        /\ ~InTree(t) =>
              /\ rec[t].publishing /\ rec[t].target = s /\ phase[t] \in Rest
              /\ Single(t) \/ staged[t] = "none"
        /\ Layout(t) = "direct" =>
              journal[t].publishing /\ staged[t] = "none" /\ phase[t] \in Rest
        /\ Layout(t) = "copied" =>
              /\ \/ rec[t].result
                 \/ journal[t].made /\ journal[t].publishing /\ journal[t].root
              /\ copy[t] = "none"
              /\ phase[t] \notin {"create", "created", "clear", "cancelled"}

Once ==
    \A t \in Tasks : \A s, u \in Slots : At(t, s) /\ At(t, u) => s = u

\* Where the data of a task is that may have been published.
Accounted ==
    \A t \in Tasks :
        /\ phase[t] \in {"moved", "synced"} \/ rec[t].result \/ journal[t].result
              => Gone(t)
        /\ rec[t].whole \/ rec[t].publishing \/ phase[t] = "choose"
              => staged[t] = "whole" \/ Gone(t)
        /\ Layout(t) = "direct" /\ journal[t].publishing => staged[t] # "none" \/ Gone(t)
        /\ Layout(t) = "direct" /\ phase[t] = "create" /\ rec[t].whole => Gone(t)
        /\ Layout(t) = "copied" /\ journal[t].publishing => copy[t] # "none" \/ Gone(t)

Inductive == TypeOK /\ Phased /\ Journalled /\ Recorded /\ Once /\ Accounted

-----------------------------------------------------------------------------

LEMMA MinOfNats ==
    ASSUME NEW S, S \subseteq Nat, S # {}
    PROVE  Min(S) \in S
<1> DEFINE R == OpToRel(<, Nat)
<1>1. IsWellFoundedOn(R, Nat)
  BY NatLessThanWellFounded
<1>2. ASSUME NEW x \in Nat, NEW y \in Nat, y < x PROVE <<y, x>> \in R
  BY <1>2 DEF OpToRel
<1> HIDE DEF R
<1>3. PICK x \in S : \A y \in S : ~(<<y, x>> \in R)
  BY <1>1, WFMin
<1>4. ASSUME NEW y \in S PROVE x <= y
  <2>1. x \in Nat /\ y \in Nat /\ ~(y < x)
    BY <1>2, <1>3
  <2> QED
    BY <2>1
<1> QED
  BY <1>4 DEF Min

\* The updates of a receipt and of a journal are receipts and journals.
LEMMA ReceiptUpdates ==
    ASSUME NEW r \in Receipts, NEW b \in BOOLEAN, NEW s \in Slots \cup Tasks
    PROVE  /\ [r EXCEPT !.whole = b] \in Receipts
           /\ [r EXCEPT !.result = b] \in Receipts
           /\ [r EXCEPT !.publishing = b] \in Receipts
           /\ [r EXCEPT !.target = s, !.publishing = b] \in Receipts
           /\ [r EXCEPT !.whole = b].manifest = r.manifest
           /\ [r EXCEPT !.result = b].manifest = r.manifest
           /\ [r EXCEPT !.publishing = b].manifest = r.manifest
           /\ [r EXCEPT !.target = s, !.publishing = b].manifest = r.manifest
BY DEF Receipts

LEMMA JournalUpdates ==
    ASSUME NEW j \in Journals, NEW b \in BOOLEAN, NEW s \in Slots \cup Tasks
    PROVE  /\ [j EXCEPT !.made = b] \in Journals
           /\ [j EXCEPT !.creating = b] \in Journals
           /\ [j EXCEPT !.root = b] \in Journals
           /\ [j EXCEPT !.publishing = b] \in Journals
           /\ [j EXCEPT !.result = b] \in Journals
           /\ [j EXCEPT !.target = s] \in Journals
           /\ [j EXCEPT !.target = s, !.publishing = b] \in Journals
           /\ [j EXCEPT !.made = b, !.target = s] \in Journals
           /\ [j EXCEPT !.target = s, !.root = b, !.result = b] \in Journals
BY DEF Journals

LEMMA NoJournalTyped == ASSUME NEW t \in Tasks PROVE NoJournal(t) \in Journals
BY DEF NoJournal, Journals


\* A vacant name is a name nobody has.
LEMMA FirstVacancy ==
    ASSUME NEW n \in Nat, Vacancies(n) # {}
    PROVE  Min(Vacancies(n)) \in Suffixes /\ dir[Min(Vacancies(n))] = Nothing
<1>1. Vacancies(n) \subseteq Nat /\ Vacancies(n) \subseteq Suffixes
  BY PublicationAssumption DEF Vacancies, Suffixes
<1>2. Min(Vacancies(n)) \in Vacancies(n)
  BY <1>1, MinOfNats
<1> QED
  BY <1>1, <1>2 DEF Vacancies

\* What a task puts in the directory is an object, and not Nothing.
LEMMA OwnObject ==
    ASSUME TypeOK, NEW t \in Tasks
    PROVE  /\ Own(t) \in Objects /\ Own(t) # Nothing /\ Own(t).owner = t
           /\ rec[t].manifest \in Kinds
           /\ Layout(t) = "legacy" => t \in Slots
<1>1. rec[t].manifest \in Kinds /\ \E m \in Manifests : rec[t].manifest = m[t]
  BY DEF TypeOK, Receipts
<1>2. Own(t) \in Objects
  BY <1>1 DEF Own, Objects, Content, Kinds
<1>3. Own(t) # Nothing
  BY <1>2, PublicationAssumption DEF Objects
<1> QED
  BY <1>1, <1>2, <1>3 DEF Own, Slots, Layout

-----------------------------------------------------------------------------
LEMMA TaskStepKeeps ==
    ASSUME Inductive, NEW t \in Tasks, TaskStep(t)
    PROVE  Inductive'
<1>i. TypeOK /\ Phased /\ Journalled /\ Recorded /\ Once /\ Accounted
  BY DEF Inductive
<1>p. MaxSuffix \in Nat
  BY PublicationAssumption
<1> USE DEF documents
<1>1. CASE Answer(t)
  <2>1. TypeOK'
    <3>1. journal' \in [Tasks -> Journals]
      BY <1>1, <1>i, JournalUpdates, NoJournalTyped
         DEF Answer, Goto, Unstage, TypeOK, Slots, Suffixes
    <3> QED
      BY <1>1, <1>i, <1>p, <3>1 DEF Answer, Goto, Unstage, TypeOK, Phases
  <2>2. Phased' /\ Journalled'
    BY <1>1, <1>i
       DEF Answer, Goto, Unstage, TypeOK, Receipts, Journals, Phased, Layout,
           Single, InTree, Journalled, NoJournal
  <2>3. Recorded' /\ Once'
    BY <1>1, <1>i
       DEF Answer, Goto, Unstage, TypeOK, Receipts, Journals, Phased, Journalled,
           Recorded, At, Rest, NoJournal, Layout, Single, InTree, Once
  <2>4. Accounted'
    BY <1>1, <1>i
       DEF Answer, Goto, Unstage, TypeOK, Receipts, Journals, Phased, Recorded,
           Accounted, Gone, Layout, Single, InTree
  <2> QED
    BY <2>1, <2>2, <2>3, <2>4 DEF Inductive
<1>2. CASE Claim(t)
  <2>1. TypeOK'
    <3>1. /\ rec' \in [Tasks -> Receipts]
          /\ \A u \in Tasks : rec'[u].manifest = rec[u].manifest
      BY <1>2, <1>i, ReceiptUpdates DEF Claim, Goto, TypeOK
    <3> QED
      BY <1>2, <1>i, <1>p, <3>1 DEF Claim, Goto, TypeOK, Phases
  <2>2. Phased' /\ Journalled'
    BY <1>2, <1>i
       DEF Claim, Goto, TypeOK, Receipts, Journals, Phased, Layout, Single,
           InTree, Journalled, NoJournal
  <2>3. Recorded' /\ Once'
    BY <1>2, <1>i
       DEF Claim, Goto, TypeOK, Receipts, Journals, Phased, Journalled, Recorded,
           At, Rest, NoJournal, Layout, Single, InTree, Once
  <2>4. Accounted'
    <3>1. Gone(t)
      BY <1>2, <1>i
         DEF Claim, Published, SourceExists, RootExists, Phased, Recorded, Accounted,
             At, Gone, Single, InTree
    <3> QED
      BY <1>2, <1>i, <3>1
         DEF Claim, Goto, TypeOK, Receipts, Journals, Accounted, Gone, Layout
  <2> QED
    BY <2>1, <2>2, <2>3, <2>4 DEF Inductive
<1>3. CASE Resume(t)
  <2>1. TypeOK'
    <3>1. /\ rec' \in [Tasks -> Receipts]
          /\ \A u \in Tasks : rec'[u].manifest = rec[u].manifest
      <4>1. rec' = [rec EXCEPT ![t].whole = rec[t].whole /\ staged[t] = "whole"]
        BY <1>3 DEF Resume
      <4>2. (rec[t].whole /\ staged[t] = "whole") \in BOOLEAN
        OBVIOUS
      <4> QED
        BY ZenonT(30), <1>i, <4>1, <4>2, ReceiptUpdates DEF TypeOK
    <3> QED
      BY <1>3, <1>i, <1>p, <3>1 DEF Resume, Goto, TypeOK, Phases
  <2>2. Phased' /\ Journalled'
    BY <1>3, <1>i
       DEF Resume, Goto, TypeOK, Receipts, Journals, Phased, Layout, Single,
           InTree, Journalled, NoJournal
  <2>3. Recorded'
    <3>1. ASSUME NEW s \in Slots, At(t, s), ~InTree(t) PROVE FALSE
      <4>1. /\ rec[t].publishing /\ rec[t].target = s
            /\ Single(t) \/ staged[t] = "none"
        BY <1>i, <3>1 DEF Recorded
      <4>2. dir[rec[t].target] # Nothing /\ dir[rec[t].target].owner = t
        BY <3>1, <4>1 DEF At
      <4> QED
        BY <1>3, <4>1, <4>2 DEF Resume, Published, Refused, SourceExists, RootExists
    <3>2. /\ dir' = dir /\ put' = put /\ journal' = journal /\ copy' = copy
          /\ \A u \in Tasks \ {t} : rec'[u] = rec[u] /\ staged'[u] = staged[u]
                                    /\ phase'[u] = phase[u]
          /\ rec'[t].manifest = rec[t].manifest /\ rec'[t].result = rec[t].result
          /\ phase'[t] = "receive" /\ Layout(t) # "direct"
      BY <1>3, <1>i DEF Resume, Goto, TypeOK, Receipts
    <3> QED
      BY <1>i, <3>1, <3>2 DEF Recorded, At, Layout, Single, InTree
  <2>4. Once'
    BY <1>3, <1>i DEF Resume, Goto, TypeOK, Once, At
  <2>5. Accounted'
    <3>1. /\ phase' = [phase EXCEPT ![t] = "receive"]
          /\ staged[t] = "whole" => staged'[t] = "whole"
          /\ rec'[t].whole => rec[t].whole /\ staged[t] = "whole"
          /\ rec'[t].publishing = rec[t].publishing /\ rec'[t].result = rec[t].result
          /\ rec'[t].manifest = rec[t].manifest /\ Layout(t) # "direct"
          /\ \A u \in Tasks \ {t} : rec'[u] = rec[u] /\ staged'[u] = staged[u]
          /\ UNCHANGED <<journal, copy, put, withdrawn>>
      BY <1>3, <1>i DEF Resume, Goto, TypeOK, Receipts
    <3> QED
      BY <1>i, <3>1 DEF TypeOK, Accounted, Gone, Layout
  <2> QED
    BY <2>1, <2>2, <2>3, <2>4, <2>5 DEF Inductive
<1>4. CASE Fill(t)
  <2>1. TypeOK'
    <3>1. /\ rec' \in [Tasks -> Receipts]
          /\ \A u \in Tasks : rec'[u].manifest = rec[u].manifest
      <4>1. rec' = [rec EXCEPT ![t].whole = TRUE]
        BY <1>4 DEF Fill
      <4> QED
        BY <1>i, <4>1, ReceiptUpdates DEF TypeOK
    <3> QED
      BY <1>4, <1>i, <1>p, <3>1 DEF Fill, Goto, TypeOK, Phases
  <2>2. Phased' /\ Journalled'
    BY <1>4, <1>i
       DEF Fill, Goto, TypeOK, Receipts, Journals, Phased, Layout, Single, InTree,
           Journalled, NoJournal
  <2>3. Recorded' /\ Once'
    BY <1>4, <1>i
       DEF Fill, Goto, TypeOK, Receipts, Journals, Phased, Journalled, Recorded,
           At, Rest, NoJournal, Layout, Single, InTree, Once
  <2>4. Accounted'
    BY <1>4, <1>i
       DEF Fill, Goto, TypeOK, Receipts, Journals, Phased, Recorded, Accounted,
           Gone, Layout, Single, InTree
  <2> QED
    BY <2>1, <2>2, <2>3, <2>4 DEF Inductive
<1>5. CASE Interrupt(t)
  <2>1. TypeOK'
    BY <1>5, <1>i, <1>p DEF Interrupt, Goto, TypeOK, Phases
  <2>2. Phased' /\ Journalled'
    BY <1>5, <1>i
       DEF Interrupt, Goto, TypeOK, Receipts, Journals, Phased, Layout, Single,
           InTree, Journalled, NoJournal
  <2>3. Recorded' /\ Once'
    BY <1>5, <1>i
       DEF Interrupt, Goto, TypeOK, Receipts, Journals, Phased, Journalled,
           Recorded, At, Rest, NoJournal, Layout, Single, InTree, Once
  <2>4. Accounted'
    BY <1>5, <1>i
       DEF Interrupt, Goto, TypeOK, Receipts, Journals, Phased, Recorded,
           Accounted, Gone, Layout, Single, InTree
  <2> QED
    BY <2>1, <2>2, <2>3, <2>4 DEF Inductive
<1>6. CASE DirectNew(t)
  <2>1. TypeOK'
    <3>1. journal' \in [Tasks -> Journals]
      BY <1>6, <1>i, JournalUpdates, NoJournalTyped
         DEF DirectNew, Goto, Save, InDocuments, TypeOK, Slots, Suffixes
    <3> QED
      BY <1>6, <1>i, <1>p, <3>1
         DEF DirectNew, Goto, Save, InDocuments, TypeOK, Phases
  <2>2. Phased' /\ Journalled'
    BY <1>6, <1>i
       DEF DirectNew, Goto, Save, InDocuments, TypeOK, Receipts, Journals, Phased,
           Layout, Single, InTree, Journalled, NoJournal
  <2>3. Recorded' /\ Once'
    BY <1>6, <1>i
       DEF DirectNew, Goto, Save, InDocuments, TypeOK, Receipts, Journals, Phased,
           Journalled, Recorded, At, Rest, NoJournal, Layout, Single, InTree, Once
  <2>4. Accounted'
    BY <1>6, <1>i
       DEF DirectNew, Goto, Save, InDocuments, TypeOK, Receipts, Journals, Phased,
           Recorded, Accounted, Gone, Layout, Single, InTree
  <2> QED
    BY <2>1, <2>2, <2>3, <2>4 DEF Inductive
<1>7. CASE DirectCreate(t)
  <2>1. TypeOK'
    <3>1. journal' \in [Tasks -> Journals]
      BY <1>7, <1>i, JournalUpdates, NoJournalTyped
         DEF DirectCreate, Goto, Save, InDocuments, DirectOpen, TypeOK, Slots,
             Suffixes
    <3> QED
      BY <1>7, <1>i, <1>p, <3>1
         DEF DirectCreate, Goto, Save, InDocuments, DirectOpen, TypeOK, Phases
  <2>2. Phased' /\ Journalled'
    BY <1>7, <1>i
       DEF DirectCreate, Goto, Save, InDocuments, DirectOpen, TypeOK, Receipts,
           Journals, Phased, Layout, Single, InTree, Journalled, NoJournal
  <2>3. Recorded' /\ Once'
    BY <1>7, <1>i
       DEF DirectCreate, Goto, Save, InDocuments, DirectOpen, TypeOK, Receipts,
           Journals, Phased, Journalled, Recorded, At, Rest, NoJournal, Layout,
           Single, InTree, Once
  <2>4. Accounted'
    BY <1>7, <1>i
       DEF DirectCreate, Goto, Save, InDocuments, DirectOpen, TypeOK, Receipts,
           Journals, Phased, Recorded, Accounted, Gone, Layout, Single, InTree
  <2> QED
    BY <2>1, <2>2, <2>3, <2>4 DEF Inductive
<1>8. CASE DirectResume(t)
  <2>1. TypeOK'
    <3>1. /\ rec' \in [Tasks -> Receipts]
          /\ \A u \in Tasks : rec'[u].manifest = rec[u].manifest
      <4>1. rec' = [rec EXCEPT ![t].whole = rec[t].whole /\ staged[t] = "whole"]
        BY <1>8 DEF DirectResume, DirectOpen
      <4>2. (rec[t].whole /\ staged[t] = "whole") \in BOOLEAN
        OBVIOUS
      <4> QED
        BY ZenonT(30), <1>i, <4>1, <4>2, ReceiptUpdates DEF TypeOK
    <3>2. journal' \in [Tasks -> Journals]
      BY <1>8, <1>i, JournalUpdates, NoJournalTyped
         DEF DirectResume, Goto, Save, InDocuments, DirectOpen, TypeOK, Slots,
             Suffixes
    <3> QED
      BY <1>8, <1>i, <1>p, <3>1, <3>2
         DEF DirectResume, Goto, Save, InDocuments, DirectOpen, TypeOK, Phases
  <2>2. Phased' /\ Journalled'
    BY <1>8, <1>i
       DEF DirectResume, Goto, Save, InDocuments, DirectOpen, TypeOK, Receipts,
           Journals, Phased, Layout, Single, InTree, Journalled, NoJournal
  <2>3. Recorded' /\ Once'
    BY <1>8, <1>i
       DEF DirectResume, Goto, Save, InDocuments, DirectOpen, TypeOK, Receipts,
           Journals, Phased, Journalled, Recorded, At, Rest, NoJournal, Layout,
           Single, InTree, Once
  <2>4. Accounted'
    <3>1. /\ phase' = [phase EXCEPT ![t] = "receive"]
          /\ rec' = [rec EXCEPT ![t].whole = @ /\ staged[t] = "whole"]
          /\ journal' = [journal EXCEPT ![t].root = TRUE]
          /\ staged' = staged /\ staged[t] # "none" /\ Layout(t) = "direct"
          /\ UNCHANGED <<copy, put, withdrawn>>
      BY <1>8 DEF DirectResume, DirectOpen, Goto, Save, InDocuments
    <3>2. /\ rec'[t].whole => rec[t].whole /\ staged[t] = "whole"
          /\ rec'[t].publishing = rec[t].publishing /\ rec'[t].result = rec[t].result
          /\ rec'[t].manifest = rec[t].manifest
          /\ \A u \in Tasks \ {t} : rec'[u] = rec[u]
      <4> DEFINE b == rec[t].whole /\ staged[t] = "whole"
      <4>1. rec' = [rec EXCEPT ![t].whole = b] /\ b \in BOOLEAN
        BY <3>1
      <4> HIDE DEF b
      <4>2. /\ rec'[t].whole = b
            /\ rec'[t].publishing = rec[t].publishing /\ rec'[t].result = rec[t].result
            /\ rec'[t].manifest = rec[t].manifest
            /\ \A u \in Tasks \ {t} : rec'[u] = rec[u]
        BY <1>i, <4>1 DEF TypeOK, Receipts
      <4> QED
        BY <4>2 DEF b
    <3>3. /\ journal'[t].publishing = journal[t].publishing
          /\ journal'[t].result = journal[t].result
          /\ \A u \in Tasks \ {t} : journal'[u] = journal[u]
      BY <1>i, <3>1 DEF TypeOK, Journals
    <3> QED
      BY <1>i, <3>1, <3>2, <3>3 DEF TypeOK, Accounted, Gone, Layout
  <2> QED
    BY <2>1, <2>2, <2>3, <2>4 DEF Inductive
<1>9. CASE DirectClaim(t)
  <2>1. TypeOK'
    <3>1. /\ rec' \in [Tasks -> Receipts]
          /\ \A u \in Tasks : rec'[u].manifest = rec[u].manifest
      <4>1. rec' = [rec EXCEPT ![t].result = TRUE]
        BY <1>9 DEF DirectClaim, DirectOpen
      <4> QED
        BY <1>i, <4>1, ReceiptUpdates DEF TypeOK
    <3> QED
      BY <1>9, <1>i, <1>p, <3>1
         DEF DirectClaim, Goto, InDocuments, DirectOpen, TypeOK, Phases
  <2>2. Phased' /\ Journalled'
    BY <1>9, <1>i
       DEF DirectClaim, Goto, InDocuments, DirectOpen, TypeOK, Receipts, Journals,
           Phased, Layout, Single, InTree, Journalled, NoJournal
  <2>3. Recorded' /\ Once'
    BY <1>9, <1>i
       DEF DirectClaim, Goto, InDocuments, DirectOpen, TypeOK, Receipts, Journals,
           Phased, Journalled, Recorded, At, Rest, NoJournal, Layout, Single,
           InTree, Once
  <2>4. Accounted'
    BY <1>9, <1>i
       DEF DirectClaim, Goto, InDocuments, DirectOpen, TypeOK, Receipts, Journals,
           Phased, Recorded, Accounted, Gone, Layout, Single, InTree
  <2> QED
    BY <2>1, <2>2, <2>3, <2>4 DEF Inductive
<1>10. CASE DirectChoose(t)
  <2>1. TypeOK'
    <3>1. journal' \in [Tasks -> Journals]
      BY <1>10, <1>i, JournalUpdates, NoJournalTyped, FirstVacancy
         DEF DirectChoose, Goto, Save, InDocuments, TypeOK, Slots, Suffixes
    <3> QED
      BY <1>10, <1>i, <1>p, <3>1
         DEF DirectChoose, Goto, Save, InDocuments, TypeOK, Phases
  <2>2. Phased'
    <3>1. Min(Vacancies(0)) \in Suffixes
      BY <1>10, FirstVacancy DEF DirectChoose
    <3> QED
      BY <1>10, <1>i, <3>1
         DEF DirectChoose, Goto, Save, InDocuments, TypeOK, Receipts, Journals, Phased, Layout, Single, InTree
  <2>3. Journalled'
    BY <1>10, <1>i
       DEF DirectChoose, Goto, Save, InDocuments, TypeOK, Receipts, Journals,
           Journalled, NoJournal, Layout, Single, InTree
  <2>4. Recorded' /\ Once'
    BY <1>10, <1>i
       DEF DirectChoose, Goto, Save, InDocuments, TypeOK, Receipts, Journals,
           Phased, Journalled, Recorded, At, Rest, NoJournal, Layout, Single,
           InTree, Once
  <2>5. Accounted'
    BY <1>10, <1>i
       DEF DirectChoose, Goto, Save, InDocuments, TypeOK, Receipts, Journals,
           Phased, Recorded, Accounted, Gone, Layout, Single, InTree
  <2> QED
    BY <2>1, <2>2, <2>3, <2>4, <2>5 DEF Inductive
<1>11. CASE CreateDocument(t)
  <2>1. TypeOK'
    BY <1>11, <1>i, <1>p DEF CreateDocument, Goto, InDocuments, TypeOK, Phases
  <2>2. Phased' /\ Journalled'
    BY <1>11, <1>i
       DEF CreateDocument, Goto, InDocuments, TypeOK, Receipts, Journals, Phased,
           Layout, Single, InTree, Journalled, NoJournal
  <2>3. Recorded' /\ Once'
    BY <1>11, <1>i
       DEF CreateDocument, Goto, InDocuments, TypeOK, Receipts, Journals, Phased,
           Journalled, Recorded, At, Rest, NoJournal, Layout, Single, InTree, Once
  <2>4. Accounted'
    BY <1>11, <1>i
       DEF CreateDocument, Goto, InDocuments, TypeOK, Receipts, Journals, Phased,
           Recorded, Accounted, Gone, Layout, Single, InTree
  <2> QED
    BY <2>1, <2>2, <2>3, <2>4 DEF Inductive
<1>12. CASE CopyChoose(t)
  <2>1. TypeOK'
    <3>1. journal' \in [Tasks -> Journals]
      BY <1>12, <1>i, JournalUpdates, NoJournalTyped, FirstVacancy
         DEF CopyChoose, Goto, Save, InDocuments, CopyBegins, Renamed, TypeOK,
             Slots, Suffixes
    <3> QED
      BY <1>12, <1>i, <1>p, <3>1
         DEF CopyChoose, Goto, Save, InDocuments, CopyBegins, Renamed, TypeOK,
             Phases
  <2>2. Phased'
    BY <1>12, <1>i
       DEF CopyChoose, Goto, Save, InDocuments, CopyBegins, Renamed, TypeOK,
           Receipts, Journals, Phased, Layout, Single, InTree
  <2>3. Journalled'
    <3>1. /\ journal'[t].made /\ journal'[t].target \in Suffixes /\ phase'[t] = "named"
          /\ journal'[t].root = journal[t].root
          /\ \A u \in Tasks \ {t} : journal'[u] = journal[u] /\ phase'[u] = phase[u]
          /\ rec' = rec
      <4> DEFINE first == ~journal[t].made
                 taken == ~first /\ dir[journal[t].target] # Nothing
                 n == IF first THEN 0 ELSE 1
      <4>1. /\ first \/ taken => Vacancies(n) # {}
            /\ journal' = [journal EXCEPT ![t] = [journal[t] EXCEPT !.made = TRUE,
                  !.target = IF first \/ taken THEN Min(Vacancies(n)) ELSE @]]
            /\ phase' = [phase EXCEPT ![t] = "named"] /\ rec' = rec
            /\ Layout(t) = "copied"
        BY <1>12 DEF CopyChoose, CopyBegins, Save, Goto
      <4>2. n \in Nat
        OBVIOUS
      <4>3. first \/ taken => Min(Vacancies(n)) \in Suffixes
        BY <4>1, <4>2, FirstVacancy
      <4>4. ~(first \/ taken) => journal[t].target \in Suffixes
        BY <1>i, <4>1 DEF Journalled
      <4> HIDE DEF first, taken, n
      <4>5. journal[t] \in Journals /\ journal \in [Tasks -> Journals]
            /\ phase \in [Tasks -> Phases]
        BY <1>i DEF TypeOK
      <4> QED
        BY <4>1, <4>3, <4>4, <4>5 DEF Journals
    <3> QED
      BY <1>i, <3>1 DEF Journalled, Layout
  <2>4. Recorded' /\ Once'
    BY <1>12, <1>i
       DEF CopyChoose, Goto, Save, InDocuments, CopyBegins, Renamed, TypeOK,
           Receipts, Journals, Phased, Journalled, Recorded, At, Rest, NoJournal,
           Layout, Single, InTree, Once
  <2>5. Accounted'
    BY <1>12, <1>i
       DEF CopyChoose, Goto, Save, InDocuments, CopyBegins, Renamed, TypeOK,
           Receipts, Journals, Phased, Recorded, Accounted, Gone, Layout, Single,
           InTree
  <2> QED
    BY <2>1, <2>2, <2>3, <2>4, <2>5 DEF Inductive
<1>13. CASE CopyFound(t)
  <2>1. TypeOK'
    <3>1. journal' \in [Tasks -> Journals]
      BY <1>13, <1>i, JournalUpdates, NoJournalTyped
         DEF CopyFound, Goto, Save, InDocuments, CopyBegins, Renamed, TypeOK,
             Slots, Suffixes
    <3> QED
      BY <1>13, <1>i, <1>p, <3>1
         DEF CopyFound, Goto, Save, InDocuments, CopyBegins, Renamed, TypeOK,
             Phases
  <2>2. Phased' /\ Journalled'
    BY <1>13, <1>i
       DEF CopyFound, Goto, Save, InDocuments, CopyBegins, Renamed, TypeOK,
           Receipts, Journals, Phased, Layout, Single, InTree, Journalled,
           NoJournal
  <2>3. Recorded' /\ Once'
    BY <1>13, <1>i
       DEF CopyFound, Goto, Save, InDocuments, CopyBegins, Renamed, TypeOK,
           Receipts, Journals, Phased, Journalled, Recorded, At, Rest, NoJournal,
           Layout, Single, InTree, Once
  <2>4. Accounted'
    BY <1>13, <1>i
       DEF CopyFound, Goto, Save, InDocuments, CopyBegins, Renamed, TypeOK,
           Receipts, Journals, Phased, Recorded, Accounted, Gone, Layout, Single,
           InTree
  <2> QED
    BY <2>1, <2>2, <2>3, <2>4 DEF Inductive
<1>14. CASE CopyRecorded(t)
  <2>1. TypeOK'
    BY <1>14, <1>i, <1>p
       DEF CopyRecorded, Goto, InDocuments, CopyBegins, TypeOK, Phases
  <2>2. Phased' /\ Journalled'
    BY <1>14, <1>i
       DEF CopyRecorded, Goto, InDocuments, CopyBegins, TypeOK, Receipts,
           Journals, Phased, Layout, Single, InTree, Journalled, NoJournal
  <2>3. Recorded' /\ Once'
    BY <1>14, <1>i
       DEF CopyRecorded, Goto, InDocuments, CopyBegins, TypeOK, Receipts,
           Journals, Phased, Journalled, Recorded, At, Rest, NoJournal, Layout,
           Single, InTree, Once
  <2>4. Accounted'
    BY <1>14, <1>i
       DEF CopyRecorded, Goto, InDocuments, CopyBegins, TypeOK, Receipts,
           Journals, Phased, Recorded, Accounted, Gone, Layout, Single, InTree
  <2> QED
    BY <2>1, <2>2, <2>3, <2>4 DEF Inductive
<1>15. CASE CopyCreate(t)
  <2>1. TypeOK'
    <3>1. journal' \in [Tasks -> Journals]
      BY <1>15, <1>i, JournalUpdates, NoJournalTyped
         DEF CopyCreate, Goto, Save, InDocuments, TypeOK, Slots, Suffixes
    <3> QED
      BY <1>15, <1>i, <1>p, <3>1
         DEF CopyCreate, Goto, Save, InDocuments, TypeOK, Phases
  <2>2. Phased' /\ Journalled'
    BY <1>15, <1>i
       DEF CopyCreate, Goto, Save, InDocuments, TypeOK, Receipts, Journals,
           Phased, Layout, Single, InTree, Journalled, NoJournal
  <2>3. Recorded' /\ Once'
    BY <1>15, <1>i
       DEF CopyCreate, Goto, Save, InDocuments, TypeOK, Receipts, Journals,
           Phased, Journalled, Recorded, At, Rest, NoJournal, Layout, Single,
           InTree, Once
  <2>4. Accounted'
    BY <1>15, <1>i
       DEF CopyCreate, Goto, Save, InDocuments, TypeOK, Receipts, Journals,
           Phased, Recorded, Accounted, Gone, Layout, Single, InTree
  <2> QED
    BY <2>1, <2>2, <2>3, <2>4 DEF Inductive
<1>16. CASE CopyOpen(t)
  <2>1. TypeOK'
    <3>1. journal' \in [Tasks -> Journals]
      BY <1>16, <1>i, JournalUpdates, NoJournalTyped
         DEF CopyOpen, Goto, Save, InDocuments, TypeOK, Slots, Suffixes
    <3> QED
      BY <1>16, <1>i, <1>p, <3>1
         DEF CopyOpen, Goto, Save, InDocuments, TypeOK, Phases
  <2>2. Phased' /\ Journalled'
    BY <1>16, <1>i
       DEF CopyOpen, Goto, Save, InDocuments, TypeOK, Receipts, Journals, Phased,
           Layout, Single, InTree, Journalled, NoJournal
  <2>3. Recorded' /\ Once'
    BY <1>16, <1>i
       DEF CopyOpen, Goto, Save, InDocuments, TypeOK, Receipts, Journals, Phased,
           Journalled, Recorded, At, Rest, NoJournal, Layout, Single, InTree, Once
  <2>4. Accounted'
    BY <1>16, <1>i
       DEF CopyOpen, Goto, Save, InDocuments, TypeOK, Receipts, Journals, Phased,
           Recorded, Accounted, Gone, Layout, Single, InTree
  <2> QED
    BY <2>1, <2>2, <2>3, <2>4 DEF Inductive
<1>17. CASE Copied(t)
  <2>1. TypeOK'
    BY <1>17, <1>i, <1>p DEF Copied, Goto, InDocuments, TypeOK, Phases
  <2>2. Phased' /\ Journalled'
    BY <1>17, <1>i
       DEF Copied, Goto, InDocuments, TypeOK, Receipts, Journals, Phased, Layout,
           Single, InTree, Journalled, NoJournal
  <2>3. Recorded' /\ Once'
    BY <1>17, <1>i
       DEF Copied, Goto, InDocuments, TypeOK, Receipts, Journals, Phased,
           Journalled, Recorded, At, Rest, NoJournal, Layout, Single, InTree, Once
  <2>4. Accounted'
    BY <1>17, <1>i
       DEF Copied, Goto, InDocuments, TypeOK, Receipts, Journals, Phased,
           Recorded, Accounted, Gone, Layout, Single, InTree
  <2> QED
    BY <2>1, <2>2, <2>3, <2>4 DEF Inductive
<1>18. CASE CopyReady(t)
  <2>1. TypeOK'
    <3>1. journal' \in [Tasks -> Journals]
      BY <1>18, <1>i, JournalUpdates, NoJournalTyped
         DEF CopyReady, Goto, Save, InDocuments, TypeOK, Slots, Suffixes
    <3> QED
      BY <1>18, <1>i, <1>p, <3>1
         DEF CopyReady, Goto, Save, InDocuments, TypeOK, Phases
  <2>2. Phased' /\ Journalled'
    BY <1>18, <1>i
       DEF CopyReady, Goto, Save, InDocuments, TypeOK, Receipts, Journals, Phased,
           Layout, Single, InTree, Journalled, NoJournal
  <2>3. Recorded' /\ Once'
    BY <1>18, <1>i
       DEF CopyReady, Goto, Save, InDocuments, TypeOK, Receipts, Journals, Phased,
           Journalled, Recorded, At, Rest, NoJournal, Layout, Single, InTree, Once
  <2>4. Accounted'
    BY <1>18, <1>i
       DEF CopyReady, Goto, Save, InDocuments, TypeOK, Receipts, Journals, Phased,
           Recorded, Accounted, Gone, Layout, Single, InTree
  <2> QED
    BY <2>1, <2>2, <2>3, <2>4 DEF Inductive
<1>19. CASE CopyRecheck(t)
  <2>1. TypeOK'
    <3>1. journal' \in [Tasks -> Journals]
      <4> DEFINE taken == dir[journal[t].target] # Nothing
                 to == IF taken THEN Min(Vacancies(1)) ELSE journal[t].target
      <4>1. /\ taken => Vacancies(1) # {}
            /\ journal' = [journal EXCEPT ![t] = [journal[t] EXCEPT !.target = to]]
        BY <1>19 DEF CopyRecheck, Save
      <4>2. journal[t] \in Journals /\ journal \in [Tasks -> Journals]
        BY <1>i DEF TypeOK
      <4>3. to \in Slots \cup Tasks
        BY <4>1, <4>2, FirstVacancy DEF Slots, Suffixes, Journals
      <4> HIDE DEF to
      <4> QED
        BY <4>1, <4>2, <4>3, JournalUpdates
    <3> QED
      BY <1>19, <1>i, <3>1 DEF CopyRecheck, Goto, InDocuments, TypeOK, Phases
  <2>2. Phased'
    <3>1. /\ journal'[t].target \in Suffixes /\ journal'[t].publishing
          /\ journal'[t].made /\ journal'[t].root /\ phase'[t] = "intent"
          /\ \A u \in Tasks \ {t} : journal'[u] = journal[u] /\ phase'[u] = phase[u]
          /\ Layout(t) = "copied" /\ phase[t] = "copying"
          /\ UNCHANGED <<rec, next>>
      <4> DEFINE taken == dir[journal[t].target] # Nothing
      <4>1. /\ taken => Vacancies(1) # {}
            /\ journal' = [journal EXCEPT ![t] = [journal[t] EXCEPT
                  !.target = IF taken THEN Min(Vacancies(1)) ELSE @]]
            /\ phase' = [phase EXCEPT ![t] = "intent"] /\ UNCHANGED <<rec, next>>
            /\ phase[t] = "copying" /\ journal[t].publishing
        BY <1>19 DEF CopyRecheck, Save, Goto
      <4>2. /\ Layout(t) = "copied" /\ journal[t].target \in Suffixes
            /\ journal[t].made /\ journal[t].root
        BY <1>i, <4>1 DEF Phased, Journalled
      <4>3. taken => Min(Vacancies(1)) \in Suffixes
        BY <4>1, FirstVacancy
      <4> HIDE DEF taken
      <4>5. journal[t] \in Journals /\ journal \in [Tasks -> Journals]
            /\ phase \in [Tasks -> Phases]
        BY <1>i DEF TypeOK
      <4> QED
        BY <4>1, <4>2, <4>3, <4>5 DEF Journals
    <3> QED
      BY <1>i, <3>1 DEF Phased, Layout, InTree
  <2>3. Journalled'
    <3>1. /\ journal'[t].target \in Suffixes /\ journal'[t].publishing
          /\ journal'[t].made /\ journal'[t].root /\ phase'[t] = "intent"
          /\ \A u \in Tasks \ {t} : journal'[u] = journal[u] /\ phase'[u] = phase[u]
          /\ Layout(t) = "copied" /\ phase[t] = "copying"
          /\ UNCHANGED <<rec, next>>
      <4> DEFINE taken == dir[journal[t].target] # Nothing
      <4>1. /\ taken => Vacancies(1) # {}
            /\ journal' = [journal EXCEPT ![t] = [journal[t] EXCEPT
                  !.target = IF taken THEN Min(Vacancies(1)) ELSE @]]
            /\ phase' = [phase EXCEPT ![t] = "intent"] /\ UNCHANGED <<rec, next>>
            /\ phase[t] = "copying" /\ journal[t].publishing
        BY <1>19 DEF CopyRecheck, Save, Goto
      <4>2. /\ Layout(t) = "copied" /\ journal[t].target \in Suffixes
            /\ journal[t].made /\ journal[t].root
        BY <1>i, <4>1 DEF Phased, Journalled
      <4>3. taken => Min(Vacancies(1)) \in Suffixes
        BY <4>1, FirstVacancy
      <4> HIDE DEF taken
      <4>5. journal[t] \in Journals /\ journal \in [Tasks -> Journals]
            /\ phase \in [Tasks -> Phases]
        BY <1>i DEF TypeOK
      <4> QED
        BY <4>1, <4>2, <4>3, <4>5 DEF Journals
    <3> QED
      BY <1>i, <3>1 DEF Journalled, Layout, InTree
  <2>4. Recorded' /\ Once'
    BY <1>19, <1>i
       DEF CopyRecheck, Goto, Save, InDocuments, TypeOK, Receipts, Journals,
           Phased, Journalled, Recorded, At, Rest, NoJournal, Layout, Single,
           InTree, Once
  <2>5. Accounted'
    BY <1>19, <1>i
       DEF CopyRecheck, Goto, Save, InDocuments, TypeOK, Receipts, Journals,
           Phased, Recorded, Accounted, Gone, Layout, Single, InTree
  <2> QED
    BY <2>1, <2>2, <2>3, <2>4, <2>5 DEF Inductive
<1>20. CASE Rename(t)
  <2>0. PICK s \in Suffixes :
           /\ dir' = [dir EXCEPT ![s] = Own(t)]
           /\ next' = [next EXCEPT ![t] = s]
    <3>1. journal[t].target \in Suffixes
      BY <1>20, <1>i DEF Rename, Phased
    <3> QED
      BY <1>20, <3>1 DEF Rename, Vacancies, Suffixes
  <2>a. \A u \in Slots : ~At(t, u)
    BY <1>20, <1>i DEF Rename, Recorded, Rest, InTree
  <2>b. \A v \in Tasks, u \in Slots : At(v, u)' => At(v, u) \/ v = t
    BY <1>i, <2>0, OwnObject DEF TypeOK, At
  <2>1. TypeOK'
    <3>1. dir' \in [Slots -> Objects \cup {Nothing}]
      BY <1>i, <2>0, OwnObject DEF TypeOK
    <3>2. next' \in [Tasks -> 0..(MaxSuffix + 1)]
      BY <1>i, <1>p, <2>0 DEF TypeOK, Suffixes
    <3>3. unsynced' \subseteq Slots
      <4>1. \E u \in Suffixes : unsynced' = unsynced \cup {u}
        <5>1. journal[t].target \in Suffixes
          BY <1>20, <1>i DEF Rename, Phased
        <5> QED
          BY <1>20, <5>1 DEF Rename, Vacancies, Suffixes
      <4> QED
        BY <1>i, <4>1 DEF TypeOK, Slots, Suffixes
    <3>4. /\ staged' \in [Tasks -> {"none", "partial", "whole", "moved"}]
          /\ copy' \in [Tasks -> {"none", "partial", "whole"}]
          /\ phase' \in [Tasks -> Phases] /\ put' \in SUBSET Tasks
          /\ UNCHANGED <<rec, journal, withdrawn>>
      BY <1>20, <1>i DEF Rename, Goto, TypeOK, Phases
    <3> QED
      BY <1>i, <3>1, <3>2, <3>3, <3>4 DEF TypeOK
  <2>2. Phased'
    BY <1>20, <1>i, <2>0 DEF Rename, Goto, TypeOK, Phased, Layout, Single, InTree
  <2>3. Journalled'
    BY <1>20, <1>i
       DEF Rename, Goto, InDocuments, TypeOK, Receipts, Journals, Journalled,
           NoJournal, Layout, Single, InTree
  <2>4. Recorded'
    <3>1. /\ put' = put \cup {t} /\ phase' = [phase EXCEPT ![t] = "moved"]
          /\ InTree(t) /\ UNCHANGED <<rec, journal>>
          /\ copy'[t] = "none" /\ (Layout(t) = "direct" => staged'[t] = "none")
          /\ \A u \in Tasks \ {t} : copy'[u] = copy[u] /\ staged'[u] = staged[u]
          /\ phase[t] = "intent"
      BY <1>20, <1>i DEF Rename, Goto, TypeOK
    <3>2. /\ journal[t].publishing
          /\ Layout(t) = "copied" => journal[t].made /\ journal[t].root
      BY <1>i, <3>1 DEF Phased, Journalled
    <3>3. ASSUME NEW u \in Tasks, NEW v \in Slots, At(u, v)', u # t PROVE At(u, v)
      BY <2>b, <3>3
    <3> QED
      BY <1>i, <3>1, <3>2, <3>3 DEF TypeOK, Recorded, Rest, Layout, Single, InTree
  <2>5. Once'
    <3>1. \A u \in Slots : At(t, u)' => u = s
      BY <1>i, <2>0, <2>a DEF TypeOK, At
    <3> QED
      BY <1>i, <2>b, <3>1 DEF Once
  <2>6. Accounted'
    BY <1>20, <1>i
       DEF Rename, Goto, InDocuments, TypeOK, Receipts, Journals, Phased,
           Recorded, Accounted, Gone, Layout, Single, InTree
  <2> QED
    BY <2>1, <2>2, <2>3, <2>4, <2>5, <2>6 DEF Inductive
<1>21. CASE Returned(t)
  <2>1. TypeOK'
    <3>1. next[t] \in Slots \cup Tasks
      BY <1>21, <1>i DEF Returned, Phased, Slots, Suffixes
    <3>2. journal' = [journal EXCEPT ![t] = [journal[t] EXCEPT !.target = next[t],
                                             !.root = TRUE, !.result = TRUE]]
      BY <1>21 DEF Returned, Save
    <3>3. journal' \in [Tasks -> Journals]
      BY <1>i, <3>1, <3>2, JournalUpdates DEF TypeOK
    <3> QED
      BY <1>21, <1>i, <1>p, <3>3 DEF Returned, Goto, InDocuments, TypeOK, Phases
  <2>2. Phased'
    BY <1>21, <1>i
       DEF Returned, Goto, Save, InDocuments, TypeOK, Receipts, Journals, Phased,
           Layout, Single, InTree
  <2>3. Journalled'
    <3>1. next[t] \in Suffixes
      BY <1>21, <1>i DEF Returned, Phased
    <3> QED
      BY <1>21, <1>i, <3>1
         DEF Returned, Goto, Save, TypeOK, Receipts, Journals, Journalled, Layout, Single, InTree
  <2>4. Recorded' /\ Once'
    BY <1>21, <1>i
       DEF Returned, Goto, Save, InDocuments, TypeOK, Receipts, Journals, Phased,
           Journalled, Recorded, At, Rest, NoJournal, Layout, Single, InTree, Once
  <2>5. Accounted'
    BY <1>21, <1>i
       DEF Returned, Goto, Save, InDocuments, TypeOK, Receipts, Journals, Phased,
           Recorded, Accounted, Gone, Layout, Single, InTree
  <2> QED
    BY <2>1, <2>2, <2>3, <2>4, <2>5 DEF Inductive
<1>22. CASE CancelDocument(t)
  <2>1. TypeOK'
    BY <1>22, <1>i, <1>p DEF CancelDocument, Goto, TypeOK, Phases
  <2>2. Phased' /\ Journalled'
    BY <1>22, <1>i
       DEF CancelDocument, Goto, TypeOK, Receipts, Journals, Phased, Layout,
           Single, InTree, Journalled, NoJournal
  <2>3. Recorded'
    BY <1>22, <1>i
       DEF CancelDocument, MayBePublished, Goto, TypeOK, Phased, Recorded, At, Rest,
           Layout, Single, InTree
  <2>4. Once'
    BY <1>22, <1>i DEF CancelDocument, Goto, TypeOK, Once, At
  <2>5. Accounted'
    BY <1>22, <1>i
       DEF CancelDocument, Goto, TypeOK, Receipts, Journals, Phased, Recorded,
           Accounted, Gone, Layout, Single, InTree
  <2> QED
    BY <2>1, <2>2, <2>3, <2>4, <2>5 DEF Inductive
<1>23. CASE ClearJournal(t)
  <2>1. TypeOK'
    <3>1. journal' \in [Tasks -> Journals]
      BY <1>23, <1>i, JournalUpdates, NoJournalTyped
         DEF ClearJournal, Goto, Save, TypeOK, Slots, Suffixes
    <3> QED
      BY <1>23, <1>i, <1>p, <3>1 DEF ClearJournal, Goto, Save, TypeOK, Phases
  <2>2. Phased' /\ Journalled'
    BY <1>23, <1>i
       DEF ClearJournal, Goto, Save, TypeOK, Receipts, Journals, Phased, Layout,
           Single, InTree, Journalled, NoJournal
  <2>3. Recorded' /\ Once'
    BY <1>23, <1>i
       DEF ClearJournal, Goto, Save, TypeOK, Receipts, Journals, Phased,
           Journalled, Recorded, At, Rest, NoJournal, Layout, Single, InTree, Once
  <2>4. Accounted'
    BY <1>23, <1>i
       DEF ClearJournal, Goto, NoJournal, TypeOK, Receipts, Journals, Accounted, Gone, Layout
  <2> QED
    BY <2>1, <2>2, <2>3, <2>4 DEF Inductive
<1>24. CASE CancelRemove(t)
  <2>1. TypeOK'
    BY <1>24, <1>i, <1>p DEF CancelRemove, Goto, TypeOK, Phases
  <2>2. Phased' /\ Journalled'
    BY <1>24, <1>i
       DEF CancelRemove, Goto, TypeOK, Receipts, Journals, Phased, Layout, Single,
           InTree, Journalled, NoJournal
  <2>3. Recorded' /\ Once'
    BY <1>24, <1>i
       DEF CancelRemove, Goto, TypeOK, Receipts, Journals, Phased, Journalled,
           Recorded, At, Rest, NoJournal, Layout, Single, InTree, Once
  <2>4. Accounted'
    BY <1>24, <1>i
       DEF CancelRemove, Goto, TypeOK, Receipts, Journals, Phased, Recorded,
           Accounted, Gone, Layout, Single, InTree
  <2> QED
    BY <2>1, <2>2, <2>3, <2>4 DEF Inductive
<1>25. CASE CancelSave(t)
  <2>1. TypeOK'
    <3>1. /\ rec' \in [Tasks -> Receipts]
          /\ \A u \in Tasks : rec'[u].manifest = rec[u].manifest
      BY <1>25, <1>i, ReceiptUpdates DEF CancelSave, Goto, TypeOK
    <3> QED
      BY <1>25, <1>i, <1>p, <3>1 DEF CancelSave, Goto, TypeOK, Phases
  <2>2. Phased' /\ Journalled'
    BY <1>25, <1>i
       DEF CancelSave, Goto, TypeOK, Receipts, Journals, Phased, Layout, Single,
           InTree, Journalled, NoJournal
  <2>3. Recorded' /\ Once'
    BY <1>25, <1>i
       DEF CancelSave, Goto, TypeOK, Receipts, Journals, Phased, Journalled,
           Recorded, At, Rest, NoJournal, Layout, Single, InTree, Once
  <2>4. Accounted'
    BY <1>25, <1>i
       DEF CancelSave, Goto, TypeOK, Receipts, Journals, Phased, Recorded,
           Accounted, Gone, Layout, Single, InTree
  <2> QED
    BY <2>1, <2>2, <2>3, <2>4 DEF Inductive
<1>26. CASE Commit(t)
  <2>1. TypeOK'
    <3>1. rec' \in [Tasks -> Receipts] /\ \A u \in Tasks : rec'[u].manifest = rec[u].manifest
      <4>1. CASE rec' = rec
        BY <1>i, <4>1 DEF TypeOK
      <4>2. CASE rec' = [rec EXCEPT ![t].publishing = TRUE]
        BY <1>i, <4>2, ReceiptUpdates DEF TypeOK
      <4> QED
        BY <1>26, <4>1, <4>2 DEF Commit
    <3> QED
      BY <1>26, <1>i, <1>p, <3>1 DEF Commit, Goto, TypeOK, Phases
  <2>2. Phased'
    <3>1. CASE Layout(t) = "legacy"
      BY SMTT(30), <1>26, <1>i, <1>p, <3>1, OwnObject DEF Commit, Goto, TypeOK, Receipts, Journals, Phased, Slots, Suffixes, Layout, Single, InTree
    <3>2. CASE Layout(t) # "legacy"
      BY <1>26, <1>i, <1>p, <3>2 DEF Commit, Goto, TypeOK, Receipts, Journals, Phased, Slots, Suffixes, Layout, Single, InTree
    <3> QED
      BY <3>1, <3>2
  <2>3. Journalled'
    <3>1. CASE Layout(t) = "legacy"
      BY <1>26, <1>i, <1>p, <3>1, OwnObject DEF Commit, Goto, TypeOK, Receipts, Journals, Phased, Journalled, Layout, Single, InTree
    <3>2. CASE Layout(t) # "legacy"
      BY <1>26, <1>i, <1>p, <3>2 DEF Commit, Goto, TypeOK, Receipts, Journals, Phased, Journalled, Layout, Single, InTree
    <3> QED
      BY <3>1, <3>2
  <2>4. Recorded' /\ Once'
    BY SMTT(30), <1>26, <1>i
       DEF Commit, Goto, TypeOK, Receipts, Journals, Phased, Journalled, Recorded,
           At, Rest, NoJournal, Layout, Single, InTree, Once
  <2>5. Accounted'
    <3>1. CASE Layout(t) = "legacy"
      BY SMTT(30), <1>26, <1>i, <1>p, <3>1, OwnObject DEF Commit, Goto, TypeOK, Receipts, Journals, Phased, Accounted, Gone, Layout, InTree
    <3>2. CASE Layout(t) # "legacy"
      BY <1>26, <1>i, <1>p, <3>2 DEF Commit, Goto, TypeOK, Receipts, Journals, Phased, Accounted, Gone, Layout, InTree
    <3> QED
      BY <3>1, <3>2
  <2> QED
    BY <2>1, <2>2, <2>3, <2>4, <2>5 DEF Inductive
<1>27. CASE TryName(t)
  <2> DEFINE r == [rec[t] EXCEPT !.target = next[t], !.publishing = TRUE]
  <2>a. /\ phase[t] = "choose" /\ next[t] \in Slots /\ next[t] \in Slots \cup Tasks
        /\ ~InTree(t) /\ Layout(t) # "legacy" /\ rec[t] \in Receipts
        /\ UNCHANGED <<staged, copy, journal, dir, unsynced, put, withdrawn>>
        /\ next' \in [Tasks -> 0..(MaxSuffix + 1)]
        /\ \A u \in Tasks \ {t} : next'[u] = next[u]
    BY <1>27, <1>i, <1>p DEF TryName, TypeOK, Slots, Phased, documents
  <2>b. /\ r \in Receipts /\ r.manifest = rec[t].manifest
        /\ r.target = next[t] /\ r.publishing
        /\ r.result = rec[t].result /\ r.whole = rec[t].whole
    BY <2>a, ReceiptUpdates DEF Receipts
  <2>c. \/ UNCHANGED <<phase, rec>>
        \/ rec' = [rec EXCEPT ![t] = r] /\ phase' = [phase EXCEPT ![t] = "intent"]
    BY <1>27 DEF TryName, Goto
  <2>d. /\ rec' \in [Tasks -> Receipts] /\ phase' \in [Tasks -> Phases]
        /\ \A u \in Tasks : rec'[u].manifest = rec[u].manifest
        /\ \A u \in Tasks \ {t} : rec'[u] = rec[u] /\ phase'[u] = phase[u]
        /\ \/ rec'[t] = rec[t] /\ phase'[t] = phase[t]
           \/ rec'[t] = r /\ phase'[t] = "intent"
    <3> HIDE DEF r
    <3> QED
      BY ZenonT(30), <1>i, <2>b, <2>c DEF TypeOK, Phases
  <2>e. \A u \in Tasks : (InTree(u)' <=> InTree(u)) /\ (Layout(u)' = Layout(u))
    BY <1>i, <2>d DEF InTree, Layout
  <2> HIDE DEF r
  <2>1. TypeOK'
    BY <1>i, <2>a, <2>d DEF TypeOK
  <2>2. Phased'
    BY <1>i, <2>a, <2>b, <2>d, <2>e DEF Phased
  <2>3. Journalled'
    <3>1. Layout(t) # "copied"
      BY <2>a DEF InTree
    <3> QED
      BY <1>i, <2>a, <2>d, <2>e, <3>1 DEF Journalled
  <2>4. Recorded' /\ Once'
    <3>1. \A u \in Tasks, s \in Slots : At(u, s)' <=> At(u, s)
      BY <2>a DEF At
    <3>2. \A s \in Slots : ~At(t, s)
      BY <1>i, <2>a DEF Recorded, Rest
    <3>3. \A u \in Tasks : Single(u)' <=> Single(u)
      BY <2>e DEF Single
    <3>4. Recorded'
      BY <1>i, <2>a, <2>d, <2>e, <3>1, <3>2, <3>3 DEF Recorded
    <3>5. Once'
      BY <1>i, <3>1 DEF Once
    <3> QED
      BY <3>4, <3>5
  <2>5. Accounted'
    BY <1>i, <2>a, <2>b, <2>d, <2>e DEF Accounted, Gone
  <2> QED
    BY <2>1, <2>2, <2>3, <2>4, <2>5 DEF Inductive
<1>28. CASE Publish(t)
  <2>1. TypeOK'
    <3>1. rec[t].target \in Slots
      BY <1>28, <1>i DEF Publish, Phased
    <3>2. dir' \in [Slots -> Objects \cup {Nothing}] /\ unsynced' \in SUBSET Slots
      BY <1>28, <1>i, <3>1, OwnObject DEF Publish, TypeOK
    <3>3. /\ staged' \in [Tasks -> {"none", "partial", "whole", "moved"}]
          /\ phase' \in [Tasks -> Phases] /\ put' \in SUBSET Tasks
          /\ next' \in [Tasks -> 0..(MaxSuffix + 1)]
          /\ UNCHANGED <<rec, journal, copy, withdrawn>>
      BY <1>28, <1>i, <1>p DEF Publish, Goto, TypeOK, Phases
    <3> QED
      BY <1>i, <3>2, <3>3 DEF TypeOK
  <2>2. Phased' /\ Journalled'
    BY <1>28, <1>i
       DEF Publish, Goto, TypeOK, Receipts, Journals, Phased, Layout, Single,
           InTree, Journalled, NoJournal
  <2>3. Recorded'
    <3>1. /\ dir' = [dir EXCEPT ![rec[t].target] = Own(t)] /\ rec[t].target \in Slots
          /\ rec[t].publishing /\ phase[t] = "intent" /\ ~InTree(t)
      BY <1>28, <1>i DEF Publish, Phased
    <3>2. \A u \in Slots : ~At(t, u)
      BY <1>i, <3>1 DEF Recorded, Rest
    <3>3. \A v \in Tasks, u \in Slots : At(v, u)' => At(v, u) \/ v = t
      BY <1>i, <3>1, OwnObject DEF TypeOK, At
    <3>4. \A u \in Slots : At(t, u)' => u = rec[t].target
      BY <1>i, <3>1, <3>2 DEF TypeOK, At

    <3>5. /\ put' = put \cup {t} /\ phase' = [phase EXCEPT ![t] = "moved"]
          /\ UNCHANGED <<rec, journal, copy>>
          /\ Single(t) \/ staged'[t] = "none"
          /\ \A u \in Tasks \ {t} : staged'[u] = staged[u]
      BY <1>28, <1>i DEF Publish, Goto, TypeOK, documents
    <3>6. ASSUME NEW u \in Tasks, NEW v \in Slots, At(u, v)', u # t PROVE At(u, v)
      BY <3>3, <3>6
    <3> QED
      BY <1>i, <3>1, <3>4, <3>5, <3>6 DEF TypeOK, Recorded, Rest, Layout, Single, InTree
  <2>4. Once'
    <3>1. /\ dir' = [dir EXCEPT ![rec[t].target] = Own(t)] /\ rec[t].target \in Slots
          /\ rec[t].publishing /\ phase[t] = "intent" /\ ~InTree(t)
      BY <1>28, <1>i DEF Publish, Phased
    <3>2. \A u \in Slots : ~At(t, u)
      BY <1>i, <3>1 DEF Recorded, Rest
    <3>3. \A v \in Tasks, u \in Slots : At(v, u)' => At(v, u) \/ v = t
      BY <1>i, <3>1, OwnObject DEF TypeOK, At
    <3>4. \A u \in Slots : At(t, u)' => u = rec[t].target
      BY <1>i, <3>1, <3>2 DEF TypeOK, At

    <3> QED
      BY <1>i, <3>3, <3>4 DEF Once
  <2>5. Accounted'
    BY <1>28, <1>i
       DEF Publish, Goto, TypeOK, Receipts, Journals, Phased, Recorded, Accounted,
           Gone, Layout, Single, InTree
  <2> QED
    BY <2>1, <2>2, <2>3, <2>4, <2>5 DEF Inductive
<1>29. CASE Taken(t)
  <2>1. TypeOK'
    BY <1>29, <1>i, <1>p DEF Taken, Goto, TypeOK, Phases
  <2>2. Phased' /\ Journalled'
    BY <1>29, <1>i
       DEF Taken, Goto, TypeOK, Receipts, Journals, Phased, Layout, Single,
           InTree, Journalled, NoJournal
  <2>3. Recorded' /\ Once'
    BY <1>29, <1>i
       DEF Taken, Goto, TypeOK, Receipts, Journals, Phased, Journalled, Recorded,
           At, Rest, NoJournal, Layout, Single, InTree, Once
  <2>4. Accounted'
    BY <1>29, <1>i
       DEF Taken, Goto, TypeOK, Receipts, Journals, Phased, Recorded, Accounted,
           Gone, Layout, Single, InTree
  <2> QED
    BY <2>1, <2>2, <2>3, <2>4 DEF Inductive
<1>30. CASE SyncParent(t)
  <2>1. TypeOK'
    BY <1>30, <1>i, <1>p DEF SyncParent, Goto, TypeOK, Phases
  <2>2. Phased' /\ Journalled'
    BY <1>30, <1>i
       DEF SyncParent, Goto, TypeOK, Receipts, Journals, Phased, Layout, Single,
           InTree, Journalled, NoJournal
  <2>3. Recorded' /\ Once'
    BY <1>30, <1>i
       DEF SyncParent, Goto, TypeOK, Receipts, Journals, Phased, Journalled,
           Recorded, At, Rest, NoJournal, Layout, Single, InTree, Once
  <2>4. Accounted'
    BY <1>30, <1>i
       DEF SyncParent, Goto, TypeOK, Receipts, Journals, Phased, Recorded,
           Accounted, Gone, Layout, Single, InTree
  <2> QED
    BY <2>1, <2>2, <2>3, <2>4 DEF Inductive
<1>31. CASE Record(t)
  <2>1. TypeOK'
    <3>1. /\ rec' \in [Tasks -> Receipts]
          /\ \A u \in Tasks : rec'[u].manifest = rec[u].manifest
      BY <1>31, <1>i, ReceiptUpdates DEF Record, Goto, TypeOK
    <3> QED
      BY <1>31, <1>i, <1>p, <3>1 DEF Record, Goto, TypeOK, Phases
  <2>2. Phased' /\ Journalled'
    BY <1>31, <1>i
       DEF Record, Goto, TypeOK, Receipts, Journals, Phased, Layout, Single,
           InTree, Journalled, NoJournal
  <2>3. Recorded' /\ Once'
    BY <1>31, <1>i
       DEF Record, Goto, TypeOK, Receipts, Journals, Phased, Journalled, Recorded,
           At, Rest, NoJournal, Layout, Single, InTree, Once
  <2>4. Accounted'
    BY <1>31, <1>i
       DEF Record, Goto, TypeOK, Receipts, Journals, Phased, Recorded, Accounted,
           Gone, Layout, Single, InTree
  <2> QED
    BY <2>1, <2>2, <2>3, <2>4 DEF Inductive
<1>32. CASE RemoveStaging(t)
  <2>1. TypeOK'
    <3>1. journal' \in [Tasks -> Journals]
      BY <1>32, <1>i, JournalUpdates, NoJournalTyped
         DEF RemoveStaging, Goto, Unstage, TypeOK, Slots, Suffixes
    <3> QED
      BY <1>32, <1>i, <1>p, <3>1 DEF RemoveStaging, Goto, Unstage, TypeOK, Phases
  <2>2. Phased' /\ Journalled'
    BY <1>32, <1>i
       DEF RemoveStaging, Goto, Unstage, TypeOK, Receipts, Journals, Phased,
           Layout, Single, InTree, Journalled, NoJournal
  <2>3. Recorded'
    BY <1>32, <1>i
       DEF RemoveStaging, Unstage, Goto, TypeOK, Phased, Recorded, At, Rest,
           Layout, Single, InTree
  <2>4. Once'
    BY <1>32, <1>i DEF RemoveStaging, Goto, Unstage, TypeOK, Once, At
  <2>5. Accounted'
    <3>1. rec[t].result /\ Gone(t)
      BY <1>32, <1>i DEF RemoveStaging, Phased, Accounted
    <3> QED
      BY <1>32, <1>i, <3>1
         DEF RemoveStaging, Unstage, Goto, NoJournal, TypeOK, Receipts, Journals, Accounted, Gone, Layout
  <2> QED
    BY <2>1, <2>2, <2>3, <2>4, <2>5 DEF Inductive
<1>33. CASE Fail(t)
  <2>1. TypeOK'
    BY <1>33, <1>i, <1>p DEF Fail, Goto, TypeOK, Phases
  <2>2. Phased' /\ Journalled'
    BY <1>33, <1>i
       DEF Fail, Goto, TypeOK, Receipts, Journals, Phased, Layout, Single, InTree,
           Journalled, NoJournal
  <2>3. Recorded' /\ Once'
    BY <1>33, <1>i
       DEF Fail, Goto, TypeOK, Receipts, Journals, Phased, Journalled, Recorded,
           At, Rest, NoJournal, Layout, Single, InTree, Once
  <2>4. Accounted'
    BY <1>33, <1>i
       DEF Fail, Goto, TypeOK, Receipts, Journals, Phased, Recorded, Accounted,
           Gone, Layout, Single, InTree
  <2> QED
    BY <2>1, <2>2, <2>3, <2>4 DEF Inductive
<1> QED
  BY <1>1, <1>2, <1>3, <1>4, <1>5, <1>6, <1>7, <1>8, <1>9, <1>10, <1>11, <1>12, <1>13, <1>14, <1>15, <1>16, <1>17, <1>18, <1>19, <1>20, <1>21, <1>22, <1>23, <1>24, <1>25, <1>26, <1>27, <1>28, <1>29, <1>30, <1>31, <1>32, <1>33 DEF TaskStep

\* The user, a kill and a power failure keep it as well.
LEMMA OthersKeep ==
    ASSUME Inductive,
           \/ \E s \in Names : UserCreates(s) \/ UserDeletes(s)
           \/ \E t \in Tasks : UserDeletesPart(t)
           \/ Kill
           \/ PowerLoss
    PROVE  Inductive'
<1>i. TypeOK /\ Phased /\ Journalled /\ Recorded /\ Once /\ Accounted
  BY DEF Inductive
<1>p. MaxSuffix \in Nat
  BY PublicationAssumption
<1> USE DEF documents
<1>1. ASSUME NEW s \in Names, UserCreates(s) \/ UserDeletes(s) PROVE Inductive'
  <2>1. /\ UNCHANGED <<phase, next, rec, staged, put, withdrawn, documents>>
        /\ unsynced' \subseteq unsynced
        /\ \/ \E c \in Contents : dir' = [dir EXCEPT ![s] = [owner |-> User, content |-> c]]
           \/ dir' = [dir EXCEPT ![s] = Nothing]
    BY <1>1 DEF UserCreates, UserDeletes
  <2>2. dir' \in [Slots -> Objects \cup {Nothing}]
    BY <1>i, <2>1 DEF TypeOK, Objects
  <2>3. ASSUME NEW t \in Tasks, NEW u \in Slots, At(t, u)' PROVE At(t, u)
    BY <1>i, <2>1, <2>3, PublicationAssumption DEF TypeOK, At
  <2>4. TypeOK'
    BY <1>i, <2>1, <2>2 DEF TypeOK
  <2>5. Phased' /\ Journalled' /\ Accounted'
    BY <1>i, <2>1 DEF Phased, Journalled, Accounted, Gone, Layout, InTree
  <2>6. Recorded'
    BY <1>i, <2>1, <2>3 DEF Recorded, Rest, Layout, Single, InTree
  <2>7. Once'
    BY <1>i, <2>3 DEF Once
  <2> QED
    BY <2>4, <2>5, <2>6, <2>7 DEF Inductive
<1>2. ASSUME NEW t \in Tasks, UserDeletesPart(t) PROVE Inductive'
  <2>1. TypeOK'
    BY <1>2, <1>i DEF UserDeletesPart, TypeOK
  <2>2. Phased' /\ Journalled'
    BY <1>2, <1>i DEF UserDeletesPart, Phased, Journalled, Layout, InTree
  <2>3. Recorded' /\ Once'
    BY <1>2, <1>i DEF UserDeletesPart, TypeOK, Recorded, Once, At, Rest, Layout, Single, InTree
  <2>4. Accounted'
    BY <1>2, <1>i DEF UserDeletesPart, TypeOK, Accounted, Gone, Layout
  <2> QED
    BY <2>1, <2>2, <2>3, <2>4 DEF Inductive
<1>3. CASE Kill
  <2>1. /\ phase' = [t \in Tasks |-> "closed"] /\ next' = [t \in Tasks |-> 0]
        /\ UNCHANGED <<rec, staged, dir, unsynced, put, withdrawn, journal, copy>>
    BY <1>3 DEF Kill, Stopped
  <2>2. TypeOK'
    BY <1>i, <1>p, <2>1 DEF TypeOK, Phases
  <2>3. Phased' /\ Journalled'
    BY <1>i, <2>1 DEF Phased, Journalled, Layout, InTree
  <2>4. Recorded' /\ Once'
    BY <1>i, <2>1 DEF Recorded, Once, At, Rest, Layout, Single, InTree
  <2>5. Accounted'
    BY <1>i, <2>1 DEF Accounted, Gone, Layout
  <2> QED
    BY <2>2, <2>3, <2>4, <2>5 DEF Inductive
<1>4. CASE PowerLoss
  <2> DEFINE lost == {s \in unsynced : dir[s] # Nothing /\ dir[s].owner # User}
             Undone(t) == \E s \in lost : dir[s].owner = t
             Back(t) == \E s \in lost : dir[s] = [owner |-> t, content |-> Content(t)]
             Torned(torn, s) == [dir[s] EXCEPT !.content = Torn]
             After(torn, s) == IF s \in lost THEN Nothing
                               ELSE IF dir[s] # Nothing /\ dir[s].owner \in torn
                                       THEN Torned(torn, s) ELSE dir[s]
             Left(torn, t) ==
                 IF Layout(t) # "copied" \/ ~(Undone(t) \/ copy[t] = "whole") THEN copy[t]
                 ELSE IF t \notin torn /\ (copy[t] = "whole" \/ Back(t)) THEN "whole"
                 ELSE "partial"
  <2>1. /\ phase' = [t \in Tasks |-> "closed"] /\ next' = [t \in Tasks |-> 0]
        /\ unsynced' = {}
        /\ UNCHANGED <<rec, journal, put, withdrawn>>
        /\ staged' = [t \in Tasks |->
              IF Undone(t) /\ Layout(t) \notin {"file", "copied"} THEN "whole" ELSE staged[t]]
    BY <1>4 DEF PowerLoss, Stopped
  <2>2. PICK torn \in SUBSET {t \in Tasks : Layout(t) = "copied"} :
          /\ dir' = [s \in Slots |-> After(torn, s)]
          /\ copy' = [t \in Tasks |-> Left(torn, t)]
    BY <1>4 DEF PowerLoss
  <2>3. lost \subseteq Slots
    BY <1>i DEF TypeOK
  <2>a. ASSUME NEW s \in Slots, dir[s] # Nothing
        PROVE  /\ Torned(torn, s) \in Objects
               /\ Torned(torn, s).owner = dir[s].owner
               /\ After(torn, s) \in Objects \cup {Nothing}
    <3>1. dir[s] \in Objects
      BY <1>i, <2>a DEF TypeOK
    <3>2. Torned(torn, s) \in Objects /\ Torned(torn, s).owner = dir[s].owner
      BY <3>1 DEF Objects
    <3> QED
      BY <3>1, <3>2
  <2>b. dir' \in [Slots -> Objects \cup {Nothing}]
    <3>1. ASSUME NEW s \in Slots PROVE After(torn, s) \in Objects \cup {Nothing}
      BY <2>a
    <3> QED
      BY <2>2, <3>1
  <2>4. ASSUME NEW t \in Tasks, NEW u \in Slots, At(t, u)'
        PROVE  At(t, u) /\ ~Undone(t)
    <3>1. u \notin lost /\ At(t, u)
      <4>1. After(torn, u) # Nothing /\ After(torn, u).owner = t
        BY <2>2, <2>4 DEF At
      <4>2. u \notin lost /\ dir[u] # Nothing
        BY <4>1
      <4> QED
        BY <2>a, <4>1, <4>2 DEF At
    <3>2. ASSUME NEW s \in lost, dir[s].owner = t PROVE FALSE
      <4>1. s \in Slots /\ At(t, s)
        BY <2>3, <3>2 DEF At
      <4> QED
        BY <1>i, <3>1, <3>2, <4>1 DEF Once
    <3> QED
      BY <3>1, <3>2
  <2>c. \A t \in Tasks : /\ Left(torn, t) \in {"none", "partial", "whole"}
                         /\ ~Undone(t) => (Left(torn, t) = "none" <=> copy[t] = "none")
                         /\ Left(torn, t) = "none" => copy[t] = "none"
    BY <1>i DEF TypeOK
  <2> HIDE DEF lost, Undone, Back, Torned, After, Left
  <2>5. TypeOK'
    BY <1>i, <1>p, <2>1, <2>2, <2>b, <2>c DEF TypeOK, Phases
  <2>6. Phased' /\ Journalled'
    BY <1>i, <2>1 DEF Phased, Journalled, Layout, InTree
  <2>d. \A t \in Tasks : /\ ~Undone(t) => (copy'[t] = "none" <=> copy[t] = "none")
                         /\ copy'[t] = "none" => copy[t] = "none"
    BY <2>2, <2>c
  <2>7. Recorded'
    BY <1>i, <2>1, <2>d, <2>4 DEF TypeOK, Recorded, Rest, Layout, Single, InTree
  <2>8. Once'
    BY <1>i, <2>4 DEF Once
  <2>9. Accounted'
    BY <1>i, <2>1, <2>d DEF TypeOK, Accounted, Gone, Layout
  <2> QED
    BY <2>5, <2>6, <2>7, <2>8, <2>9 DEF Inductive
<1> QED
  BY <1>1, <1>2, <1>3, <1>4

LEMMA InductiveStep == Inductive /\ [Next]_vars => Inductive'
<1>1. ASSUME Inductive, UNCHANGED vars PROVE Inductive'
  BY <1>1 DEF vars, documents, Inductive, TypeOK, Phased, Journalled, Recorded, Once,
              Accounted, At, Gone, Rest, Layout, Single, InTree
<1> QED
  BY <1>1, TaskStepKeeps, OthersKeep DEF Next

-----------------------------------------------------------------------------

\* What a task may be received again for, and what is in the directory, is tied
\* to what its receipt and its journal say in every behaviour.
THEOREM InductiveHolds == Spec => []Inductive
<1>1. Init => Inductive
  <2> SUFFICES ASSUME Init PROVE Inductive
    OBVIOUS
  <2>1. PICK m \in Manifests :
           rec = [t \in Tasks |-> [manifest |-> m[t], target |-> t,
                     publishing |-> FALSE, result |-> FALSE, whole |-> FALSE]]
    BY DEF Init
  <2>2. ASSUME NEW t \in Tasks PROVE m[t] \in Kinds
    BY PublicationAssumption
  <2>3. rec \in [Tasks -> Receipts]
    BY <2>1, <2>2 DEF Receipts
  <2>4. journal \in [Tasks -> Journals]
    BY NoJournalTyped DEF Init
  <2>5. TypeOK
    BY <2>1, <2>3, <2>4, PublicationAssumption DEF Init, TypeOK, Phases
  <2>6. Phased /\ Journalled
    BY <2>1 DEF Init, Phased, Journalled, NoJournal
  <2>7. Recorded /\ Once
    BY DEF Init, Recorded, Once, At
  <2>8. Accounted
    BY <2>1 DEF Init, Accounted, NoJournal
  <2> QED
    BY <2>5, <2>6, <2>7, <2>8 DEF Inductive
<1> QED
  BY <1>1, InductiveStep, PTL DEF Spec

\* However often a session crashed between a publication and the record of it,
\* a task is published under one name at most, in each of the six layouts.
THEOREM AlwaysPublishedOnce == Spec => []PublishedOnce
<1>1. Inductive => PublishedOnce
  <2> SUFFICES ASSUME Inductive, NEW t \in Tasks
               PROVE  Cardinality({s \in Slots : dir[s] # Nothing /\ dir[s].owner = t}) <= 1
    BY DEF PublishedOnce
  <2> DEFINE names == {s \in Slots : dir[s] # Nothing /\ dir[s].owner = t}
  <2>1. \A s, u \in names : s = u
    BY DEF Inductive, Once, At
  <2>2. CASE names = {}
    BY <2>2, FS_EmptySet
  <2>3. CASE names # {}
    <3>1. PICK s \in names : names = {s}
      BY <2>1, <2>3
    <3>2. Cardinality(names) = 1
      BY <3>1, FS_Singleton
    <3> QED
      BY <3>2
  <2> QED
    BY <2>2, <2>3
<1> QED
  BY <1>1, InductiveHolds, PTL

\* INTERNALS.md, "publication": a result is recorded only for what the task put
\* there itself, unless somebody has taken its staged data away.
THEOREM AlwaysClaimsOnlyItsOwn == Spec => []ClaimsOnlyItsOwn
<1>1. Inductive => ClaimsOnlyItsOwn
  BY DEF Inductive, Accounted, Gone, ClaimsOnlyItsOwn
<1> QED
  BY <1>1, InductiveHolds, PTL

\* The only steps that put something in the directory put it at a vacant name.
LEMMA PutsAtVacantName ==
    ASSUME Inductive, NEW t \in Tasks, TaskStep(t)
    PROVE  \/ dir' = dir
           \/ \E s \in Slots : dir[s] = Nothing /\ dir' = [dir EXCEPT ![s] = Own(t)]
<1>1. CASE Publish(t)
  <2>1. rec[t].target \in Slots
    BY <1>1 DEF Inductive, Publish, Phased
  <2> QED
    BY <1>1, <2>1 DEF Publish, Vacant
<1>2. CASE Rename(t)
  <2>1. journal[t].target \in Suffixes
    BY <1>2 DEF Inductive, Rename, Phased
  <2> QED
    BY <1>2, <2>1 DEF Rename, Vacant, Vacancies, Suffixes, Slots
<1>3. CASE ~Publish(t) /\ ~Rename(t)
  BY <1>3 DEF TaskStep, InDocuments, Unstage, Answer, Claim, Resume, Fill, Interrupt, DirectNew,
         DirectCreate, DirectResume, DirectClaim, DirectChoose, CreateDocument, CopyChoose,
         CopyFound, CopyRecorded, CopyCreate, CopyOpen, Copied, CopyReady,
         CopyRecheck, Returned, CancelDocument, ClearJournal, CancelRemove, CancelSave,
         Commit, TryName, Taken, SyncParent, Record, RemoveStaging,
         Fail
<1> QED
  BY <1>1, <1>2, <1>3

\* commit, recovery and cancel of any task: no file of the user or of another
\* task is ever replaced, no published one removed.
THEOREM NothingIsReplaced == Spec => NeverReplaces
<1>1. Inductive /\ [Next]_vars =>
         [(\E t \in Tasks : TaskStep(t)) =>
             \A s \in Slots : dir[s] # Nothing => dir'[s] = dir[s]]_vars
  <2> SUFFICES ASSUME Inductive, NEW t \in Tasks, TaskStep(t),
                      NEW s \in Slots, dir[s] # Nothing
               PROVE  dir'[s] = dir[s]
    OBVIOUS
  <2>1. CASE dir' = dir
    BY <2>1
  <2>2. CASE \E u \in Slots : dir[u] = Nothing /\ dir' = [dir EXCEPT ![u] = Own(t)]
    BY <2>2 DEF Inductive, TypeOK
  <2> QED
    BY <2>1, <2>2, PutsAtVacantName
<1> QED
  BY <1>1, InductiveHolds, PTL DEF Spec, NeverReplaces

\* Only these two steps take a task back to being received.
LEMMA ReceivedAgain ==
    ASSUME Inductive, [Next]_vars, NEW t \in Tasks,
           phase[t] # "receive", phase'[t] = "receive"
    PROVE  Resume(t) \/ DirectResume(t)
<1> USE DEF Inductive, TypeOK
<1>1. ASSUME NEW u \in Tasks, TaskStep(u), ~Resume(u), ~DirectResume(u)
      PROVE  FALSE
  BY <1>1 DEF TaskStep, Goto, Unstage, Answer, Claim, Fill, Interrupt, DirectNew, DirectCreate,
         DirectClaim, DirectChoose, CreateDocument, CopyChoose, CopyFound, CopyRecorded,
         CopyCreate, CopyOpen, Copied, CopyReady, CopyRecheck, Rename,
         Returned, CancelDocument, ClearJournal, CancelRemove, CancelSave, Commit,
         TryName, Publish, Taken, SyncParent, Record, RemoveStaging,
         Fail
<1>2. ASSUME NEW u \in Tasks, u # t, Resume(u) \/ DirectResume(u) PROVE FALSE
  BY <1>2 DEF Resume, DirectResume, Goto
<1>3. CASE UNCHANGED phase
  BY <1>3
<1>4. CASE phase' = [u \in Tasks |-> "closed"]
  BY <1>4
<1>5. \/ \E u \in Tasks : TaskStep(u)
      \/ UNCHANGED phase
      \/ phase' = [u \in Tasks |-> "closed"]
  BY DEF Next, vars, UserCreates, UserDeletes, UserDeletesPart, Kill, PowerLoss, Stopped
<1> QED
  BY <1>1, <1>2, <1>3, <1>4, <1>5

\* INTERNALS.md, "publication": recovery recognises the publication an earlier
\* session did not live to record; what is in the directory is never received
\* once more.
THEOREM AlwaysRecognisesItself == Spec => RecognisesItself
<1>1. Inductive /\ [Next]_vars =>
         [\A t \in Tasks :
             phase[t] # "receive" /\ phase'[t] = "receive" =>
                 \/ Layout(t) = "copied" /\ journal[t].publishing
                 \/ \A s \in Slots : dir[s] = Nothing \/ dir[s].owner # t]_vars
  <2> SUFFICES ASSUME Inductive, [Next]_vars, NEW t \in Tasks,
                      phase[t] # "receive", phase'[t] = "receive",
                      NEW s \in Slots, At(t, s)
               PROVE  Layout(t) = "copied" /\ journal[t].publishing
    BY DEF At
  <2>1. Recorded /\ Phased /\ TypeOK
    BY DEF Inductive
  <2>2. CASE Resume(t)
    <3>1. ~InTree(t) => FALSE
      <4>1. ~InTree(t) => /\ rec[t].publishing /\ rec[t].target = s
                          /\ Single(t) \/ staged[t] = "none"
        BY <2>1 DEF Recorded
      <4> QED
        BY <2>2, <4>1 DEF At, Resume, Published, Refused, SourceExists, RootExists
    <3>2. Layout(t) # "direct" /\ ~rec[t].result
      BY <2>2 DEF Resume
    <3> QED
      BY <2>1, <3>1, <3>2 DEF Recorded, InTree
  <2>3. CASE DirectResume(t)
    <3>1. Layout(t) = "direct" /\ staged[t] # "none"
      BY <2>3 DEF DirectResume, DirectOpen
    <3> QED
      BY <2>1, <3>1 DEF Recorded
  <2> QED
    BY <2>2, <2>3, ReceivedAgain
<1> QED
  BY <1>1, InductiveHolds, PTL DEF Spec, RecognisesItself
=============================================================================
