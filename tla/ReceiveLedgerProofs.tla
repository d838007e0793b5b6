------------------------ MODULE ReceiveLedgerProofs ------------------------
(***************************************************************************)
(* Proofs about ReceiveLedger, for any senders with any addresses, any     *)
(* number of permits and any limit on finished records: the three          *)
(* invariants its run checks.                                              *)
(*                                                                         *)
(* The argument: every active record belongs to a handler that runs, and   *)
(* every handler that runs or is about to holds a permit (Granted), so the *)
(* ledger is never the one that is full.  A record is where its handler    *)
(* left it (Listed), and what the ledger drops is always a finished one    *)
(* (Dated), so the page misses a change only where a stream is measured.   *)
(***************************************************************************)
EXTENDS ReceiveLedger, SequenceTheorems, FiniteSetTheorems, FunctionTheorems,
        WellFoundedInduction, TLAPS

\* The connections that hold a permit.
Holders == {c \in Connections : server[c] \in {"granted", "running", "refused", "ended"}}

Granted ==
    /\ IsFiniteSet(Holders) /\ permits + Cardinality(Holders) = MaxActive
    /\ \A c \in refusing : server[c] = "backlog"
    /\ \A c \in Connections : server[c] # "refused"

\* A handler's own record is active, and fresh unless the handler runs.
Reported ==
    \A c \in Connections :
        /\ reporter[c].id = c /\ IsActive(reporter[c])
        /\ server[c] # "running" => reporter[c] = Task(c)

\* The ledger has the record of every handler that runs, and no active one of
\* anybody else.
Listed ==
    /\ \A i, j \in DOMAIN ledger : ledger[i].id = ledger[j].id => i = j
    /\ \A i \in DOMAIN ledger :
          /\ server[ledger[i].id] \in {"running", "ended", "gone"}
          /\ IsActive(ledger[i]) => server[ledger[i].id] = "running"
    /\ \A c \in Connections : server[c] = "running" =>
          \E i \in DOMAIN ledger : ledger[i] = reporter[c]

\* Finished records have the times at which they finished.
Dated ==
    /\ \A i \in DOMAIN ledger : IsTerminal(ledger[i]) => ledger[i].finished \in 1..clock
    /\ \A i, j \in DOMAIN ledger :
          /\ IsTerminal(ledger[i]) /\ IsTerminal(ledger[j])
          /\ ledger[i].finished = ledger[j].finished
          => i = j

Inductive ==
    /\ TypeOK /\ Granted /\ Reported /\ Listed /\ Dated
    /\ ViewAgrees /\ NothingHidden

-----------------------------------------------------------------------------
(* Sequences of records.                                                   *)

\* What is left of a sequence when one element goes.
LEMMA RemovedAt ==
    ASSUME NEW S, NEW s \in Seq(S), NEW k \in DOMAIN s
    PROVE  /\ RemoveAt(s, k) \in Seq(S) /\ DOMAIN RemoveAt(s, k) = 1..Len(s) - 1
           /\ \A i \in 1..Len(s) - 1 :
                 RemoveAt(s, k)[i] = IF i < k THEN s[i] ELSE s[i + 1]
<1> DEFINE l == Len(s)
           front == SubSeq(s, 1, k - 1)
           back == SubSeq(s, k + 1, Len(s))
<1>1. l \in Nat /\ k \in 1..l /\ \A i \in 1..l : s[i] \in S
  BY LenProperties, ElementOfSeq
<1>2. /\ front \in Seq(S) /\ Len(front) = k - 1
      /\ \A i \in 1..k - 1 : front[i] = s[i]
  <2>1. k - 1 \in Int /\ \A i \in 1..k - 1 : s[i] \in S
    BY <1>1
  <2>2. /\ front \in Seq(S) /\ Len(front) = IF 1 <= k - 1 THEN k - 1 - 1 + 1 ELSE 0
        /\ \A i \in 1..k - 1 - 1 + 1 : front[i] = s[1 + i - 1]
    BY <2>1, SubSeqProperties
  <2> HIDE DEF front
  <2> QED
    BY <1>1, <2>2
<1>3. /\ back \in Seq(S) /\ Len(back) = l - k
      /\ \A i \in 1..l - k : back[i] = s[k + i]
  <2>1. k + 1 \in Int /\ Len(s) \in Int /\ \A i \in k + 1..Len(s) : s[i] \in S
    BY <1>1
  <2>2. /\ back \in Seq(S)
        /\ Len(back) = IF k + 1 <= Len(s) THEN Len(s) - (k + 1) + 1 ELSE 0
        /\ \A i \in 1..Len(s) - (k + 1) + 1 : back[i] = s[(k + 1) + i - 1]
    BY <2>1, SubSeqProperties
  <2>3. ASSUME NEW i \in 1..l - k PROVE back[i] = s[k + i]
    <3>1. i \in 1..Len(s) - (k + 1) + 1 /\ (k + 1) + i - 1 = k + i
      BY <1>1
    <3> QED
      BY <2>2, <3>1
  <2> HIDE DEF back
  <2> QED
    BY <1>1, <2>2, <2>3
<1>4. /\ front \o back \in Seq(S) /\ Len(front \o back) = Len(front) + Len(back)
      /\ \A i \in 1..Len(front) + Len(back) :
            (front \o back)[i] = IF i <= Len(front) THEN front[i]
                                                    ELSE back[i - Len(front)]
  BY ONLY <1>2, <1>3, ConcatProperties
<1>5. RemoveAt(s, k) = front \o back
  BY DEF RemoveAt
<1> HIDE DEF front, back
<1>6. RemoveAt(s, k) \in Seq(S) /\ Len(RemoveAt(s, k)) = l - 1
  <2>1. Len(front \o back) = l - 1
    BY ONLY <1>1, <1>2, <1>3, <1>4, SMTT(30)
  <2> QED
    BY ONLY <1>4, <1>5, <2>1
<1>7. DOMAIN RemoveAt(s, k) = 1..l - 1
  BY ONLY <1>6, LenProperties
<1>8. ASSUME NEW i \in 1..l - 1
      PROVE  RemoveAt(s, k)[i] = IF i < k THEN s[i] ELSE s[i + 1]
  <2>1. CASE i < k
    <3>1. i \in 1..k - 1 /\ i \in 1..Len(front) + Len(back) /\ i <= Len(front)
      BY ONLY <1>1, <1>2, <1>3, <1>8, <2>1
    <3> QED
      BY ONLY <1>2, <1>4, <1>5, <2>1, <3>1
  <2>2. CASE ~(i < k)
    <3>1. /\ i \in 1..Len(front) + Len(back) /\ ~(i <= Len(front))
          /\ i - Len(front) \in 1..l - k /\ k + (i - Len(front)) = i + 1
      BY ONLY <1>1, <1>2, <1>3, <1>8, <2>2, SMTT(30)
    <3> QED
      BY ONLY <1>3, <1>4, <1>5, <2>2, <3>1
  <2> QED
    BY <2>1, <2>2
<1> QED
  BY <1>6, <1>7, <1>8

\* What keeps the records of the ledger apart.
Sound(list, time) ==
    /\ list \in Seq(Records)
    /\ \A i, j \in DOMAIN list : list[i].id = list[j].id => i = j
    /\ \A i \in DOMAIN list : IsTerminal(list[i]) => list[i].finished \in 1..time
    /\ \A i, j \in DOMAIN list :
          IsTerminal(list[i]) /\ IsTerminal(list[j]) /\ list[i].finished = list[j].finished
          => i = j

\* The list "rest" has every record of the list but its k-th, and no other.
Lacks(rest, list, k) ==
    /\ \A i \in DOMAIN rest : \E j \in DOMAIN list : rest[i] = list[j]
    /\ \A j \in DOMAIN list \ {k} : \E i \in DOMAIN rest : rest[i] = list[j]

\* Taking a record out leaves the others.
LEMMA Dropped ==
    ASSUME NEW time \in Nat, NEW list, Sound(list, time), NEW k \in DOMAIN list
    PROVE  Sound(RemoveAt(list, k), time) /\ Lacks(RemoveAt(list, k), list, k)
<1> DEFINE rest == RemoveAt(list, k)
           l == Len(list)
           At(i) == IF i < k THEN i ELSE i + 1
<1>1. list \in Seq(Records) /\ l \in Nat /\ DOMAIN list = 1..l /\ k \in 1..l
  BY LenProperties DEF Sound
<1>2. /\ rest \in Seq(Records) /\ DOMAIN rest = 1..l - 1
      /\ \A i \in 1..l - 1 : rest[i] = list[At(i)]
  BY <1>1, RemovedAt
<1> HIDE DEF rest, l
<1>3. /\ \A i \in 1..l - 1 : At(i) \in 1..l
      /\ \A i, j \in 1..l - 1 : At(i) = At(j) => i = j
  BY ONLY <1>1
<1>4. ASSUME NEW j \in 1..l, j # k
      PROVE  \E i \in 1..l - 1 : At(i) = j
  <2>1. CASE j < k
    <3>1. j \in 1..l - 1 /\ At(j) = j
      BY ONLY <1>1, <2>1, j \in 1..l
    <3> QED
      BY <3>1
  <2>2. CASE ~(j < k)
    <3>1. j - 1 \in 1..l - 1 /\ At(j - 1) = j
      BY ONLY <1>1, <1>4, <2>2, j \in 1..l
    <3> QED
      BY <3>1
  <2> QED
    BY <2>1, <2>2
<1> HIDE DEF At
<1>5. Sound(rest, time)
  BY <1>1, <1>2, <1>3 DEF Sound
<1> QED
  BY <1>1, <1>2, <1>3, <1>4, <1>5 DEF rest, Lacks

\* One of several finished records has finished first.
LEMMA FinishedFirst ==
    ASSUME NEW time \in Nat, NEW list, Sound(list, time), Ended(list) # {}
    PROVE  \E i \in Ended(list) : \A j \in Ended(list) \ {i} :
              list[i].finished < list[j].finished
<1> DEFINE times == {list[i].finished : i \in Ended(list)}
           R == OpToRel(<, Nat)
<1>1. times \subseteq Nat /\ times # {}
  BY DEF Sound, Ended
<1>2. ASSUME NEW x \in Nat, NEW y \in Nat, y < x PROVE <<y, x>> \in R
  BY <1>2 DEF OpToRel
<1>3. IsWellFoundedOn(R, Nat)
  BY NatLessThanWellFounded
<1> HIDE DEF R
<1>4. \E x \in times : \A y \in times : ~(<<y, x>> \in R)
  BY <1>1, <1>3, WFMin
<1>5. PICK x \in times : \A y \in times : ~(y < x)
  BY <1>1, <1>2, <1>4
<1>6. PICK i \in Ended(list) : list[i].finished = x
  OBVIOUS
<1>7. ASSUME NEW j \in Ended(list), j # i PROVE list[i].finished < list[j].finished
  <2> DEFINE a == list[i].finished
             b == list[j].finished
  <2>1. a \in times /\ b \in times /\ ~(b < a)
    BY <1>5, <1>6
  <2>2. a # b
    BY <1>7 DEF Sound, Ended
  <2> HIDE DEF a, b, times
  <2>3. a < b
    BY ONLY <1>1, <2>1, <2>2
  <2> QED
    BY <2>3 DEF a, b
<1> QED
  BY <1>7

\* The ledger only ever drops a finished record.
LEMMA TrimmedIs ==
    ASSUME NEW time \in Nat, NEW list, Sound(list, time)
    PROVE  \/ Trimmed(list) = list
           \/ \E k \in DOMAIN list : /\ IsTerminal(list[k])
                                     /\ Trimmed(list) = RemoveAt(list, k)
<1> DEFINE First(i) == \A j \in Ended(list) \ {i} : list[i].finished < list[j].finished
           k == CHOOSE i \in Ended(list) : First(i)
<1>1. CASE Cardinality(Ended(list)) <= MaxFinished
  BY <1>1 DEF Trimmed
<1>2. CASE ~(Cardinality(Ended(list)) <= MaxFinished)
  <2>1. Ended(list) # {}
    BY <1>2, FS_EmptySet, LedgerAssumption
  <2>2. k \in Ended(list)
    <3>1. \E i \in Ended(list) : First(i)
      BY <2>1, FinishedFirst
    <3> HIDE DEF First
    <3> QED
      BY <3>1
  <2>3. Trimmed(list) = RemoveAt(list, k)
    BY <1>2 DEF Trimmed
  <2> HIDE DEF k
  <2> QED
    BY <2>2, <2>3 DEF Ended
<1> QED
  BY <1>1, <1>2

-----------------------------------------------------------------------------
(* The ledger.                                                             *)

\* What update makes of the list before it is trimmed.
Replaced(list, task) ==
    [i \in DOMAIN list |->
        IF list[i].id = task.id /\ IsActive(list[i]) THEN task ELSE list[i]]

\* The record replaced, and one finished record less if there are too many.
LEMMA ReplacedIs ==
    ASSUME NEW time \in Nat, NEW time2 \in {time, time + 1},
           NEW list, Sound(list, time), NEW task \in Records,
           NEW k \in DOMAIN list, list[k].id = task.id, IsActive(list[k]),
           IsTerminal(task) => time2 = time + 1 /\ task.finished = time2
    PROVE  LET new == Trimmed(Replaced(list, task)) IN
           /\ Sound(new, time2)
           /\ \A i \in DOMAIN new :
                 \/ new[i] = task
                 \/ \E j \in DOMAIN list : list[j].id # task.id /\ new[i] = list[j]
           /\ \A j \in DOMAIN list : IsActive(list[j]) /\ list[j].id # task.id
                                     => \E i \in DOMAIN new : new[i] = list[j]
           /\ IsActive(task) => \E i \in DOMAIN new : new[i] = task
<1> DEFINE mid == Replaced(list, task)
           new == Trimmed(mid)
           l == Len(list)
<1>1. /\ list \in Seq(Records) /\ l \in Nat /\ DOMAIN list = 1..l
      /\ \A i \in 1..l : list[i] \in Records
  BY LenProperties, ElementOfSeq DEF Sound
<1>2. \A i \in DOMAIN list : list[i].id = task.id <=> i = k
  BY DEF Sound
<1>3. /\ DOMAIN mid = 1..l
      /\ \A i \in 1..l : mid[i] = IF i = k THEN task ELSE list[i]
  BY <1>1, <1>2 DEF Replaced
<1> HIDE DEF mid
<1>4. mid \in Seq(Records)
  <2>1. mid = [i \in 1..l |-> mid[i]]
    BY <1>1, <1>2 DEF mid, Replaced
  <2>2. mid \in [1..l -> Records]
    BY <1>1, <1>3, <2>1
  <2> QED
    BY <1>1, <2>2, SeqDef
<1>5. Sound(mid, time2)
  <2>1. \A i, j \in DOMAIN mid : mid[i].id = mid[j].id => i = j
    BY <1>1, <1>2, <1>3 DEF Sound
  <2>2. time2 \in Nat /\ time <= time2
    OBVIOUS
  <2>3. \A i \in DOMAIN mid : i # k /\ IsTerminal(mid[i]) =>
           mid[i] = list[i] /\ mid[i].finished \in 1..time
    BY <1>1, <1>3 DEF Sound
  <2>4. IsTerminal(mid[k]) => time2 = time + 1 /\ mid[k].finished = time2
    BY <1>1, <1>3
  <2>5. \A i \in DOMAIN mid : IsTerminal(mid[i]) => mid[i].finished \in 1..time2
    <3> SUFFICES ASSUME NEW i \in DOMAIN mid, IsTerminal(mid[i])
                 PROVE  mid[i].finished \in 1..time2
      OBVIOUS
    <3> DEFINE f == mid[i].finished
    <3>1. f \in 1..time \/ (time2 = time + 1 /\ f = time2)
      BY <2>3, <2>4
    <3> HIDE DEF f
    <3>2. f \in 1..time2
      BY ONLY <2>2, <3>1, time \in Nat
    <3> QED
      BY <3>2 DEF f
  <2>6. ASSUME NEW i \in DOMAIN mid, NEW j \in DOMAIN mid, IsTerminal(mid[i]),
               IsTerminal(mid[j]), mid[i].finished = mid[j].finished
        PROVE  i = j
    <3>1. CASE i # k /\ j # k
      <4>1. mid[i] = list[i] /\ mid[j] = list[j]
        BY <2>3, <2>6, <3>1
      <4>2. i \in DOMAIN list /\ j \in DOMAIN list
        BY <1>1, <1>3
      <4> QED
        BY <2>6, <4>1, <4>2 DEF Sound
    <3>2. CASE i = k /\ j # k
      <4> DEFINE f == mid[j].finished
      <4>1. f \in 1..time /\ f = time + 1
        BY <2>3, <2>4, <2>6, <3>2
      <4> HIDE DEF f
      <4> QED
        BY ONLY <4>1, time \in Nat
    <3>3. CASE i # k /\ j = k
      <4> DEFINE f == mid[i].finished
      <4>1. f \in 1..time /\ f = time + 1
        BY <2>3, <2>4, <2>6, <3>3
      <4> HIDE DEF f
      <4> QED
        BY ONLY <4>1, time \in Nat
    <3> QED
      BY <3>1, <3>2, <3>3
  <2> QED
    BY <1>4, <2>1, <2>5, <2>6 DEF Sound
<1>6. /\ Sound(new, time2)
      /\ \A i \in DOMAIN new : \E j \in DOMAIN mid : new[i] = mid[j]
      /\ \A j \in DOMAIN mid : IsActive(mid[j]) => \E i \in DOMAIN new : new[i] = mid[j]
  <2>1. CASE new = mid
    BY <1>5, <2>1
  <2>2. CASE new # mid
    <3>1. PICK d \in DOMAIN mid : IsTerminal(mid[d]) /\ new = RemoveAt(mid, d)
      BY <1>5, <2>2, TrimmedIs
    <3>2. Sound(RemoveAt(mid, d), time2) /\ Lacks(RemoveAt(mid, d), mid, d)
      BY ONLY <1>5, Dropped, time2 \in Nat, d \in DOMAIN mid
    <3>3. ~IsActive(mid[d])
      BY <3>1 DEF IsActive, IsTerminal, Active, Terminal
    <3> HIDE DEF new
    <3> QED
      BY <3>1, <3>2, <3>3 DEF Lacks
  <2> QED
    BY <2>1, <2>2
<1> HIDE DEF new
<1>7. \A i \in DOMAIN new :
         \/ new[i] = task
         \/ \E j \in DOMAIN list : list[j].id # task.id /\ new[i] = list[j]
  BY <1>1, <1>2, <1>3, <1>6
<1>8. \A j \in DOMAIN list : IsActive(list[j]) /\ list[j].id # task.id
                             => \E i \in DOMAIN new : new[i] = list[j]
  BY <1>1, <1>2, <1>3, <1>6
<1>9. IsActive(task) => \E i \in DOMAIN new : new[i] = task
  BY <1>1, <1>3, <1>6
<1> QED
  BY <1>6, <1>7, <1>8, <1>9 DEF new, mid

\* A report of a handler that runs finds its record: update is never a no-op.
LEMMA Published ==
    ASSUME TypeOK, Listed, Dated, Reported, NEW c \in Connections,
           server[c] = "running", NEW task \in Records, task.id = c, Publish(task),
           NEW time2 \in {clock, clock + 1},
           IsTerminal(task) => time2 = clock + 1 /\ task.finished = time2
    PROVE  /\ changed' = TRUE /\ Sound(ledger', time2)
           /\ \A i \in DOMAIN ledger' :
                 \/ ledger'[i] = task
                 \/ \E j \in DOMAIN ledger : ledger[j].id # c /\ ledger'[i] = ledger[j]
           /\ \A j \in DOMAIN ledger : IsActive(ledger[j]) /\ ledger[j].id # c
                                       => \E i \in DOMAIN ledger' : ledger'[i] = ledger[j]
           /\ IsActive(task) => \E i \in DOMAIN ledger' : ledger'[i] = task
<1>1. PICK k \in DOMAIN ledger : ledger[k] = reporter[c]
  BY DEF Listed
<1>2. ledger[k].id = task.id /\ IsActive(ledger[k])
  BY <1>1 DEF Reported
<1>3. changed' = TRUE /\ ledger' = Trimmed(Replaced(ledger, task))
  BY <1>2 DEF Publish, Replaced
<1>4. Sound(ledger, clock) /\ clock \in Nat
  BY DEF TypeOK, Listed, Dated, Sound
<1> DEFINE new == Trimmed(Replaced(ledger, task))
<1>5. /\ Sound(new, time2)
      /\ \A i \in DOMAIN new :
            \/ new[i] = task
            \/ \E j \in DOMAIN ledger : ledger[j].id # task.id /\ new[i] = ledger[j]
      /\ \A j \in DOMAIN ledger : IsActive(ledger[j]) /\ ledger[j].id # task.id
                                  => \E i \in DOMAIN new : new[i] = ledger[j]
      /\ IsActive(task) => \E i \in DOMAIN new : new[i] = task
  BY ONLY <1>2, <1>4, ReplacedIs, task \in Records, k \in DOMAIN ledger,
          time2 \in {clock, clock + 1},
          IsTerminal(task) => time2 = clock + 1 /\ task.finished = time2
<1> HIDE DEF new
<1> QED
  BY <1>3, <1>5 DEF new

-----------------------------------------------------------------------------
(* The permits.                                                            *)

\* A handler about to begin holds a permit, so that the active records, each of
\* a handler with another, are fewer than the permits.
LEMMA RoomForGranted ==
    ASSUME TypeOK, Granted, Listed, NEW c \in Connections, server[c] = "granted"
    PROVE  ~Full
<1> DEFINE A == {i \in DOMAIN ledger : IsActive(ledger[i])}
           Others == Holders \ {c}
           f == [i \in A |-> ledger[i].id]
<1>1. c \in Holders /\ IsFiniteSet(Holders)
  BY DEF Holders, Granted
<1>2. /\ IsFiniteSet(Others) /\ Cardinality(Others) = Cardinality(Holders) - 1
  BY <1>1, FS_RemoveElement
<1>3. \A i \in DOMAIN ledger : ledger[i].id \in Connections
  <2>1. \A i \in DOMAIN ledger : ledger[i] \in Records
    BY ElementOfSeq, LenProperties DEF TypeOK
  <2> QED
    BY <2>1 DEF Records
<1>4. f \in [A -> Others]
  BY <1>3 DEF Listed, Holders
<1>5. \A i, j \in A : f[i] = f[j] => i = j
  BY DEF Listed
<1>6. f \in Injection(A, Others)
  BY ONLY <1>4, <1>5, Fun_IsInj
<1>7. Cardinality(A) <= Cardinality(Others) /\ IsFiniteSet(A)
  BY ONLY <1>2, <1>6, FS_Injection
<1>8. /\ Cardinality(A) \in Nat /\ Cardinality(Others) \in Nat
      /\ Cardinality(Holders) \in Nat
  BY <1>1, <1>2, <1>7, FS_CardinalityType
<1>9. permits \in Nat /\ permits + Cardinality(Holders) = MaxActive /\ MaxActive \in Nat
  BY LedgerAssumption DEF TypeOK, Granted
<1>10. Full <=> Cardinality(A) >= MaxActive
  BY DEF Full
<1> DEFINE a == Cardinality(A)
           o == Cardinality(Others)
           h == Cardinality(Holders)
<1> HIDE DEF A, Others, f, a, o, h
<1>11. a \in Nat /\ o \in Nat /\ h \in Nat /\ a <= o /\ o = h - 1 /\ permits + h = MaxActive
  BY <1>2, <1>7, <1>8, <1>9 DEF a, o, h
<1>12. ~(a >= MaxActive)
  BY ONLY <1>9, <1>11
<1> QED
  BY <1>10, <1>12 DEF a

\* A connection takes a permit, keeps it or gives it back.
LEMMA HoldersStep ==
    ASSUME TypeOK, NEW c \in Connections, NEW state,
           server' = [server EXCEPT ![c] = state]
    PROVE  Holders' = IF state \in {"granted", "running", "refused", "ended"}
                      THEN Holders \cup {c} ELSE Holders \ {c}
  BY DEF TypeOK, Holders

-----------------------------------------------------------------------------
(* The steps.                                                              *)

\* What a step of the network does not touch, as long as no handler begins to
\* run or stops.
LEMMA Elsewhere ==
    ASSUME Inductive, UNCHANGED <<reporter, ledger, clock, page>>,
           \A c \in Connections : server'[c] # server[c] =>
              /\ server[c] # "running" /\ server'[c] # "running"
              /\ server[c] \in {"ended", "gone"} => server'[c] = "gone"
    PROVE  Reported' /\ Listed' /\ Dated' /\ ViewAgrees' /\ NothingHidden'
<1>1. \A i \in DOMAIN ledger : ledger[i].id \in Connections
  <2>1. \A i \in DOMAIN ledger : ledger[i] \in Records
    BY ElementOfSeq, LenProperties DEF Inductive, TypeOK
  <2> QED
    BY <2>1 DEF Records
<1>2. Reported'
  BY DEF Inductive, Reported
<1>3. Listed'
  BY <1>1 DEF Inductive, Listed
<1>4. Dated'
  BY DEF Inductive, Dated
<1>5. ViewAgrees'
  BY DEF Inductive, ViewAgrees, page
<1>6. NothingHidden'
  BY DEF Inductive, NothingHidden, SampleDue, page
<1> QED
  BY <1>2, <1>3, <1>4, <1>5, <1>6

LEMMA DialStep ==
    ASSUME Inductive, NEW s \in Senders, Dial(s)
    PROVE  Inductive'
<1>1. /\ UNCHANGED <<listener, reporter, ledger, clock, page, server>>
      /\ tried' = [tried EXCEPT ![s] = @ + 1] /\ tried[s] < Addresses[s]
      /\ sockets' = sockets \cup {<<s, tried[s] + 1>>}
      /\ \A c \in sockets : c[1] # s
  BY DEF Dial, DialUnchanged, MayDial, Own
<1>2. tried \in [Senders -> Nat] /\ Addresses \in [Senders -> Nat]
  BY LedgerAssumption DEF Inductive, TypeOK
<1>3. <<s, tried[s] + 1>> \in Connections
  <2>1. tried[s] + 1 \in 1..Addresses[s]
    BY <1>1, <1>2
  <2> QED
    BY <2>1 DEF Connections
<1>4. tried' \in [Senders -> Nat] /\ \A t \in Senders : tried'[t] <= Addresses[t]
  BY <1>1, <1>2 DEF Inductive, TypeOK
<1>5. TypeOK'
  BY <1>1, <1>3, <1>4 DEF Inductive, TypeOK, listener, page
<1>6. Granted'
  BY <1>1 DEF Inductive, Granted, Holders, listener
<1>8. Reported' /\ Listed' /\ Dated' /\ ViewAgrees' /\ NothingHidden'
  BY <1>1, Elsewhere
<1> QED
  BY <1>5, <1>6, <1>8 DEF Inductive

LEMMA HandshakeStep ==
    ASSUME Inductive, NEW c \in Connections, Handshake(c)
    PROVE  Inductive'
<1>1. /\ UNCHANGED <<dialing, listener, reporter, ledger, clock, page>>
      /\ server[c] = "none" /\ server' = [server EXCEPT ![c] = "backlog"]
  BY DEF Handshake, DialUnchanged
<1>2. TypeOK'
  BY <1>1 DEF Inductive, TypeOK, dialing, listener, page
<1>3. Holders' = Holders
  BY <1>1, HoldersStep DEF Inductive, Holders
<1>4. server'[c] = "backlog" /\ \A d \in Connections \ {c} : server'[d] = server[d]
  BY <1>1 DEF Inductive, TypeOK
<1>5. Granted'
  BY <1>1, <1>3, <1>4 DEF Inductive, Granted, TypeOK, listener
<1>7. Reported' /\ Listed' /\ Dated' /\ ViewAgrees' /\ NothingHidden'
  BY <1>1, <1>4, Elsewhere
<1> QED
  BY <1>2, <1>5, <1>7 DEF Inductive

LEMMA HangupStep ==
    ASSUME Inductive, NEW c \in Connections, Hangup(c)
    PROVE  Inductive'
<1>1. /\ UNCHANGED <<listener, reporter, ledger, clock, page, server, tried>>
      /\ sockets' = sockets \ {c}
  BY DEF Hangup, DialUnchanged
<1>2. TypeOK'
  BY <1>1 DEF Inductive, TypeOK, listener, page
<1>3. Granted'
  BY <1>1 DEF Inductive, Granted, Holders, listener
<1>5. Reported' /\ Listed' /\ Dated' /\ ViewAgrees' /\ NothingHidden'
  BY <1>1, Elsewhere
<1> QED
  BY <1>2, <1>3, <1>5 DEF Inductive

LEMMA AcceptStep ==
    ASSUME Inductive, NEW c \in Connections, Accept(c)
    PROVE  Inductive'
<1>1. /\ UNCHANGED <<dialing, reporter, ledger, clock, page, open>>
      /\ server[c] = "backlog" /\ refusing = {}
  BY DEF Accept, ListenUnchanged
<1>2. CASE permits > 0
  <2>1. /\ permits' = permits - 1 /\ UNCHANGED refusing
        /\ server' = [server EXCEPT ![c] = "granted"]
    BY <1>2 DEF Accept
  <2>2. permits' \in 0..MaxActive
    BY <1>2, <2>1, LedgerAssumption DEF Inductive, TypeOK
  <2>3. TypeOK'
    BY <1>1, <2>1, <2>2 DEF Inductive, TypeOK, dialing, page
  <2>4. Holders' = Holders \cup {c} /\ c \notin Holders
    BY <1>1, <2>1, HoldersStep DEF Inductive, Holders
  <2>5. /\ IsFiniteSet(Holders') /\ Cardinality(Holders') = Cardinality(Holders) + 1
        /\ Cardinality(Holders) \in Nat
    BY <2>4, FS_AddElement, FS_CardinalityType DEF Inductive, Granted
  <2>6. permits' + Cardinality(Holders') = MaxActive
    BY <2>1, <2>5, LedgerAssumption DEF Inductive, Granted, TypeOK
  <2>7. server'[c] = "granted" /\ \A d \in Connections \ {c} : server'[d] = server[d]
    BY <2>1 DEF Inductive, TypeOK
  <2>8. Granted'
    BY <1>1, <2>1, <2>5, <2>6, <2>7 DEF Inductive, Granted
  <2>9. Reported' /\ Listed' /\ Dated' /\ ViewAgrees' /\ NothingHidden'
    BY <1>1, <2>7, Elsewhere
  <2> QED
    BY <2>3, <2>8, <2>9 DEF Inductive
<1>3. CASE ~(permits > 0)
  <2>1. refusing' = {c} /\ UNCHANGED <<permits, server>>
    BY <1>3 DEF Accept
  <2>2. TypeOK'
    BY <1>1, <2>1 DEF Inductive, TypeOK, dialing, page
  <2>3. Granted'
    BY <1>1, <2>1 DEF Inductive, Granted, Holders
  <2>4. Reported' /\ Listed' /\ Dated' /\ ViewAgrees' /\ NothingHidden'
    BY <1>1, <2>1, Elsewhere
  <2> QED
    BY <2>2, <2>3, <2>4 DEF Inductive
<1> QED
  BY <1>2, <1>3

LEMMA BusyStep ==
    ASSUME Inductive, NEW c \in Connections, Busy(c)
    PROVE  Inductive'
<1>1. /\ UNCHANGED <<dialing, reporter, ledger, clock, page, open, permits>>
      /\ c \in refusing /\ refusing' = {}
      /\ server' = [server EXCEPT ![c] = "gone"]
  BY DEF Busy, ListenUnchanged
<1>2. server[c] = "backlog"
  BY <1>1 DEF Inductive, Granted
<1>3. TypeOK'
  BY <1>1 DEF Inductive, TypeOK, dialing, page
<1>4. Holders' = Holders
  BY <1>1, <1>2, HoldersStep DEF Inductive, Holders
<1>5. server'[c] = "gone" /\ \A d \in Connections \ {c} : server'[d] = server[d]
  BY <1>1 DEF Inductive, TypeOK
<1>6. Granted'
  BY <1>1, <1>4, <1>5 DEF Inductive, Granted
<1>7. Reported' /\ Listed' /\ Dated' /\ ViewAgrees' /\ NothingHidden'
  BY <1>1, <1>2, <1>5, Elsewhere
<1> QED
  BY <1>3, <1>6, <1>7 DEF Inductive

LEMMA AcceptFailsStep ==
    ASSUME Inductive, AcceptFails
    PROVE  Inductive'
<1>1. /\ UNCHANGED <<dialing, reporter, ledger, clock, page, server, refusing, permits>>
      /\ open' = FALSE
  BY DEF AcceptFails, ListenUnchanged
<1>2. TypeOK'
  BY <1>1 DEF Inductive, TypeOK, dialing, page
<1>3. Granted'
  BY <1>1 DEF Inductive, Granted, Holders
<1>4. Reported' /\ Listed' /\ Dated' /\ ViewAgrees' /\ NothingHidden'
  BY <1>1, Elsewhere
<1> QED
  BY <1>2, <1>3, <1>4 DEF Inductive

LEMMA ReleaseStep ==
    ASSUME Inductive, NEW c \in Connections, Release(c)
    PROVE  Inductive'
<1>1. /\ UNCHANGED <<dialing, reporter, ledger, clock, page, open, refusing>>
      /\ server[c] \in {"refused", "ended"} /\ permits' = permits + 1
      /\ server' = [server EXCEPT ![c] = "gone"]
  BY DEF Release, ListenUnchanged
<1>2. Holders' = Holders \ {c} /\ c \in Holders
  BY <1>1, HoldersStep DEF Inductive, Holders
<1>3. /\ IsFiniteSet(Holders') /\ Cardinality(Holders') = Cardinality(Holders) - 1
      /\ Cardinality(Holders) \in Nat /\ Cardinality(Holders') \in Nat
  BY <1>2, FS_RemoveElement, FS_CardinalityType DEF Inductive, Granted
<1>4. permits' + Cardinality(Holders') = MaxActive /\ permits' \in 0..MaxActive
  <2> DEFINE h == Cardinality(Holders)
             h2 == Cardinality(Holders')
  <2>1. /\ h \in Nat /\ h2 \in Nat /\ h2 = h - 1 /\ permits + h = MaxActive
        /\ permits \in Nat /\ MaxActive \in Nat
    BY <1>3, LedgerAssumption DEF Inductive, Granted, TypeOK
  <2> HIDE DEF h, h2
  <2>2. permits' + h2 = MaxActive /\ permits' \in 0..MaxActive
    BY ONLY <1>1, <2>1
  <2> QED
    BY <2>2 DEF h2
<1>5. TypeOK'
  BY <1>1, <1>4 DEF Inductive, TypeOK, dialing, page
<1>6. server'[c] = "gone" /\ \A d \in Connections \ {c} : server'[d] = server[d]
  BY <1>1 DEF Inductive, TypeOK
<1>7. Granted'
  BY <1>1, <1>3, <1>4, <1>6 DEF Inductive, Granted
<1>8. Reported' /\ Listed' /\ Dated' /\ ViewAgrees' /\ NothingHidden'
  BY <1>1, <1>6, Elsewhere
<1> QED
  BY <1>5, <1>7, <1>8 DEF Inductive

\* Nothing of the network changes but what c's handler is doing, which keeps its
\* permit.
LEMMA HandlerStep ==
    ASSUME Inductive, NEW c \in Connections,
           UNCHANGED <<dialing, listener>>,
           server[c] \in {"granted", "running"},
           NEW state \in {"running", "ended"}, server' = [server EXCEPT ![c] = state]
    PROVE  Granted'
<1>1. Holders' = Holders
  BY HoldersStep DEF Inductive, Holders
<1>2. server'[c] = state /\ \A d \in Connections \ {c} : server'[d] = server[d]
  BY DEF Inductive, TypeOK
<1>3. Granted'
  BY <1>1, <1>2 DEF Inductive, Granted, listener
<1> QED
  BY <1>3

LEMMA PeerLostStep ==
    ASSUME Inductive, NEW c \in Connections, PeerLost(c)
    PROVE  Inductive'
<1>1. /\ server[c] = "granted" /\ server' = [server EXCEPT ![c] = "ended"]
      /\ UNCHANGED <<dialing, listener, reporter, ledger, clock, page>>
  BY DEF PeerLost, HandlerUnchanged, page
<1>2. server'[c] = "ended" /\ \A d \in Connections \ {c} : server'[d] = server[d]
  BY <1>1 DEF Inductive, TypeOK
<1>3. TypeOK'
  BY <1>1 DEF Inductive, TypeOK, dialing, listener, page
<1>4. Granted'
  BY <1>1, HandlerStep
<1>5. Reported' /\ Listed' /\ Dated' /\ ViewAgrees' /\ NothingHidden'
  BY <1>1, <1>2, Elsewhere
<1> QED
  BY <1>3, <1>4, <1>5 DEF Inductive

LEMMA BeginStep ==
    ASSUME Inductive, NEW c \in Connections, Begin(c)
    PROVE  Inductive'
<1>1. ~Full
  BY RoomForGranted DEF Inductive, Begin
<1>2. /\ server[c] = "granted" /\ server' = [server EXCEPT ![c] = "running"]
      /\ ledger' = Append(ledger, Task(c))
      /\ UNCHANGED <<reporter, dialing, listener, clock, view>>
  BY <1>1 DEF Begin, HandlerUnchanged
<1>3. changed' = TRUE
  BY <1>1 DEF Begin
<1> DEFINE l == Len(ledger)
<1>4. /\ Task(c) \in Records /\ Task(c).id = c /\ IsActive(Task(c)) /\ ~IsTerminal(Task(c))
  BY DEF Task, Records, Active, Terminal, IsActive, IsTerminal
<1>5. /\ ledger \in Seq(Records) /\ l \in Nat /\ DOMAIN ledger = 1..l
      /\ \A i \in 1..l : ledger[i] \in Records
  BY LenProperties, ElementOfSeq DEF Inductive, TypeOK
<1>6. /\ ledger' \in Seq(Records) /\ Len(ledger') = l + 1
      /\ \A i \in 1..l : ledger'[i] = ledger[i]
      /\ ledger'[l + 1] = Task(c)
  BY <1>2, <1>4, <1>5, AppendProperties
<1>7. DOMAIN ledger' = 1..l + 1
  BY <1>6, LenProperties
<1> HIDE DEF l
<1>8. \A i \in DOMAIN ledger' : \/ i \in DOMAIN ledger /\ ledger'[i] = ledger[i]
                                \/ i = l + 1 /\ ledger'[i] = Task(c)
  BY ONLY <1>5, <1>6, <1>7
<1>9. server'[c] = "running" /\ \A d \in Connections \ {c} : server'[d] = server[d]
  BY <1>2 DEF Inductive, TypeOK
<1>10. \A i \in DOMAIN ledger : ledger[i].id \in Connections \ {c}
  BY <1>2, <1>5 DEF Inductive, Listed, Records
<1>11. TypeOK'
  BY <1>2, <1>3, <1>6 DEF Inductive, TypeOK, dialing, listener
<1>12. Granted'
  BY <1>2, HandlerStep
<1>13. Reported'
  BY <1>2, <1>9 DEF Inductive, Reported
<1>14. Listed'
  <2>1. \A i, j \in DOMAIN ledger' : ledger'[i].id = ledger'[j].id => i = j
    BY <1>4, <1>8, <1>10 DEF Inductive, Listed
  <2>2. \A i \in DOMAIN ledger' :
           /\ server'[ledger'[i].id] \in {"running", "ended", "gone"}
           /\ IsActive(ledger'[i]) => server'[ledger'[i].id] = "running"
    BY <1>4, <1>8, <1>9, <1>10 DEF Inductive, Listed
  <2>3. \A i \in DOMAIN ledger : i \in DOMAIN ledger' /\ ledger'[i] = ledger[i]
    BY ONLY <1>5, <1>6, <1>7
  <2>4. l + 1 \in DOMAIN ledger'
    BY ONLY <1>5, <1>7
  <2>5. reporter'[c] = Task(c)
    BY <1>2 DEF Inductive, Reported
  <2>6. \A d \in Connections : server'[d] = "running" =>
           \E i \in DOMAIN ledger' : ledger'[i] = reporter'[d]
    <3>1. ASSUME NEW d \in Connections \ {c}, server'[d] = "running"
          PROVE  \E i \in DOMAIN ledger' : ledger'[i] = reporter'[d]
      BY <1>2, <1>9, <2>3, <3>1 DEF Inductive, Listed
    <3> QED
      BY <1>6, <2>4, <2>5, <3>1
  <2> QED
    BY <2>1, <2>2, <2>6 DEF Listed
<1>15. Dated'
  BY <1>2, <1>4, <1>8 DEF Inductive, Dated
<1>16. ViewAgrees'
  BY <1>3, <1>14 DEF ViewAgrees, Listed
<1>17. NothingHidden'
  BY <1>3 DEF NothingHidden
<1> QED
  BY <1>11, <1>12, <1>13, <1>14, <1>15, <1>16, <1>17 DEF Inductive

\* A change of the phase is published.
LEMMA MovesStep ==
    ASSUME Inductive, NEW c \in Connections, NEW from, NEW to \in Active,
           Moves(c, from, to)
    PROVE  Inductive'
<1>1. /\ server[c] = "running" /\ reporter' = [reporter EXCEPT ![c].phase = to]
      /\ UNCHANGED <<server, dialing, listener, clock, view>>
      /\ Publish(reporter'[c])
  BY DEF Moves, HandlerUnchanged
<1> DEFINE task == reporter'[c]
<1>2. reporter \in [Connections -> Records] /\ clock \in Nat
  BY DEF Inductive, TypeOK
<1>3. /\ reporter' \in [Connections -> Records]
      /\ task = [reporter[c] EXCEPT !.phase = to]
      /\ \A d \in Connections \ {c} : reporter'[d] = reporter[d]
  BY <1>1, <1>2 DEF Records
<1>4. /\ task \in Records /\ task.id = c /\ task.phase = to
  BY <1>2, <1>3 DEF Inductive, Reported, Records
<1>5. IsActive(task) /\ ~IsTerminal(task)
  BY <1>4 DEF IsActive, IsTerminal, Active, Terminal
<1> HIDE DEF task
<1>6. Publish(task)
  BY <1>1 DEF task
<1>7. clock \in {clock, clock + 1}
  OBVIOUS
<1>8. /\ changed' = TRUE /\ Sound(ledger', clock)
      /\ \A i \in DOMAIN ledger' :
            \/ ledger'[i] = task
            \/ \E j \in DOMAIN ledger : ledger[j].id # c /\ ledger'[i] = ledger[j]
      /\ \A j \in DOMAIN ledger : IsActive(ledger[j]) /\ ledger[j].id # c
                                  => \E i \in DOMAIN ledger' : ledger'[i] = ledger[j]
      /\ \E i \in DOMAIN ledger' : ledger'[i] = task
  BY ONLY <1>1, <1>4, <1>5, <1>6, <1>7, Published, Inductive, c \in Connections, ZenonT(60)
  DEF Inductive
<1>9. changed' = TRUE
  BY <1>8
<1>10. TypeOK'
  BY <1>1, <1>3, <1>8, <1>9 DEF Inductive, TypeOK, Sound, dialing, listener
<1>11. Granted'
  <2>1. server' = [server EXCEPT ![c] = "running"]
    BY <1>1 DEF Inductive, TypeOK
  <2> QED
    BY <1>1, <2>1, HandlerStep
<1>12. Reported'
  BY <1>1, <1>3, <1>4, <1>5 DEF Inductive, Reported, task
<1>13. Listed'
  <2>1. \A i, j \in DOMAIN ledger' : ledger'[i].id = ledger'[j].id => i = j
    BY <1>8 DEF Sound
  <2>2. \A i \in DOMAIN ledger' :
           /\ server'[ledger'[i].id] \in {"running", "ended", "gone"}
           /\ IsActive(ledger'[i]) => server'[ledger'[i].id] = "running"
    BY <1>1, <1>4, <1>8 DEF Inductive, Listed
  <2>3. ASSUME NEW d \in Connections, d # c, server'[d] = "running"
        PROVE  \E i \in DOMAIN ledger' : ledger'[i] = reporter'[d]
    <3>1. PICK j \in DOMAIN ledger : ledger[j] = reporter[d]
      BY <1>1, <2>3 DEF Inductive, Listed
    <3>2. IsActive(ledger[j]) /\ ledger[j].id # c
      BY <2>3, <3>1 DEF Inductive, Reported
    <3>3. \E i \in DOMAIN ledger' : ledger'[i] = ledger[j]
      BY <1>8, <3>2
    <3> QED
      BY <1>3, <2>3, <3>1, <3>3
  <2>4. \E i \in DOMAIN ledger' : ledger'[i] = reporter'[c]
    BY <1>8 DEF task
  <2> QED
    BY <2>1, <2>2, <2>3, <2>4 DEF Listed
<1>14. Dated'
  BY <1>1, <1>8 DEF Dated, Sound
<1>15. ViewAgrees'
  BY <1>9, <1>13 DEF ViewAgrees, Listed
<1>16. NothingHidden'
  BY <1>9 DEF NothingHidden
<1> QED
  BY <1>10, <1>11, <1>12, <1>13, <1>14, <1>15, <1>16 DEF Inductive

LEMMA AdvanceStep ==
    ASSUME Inductive, NEW c \in Connections, Advance(c)
    PROVE  Inductive'
<1>1. /\ server[c] = "running" /\ reporter[c].phase = "Receiving"
      /\ reporter' = [reporter EXCEPT ![c].received = @ + 1]
      /\ UNCHANGED <<server, dialing, listener, clock, view>>
      /\ changed' \in {changed, TRUE}
  BY DEF Advance, HandlerUnchanged
<1>2. PICK i \in DOMAIN ledger :
         ledger[i].id = c /\ ledger' = [ledger EXCEPT ![i].received = reporter'[c].received]
  BY DEF Advance
<1> DEFINE l == Len(ledger)
           task == [reporter[c] EXCEPT !.received = reporter[c].received + 1]
<1>3. /\ reporter \in [Connections -> Records] /\ ledger \in Seq(Records) /\ l \in Nat
      /\ DOMAIN ledger = 1..l /\ \A j \in 1..l : ledger[j] \in Records
  BY LenProperties, ElementOfSeq DEF Inductive, TypeOK
<1>4. reporter[c].id = c /\ IsActive(reporter[c])
  BY DEF Inductive, Reported
<1>5. ledger[i] = reporter[c]
  <2>1. PICK j \in DOMAIN ledger : ledger[j] = reporter[c]
    BY <1>1 DEF Inductive, Listed
  <2>2. j = i
    BY <1>2, <1>4, <2>1 DEF Inductive, Listed
  <2> QED
    BY <2>1, <2>2
<1>6. /\ task \in Records /\ task.id = c /\ task.phase = "Receiving"
      /\ task.received = reporter[c].received + 1
  <2>1. reporter[c] \in Records /\ reporter[c].received + 1 \in Nat
    BY <1>3 DEF Records
  <2> QED
    BY ONLY <1>1, <1>4, <2>1 DEF Records
<1>7. IsActive(task) /\ ~IsTerminal(task)
  BY <1>6 DEF IsActive, IsTerminal, Active, Terminal
<1>8. /\ reporter'[c] = task /\ \A d \in Connections \ {c} : reporter'[d] = reporter[d]
      /\ reporter' \in [Connections -> Records]
  <2>1. reporter' = [reporter EXCEPT ![c] = task]
    BY <1>1
  <2> HIDE DEF task
  <2> QED
    BY <1>3, <1>6, <2>1
<1>9. ledger' = [ledger EXCEPT ![i] = task]
  <2>1. reporter'[c].received = reporter[c].received + 1
    BY <1>6, <1>8
  <2>2. ledger' = [ledger EXCEPT ![i] = [ledger[i] EXCEPT !.received = reporter'[c].received]]
    BY <1>2
  <2> QED
    BY <1>5, <2>1, <2>2
<1> HIDE DEF task
<1>10. /\ ledger' \in Seq(Records) /\ Len(ledger') = l
       /\ \A j \in 1..l : ledger'[j] = IF j = i THEN task ELSE ledger[j]
  BY <1>3, <1>6, <1>9, ExceptSeq
<1>11. DOMAIN ledger' = 1..l
  BY <1>10, LenProperties
<1>12. \A j \in 1..l : ledger'[j].id = ledger[j].id /\ ledger'[j].phase = ledger[j].phase
  BY <1>1, <1>5, <1>6, <1>10, <1>4
<1>13. changed' \in BOOLEAN /\ (changed => changed')
  BY <1>1 DEF Inductive, TypeOK
<1>14. TypeOK'
  BY <1>1, <1>8, <1>10, <1>13 DEF Inductive, TypeOK, dialing, listener
<1>15. Granted'
  <2>1. server' = [server EXCEPT ![c] = "running"]
    BY <1>1 DEF Inductive, TypeOK
  <2> QED
    BY <1>1, <2>1, HandlerStep
<1>16. Reported'
  BY <1>1, <1>6, <1>7, <1>8 DEF Inductive, Reported
<1>17. Listed'
  <2>1. \A j, k \in DOMAIN ledger' : ledger'[j].id = ledger'[k].id => j = k
    BY <1>3, <1>11, <1>12 DEF Inductive, Listed
  <2>2. \A j \in DOMAIN ledger' :
           /\ server'[ledger'[j].id] \in {"running", "ended", "gone"}
           /\ IsActive(ledger'[j]) => server'[ledger'[j].id] = "running"
    BY <1>1, <1>3, <1>11, <1>12 DEF Inductive, Listed, IsActive
  <2>3. ASSUME NEW d \in Connections, d # c, server'[d] = "running"
        PROVE  \E j \in DOMAIN ledger' : ledger'[j] = reporter'[d]
    <3>1. PICK j \in DOMAIN ledger : ledger[j] = reporter[d]
      BY <1>1, <2>3 DEF Inductive, Listed
    <3>2. j # i
      BY <1>2, <2>3, <3>1 DEF Inductive, Reported
    <3> QED
      BY <1>3, <1>8, <1>10, <1>11, <2>3, <3>1, <3>2
  <2>4. \E j \in DOMAIN ledger' : ledger'[j] = reporter'[c]
    BY <1>3, <1>8, <1>10, <1>11
  <2> QED
    BY <2>1, <2>2, <2>3, <2>4 DEF Listed
<1>18. Dated'
  <2>1. \A j \in DOMAIN ledger' : IsTerminal(ledger'[j]) =>
           j \in DOMAIN ledger /\ ledger'[j] = ledger[j]
    BY <1>3, <1>7, <1>10, <1>11
  <2> QED
    BY <1>1, <2>1 DEF Inductive, Dated
<1>19. ViewAgrees'
  <2>1. \A d \in Connections : server'[d] = "running" =>
           \E j \in DOMAIN ledger' : ledger'[j] = reporter'[d]
    BY <1>17 DEF Listed
  <2>2. ASSUME ~changed'
        PROVE  /\ Len(view') = Len(ledger')
               /\ \A j \in DOMAIN view' :
                     view'[j].id = ledger'[j].id /\ view'[j].phase = ledger'[j].phase
    <3>1. ~changed
      BY <1>13, <2>2
    <3>2. /\ Len(view) = l
          /\ \A j \in DOMAIN view :
                view[j].id = ledger[j].id /\ view[j].phase = ledger[j].phase
      BY <3>1 DEF Inductive, ViewAgrees
    <3>3. DOMAIN view = 1..l
      BY <3>2, LenProperties DEF Inductive, TypeOK
    <3> QED
      BY <1>1, <1>10, <1>12, <3>2, <3>3
  <2> QED
    BY <2>1, <2>2 DEF ViewAgrees
<1>20. NothingHidden'
  <2>1. CASE changed
    BY <1>13, <2>1 DEF NothingHidden
  <2>2. CASE ~changed
    <3>1. /\ Len(view) = l
          /\ \A j \in DOMAIN view :
                view[j].id = ledger[j].id /\ view[j].phase = ledger[j].phase
      BY <2>2 DEF Inductive, ViewAgrees
    <3>2. i \in DOMAIN view
      BY <1>3, <3>1, LenProperties DEF Inductive, TypeOK
    <3>3. view[i].phase = "Receiving"
      BY <1>1, <1>5, <3>1, <3>2
    <3>4. SampleDue'
      BY <1>1, <3>2, <3>3 DEF SampleDue
    <3> QED
      BY <3>4 DEF NothingHidden
  <2> QED
    BY <2>1, <2>2
<1> QED
  BY <1>14, <1>15, <1>16, <1>17, <1>18, <1>19, <1>20 DEF Inductive

LEMMA FinishStep ==
    ASSUME Inductive, NEW c \in Connections, Finish(c)
    PROVE  Inductive'
<1>1. /\ server[c] = "running" /\ clock' = clock + 1
      /\ reporter' = [reporter EXCEPT ![c] = Task(c)]
      /\ server' = [server EXCEPT ![c] = "ended"]
      /\ UNCHANGED <<dialing, listener, view>>
  BY DEF Finish
<1>2. PICK phase \in {"Completed", "SavedWithoutConfirmation", "Failed"} :
         Publish([reporter[c] EXCEPT !.phase = phase, !.finished = clock'])
  BY DEF Finish
<1> DEFINE task == [reporter[c] EXCEPT !.phase = phase, !.finished = clock']
<1>3. reporter \in [Connections -> Records] /\ clock \in Nat
  BY DEF Inductive, TypeOK
<1>4. /\ task \in Records /\ task.id = c /\ task.phase = phase
      /\ task.finished = clock + 1
  <2>1. /\ reporter[c] \in Records /\ reporter[c].id = c
        /\ clock' \in Nat /\ clock' = clock + 1
    BY <1>1, <1>3 DEF Inductive, Reported
  <2> QED
    BY ONLY <2>1, phase \in {"Completed", "SavedWithoutConfirmation", "Failed"}
    DEF Records, Terminal
<1>5. ~IsActive(task)
  BY <1>4 DEF IsActive, Active
<1> HIDE DEF task
<1>6. Publish(task)
  BY <1>2 DEF task
<1>7. clock' \in {clock, clock + 1} /\ clock' = clock + 1
  BY <1>1
<1> DEFINE time == clock'
<1> HIDE DEF time
<1>8. /\ time \in {clock, clock + 1}
      /\ IsTerminal(task) => time = clock + 1 /\ task.finished = time
  BY <1>4, <1>7 DEF time
<1>9. /\ changed' = TRUE /\ Sound(ledger', time)
      /\ \A i \in DOMAIN ledger' :
            \/ ledger'[i] = task
            \/ \E j \in DOMAIN ledger : ledger[j].id # c /\ ledger'[i] = ledger[j]
      /\ \A j \in DOMAIN ledger : IsActive(ledger[j]) /\ ledger[j].id # c
                                  => \E i \in DOMAIN ledger' : ledger'[i] = ledger[j]
  BY ONLY <1>1, <1>4, <1>6, <1>8, Published, Inductive, c \in Connections, ZenonT(60)
  DEF Inductive
<1>10. Sound(ledger', clock')
  BY <1>9 DEF time
<1>11. changed' = TRUE
  BY <1>9
<1>12. Task(c) \in Records /\ Task(c).id = c /\ IsActive(Task(c))
  BY DEF Task, Records, Active, IsActive
<1>13. /\ reporter' \in [Connections -> Records] /\ reporter'[c] = Task(c)
       /\ \A d \in Connections \ {c} : reporter'[d] = reporter[d]
  BY <1>1, <1>3, <1>12
<1>14. /\ server'[c] = "ended" /\ \A d \in Connections \ {c} : server'[d] = server[d]
  BY <1>1 DEF Inductive, TypeOK
<1>15. TypeOK'
  <2>1. clock' \in Nat
    BY <1>1, <1>3
  <2> QED
    BY <1>1, <1>10, <1>11, <1>13, <2>1 DEF Inductive, TypeOK, Sound, dialing, listener
<1>16. Granted'
  BY <1>1, HandlerStep
<1>17. Reported'
  BY <1>12, <1>13, <1>14 DEF Inductive, Reported
<1>18. Listed'
  <2>1. \A i, j \in DOMAIN ledger' : ledger'[i].id = ledger'[j].id => i = j
    BY <1>10 DEF Sound
  <2>2. \A i \in DOMAIN ledger : ledger[i].id \in Connections
    <3>1. \A i \in DOMAIN ledger : ledger[i] \in Records
      BY ElementOfSeq, LenProperties DEF Inductive, TypeOK
    <3> QED
      BY <3>1 DEF Records
  <2>3. ASSUME NEW i \in DOMAIN ledger'
        PROVE  /\ server'[ledger'[i].id] \in {"running", "ended", "gone"}
               /\ IsActive(ledger'[i]) => server'[ledger'[i].id] = "running"
    <3>1. CASE ledger'[i] = task
      BY <1>4, <1>5, <1>14, <3>1
    <3>2. ASSUME NEW j \in DOMAIN ledger, ledger[j].id # c, ledger'[i] = ledger[j]
          PROVE  /\ server'[ledger'[i].id] \in {"running", "ended", "gone"}
                 /\ IsActive(ledger'[i]) => server'[ledger'[i].id] = "running"
      BY <1>14, <2>2, <3>2 DEF Inductive, Listed
    <3> QED
      BY <1>9, <3>1, <3>2
  <2>4. ASSUME NEW d \in Connections, server'[d] = "running"
        PROVE  \E i \in DOMAIN ledger' : ledger'[i] = reporter'[d]
    <3>1. d # c /\ server[d] = "running"
      BY <1>14, <2>4
    <3>2. PICK j \in DOMAIN ledger : ledger[j] = reporter[d]
      BY <3>1 DEF Inductive, Listed
    <3>3. IsActive(ledger[j]) /\ ledger[j].id # c
      BY <3>1, <3>2 DEF Inductive, Reported
    <3>4. \E i \in DOMAIN ledger' : ledger'[i] = ledger[j]
      BY <1>9, <3>3
    <3> QED
      BY <1>13, <3>1, <3>2, <3>4
  <2> QED
    BY <2>1, <2>3, <2>4 DEF Listed
<1>19. Dated'
  BY <1>10 DEF Dated, Sound
<1>20. ViewAgrees'
  BY <1>11, <1>18 DEF ViewAgrees, Listed
<1>21. NothingHidden'
  BY <1>11 DEF NothingHidden
<1> QED
  BY <1>15, <1>16, <1>17, <1>18, <1>19, <1>20, <1>21 DEF Inductive

LEMMA DismissStep ==
    ASSUME Inductive, Dismiss
    PROVE  Inductive'
<1>1. PICK k \in DOMAIN ledger : IsTerminal(ledger[k]) /\ ledger' = RemoveAt(ledger, k)
  BY DEF Dismiss
<1>2. UNCHANGED <<dialing, server, listener, reporter, clock, view>>
  BY DEF Dismiss
<1>3. changed' = TRUE
  BY DEF Dismiss
<1>4. Sound(ledger, clock) /\ clock \in Nat
  BY DEF Inductive, TypeOK, Listed, Dated, Sound
<1> DEFINE rest == RemoveAt(ledger, k)
<1>5. /\ Sound(rest, clock)
      /\ \A i \in DOMAIN rest : \E j \in DOMAIN ledger : rest[i] = ledger[j]
      /\ \A j \in DOMAIN ledger \ {k} : \E i \in DOMAIN rest : rest[i] = ledger[j]
  BY ONLY <1>4, Dropped, k \in DOMAIN ledger DEF Lacks
<1> HIDE DEF rest
<1>6. ledger' = rest
  BY <1>1 DEF rest
<1>7. ~IsActive(ledger[k])
  BY <1>1 DEF IsActive, IsTerminal, Active, Terminal
<1>8. TypeOK'
  BY <1>2, <1>3, <1>5, <1>6 DEF Inductive, TypeOK, Sound, dialing, listener
<1>9. Granted' /\ Reported'
  BY <1>2 DEF Inductive, Granted, Holders, Reported, dialing, listener
<1>10. Listed'
  <2>1. \A i, j \in DOMAIN rest : rest[i].id = rest[j].id => i = j
    BY <1>5 DEF Sound
  <2>2. \A i \in DOMAIN rest :
           /\ server[rest[i].id] \in {"running", "ended", "gone"}
           /\ IsActive(rest[i]) => server[rest[i].id] = "running"
    BY <1>5 DEF Inductive, Listed
  <2>3. ASSUME NEW d \in Connections, server[d] = "running"
        PROVE  \E i \in DOMAIN rest : rest[i] = reporter[d]
    <3>1. PICK j \in DOMAIN ledger : ledger[j] = reporter[d]
      BY <2>3 DEF Inductive, Listed
    <3>2. j # k
      BY <1>7, <3>1 DEF Inductive, Reported
    <3> QED
      BY <1>5, <3>1, <3>2
  <2> QED
    BY <1>2, <1>6, <2>1, <2>2, <2>3 DEF Listed
<1>11. Dated'
  BY <1>2, <1>5, <1>6 DEF Dated, Sound
<1>12. ViewAgrees'
  BY <1>3, <1>10 DEF ViewAgrees, Listed
<1>13. NothingHidden'
  BY <1>3 DEF NothingHidden
<1> QED
  BY <1>8, <1>9, <1>10, <1>11, <1>12, <1>13 DEF Inductive

LEMMA PollStep ==
    ASSUME Inductive, Poll
    PROVE  Inductive'
<1>1. /\ view' = ledger
      /\ UNCHANGED <<dialing, server, listener, reporter, ledger, clock>>
  BY DEF Poll
<1>2. changed' = FALSE
  BY DEF Poll
<1>3. TypeOK'
  BY <1>1, <1>2 DEF Inductive, TypeOK, dialing, listener
<1>4. Granted' /\ Reported'
  BY <1>1 DEF Inductive, Granted, Holders, Reported, dialing, listener
<1>5. Listed' /\ Dated'
  BY <1>1 DEF Inductive, Listed, Dated
<1>6. ViewAgrees'
  BY <1>1, <1>5 DEF ViewAgrees, Listed
<1>7. NothingHidden'
  BY <1>1 DEF NothingHidden
<1> QED
  BY <1>3, <1>4, <1>5, <1>6, <1>7 DEF Inductive

LEMMA InductiveStep == Inductive /\ [Next]_vars => Inductive'
<1> SUFFICES ASSUME Inductive, [Next]_vars
             PROVE  Inductive'
  OBVIOUS
<1>1. ASSUME NEW s \in Senders, Dial(s) PROVE Inductive'
  BY <1>1, DialStep
<1>2. ASSUME NEW c \in Connections,
             \/ Handshake(c) \/ Hangup(c) \/ Accept(c) \/ Busy(c) \/ Release(c)
             \/ PeerLost(c) \/ Begin(c) \/ Receiving(c) \/ Saving(c) \/ Saved(c)
             \/ Advance(c) \/ Finish(c)
      PROVE  Inductive'
  <2>1. CASE Handshake(c)
    BY <2>1, HandshakeStep
  <2>2. CASE Hangup(c)
    BY <2>2, HangupStep
  <2>3. CASE Accept(c)
    BY <2>3, AcceptStep
  <2>4. CASE Busy(c)
    BY <2>4, BusyStep
  <2>5. CASE Release(c)
    BY <2>5, ReleaseStep
  <2>6. CASE Begin(c)
    BY <2>6, BeginStep
  <2>7. CASE Receiving(c)
    <3>1. "Receiving" \in Active /\ Moves(c, "Preparing", "Receiving")
      BY <2>7 DEF Active, Receiving
    <3> QED
      BY <3>1, MovesStep
  <2>8. CASE Saving(c)
    <3>1. "Saving" \in Active /\ Moves(c, "Receiving", "Saving")
      BY <2>8 DEF Active, Saving
    <3> QED
      BY <3>1, MovesStep
  <2>9. CASE Saved(c)
    <3>1. "Confirming" \in Active /\ Moves(c, "Saving", "Confirming")
      BY <2>9 DEF Active, Saved
    <3> QED
      BY <3>1, MovesStep
  <2>10. CASE Advance(c)
    BY <2>10, AdvanceStep
  <2>11. CASE Finish(c)
    BY <2>11, FinishStep
  <2>12. CASE PeerLost(c)
    BY <2>12, PeerLostStep
  <2> QED
    BY <1>2, <2>1, <2>2, <2>3, <2>4, <2>5, <2>6, <2>7, <2>8, <2>9, <2>10, <2>11, <2>12
<1>3. CASE AcceptFails
  BY <1>3, AcceptFailsStep
<1>4. CASE Dismiss
  BY <1>4, DismissStep
<1>5. CASE Poll
  BY <1>5, PollStep
<1>6. CASE UNCHANGED vars
  <2>1. UNCHANGED <<dialing, server, listener, reporter, ledger, clock, page>>
    BY <1>6 DEF vars
  <2>2. TypeOK' /\ Granted'
    BY <2>1 DEF Inductive, TypeOK, Granted, Holders, dialing, listener, page
  <2>3. Reported' /\ Listed' /\ Dated' /\ ViewAgrees' /\ NothingHidden'
    BY <2>1, Elsewhere
  <2> QED
    BY <2>2, <2>3 DEF Inductive
<1> QED
  BY <1>1, <1>2, <1>3, <1>4, <1>5, <1>6 DEF Next

LEMMA InductiveInit == Init => Inductive
<1> SUFFICES ASSUME Init
             PROVE  Inductive
  OBVIOUS
<1>1. Holders = {}
  BY DEF Init, Holders
<1>2. ledger = <<>> /\ view = <<>> /\ DOMAIN ledger = {} /\ Len(view) = Len(ledger)
  BY DEF Init
<1>3. \A c \in Connections : /\ Task(c) \in Records /\ Task(c).id = c
                             /\ IsActive(Task(c))
  BY DEF Task, Records, Active, IsActive
<1>4. <<>> \in Seq(Records)
  BY EmptySeq
<1>5. permits \in 0..MaxActive /\ permits = MaxActive
  BY LedgerAssumption DEF Init
<1>6. changed \in BOOLEAN /\ open \in BOOLEAN
  BY DEF Init
<1>7. TypeOK
  BY <1>2, <1>3, <1>4, <1>5, <1>6, LedgerAssumption DEF Init, TypeOK
<1>8. Granted
  BY <1>1, <1>5, FS_EmptySet, LedgerAssumption DEF Granted, Init
<1>9. Reported
  BY <1>3 DEF Init, Reported
<1>10. Listed /\ Dated
  BY <1>2 DEF Init, Listed, Dated
<1>11. ViewAgrees /\ NothingHidden
  BY <1>2 DEF Init, ViewAgrees, NothingHidden
<1> QED
  BY <1>7, <1>8, <1>9, <1>10, <1>11 DEF Inductive

-----------------------------------------------------------------------------

\* The whole argument, in one invariant: permits, records and page stay in step
\* through every action of the network, the handlers and the page.
THEOREM InductiveHolds == Spec => []Inductive
  BY InductiveInit, InductiveStep, PTL DEF Spec

\* However many connections the addresses of its senders make, and however long the
\* ones that were given up keep their permits, the ledger has room for every
\* connection the listener granted one (lib.rs: setup_network_listener, receive.rs:
\* begin).
THEOREM GrantsAlwaysSuffice == Spec => []GrantsSuffice
<1>1. Inductive => GrantsSuffice
  BY DEF Inductive, Granted, GrantsSuffice
<1> QED
  BY <1>1, InductiveHolds, PTL

\* The page shows the phases of the ledger it has seen, and the ledger those of
\* the handlers that run (receive.rs: update; ui/receive.rs: poll).
THEOREM ViewAlwaysAgrees == Spec => []ViewAgrees
<1>1. Inductive => ViewAgrees
  BY DEF Inductive
<1> QED
  BY <1>1, InductiveHolds, PTL

\* A page that lags behind the ledger will read it again, although the bytes of a
\* stream move without a revision (receive.rs: record_bytes; ui/receive.rs: poll).
THEOREM NothingEverHidden == Spec => []NothingHidden
<1>1. Inductive => NothingHidden
  BY DEF Inductive
<1> QED
  BY <1>1, InductiveHolds, PTL
=============================================================================
