-------------------------- MODULE StopProtocolProofs --------------------------
(***************************************************************************)
(* Theorems about StopProtocol: for any number of files and of attempts,   *)
(* the records of the two ends and what the user is shown agree.           *)
(***************************************************************************)
EXTENDS StopProtocol, FiniteSets, FiniteSetTheorems, TLAPS

-----------------------------------------------------------------------------
(* The inductive invariant.                                                *)

\* Message m waits in channel q, and how often.
Waits(q, m) == \E i \in 1..Len(q) : q[i] = m
Count(q, m) == Cardinality({i \in 1..Len(q) : q[i] = m})

\* The session on c is publishing the task, or Commit is on its way to it.
Committing(c) ==
    \/ handler[c] = "committing"
    \/ handler[c] = "receiving" /\ Waits(toReceiver[c], "Commit")

\* Only the current connection can be up. A reply travels on nothing else, and
\* a session that has not heard Begin was sent nothing else.
Linked ==
    /\ sender # "idle" => attempt > 0
    /\ \A c \in Connections :
          /\ c > attempt => /\ handler[c] = "none" /\ closed[c] = 0
                            /\ toReceiver[c] = <<>>
          /\ link[c] = "up" => c = attempt /\ sender \in Talking
          /\ link[c] # "up" => toSender[c] = <<>>
          /\ toSender[c] # <<>> => handler[c] \notin {"none", "accepted"}
          /\ handler[c] = "accepted" => toReceiver[c] \in {<<>>, <<"Begin">>}
    /\ sender \in {"sending", "stopping", "awaiting"} =>
          handler[attempt] \notin {"none", "accepted"}

\* No file is counted twice on its way there and back.
Counted ==
    /\ \A c \in Connections :
          closed[c] + Count(toReceiver[c], "File") <= FileCount
    /\ attempt > 0 =>
          /\ closed[attempt] + Count(toReceiver[attempt], "File") <= queued
          /\ completed + Count(toSender[attempt], "Closed") <= closed[attempt]

\* Commit, Pause and Cancel come from a sender that waits for their answer.
Asked ==
    /\ sender \in {"opening", "sending", "stopping"} =>
          /\ ~Waits(toReceiver[attempt], "Commit")
          /\ handler[attempt] # "committing"
    /\ sender \in {"opening", "sending", "awaiting"} =>
          /\ ~Waits(toReceiver[attempt], "Pause")
          /\ ~Waits(toReceiver[attempt], "Cancel")
          /\ handler[attempt] \notin {"pausing", "cancelling"}
          /\ ~Waits(toSender[attempt], "Stopped")

\* One session at a time holds the task, and none a published one.
Exclusive ==
    \A c \in Connections : handler[c] \in Holding =>
        /\ ~result
        /\ \A d \in Connections \ {c} : handler[d] \notin Holding

\* Whoever says the task is published knows it.
Published ==
    /\ \A c \in Connections :
          Waits(toSender[c], "Complete") \/ Waits(toSender[c], "ResumeSaved")
              => result
    /\ outcome = "saved" => result
    /\ task = "sent" => result

\* After Stopped no earlier Commit is left that could still be carried out.
Stopped ==
    \/ attempt > 0 /\ Waits(toSender[attempt], "Stopped")
    \/ outcome = "stopped"
    \/ task = "discarded"
Halted == Stopped => ~result /\ \A c \in Connections : ~Committing(c)

\* As long as the command stands, Cancel is what the receiver was told.
Steady ==
    ~switched /\ control = "Cancel" =>
        /\ sender = "stopping" =>
              /\ ~Waits(toReceiver[attempt], "Pause")
              /\ handler[attempt] # "pausing"
              /\ Waits(toSender[attempt], "Stopped") => attempt \in cleaned
        /\ sender \in {"ended", "decided"} /\ outcome = "stopped" =>
              attempt \in cleaned

\* Where the sender is, and what it has recorded by then.
Stage ==
    /\ task # "saved" => sender = "idle"
    /\ sender \in Talking => outcome = "none"
    /\ sender \in {"ended", "decided"} => outcome # "none"
    /\ sender = "decided" /\ ~switched =>
          /\ outcome = "saved" => shown = "Complete"
          /\ outcome = "failed" => shown = "Failed"
          /\ outcome = "stopped" =>
                shown = IF control = "Cancel" THEN "Cancelled" ELSE "Paused"

Inductive ==
    /\ TypeOK /\ Linked /\ Counted /\ Asked /\ Exclusive /\ Published
    /\ Halted /\ Steady /\ Stage
    /\ SteadyDiscardIsConfirmed /\ ShownAgrees

-----------------------------------------------------------------------------
(* Channels.                                                               *)

\* The positions of a message in a channel are finitely many.
LEMMA CountType ==
    ASSUME NEW S, NEW q \in Seq(S), NEW m
    PROVE  /\ IsFiniteSet({i \in 1..Len(q) : q[i] = m})
           /\ Count(q, m) \in Nat
<1>1. IsFiniteSet(1..Len(q)) BY FS_Interval
<1>2. IsFiniteSet({i \in 1..Len(q) : q[i] = m}) BY <1>1, FS_Subset
<1> QED BY <1>2, FS_CardinalityType DEF Count

\* An empty channel holds nothing.
LEMMA CountEmpty ==
    ASSUME NEW m
    PROVE  Count(<<>>, m) = 0
<1>1. {i \in 1..Len(<<>>) : <<>>[i] = m} = {} OBVIOUS
<1> QED BY <1>1, FS_EmptySet DEF Count

\* A message is counted once it is sent.
LEMMA CountAppend ==
    ASSUME NEW S, NEW q \in Seq(S), NEW x \in S, NEW m
    PROVE  Count(Append(q, x), m) =
               IF x = m THEN Count(q, m) + 1 ELSE Count(q, m)
<1> DEFINE At == {i \in 1..Len(q) : q[i] = m}
           n == Len(q) + 1
           New == {i \in 1..Len(Append(q, x)) : Append(q, x)[i] = m}
<1>1. IsFiniteSet(At) BY CountType
<1>0. n \notin At OBVIOUS
<1>2. CASE x = m
  <2>1. New = At \cup {n} BY <1>2
  <2>2. Cardinality(New) = Cardinality(At) + 1 BY <1>0, <1>1, <2>1,
          FS_AddElement
  <2> QED BY <1>2, <2>2 DEF Count
<1>3. CASE x # m
  <2>1. New = At BY <1>3
  <2> QED BY <1>3, <2>1 DEF Count
<1> QED BY <1>2, <1>3

\* It is not counted any more once it is taken.
LEMMA CountTail ==
    ASSUME NEW S, NEW q \in Seq(S), q # <<>>, NEW m
    PROVE  Count(q, m) =
               IF Head(q) = m THEN Count(Tail(q), m) + 1 ELSE Count(Tail(q), m)
<1> DEFINE At == {i \in 1..Len(q) : q[i] = m}
           Later == At \ {1}
           New == {i \in 1..Len(Tail(q)) : Tail(q)[i] = m}
           f == [i \in New |-> i + 1]
<1>1. IsFiniteSet(At)
  <2>1. IsFiniteSet({i \in 1..Len(q) : q[i] = m}) BY CountType
  <2> QED BY <2>1
<1>2. Tail(q) \in Seq(S) /\ Len(q) >= 1 /\ Len(Tail(q)) = Len(q) - 1
      /\ (\A i \in 1..Len(Tail(q)) : Tail(q)[i] = q[i + 1]) /\ Head(q) = q[1]
  OBVIOUS
<1>3. IsFiniteSet(New) BY <1>2, CountType
<1>4. f \in Bijection(New, Later)
  <2>1. f \in [New -> Later]
    <3>1. \A i \in New : i + 1 \in Later BY <1>2
    <3> QED BY <3>1
  <2>2. DOMAIN f = New /\ \A a, b \in New : f[a] = f[b] => a = b OBVIOUS
  <2>3. \A t \in Later : \E s \in New : f[s] = t
    <3> SUFFICES ASSUME NEW t \in Later PROVE t - 1 \in New /\ f[t - 1] = t
      OBVIOUS
    <3>1. t \in Nat /\ t >= 2 /\ t <= Len(q) /\ q[t] = m BY <1>2
    <3>2. t - 1 \in 1..Len(Tail(q)) /\ (t - 1) + 1 = t BY <1>2, <3>1
    <3>3. t - 1 \in New BY <1>2, <3>1, <3>2
    <3> QED BY <3>2, <3>3
  <2> HIDE DEF New, Later, f
  <2> QED BY <2>1, <2>2, <2>3 DEF Bijection, Injection, Surjection, IsInjective
<1>5. Cardinality(New) = Cardinality(Later)
  BY ZenonT(30), <1>3, <1>4, FS_Bijection DEF ExistsBijection
<1>6. Cardinality(Later) = IF 1 \in At THEN Cardinality(At) - 1 ELSE
        Cardinality(At)
  BY <1>1, FS_RemoveElement
<1>7. 1 \in At <=> Head(q) = m BY <1>2
<1>8. Cardinality(At) \in Nat BY <1>1, FS_CardinalityType
<1>9. Count(q, m) = Cardinality(At) /\ Count(Tail(q), m) = Cardinality(New)
  BY DEF Count
<1> HIDE DEF At, Later, New
<1> QED BY <1>5, <1>6, <1>7, <1>8, <1>9

\* No channel of g holds a message that channel of f does not ...
Kept(g, f) ==
    \A d \in Connections : \A m : Waits(g[d], m) => Waits(f[d], m)

\* ... and each at most as often.
Within(g, f) ==
    \A d \in Connections : \A m :
        /\ Count(f[d], m) \in Nat /\ Count(g[d], m) \in Nat
        /\ Count(g[d], m) <= Count(f[d], m)

\* The same, but for one more x on c.
KeptBut(g, f, c, x) ==
    \A d \in Connections : \A m :
        Waits(g[d], m) => Waits(f[d], m) \/ (d = c /\ m = x)

WithinBut(g, f, c, x) ==
    \A d \in Connections : \A m :
        /\ Count(f[d], m) \in Nat /\ Count(g[d], m) \in Nat
        /\ Count(g[d], m) <= IF d = c /\ m = x THEN Count(f[d], m) + 1
                             ELSE Count(f[d], m)

\* Channels that are left alone or emptied hold no more than before.
LEMMA Emptied ==
    ASSUME NEW S, NEW f \in [Connections -> Seq(S)], NEW g,
           \A d \in Connections : g[d] = f[d] \/ g[d] = <<>>
    PROVE  Kept(g, f) /\ Within(g, f)
<1> SUFFICES ASSUME NEW d \in Connections, NEW m
             PROVE  /\ Waits(g[d], m) => Waits(f[d], m)
                    /\ Count(f[d], m) \in Nat /\ Count(g[d], m) \in Nat
                    /\ Count(g[d], m) <= Count(f[d], m)
  BY DEF Kept, Within
<1>1. f[d] \in Seq(S) OBVIOUS
<1>2. Count(f[d], m) \in Nat BY <1>1, CountType
<1>3. g[d] = f[d] \/ g[d] = <<>> OBVIOUS
<1>4. ~Waits(<<>>, m) BY DEF Waits
<1> QED BY ONLY <1>2, <1>3, <1>4, CountEmpty

\* A channel that takes a message holds one more of it.
LEMMA Extended ==
    ASSUME NEW S, NEW f \in [Connections -> Seq(S)], NEW g,
           NEW c \in Connections, NEW x \in S,
           g = f \/ g = [f EXCEPT ![c] = Append(@, x)]
    PROVE  /\ g \in [Connections -> Seq(S)]
           /\ \A d \in Connections : d # c => g[d] = f[d]
           /\ KeptBut(g, f, c, x) /\ WithinBut(g, f, c, x)
<1>1. f[c] \in Seq(S) /\ Append(f[c], x) \in Seq(S) /\ Append(f[c], x) # <<>>
  OBVIOUS
<1>2. \A d \in Connections :
          g[d] = f[d] \/ (d = c /\ g[d] = Append(f[c], x))
  <2>1. CASE g = f BY <2>1
  <2>2. CASE g = [f EXCEPT ![c] = Append(@, x)] BY <2>2
  <2> QED BY <2>1, <2>2
<1>3. g \in [Connections -> Seq(S)] BY <1>1
<1>4. ASSUME NEW d \in Connections, NEW m
      PROVE  /\ Count(f[d], m) \in Nat /\ Count(g[d], m) \in Nat
             /\ Count(g[d], m) <=
                    IF d = c /\ m = x THEN Count(f[d], m) + 1 ELSE Count(f[d],
                      m)
             /\ Waits(g[d], m) => Waits(f[d], m) \/ (d = c /\ m = x)
  <2>1. f[d] \in Seq(S) /\ g[d] \in Seq(S) BY <1>3
  <2>2. Count(f[d], m) \in Nat /\ Count(g[d], m) \in Nat BY <2>1, CountType
  <2>3. CASE d = c /\ g[d] = Append(f[c], x)
    <3>1. Count(g[d], m) = IF x = m THEN Count(f[d], m) + 1 ELSE Count(f[d], m)
      BY <1>1, <1>2, <2>3, CountAppend
    <3>2. Waits(g[d], m) => Waits(f[d], m) \/ m = x
      BY <1>1, <1>2, <2>3 DEF Waits
    <3> QED BY ONLY <2>2, <2>3, <3>1, <3>2
  <2>4. CASE g[d] = f[d] BY ONLY <2>2, <2>4
  <2> QED BY <1>2, <2>3, <2>4
<1>5. KeptBut(g, f, c, x) /\ WithinBut(g, f, c, x)
  BY ONLY <1>4 DEF KeptBut, WithinBut
<1> QED BY ONLY <1>1, <1>2, <1>3, <1>5

\* A channel that gives up its first message holds one less of it.
LEMMA Shortened ==
    ASSUME NEW S, NEW f \in [Connections -> Seq(S)], NEW g,
           NEW c \in Connections, f[c] # <<>>, g = [f EXCEPT ![c] = Tail(@)]
    PROVE  /\ g \in [Connections -> Seq(S)]
           /\ \A d \in Connections : d # c => g[d] = f[d]
           /\ Kept(g, f) /\ Within(g, f)
           /\ Waits(f[c], Head(f[c]))
           /\ Count(g[c], Head(f[c])) < Count(f[c], Head(f[c]))
<1>1. f[c] \in Seq(S) /\ Tail(f[c]) \in Seq(S) OBVIOUS
<1>2. \A d \in Connections : g[d] = IF d = c THEN Tail(f[c]) ELSE f[d] OBVIOUS
<1>3. g \in [Connections -> Seq(S)] BY <1>1
<1>4. Count(g[c], Head(f[c])) < Count(f[c], Head(f[c]))
  <2>1. Count(f[c], Head(f[c])) = Count(g[c], Head(f[c])) + 1
    BY <1>1, <1>2, CountTail
  <2>2. Count(g[c], Head(f[c])) \in Nat BY <1>3, CountType
  <2> QED BY ONLY <2>1, <2>2
<1>5. ASSUME NEW d \in Connections, NEW m
      PROVE  /\ Count(f[d], m) \in Nat /\ Count(g[d], m) \in Nat
             /\ Count(g[d], m) <= Count(f[d], m)
             /\ Waits(g[d], m) => Waits(f[d], m)
  <2>1. f[d] \in Seq(S) /\ g[d] \in Seq(S) BY <1>3
  <2>2. Count(f[d], m) \in Nat /\ Count(g[d], m) \in Nat BY <2>1, CountType
  <2>3. CASE d = c
    <3>1. Count(f[d], m) = IF Head(f[c]) = m THEN Count(g[d], m) + 1
                           ELSE Count(g[d], m)
      BY <1>1, <1>2, <2>3, CountTail
    <3>2. /\ Len(Tail(f[c])) = Len(f[c]) - 1 /\ Len(f[c]) \in Nat
          /\ \A i \in 1..Len(Tail(f[c])) : Tail(f[c])[i] = f[c][i + 1]
      BY <1>1
    <3>3. ASSUME Waits(g[d], m) PROVE Waits(f[d], m)
      <4>1. PICK i \in 1..Len(Tail(f[c])) : Tail(f[c])[i] = m
        BY <1>2, <2>3, <3>3 DEF Waits
      <4>2. i + 1 \in 1..Len(f[c]) /\ f[c][i + 1] = m BY <3>2, <4>1
      <4> QED BY <2>3, <4>2 DEF Waits
    <3> QED BY ONLY <2>2, <3>1, <3>3
  <2>4. CASE d # c
    <3>1. g[d] = f[d] BY <1>2, <2>4
    <3> QED BY ONLY <2>2, <3>1
  <2> QED BY <2>3, <2>4
<1>6. Kept(g, f) /\ Within(g, f) BY ONLY <1>5 DEF Kept, Within
<1>7. Waits(f[c], Head(f[c]))
  <2>1. 1 \in 1..Len(f[c]) /\ Head(f[c]) = f[c][1] BY <1>1
  <2> QED BY <2>1 DEF Waits
<1> QED BY ONLY <1>2, <1>3, <1>4, <1>6, <1>7

\* What the sender has got was waiting.
LEMMA GotWaits ==
    ASSUME TypeOK, attempt \in Connections, NEW kinds, Got(kinds)
    PROVE  \E m \in kinds : Waits(toSender[attempt], m)
<1>1. /\ toSender[attempt] \in Seq(Replies) /\ toSender[attempt] # <<>>
      /\ Head(toSender[attempt]) \in kinds
  BY DEF Got, TypeOK
<1>2. 1 \in 1..Len(toSender[attempt])
      /\ Head(toSender[attempt]) = toSender[attempt][1]
  BY <1>1
<1>3. Waits(toSender[attempt], Head(toSender[attempt])) BY <1>2 DEF Waits
<1> QED BY <1>1, <1>3

\* Nothing is counted twice while no more files and answers are on their way.
LEMMA CountedStays ==
    ASSUME Counted, attempt > 0 => attempt \in Connections,
           \A d \in Connections :
               /\ closed[d] \in Nat
               /\ Count(toReceiver[d], "File") \in Nat
               /\ Count(toReceiver'[d], "File") \in Nat
               /\ Count(toReceiver'[d], "File") <= Count(toReceiver[d], "File")
               /\ Count(toSender[d], "Closed") \in Nat
               /\ Count(toSender'[d], "Closed") \in Nat
               /\ Count(toSender'[d], "Closed") <= Count(toSender[d], "Closed"),
           FileCount \in Nat, queued \in Nat, completed \in Nat,
           UNCHANGED <<attempt, queued, completed, closed>>
    PROVE  Counted'
<1>1. ASSUME NEW c \in Connections
      PROVE  closed[c] + Count(toReceiver'[c], "File") <= FileCount
  <2>1. closed[c] + Count(toReceiver[c], "File") <= FileCount BY DEF Counted
  <2> QED BY <2>1
<1>2. ASSUME attempt > 0
      PROVE  /\ closed[attempt] + Count(toReceiver'[attempt], "File") <= queued
             /\ completed + Count(toSender'[attempt], "Closed") <=
                  closed[attempt]
  <2>1. /\ closed[attempt] + Count(toReceiver[attempt], "File") <= queued
        /\ completed + Count(toSender[attempt], "Closed") <= closed[attempt]
    BY <1>2 DEF Counted
  <2> QED BY <1>2, <2>1
<1> QED BY <1>1, <1>2 DEF Counted

-----------------------------------------------------------------------------
(* Every step keeps the invariant.                                         *)

\* What the sender shows and records, case by case.
LEMMA Statuses ==
    /\ outcome = "saved" => FinalStatus = "Complete"
    /\ outcome = "failed" => FinalStatus = "Failed"
    /\ outcome = "stopped" =>
          FinalStatus = IF control = "Cancel" THEN "Cancelled" ELSE "Paused"
<1>1. CASE outcome = "saved" BY <1>1 DEF FinalStatus
<1>2. CASE outcome = "failed" BY <1>2 DEF FinalStatus
<1>3. CASE outcome = "stopped" BY <1>3 DEF FinalStatus
<1> QED BY <1>1, <1>2, <1>3

LEMMA Records ==
    /\ outcome = "saved" => Recorded = "sent"
    /\ outcome = "stopped" /\ control = "Cancel" => Recorded = "discarded"
    /\ outcome # "saved" /\ ~(outcome = "stopped" /\ control = "Cancel") =>
          Recorded = task
<1>1. CASE outcome = "saved" BY <1>1 DEF Recorded
<1>2. CASE outcome = "stopped" /\ control = "Cancel" BY <1>2 DEF Recorded
<1>3. CASE outcome # "saved" /\ ~(outcome = "stopped" /\ control = "Cancel")
  BY <1>3 DEF Recorded
<1> QED BY <1>1, <1>2, <1>3

\* One step per action. Each begins with what the action does to the channels;
\* the parts of the invariant it does not touch come last.
LEMMA InductiveStep ==
    ASSUME Inductive, [Next]_vars
    PROVE  Inductive'
<1> SUFFICES ASSUME TypeOK, Linked, Counted, Asked, Exclusive, Published,
                    Halted, Steady, Stage, SteadyDiscardIsConfirmed, ShownAgrees
             PROVE  Inductive'
  BY DEF Inductive
<1>1. /\ toReceiver \in [Connections -> Seq(Requests)]
      /\ toSender \in [Connections -> Seq(Replies)]
  BY DEF TypeOK
<1>2. \A c \in Connections : c \in Nat BY DEF Connections
<1>3. sender # "idle" \/ attempt > 0 => attempt \in Connections
  BY DEF TypeOK, Linked, Connections
<1>4. /\ Kept(toReceiver, toReceiver) /\ Kept(toSender, toSender)
      /\ Within(toReceiver, toReceiver) /\ Within(toSender, toSender)
  BY <1>1, Emptied
<1>5. /\ handler \in [Connections ->
                        {"none", "accepted", "ended"} \cup Holding]
      /\ link \in [Connections -> {"new", "up", "left", "cut"}]
      /\ closed \in [Connections -> 0..FileCount]
  BY DEF TypeOK
<1>6. attempt \in Nat /\ FileCount \in Nat BY StopAssumption DEF TypeOK
<1>7. /\ attempt \in Nat /\ FileCount \in Nat
      /\ queued \in Nat /\ completed \in Nat
      /\ \A c \in Connections : closed[c] \in Nat
  BY StopAssumption DEF TypeOK
<1>8. ASSUME NEW command \in {"Run", "Cancel"}, Start(command)
      PROVE  Inductive'
  <2>1. /\ attempt' = attempt + 1 /\ attempt + 1 \in Connections
    BY StopAssumption, <1>6, <1>8 DEF Start, Connections
  <2>2. /\ toReceiver' \in [Connections -> Seq(Requests)]
        /\ \A d \in Connections : toReceiver'[d] =
              IF d = attempt + 1 THEN <<"Begin">> ELSE toReceiver[d]
        /\ KeptBut(toReceiver', toReceiver, attempt + 1, "Begin")
        /\ WithinBut(toReceiver', toReceiver, attempt + 1, "Begin")
    <3>1. toReceiver' = [toReceiver EXCEPT ![attempt + 1] = <<"Begin">>]
      BY <2>1, <1>8 DEF Start
    <3>2. toReceiver[attempt + 1] = <<>> BY <1>6, <2>1, <1>8 DEF Linked, Start
    <3>3. <<"Begin">> = Append(<<>>, "Begin") OBVIOUS
    <3>4. toReceiver' = [toReceiver EXCEPT ![attempt + 1] = Append(@, "Begin")]
      BY <1>1, <3>1, <3>2, <3>3
    <3>5. "Begin" \in Requests BY DEF Requests
    <3> QED BY <1>1, <2>1, <3>1, <3>4, <3>5, Extended
  <2>3. \A d \in Connections :
            /\ handler'[d] = IF d = attempt + 1 THEN "accepted" ELSE handler[d]
            /\ link'[d] = IF d = attempt + 1 THEN "up" ELSE link[d]
    BY <1>5, <2>1, <1>8 DEF Start
  <2>4. /\ handler' \in [Connections ->
                           {"none", "accepted", "ended"} \cup Holding]
        /\ link' \in [Connections -> {"new", "up", "left", "cut"}]
    BY <1>5, <2>1, <1>8 DEF Start
  <2>5. /\ closed[attempt + 1] = 0
        /\ toSender[attempt + 1] = <<>>
        /\ \A m : /\ ~Waits(toSender[attempt + 1], m)
                  /\ Count(toSender[attempt + 1], m) = 0
                  /\ Waits(toReceiver'[attempt + 1], m) => m = "Begin"
        /\ Count(toReceiver'[attempt + 1], "File") = 0
    <3>1. /\ closed[attempt + 1] = 0 /\ toSender[attempt + 1] = <<>>
          /\ toReceiver[attempt + 1] = <<>>
      BY <1>6, <2>1, <1>8 DEF Linked, Start
    <3>2. \A m : ~Waits(<<>>, m) /\ Count(<<>>, m) = 0 BY CountEmpty DEF Waits
    <3>3. \A m : Waits(toReceiver'[attempt + 1], m) => m = "Begin"
      BY <2>1, <2>2, <3>1, <3>2 DEF KeptBut
    <3>4. Count(toReceiver'[attempt + 1], "File") = 0
      BY <2>1, <2>2, <3>1, <3>2 DEF WithinBut
    <3> QED BY ONLY <3>1, <3>2, <3>3, <3>4
  <2>6. TypeOK'
    <3>1. /\ control' \in Commands /\ attempt' \in 0..MaxAttempts
          /\ sender' = "opening" /\ queued' = 0 /\ completed' = 0
          /\ outcome' = "none" /\ shown' = "active" /\ switched' = FALSE
          /\ UNCHANGED <<task, toSender, closed, part, staging, result,
               cleaned>>
      BY <2>1, <1>8 DEF Start, Commands, Connections
    <3>2. 0 \in 0..FileCount BY <1>7
    <3> QED BY <2>2, <2>4, <3>1, <3>2 DEF TypeOK, Talking
  <2>7. Linked'
    BY <1>2, <1>3, <1>6, <1>8, <2>1, <2>2, <2>3, <2>4, <2>5
    DEF Linked, Talking, Start
  <2>8. Counted'
    BY <1>3, <1>4, <1>7, <1>8, <2>1, <2>2, <2>3, <2>4, <2>5
    DEF Counted, Within, WithinBut, Start
  <2>9. Asked'
    BY <1>3, <1>4, <1>8, <2>1, <2>2, <2>3, <2>4, <2>5
    DEF Asked, Kept, KeptBut, Start
  <2>10. Exclusive'
    BY <1>8, <2>1, <2>2, <2>3, <2>4, <2>5
    DEF Exclusive, Holding, Start
  <2>11. Published'
    BY <1>4, <1>8, <2>1, <2>2, <2>3, <2>4, <2>5
    DEF Published, Kept, KeptBut, Start
  <2>12. Halted'
    BY <1>3, <1>4, <1>8, <2>1, <2>2, <2>3, <2>4, <2>5
    DEF Halted, Stopped, Committing, Kept, KeptBut, Start
  <2>13. Steady'
    BY <1>3, <1>4, <1>8, <2>1, <2>2, <2>3, <2>4, <2>5
    DEF Steady, Kept, KeptBut, Start
  <2>14. Stage'
    BY <1>8, <2>1, <2>2, <2>3, <2>4, <2>5
    DEF Stage, Talking, Start
  <2>15. SteadyDiscardIsConfirmed'
    BY <1>8, <2>1, <2>2, <2>3, <2>4, <2>5
    DEF SteadyDiscardIsConfirmed, DiscardIsConfirmed, Start
  <2>16. ShownAgrees'
    BY <1>8, <2>1, <2>2, <2>3, <2>4, <2>5
    DEF ShownAgrees, Start
  <2> QED BY <2>6, <2>7, <2>8, <2>9, <2>10, <2>11, <2>12, <2>13, <2>14, <2>15,
               <2>16 DEF Inductive
<1>9. ASSUME NEW command \in {"Pause", "Cancel"}, Press(command)
      PROVE  Inductive'
  <2>1. TypeOK'
    BY <1>9
    DEF TypeOK, Commands, Talking, Holding, Press, receiverVars
  <2>2. Steady'
    BY <1>3, <1>4, <1>9
    DEF Steady, Kept, KeptBut, Press, receiverVars
  <2>3. Stage'
    BY <1>9
    DEF Stage, Talking, Press, receiverVars
  <2>4. SteadyDiscardIsConfirmed'
    BY <1>9
    DEF SteadyDiscardIsConfirmed, DiscardIsConfirmed, Press, receiverVars
  <2>5. ShownAgrees'
    BY <1>9
    DEF ShownAgrees, Press, receiverVars
  <2>6. Linked' /\ Counted' /\ Asked' /\ Exclusive' /\ Published' /\ Halted'
    BY <1>9 DEF Linked, Talking, Counted, Asked, Exclusive, Published, Halted,
                Stopped, Committing, Press, receiverVars
  <2> QED BY <2>1, <2>2, <2>3, <2>4, <2>5, <2>6 DEF Inductive
<1>10. ASSUME Resumed
      PROVE  Inductive'
  <2>1. /\ toSender' \in [Connections -> Seq(Replies)]
        /\ \A d \in Connections : d # attempt => toSender'[d] = toSender[d]
        /\ toSender[attempt] # <<>> /\ Head(toSender[attempt]) \in {"Resume"}
        /\ Waits(toSender[attempt], Head(toSender[attempt]))
        /\ Kept(toSender', toSender) /\ Within(toSender', toSender)
        /\ Count(toSender'[attempt], Head(toSender[attempt])) <
               Count(toSender[attempt], Head(toSender[attempt]))
    <3>1. Got({"Resume"}) /\ Take /\ attempt \in Connections
      BY <1>3, <1>10 DEF Resumed, Got
    <3>2. toSender[attempt] # <<>> /\ Head(toSender[attempt]) \in {"Resume"}
      BY <3>1 DEF Got
    <3>3. toSender' = [toSender EXCEPT ![attempt] = Tail(@)] BY <3>1 DEF Take
    <3>4. /\ toSender' \in [Connections -> Seq(Replies)]
          /\ \A d \in Connections : d # attempt => toSender'[d] = toSender[d]
          /\ Kept(toSender', toSender) /\ Within(toSender', toSender)
          /\ Waits(toSender[attempt], Head(toSender[attempt]))
          /\ Count(toSender'[attempt], Head(toSender[attempt])) <
                 Count(toSender[attempt], Head(toSender[attempt]))
      BY <1>1, <3>1, <3>2, <3>3, Shortened
    <3> QED BY ONLY <3>2, <3>4
  <2>2. TypeOK'
    BY <1>10, <2>1
    DEF TypeOK, Commands, Talking, Holding, Resumed, receiverVars
  <2>3. Linked'
    BY <1>2, <1>3, <1>6, <1>10, <2>1
    DEF Linked, Talking, Resumed, receiverVars
  <2>4. Counted'
    <3>1. \A d \in Connections :
            /\ Count(toReceiver[d], "File") \in Nat
            /\ Count(toReceiver'[d], "File") \in Nat
            /\ Count(toReceiver'[d], "File") <= Count(toReceiver[d], "File")
            /\ Count(toSender[d], "Closed") \in Nat
            /\ Count(toSender'[d], "Closed") \in Nat
            /\ Count(toSender'[d], "Closed") <= Count(toSender[d], "Closed")
      BY <1>4, <1>10, <2>1 DEF Within, WithinBut, Resumed, receiverVars
    <3>2. UNCHANGED <<attempt, queued, completed, closed>> BY <1>10 DEF
            Resumed, receiverVars
    <3> QED BY <1>3, <1>7, <3>1, <3>2, CountedStays
  <2>5. Asked'
    BY <1>3, <1>4, <1>10, <2>1
    DEF Asked, Kept, KeptBut, Resumed, receiverVars
  <2>6. Published'
    BY <1>4, <1>10, <2>1
    DEF Published, Kept, KeptBut, Resumed, receiverVars
  <2>7. Halted'
    BY <1>3, <1>4, <1>10, <2>1
    DEF Halted, Stopped, Committing, Kept, KeptBut, Resumed, receiverVars
  <2>8. Steady'
    BY <1>3, <1>4, <1>10, <2>1
    DEF Steady, Kept, KeptBut, Resumed, receiverVars
  <2>9. Stage'
    BY <1>10, <2>1
    DEF Stage, Talking, Resumed, receiverVars
  <2>10. ShownAgrees'
    BY <1>10, <2>1
    DEF ShownAgrees, Resumed, receiverVars
  <2>11. Exclusive' /\ SteadyDiscardIsConfirmed'
    BY <1>10 DEF Exclusive, SteadyDiscardIsConfirmed, DiscardIsConfirmed,
                 Resumed, receiverVars
  <2> QED BY <2>2, <2>3, <2>4, <2>5, <2>6, <2>7, <2>8, <2>9, <2>10, <2>11 DEF
               Inductive
<1>11. ASSUME Confirmed
      PROVE  Inductive'
  <2>1. /\ toSender' \in [Connections -> Seq(Replies)]
        /\ \A d \in Connections :
              toSender'[d] = IF d = attempt THEN <<>> ELSE toSender[d]
        /\ link' \in [Connections -> {"new", "up", "left", "cut"}]
        /\ \A d \in Connections :
              link'[d] = IF d = attempt /\ link[d] = "up" THEN "left" ELSE
                link[d]
        /\ Kept(toSender', toSender) /\ Within(toSender', toSender)
    <3>1. /\ toSender' = [toSender EXCEPT ![attempt] = <<>>]
          /\ link' = [link EXCEPT ![attempt] = IF @ = "up" THEN "left" ELSE @]
      BY <1>11 DEF Confirmed, End
    <3>2. \A d \in Connections :
             toSender'[d] = IF d = attempt THEN <<>> ELSE toSender[d]
      BY <1>1, <3>1
    <3>3. Kept(toSender', toSender) /\ Within(toSender', toSender)
      <4>1. \A d \in Connections : toSender'[d] = toSender[d] \/ toSender'[d]
              = <<>>
        BY ONLY <3>2
      <4>2. toSender \in [Connections -> Seq(Replies)] BY <1>1
      <4> QED BY ONLY <4>1, <4>2, Emptied
    <3>4. toSender' \in [Connections -> Seq(Replies)]
      <4>1. <<>> \in Seq(Replies) OBVIOUS
      <4>2. \A q \in Seq(Replies) :
              [toSender EXCEPT ![attempt] = q] \in [Connections -> Seq(Replies)]
        BY ONLY <1>1
      <4> QED BY ONLY <3>1, <4>1, <4>2
    <3>5. /\ link' \in [Connections -> {"new", "up", "left", "cut"}]
          /\ \A d \in Connections : link'[d] =
                IF d = attempt /\ link[d] = "up" THEN "left" ELSE link[d]
      BY <1>5, <3>1
    <3> QED BY <3>2, <3>3, <3>4, <3>5
  <2>2. /\ outcome' = "saved" /\ result /\ attempt \in Connections
    <3>1. attempt \in Connections /\ Got({"ResumeSaved", "Complete"})
      BY <1>3, <1>11 DEF Confirmed, Got
    <3>2. PICK m \in {"ResumeSaved", "Complete"} : Waits(toSender[attempt], m)
      BY <3>1, GotWaits
    <3> QED BY <3>1, <3>2, <1>11 DEF Confirmed, End, Published
  <2>3. TypeOK'
    BY <1>11, <2>1, <2>2
    DEF TypeOK, Commands, Talking, Holding, Confirmed, End, receiverVars
  <2>4. Linked'
    BY <1>2, <1>3, <1>6, <1>11, <2>1, <2>2
    DEF Linked, Talking, Confirmed, End, receiverVars
  <2>5. Counted'
    <3>1. \A d \in Connections :
            /\ Count(toReceiver[d], "File") \in Nat
            /\ Count(toReceiver'[d], "File") \in Nat
            /\ Count(toReceiver'[d], "File") <= Count(toReceiver[d], "File")
            /\ Count(toSender[d], "Closed") \in Nat
            /\ Count(toSender'[d], "Closed") \in Nat
            /\ Count(toSender'[d], "Closed") <= Count(toSender[d], "Closed")
      BY <1>4, <1>11, <2>1, <2>2 DEF Within, WithinBut, Confirmed, End,
         receiverVars
    <3>2. UNCHANGED <<attempt, queued, completed, closed>> BY <1>11 DEF
            Confirmed, End, receiverVars
    <3> QED BY <1>3, <1>7, <3>1, <3>2, CountedStays
  <2>6. Asked'
    BY <1>3, <1>4, <1>11, <2>1, <2>2
    DEF Asked, Kept, KeptBut, Confirmed, End, receiverVars
  <2>7. Published'
    BY <1>4, <1>11, <2>1, <2>2
    DEF Published, Kept, KeptBut, Confirmed, End, receiverVars
  <2>8. Halted'
    BY <1>3, <1>4, <1>11, <2>1, <2>2
    DEF Halted, Stopped, Committing, Kept, KeptBut, Confirmed, End, receiverVars
  <2>9. Steady'
    BY <1>3, <1>4, <1>11, <2>1, <2>2
    DEF Steady, Kept, KeptBut, Confirmed, End, receiverVars
  <2>10. Stage'
    BY <1>11, <2>1, <2>2
    DEF Stage, Talking, Confirmed, End, receiverVars
  <2>11. ShownAgrees'
    BY <1>11, <2>1, <2>2
    DEF ShownAgrees, Confirmed, End, receiverVars
  <2>12. Exclusive' /\ SteadyDiscardIsConfirmed'
    BY <1>11 DEF Exclusive, SteadyDiscardIsConfirmed, DiscardIsConfirmed,
                 Confirmed, End, receiverVars
  <2> QED BY <2>3, <2>4, <2>5, <2>6, <2>7, <2>8, <2>9, <2>10, <2>11, <2>12 DEF
               Inductive
<1>12. ASSUME SendFile
      PROVE  Inductive'
  <2>1. /\ toReceiver' \in [Connections -> Seq(Requests)]
        /\ \A d \in Connections :
              d # attempt \/ link[attempt] # "up" => toReceiver'[d] =
                toReceiver[d]
        /\ KeptBut(toReceiver', toReceiver, attempt, "File")
        /\ WithinBut(toReceiver', toReceiver, attempt, "File")
    <3>1. "File" \in Requests /\ Post("File") /\ attempt \in Connections
      BY <1>3, <1>12 DEF SendFile, Requests, TypeOK, Commands
    <3>2. \/ toReceiver' = toReceiver
          \/ toReceiver' = [toReceiver EXCEPT ![attempt] = Append(@, "File")]
      BY <1>1, <3>1 DEF Post
    <3>3. link[attempt] # "up" => toReceiver' = toReceiver
      BY <1>1, <3>1 DEF Post
    <3> QED BY <1>1, <3>1, <3>2, <3>3, Extended
  <2>2. TypeOK'
    BY <1>7, <1>12, <2>1
    DEF TypeOK, Commands, Talking, Holding, SendFile, receiverVars, MoreFiles
  <2>3. Linked'
    BY <1>2, <1>3, <1>6, <1>12, <2>1
    DEF Linked, Talking, SendFile, receiverVars
  <2>4. Counted'
    <3>1. /\ attempt \in Connections /\ queued + 1 <= FileCount
          /\ queued' = queued + 1
          /\ UNCHANGED <<attempt, completed, closed, toSender>>
      BY <1>3, <1>7, <1>12 DEF SendFile, MoreFiles, receiverVars
    <3>2. /\ closed[attempt] + Count(toReceiver[attempt], "File") <= queued
          /\ completed + Count(toSender[attempt], "Closed") <= closed[attempt]
      BY <1>3, <1>7, <3>1 DEF Counted, Connections
    <3>3. ASSUME NEW d \in Connections
          PROVE  closed[d] + Count(toReceiver'[d], "File") <= FileCount
      <4>1. closed[d] + Count(toReceiver[d], "File") <= FileCount
        BY DEF Counted
      <4>2. /\ Count(toReceiver[d], "File") \in Nat
            /\ Count(toReceiver'[d], "File") \in Nat
            /\ Count(toReceiver'[d], "File") <=
                  IF d = attempt THEN Count(toReceiver[d], "File") + 1
                  ELSE Count(toReceiver[d], "File")
        BY <2>1 DEF WithinBut
      <4>3. closed[d] \in Nat BY <1>7
      <4> QED BY ONLY <1>7, <3>1, <3>2, <4>1, <4>2, <4>3
    <3>4. closed[attempt] + Count(toReceiver'[attempt], "File") <= queued + 1
      <4>1. /\ Count(toReceiver[attempt], "File") \in Nat
            /\ Count(toReceiver'[attempt], "File") \in Nat
            /\ Count(toReceiver'[attempt], "File") <=
                  Count(toReceiver[attempt], "File") + 1
        BY <2>1, <3>1 DEF WithinBut
      <4>2. closed[attempt] \in Nat BY <1>7, <3>1
      <4> QED BY ONLY <1>7, <3>2, <4>1, <4>2
    <3> QED BY <3>1, <3>2, <3>3, <3>4 DEF Counted
  <2>5. Asked'
    <3>1. /\ sender = "sending"
          /\ UNCHANGED <<sender, attempt, toSender, handler>>
      BY <1>12 DEF SendFile, receiverVars
    <3>2. \A m : Waits(toReceiver'[attempt], m) =>
                   Waits(toReceiver[attempt], m) \/ m = "File"
      BY <1>3, <2>1, <3>1 DEF KeptBut
    <3> QED BY <3>1, <3>2 DEF Asked
  <2>6. Halted'
    BY <1>3, <1>4, <1>12, <2>1
    DEF Halted, Stopped, Committing, Kept, KeptBut, SendFile, receiverVars
  <2>7. Steady'
    BY <1>3, <1>4, <1>12, <2>1
    DEF Steady, Kept, KeptBut, SendFile, receiverVars
  <2>8. Exclusive' /\ Published' /\ Stage' /\ SteadyDiscardIsConfirmed' /\
          ShownAgrees'
    BY <1>12 DEF Exclusive, Published, Stage, Talking,
                 SteadyDiscardIsConfirmed, DiscardIsConfirmed, ShownAgrees,
                   SendFile, receiverVars
  <2> QED BY <2>2, <2>3, <2>4, <2>5, <2>6, <2>7, <2>8 DEF Inductive
<1>13. ASSUME FileDone
      PROVE  Inductive'
  <2>1. /\ toSender' \in [Connections -> Seq(Replies)]
        /\ \A d \in Connections : d # attempt => toSender'[d] = toSender[d]
        /\ toSender[attempt] # <<>> /\ Head(toSender[attempt]) \in {"Closed"}
        /\ Waits(toSender[attempt], Head(toSender[attempt]))
        /\ Kept(toSender', toSender) /\ Within(toSender', toSender)
        /\ Count(toSender'[attempt], Head(toSender[attempt])) <
               Count(toSender[attempt], Head(toSender[attempt]))
    <3>1. Got({"Closed"}) /\ Take /\ attempt \in Connections
      BY <1>3, <1>13 DEF FileDone, Got
    <3>2. toSender[attempt] # <<>> /\ Head(toSender[attempt]) \in {"Closed"}
      BY <3>1 DEF Got
    <3>3. toSender' = [toSender EXCEPT ![attempt] = Tail(@)] BY <3>1 DEF Take
    <3>4. /\ toSender' \in [Connections -> Seq(Replies)]
          /\ \A d \in Connections : d # attempt => toSender'[d] = toSender[d]
          /\ Kept(toSender', toSender) /\ Within(toSender', toSender)
          /\ Waits(toSender[attempt], Head(toSender[attempt]))
          /\ Count(toSender'[attempt], Head(toSender[attempt])) <
                 Count(toSender[attempt], Head(toSender[attempt]))
      BY <1>1, <3>1, <3>2, <3>3, Shortened
    <3> QED BY ONLY <3>2, <3>4
  <2>2. /\ attempt \in Connections /\ completed + 1 \in 0..FileCount
        /\ Count(toSender'[attempt], "Closed") < Count(toSender[attempt],
             "Closed")
    <3>1. Head(toSender[attempt]) = "Closed" BY <2>1
    <3>2. Count(toSender'[attempt], "Closed") < Count(toSender[attempt],
            "Closed")
      BY ONLY <2>1, <3>1
    <3>3. attempt \in Connections BY <1>3, <1>13 DEF FileDone
    <3>4. attempt > 0 BY <1>13 DEF FileDone, Got
    <3>5. completed + Count(toSender[attempt], "Closed") <= closed[attempt]
      BY <3>4 DEF Counted
    <3>6. Count(toSender'[attempt], "Closed") \in Nat BY <2>1, <3>3 DEF Within
    <3>7. closed[attempt] \in 0..FileCount BY <1>5, <3>3
    <3>8. Count(toSender[attempt], "Closed") \in Nat BY <2>1, <3>3 DEF Within
    <3>9. completed + 1 \in 0..FileCount
      BY ONLY <1>7, <3>2, <3>5, <3>6, <3>7, <3>8
    <3> QED BY ONLY <3>2, <3>3, <3>9
  <2>3. TypeOK'
    BY <1>7, <1>13, <2>1, <2>2
    DEF TypeOK, Commands, Talking, Holding, FileDone, receiverVars
  <2>4. Linked'
    BY <1>2, <1>3, <1>6, <1>13, <2>1, <2>2
    DEF Linked, Talking, FileDone, receiverVars
  <2>5. Counted'
    BY SMTT(30), <1>3, <1>4, <1>7, <1>13, <2>1, <2>2
    DEF Counted, Within, WithinBut, FileDone, receiverVars
  <2>6. Asked'
    BY <1>3, <1>4, <1>13, <2>1, <2>2
    DEF Asked, Kept, KeptBut, FileDone, receiverVars
  <2>7. Published'
    BY <1>4, <1>13, <2>1, <2>2
    DEF Published, Kept, KeptBut, FileDone, receiverVars
  <2>8. Halted'
    BY <1>3, <1>4, <1>13, <2>1, <2>2
    DEF Halted, Stopped, Committing, Kept, KeptBut, FileDone, receiverVars
  <2>9. Steady'
    BY <1>3, <1>4, <1>13, <2>1, <2>2
    DEF Steady, Kept, KeptBut, FileDone, receiverVars
  <2>10. Exclusive' /\ Stage' /\ SteadyDiscardIsConfirmed' /\ ShownAgrees'
    BY <1>13 DEF Exclusive, Stage, Talking, SteadyDiscardIsConfirmed,
                 DiscardIsConfirmed, ShownAgrees, FileDone, receiverVars
  <2> QED BY <2>3, <2>4, <2>5, <2>6, <2>7, <2>8, <2>9, <2>10 DEF Inductive
<1>14. ASSUME SendStop
      PROVE  Inductive'
  <2>1. control \in {"Pause", "Cancel"} BY <1>14 DEF SendStop, TypeOK, Commands
  <2>2. /\ toReceiver' \in [Connections -> Seq(Requests)]
        /\ \A d \in Connections :
              d # attempt \/ link[attempt] # "up" => toReceiver'[d] =
                toReceiver[d]
        /\ KeptBut(toReceiver', toReceiver, attempt, control)
        /\ WithinBut(toReceiver', toReceiver, attempt, control)
    <3>1. control \in Requests /\ Post(control) /\ attempt \in Connections
      BY <1>3, <1>14 DEF SendStop, Requests, TypeOK, Commands
    <3>2. \/ toReceiver' = toReceiver
          \/ toReceiver' = [toReceiver EXCEPT ![attempt] = Append(@, control)]
      BY <1>1, <3>1 DEF Post
    <3>3. link[attempt] # "up" => toReceiver' = toReceiver
      BY <1>1, <3>1 DEF Post
    <3> QED BY <1>1, <3>1, <3>2, <3>3, Extended
  <2>3. TypeOK'
    BY <1>14, <2>1, <2>2
    DEF TypeOK, Commands, Talking, Holding, SendStop, receiverVars
  <2>4. Linked'
    BY <1>2, <1>3, <1>6, <1>14, <2>1, <2>2
    DEF Linked, Talking, SendStop, receiverVars
  <2>5. Counted'
    <3>1. \A d \in Connections :
            /\ Count(toReceiver[d], "File") \in Nat
            /\ Count(toReceiver'[d], "File") \in Nat
            /\ Count(toReceiver'[d], "File") <= Count(toReceiver[d], "File")
            /\ Count(toSender[d], "Closed") \in Nat
            /\ Count(toSender'[d], "Closed") \in Nat
            /\ Count(toSender'[d], "Closed") <= Count(toSender[d], "Closed")
      BY <1>4, <1>14, <2>1, <2>2 DEF Within, WithinBut, SendStop, receiverVars
    <3>2. UNCHANGED <<attempt, queued, completed, closed>> BY <1>14 DEF
            SendStop, receiverVars
    <3> QED BY <1>3, <1>7, <3>1, <3>2, CountedStays
  <2>6. Asked'
    BY <1>3, <1>4, <1>14, <2>1, <2>2
    DEF Asked, Kept, KeptBut, SendStop, receiverVars
  <2>7. Halted'
    BY <1>3, <1>4, <1>14, <2>1, <2>2
    DEF Halted, Stopped, Committing, Kept, KeptBut, SendStop, receiverVars
  <2>8. Steady'
    BY <1>3, <1>4, <1>14, <2>1, <2>2
    DEF Steady, Kept, KeptBut, SendStop, receiverVars, Asked
  <2>9. Stage'
    BY <1>14, <2>1, <2>2
    DEF Stage, Talking, SendStop, receiverVars
  <2>10. ShownAgrees'
    BY <1>14, <2>1, <2>2
    DEF ShownAgrees, SendStop, receiverVars
  <2>11. Exclusive' /\ Published' /\ SteadyDiscardIsConfirmed'
    BY <1>14 DEF Exclusive, Published, SteadyDiscardIsConfirmed,
                 DiscardIsConfirmed, SendStop, receiverVars
  <2> QED BY <2>3, <2>4, <2>5, <2>6, <2>7, <2>8, <2>9, <2>10, <2>11 DEF
               Inductive
<1>15. ASSUME SkipReply
      PROVE  Inductive'
  <2>1. /\ toSender' \in [Connections -> Seq(Replies)]
        /\ \A d \in Connections : d # attempt => toSender'[d] = toSender[d]
        /\ toSender[attempt] # <<>> /\ Head(toSender[attempt]) \in Replies \
             (Confirmations \cup {"Error"})
        /\ Waits(toSender[attempt], Head(toSender[attempt]))
        /\ Kept(toSender', toSender) /\ Within(toSender', toSender)
        /\ Count(toSender'[attempt], Head(toSender[attempt])) <
               Count(toSender[attempt], Head(toSender[attempt]))
    <3>1. Got(Replies \ (Confirmations \cup {"Error"})) /\ Take /\ attempt \in
            Connections
      BY <1>3, <1>15 DEF SkipReply, Got
    <3>2. toSender[attempt] # <<>> /\ Head(toSender[attempt]) \in Replies \
            (Confirmations \cup {"Error"})
      BY <3>1 DEF Got
    <3>3. toSender' = [toSender EXCEPT ![attempt] = Tail(@)] BY <3>1 DEF Take
    <3>4. /\ toSender' \in [Connections -> Seq(Replies)]
          /\ \A d \in Connections : d # attempt => toSender'[d] = toSender[d]
          /\ Kept(toSender', toSender) /\ Within(toSender', toSender)
          /\ Waits(toSender[attempt], Head(toSender[attempt]))
          /\ Count(toSender'[attempt], Head(toSender[attempt])) <
                 Count(toSender[attempt], Head(toSender[attempt]))
      BY <1>1, <3>1, <3>2, <3>3, Shortened
    <3> QED BY ONLY <3>2, <3>4
  <2>2. TypeOK'
    BY <1>15, <2>1
    DEF TypeOK, Commands, Talking, Holding, SkipReply, senderVars, receiverVars
  <2>3. Linked'
    BY <1>2, <1>3, <1>6, <1>15, <2>1
    DEF Linked, Talking, SkipReply, senderVars, receiverVars
  <2>4. Counted'
    <3>1. \A d \in Connections :
            /\ Count(toReceiver[d], "File") \in Nat
            /\ Count(toReceiver'[d], "File") \in Nat
            /\ Count(toReceiver'[d], "File") <= Count(toReceiver[d], "File")
            /\ Count(toSender[d], "Closed") \in Nat
            /\ Count(toSender'[d], "Closed") \in Nat
            /\ Count(toSender'[d], "Closed") <= Count(toSender[d], "Closed")
      BY <1>4, <1>15, <2>1 DEF Within, WithinBut, SkipReply, senderVars,
         receiverVars
    <3>2. UNCHANGED <<attempt, queued, completed, closed>> BY <1>15 DEF
            SkipReply, senderVars, receiverVars
    <3> QED BY <1>3, <1>7, <3>1, <3>2, CountedStays
  <2>5. Asked'
    BY <1>3, <1>4, <1>15, <2>1
    DEF Asked, Kept, KeptBut, SkipReply, senderVars, receiverVars
  <2>6. Published'
    BY <1>4, <1>15, <2>1
    DEF Published, Kept, KeptBut, SkipReply, senderVars, receiverVars
  <2>7. Halted'
    BY <1>3, <1>4, <1>15, <2>1
    DEF Halted, Stopped, Committing, Kept, KeptBut, SkipReply, senderVars,
        receiverVars
  <2>8. Steady'
    BY <1>3, <1>4, <1>15, <2>1
    DEF Steady, Kept, KeptBut, SkipReply, senderVars, receiverVars
  <2>9. Exclusive' /\ Stage' /\ SteadyDiscardIsConfirmed' /\ ShownAgrees'
    BY <1>15 DEF Exclusive, Stage, Talking, SteadyDiscardIsConfirmed,
                 DiscardIsConfirmed, ShownAgrees, SkipReply, senderVars,
                   receiverVars
  <2> QED BY <2>2, <2>3, <2>4, <2>5, <2>6, <2>7, <2>8, <2>9 DEF Inductive
<1>16. ASSUME StopConfirmed
      PROVE  Inductive'
  <2>1. /\ toSender' \in [Connections -> Seq(Replies)]
        /\ \A d \in Connections :
              toSender'[d] = IF d = attempt THEN <<>> ELSE toSender[d]
        /\ link' \in [Connections -> {"new", "up", "left", "cut"}]
        /\ \A d \in Connections :
              link'[d] = IF d = attempt /\ link[d] = "up" THEN "left" ELSE
                link[d]
        /\ Kept(toSender', toSender) /\ Within(toSender', toSender)
    <3>1. /\ toSender' = [toSender EXCEPT ![attempt] = <<>>]
          /\ link' = [link EXCEPT ![attempt] = IF @ = "up" THEN "left" ELSE @]
      BY <1>16 DEF StopConfirmed, End
    <3>2. \A d \in Connections :
             toSender'[d] = IF d = attempt THEN <<>> ELSE toSender[d]
      BY <1>1, <3>1
    <3>3. Kept(toSender', toSender) /\ Within(toSender', toSender)
      <4>1. \A d \in Connections : toSender'[d] = toSender[d] \/ toSender'[d]
              = <<>>
        BY ONLY <3>2
      <4>2. toSender \in [Connections -> Seq(Replies)] BY <1>1
      <4> QED BY ONLY <4>1, <4>2, Emptied
    <3>4. toSender' \in [Connections -> Seq(Replies)]
      <4>1. <<>> \in Seq(Replies) OBVIOUS
      <4>2. \A q \in Seq(Replies) :
              [toSender EXCEPT ![attempt] = q] \in [Connections -> Seq(Replies)]
        BY ONLY <1>1
      <4> QED BY ONLY <3>1, <4>1, <4>2
    <3>5. /\ link' \in [Connections -> {"new", "up", "left", "cut"}]
          /\ \A d \in Connections : link'[d] =
                IF d = attempt /\ link[d] = "up" THEN "left" ELSE link[d]
      BY <1>5, <3>1
    <3> QED BY <3>2, <3>3, <3>4, <3>5
  <2>2. /\ sender = "stopping" /\ attempt \in Connections /\ outcome' =
             "stopped"
        /\ Waits(toSender[attempt], "Stopped")
    <3>1. attempt \in Connections /\ Got({"Stopped"})
      BY <1>3, <1>16 DEF StopConfirmed, Got, Confirmations
    <3>2. Waits(toSender[attempt], "Stopped") BY <3>1, GotWaits
    <3> QED BY <3>1, <3>2, <1>16 DEF StopConfirmed, End
  <2>3. TypeOK'
    BY <1>16, <2>1, <2>2
    DEF TypeOK, Commands, Talking, Holding, StopConfirmed, End, receiverVars
  <2>4. Linked'
    BY <1>2, <1>3, <1>6, <1>16, <2>1, <2>2
    DEF Linked, Talking, StopConfirmed, End, receiverVars
  <2>5. Counted'
    <3>1. \A d \in Connections :
            /\ Count(toReceiver[d], "File") \in Nat
            /\ Count(toReceiver'[d], "File") \in Nat
            /\ Count(toReceiver'[d], "File") <= Count(toReceiver[d], "File")
            /\ Count(toSender[d], "Closed") \in Nat
            /\ Count(toSender'[d], "Closed") \in Nat
            /\ Count(toSender'[d], "Closed") <= Count(toSender[d], "Closed")
      BY <1>4, <1>16, <2>1, <2>2 DEF Within, WithinBut, StopConfirmed, End,
         receiverVars
    <3>2. UNCHANGED <<attempt, queued, completed, closed>> BY <1>16 DEF
            StopConfirmed, End, receiverVars
    <3> QED BY <1>3, <1>7, <3>1, <3>2, CountedStays
  <2>6. Asked'
    BY <1>3, <1>4, <1>16, <2>1, <2>2
    DEF Asked, Kept, KeptBut, StopConfirmed, End, receiverVars
  <2>7. Published'
    BY <1>4, <1>16, <2>1, <2>2
    DEF Published, Kept, KeptBut, StopConfirmed, End, receiverVars
  <2>8. Halted'
    <3>1. ~result /\ \A c \in Connections : ~Committing(c)
      <4>1. attempt > 0 BY ONLY <2>2 DEF Connections
      <4> QED BY ONLY <2>2, <4>1, Halted DEF Halted, Stopped
    <3>2. /\ result' = result /\ handler' = handler
          /\ toReceiver' = toReceiver
      BY ONLY <1>16 DEF StopConfirmed, End, receiverVars
    <3> QED BY ONLY <3>1, <3>2 DEF Halted, Committing, Waits
  <2>9. Steady'
    BY <1>3, <1>4, <1>16, <2>1, <2>2
    DEF Steady, Kept, KeptBut, StopConfirmed, End, receiverVars
  <2>10. Stage'
    BY <1>16, <2>1, <2>2
    DEF Stage, Talking, StopConfirmed, End, receiverVars
  <2>11. ShownAgrees'
    BY <1>16, <2>1, <2>2
    DEF ShownAgrees, StopConfirmed, End, receiverVars
  <2>12. Exclusive' /\ SteadyDiscardIsConfirmed'
    BY <1>16 DEF Exclusive, SteadyDiscardIsConfirmed, DiscardIsConfirmed,
                 StopConfirmed, End, receiverVars
  <2> QED BY <2>3, <2>4, <2>5, <2>6, <2>7, <2>8, <2>9, <2>10, <2>11, <2>12 DEF
               Inductive
<1>17. ASSUME SendCommit
      PROVE  Inductive'
  <2>1. /\ toReceiver' \in [Connections -> Seq(Requests)]
        /\ \A d \in Connections :
              d # attempt \/ link[attempt] # "up" => toReceiver'[d] =
                toReceiver[d]
        /\ KeptBut(toReceiver', toReceiver, attempt, "Commit")
        /\ WithinBut(toReceiver', toReceiver, attempt, "Commit")
    <3>1. "Commit" \in Requests /\ Post("Commit") /\ attempt \in Connections
      BY <1>3, <1>17 DEF SendCommit, Requests, TypeOK, Commands
    <3>2. \/ toReceiver' = toReceiver
          \/ toReceiver' = [toReceiver EXCEPT ![attempt] = Append(@, "Commit")]
      BY <1>1, <3>1 DEF Post
    <3>3. link[attempt] # "up" => toReceiver' = toReceiver
      BY <1>1, <3>1 DEF Post
    <3> QED BY <1>1, <3>1, <3>2, <3>3, Extended
  <2>2. TypeOK'
    BY <1>17, <2>1
    DEF TypeOK, Commands, Talking, Holding, SendCommit, receiverVars
  <2>3. Linked'
    BY <1>2, <1>3, <1>6, <1>17, <2>1
    DEF Linked, Talking, SendCommit, receiverVars
  <2>4. Counted'
    <3>1. \A d \in Connections :
            /\ Count(toReceiver[d], "File") \in Nat
            /\ Count(toReceiver'[d], "File") \in Nat
            /\ Count(toReceiver'[d], "File") <= Count(toReceiver[d], "File")
            /\ Count(toSender[d], "Closed") \in Nat
            /\ Count(toSender'[d], "Closed") \in Nat
            /\ Count(toSender'[d], "Closed") <= Count(toSender[d], "Closed")
      BY <1>4, <1>17, <2>1 DEF Within, WithinBut, SendCommit, receiverVars
    <3>2. UNCHANGED <<attempt, queued, completed, closed>> BY <1>17 DEF
            SendCommit, receiverVars
    <3> QED BY <1>3, <1>7, <3>1, <3>2, CountedStays
  <2>5. Asked'
    BY <1>3, <1>4, <1>17, <2>1
    DEF Asked, Kept, KeptBut, SendCommit, receiverVars
  <2>6. Halted'
    <3>1. /\ sender = "sending" /\ attempt \in Connections
          /\ UNCHANGED <<task, attempt, outcome, toSender, result>>
      BY <1>3, <1>17 DEF SendCommit, receiverVars
    <3>2. ~Stopped
      BY <3>1 DEF Stopped, Asked, Stage, Talking
    <3> QED BY <3>1, <3>2 DEF Halted, Stopped
  <2>7. Steady'
    BY <1>3, <1>4, <1>17, <2>1
    DEF Steady, Kept, KeptBut, SendCommit, receiverVars
  <2>8. Stage'
    BY <1>17, <2>1
    DEF Stage, Talking, SendCommit, receiverVars
  <2>9. ShownAgrees'
    BY <1>17, <2>1
    DEF ShownAgrees, SendCommit, receiverVars
  <2>10. Exclusive' /\ Published' /\ SteadyDiscardIsConfirmed'
    BY <1>17 DEF Exclusive, Published, SteadyDiscardIsConfirmed,
                 DiscardIsConfirmed, SendCommit, receiverVars
  <2> QED BY <2>2, <2>3, <2>4, <2>5, <2>6, <2>7, <2>8, <2>9, <2>10 DEF Inductive
<1>18. ASSUME AttemptFails
      PROVE  Inductive'
  <2>1. /\ toSender' \in [Connections -> Seq(Replies)]
        /\ \A d \in Connections :
              toSender'[d] = IF d = attempt THEN <<>> ELSE toSender[d]
        /\ link' \in [Connections -> {"new", "up", "left", "cut"}]
        /\ \A d \in Connections :
              link'[d] = IF d = attempt /\ link[d] = "up" THEN "left" ELSE
                link[d]
        /\ Kept(toSender', toSender) /\ Within(toSender', toSender)
    <3>1. /\ toSender' = [toSender EXCEPT ![attempt] = <<>>]
          /\ link' = [link EXCEPT ![attempt] = IF @ = "up" THEN "left" ELSE @]
      BY <1>18 DEF AttemptFails, End
    <3>2. \A d \in Connections :
             toSender'[d] = IF d = attempt THEN <<>> ELSE toSender[d]
      BY <1>1, <3>1
    <3>3. Kept(toSender', toSender) /\ Within(toSender', toSender)
      <4>1. \A d \in Connections : toSender'[d] = toSender[d] \/ toSender'[d]
              = <<>>
        BY ONLY <3>2
      <4>2. toSender \in [Connections -> Seq(Replies)] BY <1>1
      <4> QED BY ONLY <4>1, <4>2, Emptied
    <3>4. toSender' \in [Connections -> Seq(Replies)]
      <4>1. <<>> \in Seq(Replies) OBVIOUS
      <4>2. \A q \in Seq(Replies) :
              [toSender EXCEPT ![attempt] = q] \in [Connections -> Seq(Replies)]
        BY ONLY <1>1
      <4> QED BY ONLY <3>1, <4>1, <4>2
    <3>5. /\ link' \in [Connections -> {"new", "up", "left", "cut"}]
          /\ \A d \in Connections : link'[d] =
                IF d = attempt /\ link[d] = "up" THEN "left" ELSE link[d]
      BY <1>5, <3>1
    <3> QED BY <3>2, <3>3, <3>4, <3>5
  <2>2. TypeOK'
    BY <1>18, <2>1
    DEF TypeOK, Commands, Talking, Holding, AttemptFails, End, receiverVars
  <2>3. Linked'
    BY <1>2, <1>3, <1>6, <1>18, <2>1
    DEF Linked, Talking, AttemptFails, End, receiverVars
  <2>4. Counted'
    <3>1. \A d \in Connections :
            /\ Count(toReceiver[d], "File") \in Nat
            /\ Count(toReceiver'[d], "File") \in Nat
            /\ Count(toReceiver'[d], "File") <= Count(toReceiver[d], "File")
            /\ Count(toSender[d], "Closed") \in Nat
            /\ Count(toSender'[d], "Closed") \in Nat
            /\ Count(toSender'[d], "Closed") <= Count(toSender[d], "Closed")
      BY <1>4, <1>18, <2>1 DEF Within, WithinBut, AttemptFails, End,
         receiverVars
    <3>2. UNCHANGED <<attempt, queued, completed, closed>> BY <1>18 DEF
            AttemptFails, End, receiverVars
    <3> QED BY <1>3, <1>7, <3>1, <3>2, CountedStays
  <2>5. Asked'
    BY <1>3, <1>4, <1>18, <2>1
    DEF Asked, Kept, KeptBut, AttemptFails, End, receiverVars
  <2>6. Published'
    BY <1>4, <1>18, <2>1
    DEF Published, Kept, KeptBut, AttemptFails, End, receiverVars
  <2>7. Halted'
    BY <1>3, <1>4, <1>18, <2>1
    DEF Halted, Stopped, Committing, Kept, KeptBut, AttemptFails, End,
        receiverVars
  <2>8. Steady'
    BY <1>3, <1>4, <1>18, <2>1
    DEF Steady, Kept, KeptBut, AttemptFails, End, receiverVars
  <2>9. Stage'
    BY <1>18, <2>1
    DEF Stage, Talking, AttemptFails, End, receiverVars
  <2>10. ShownAgrees'
    BY <1>18, <2>1
    DEF ShownAgrees, AttemptFails, End, receiverVars
  <2>11. Exclusive' /\ SteadyDiscardIsConfirmed'
    BY <1>18 DEF Exclusive, SteadyDiscardIsConfirmed, DiscardIsConfirmed,
                 AttemptFails, End, receiverVars
  <2> QED BY <2>2, <2>3, <2>4, <2>5, <2>6, <2>7, <2>8, <2>9, <2>10, <2>11 DEF
               Inductive
<1>19. ASSUME Decide
      PROVE  Inductive'
  <2>1. /\ outcome \in {"saved", "stopped", "failed"}
        /\ outcome = "saved" => shown' = "Complete"
        /\ outcome = "failed" => shown' = "Failed"
        /\ outcome = "stopped" =>
              shown' = IF control = "Cancel" THEN "Cancelled" ELSE "Paused"
    BY Statuses, <1>19 DEF Decide, Stage, TypeOK
  <2>2. TypeOK'
    BY <1>19, <2>1
    DEF TypeOK, Commands, Talking, Holding, Decide, receiverVars
  <2>3. Linked'
    BY <1>2, <1>3, <1>6, <1>19, <2>1
    DEF Linked, Talking, Decide, receiverVars
  <2>4. Asked'
    BY <1>3, <1>4, <1>19, <2>1
    DEF Asked, Kept, KeptBut, Decide, receiverVars
  <2>5. Steady'
    BY <1>3, <1>4, <1>19, <2>1
    DEF Steady, Kept, KeptBut, Decide, receiverVars
  <2>6. Stage'
    BY <1>19, <2>1
    DEF Stage, Talking, Decide, receiverVars
  <2>7. ShownAgrees'
    BY <1>19, <2>1
    DEF ShownAgrees, Decide, receiverVars
  <2>8. Counted' /\ Exclusive' /\ Published' /\ Halted' /\
          SteadyDiscardIsConfirmed'
    BY <1>19 DEF Counted, Exclusive, Published, Halted, Stopped, Committing,
                 SteadyDiscardIsConfirmed, DiscardIsConfirmed, Decide,
                   receiverVars
  <2> QED BY <2>2, <2>3, <2>4, <2>5, <2>6, <2>7, <2>8 DEF Inductive
<1>20. ASSUME Persist
      PROVE  Inductive'
  <2>1. /\ outcome \in {"saved", "stopped", "failed"} /\ task = "saved"
        /\ outcome = "saved" => Recorded = "sent"
        /\ outcome = "stopped" /\ control = "Cancel" => Recorded = "discarded"
        /\ outcome # "saved" /\ ~(outcome = "stopped" /\ control = "Cancel") =>
              Recorded = task
    BY Records, <1>20 DEF Stage, TypeOK, Persist
  <2>2. TypeOK'
    BY <1>20, <2>1
    DEF TypeOK, Commands, Talking, Holding, Persist, receiverVars
  <2>3. Linked'
    BY <1>2, <1>3, <1>6, <1>20, <2>1
    DEF Linked, Talking, Persist, receiverVars
  <2>4. Asked'
    BY <1>3, <1>4, <1>20, <2>1
    DEF Asked, Kept, KeptBut, Persist, receiverVars
  <2>5. Published'
    BY <1>4, <1>20, <2>1
    DEF Published, Kept, KeptBut, Persist, receiverVars
  <2>6. Halted'
    BY <1>3, <1>4, <1>20, <2>1
    DEF Halted, Stopped, Committing, Kept, KeptBut, Persist, receiverVars
  <2>7. Steady'
    BY <1>3, <1>4, <1>20, <2>1
    DEF Steady, Kept, KeptBut, Persist, receiverVars
  <2>8. Stage'
    BY <1>20, <2>1
    DEF Stage, Talking, Persist, receiverVars
  <2>9. SteadyDiscardIsConfirmed'
    BY <1>20, <2>1
    DEF SteadyDiscardIsConfirmed, DiscardIsConfirmed, Persist, receiverVars,
        Steady
  <2>10. ShownAgrees'
    BY <1>20, <2>1
    DEF ShownAgrees, Persist, receiverVars, Stage
  <2>11. Counted' /\ Exclusive'
    BY <1>20 DEF Counted, Exclusive, Persist, receiverVars
  <2> QED BY <2>2, <2>3, <2>4, <2>5, <2>6, <2>7, <2>8, <2>9, <2>10, <2>11 DEF
               Inductive
<1>21. ASSUME PersistFails
      PROVE  Inductive'
  <2>1. /\ outcome \in {"saved", "stopped", "failed"} /\ task = "saved"
        /\ outcome = "saved" => Recorded = "sent"
        /\ outcome = "stopped" /\ control = "Cancel" => Recorded = "discarded"
        /\ outcome # "saved" /\ ~(outcome = "stopped" /\ control = "Cancel") =>
              Recorded = task
    BY Records, <1>21 DEF Stage, TypeOK, PersistFails
  <2>2. TypeOK'
    BY <1>21, <2>1
    DEF TypeOK, Commands, Talking, Holding, PersistFails, receiverVars
  <2>3. Linked'
    BY <1>2, <1>3, <1>6, <1>21, <2>1
    DEF Linked, Talking, PersistFails, receiverVars
  <2>4. Asked'
    BY <1>3, <1>4, <1>21, <2>1
    DEF Asked, Kept, KeptBut, PersistFails, receiverVars
  <2>5. Published'
    BY <1>4, <1>21, <2>1
    DEF Published, Kept, KeptBut, PersistFails, receiverVars
  <2>6. Halted'
    BY <1>3, <1>4, <1>21, <2>1
    DEF Halted, Stopped, Committing, Kept, KeptBut, PersistFails, receiverVars
  <2>7. Steady'
    BY <1>3, <1>4, <1>21, <2>1
    DEF Steady, Kept, KeptBut, PersistFails, receiverVars
  <2>8. Stage'
    BY <1>21, <2>1
    DEF Stage, Talking, PersistFails, receiverVars
  <2>9. SteadyDiscardIsConfirmed'
    BY <1>21, <2>1
    DEF SteadyDiscardIsConfirmed, DiscardIsConfirmed, PersistFails,
        receiverVars, Steady
  <2>10. ShownAgrees'
    BY <1>21, <2>1
    DEF ShownAgrees, PersistFails, receiverVars
  <2>11. Counted' /\ Exclusive'
    BY <1>21 DEF Counted, Exclusive, PersistFails, receiverVars
  <2> QED BY <2>2, <2>3, <2>4, <2>5, <2>6, <2>7, <2>8, <2>9, <2>10, <2>11 DEF
               Inductive
<1>22. ASSUME NEW c \in Connections, OpenTask(c)
      PROVE  Inductive'
  <2>1. /\ toReceiver' \in [Connections -> Seq(Requests)]
        /\ \A d \in Connections : d # c => toReceiver'[d] = toReceiver[d]
        /\ toReceiver[c] # <<>>
        /\ Waits(toReceiver[c], "Begin") /\ Kept(toReceiver', toReceiver)
        /\ Within(toReceiver', toReceiver)
        /\ Count(toReceiver'[c], "Begin") < Count(toReceiver[c], "Begin")
    <3>1. Hears(c, "Begin") /\ Consume(c) BY <1>22 DEF OpenTask
    <3>2. toReceiver[c] # <<>> /\ Head(toReceiver[c]) = "Begin" BY <3>1 DEF
            Hears
    <3>3. toReceiver' = [toReceiver EXCEPT ![c] = Tail(@)] BY <3>1 DEF Consume
    <3>4. /\ toReceiver' \in [Connections -> Seq(Requests)]
          /\ \A d \in Connections : d # c => toReceiver'[d] = toReceiver[d]
          /\ Kept(toReceiver', toReceiver) /\ Within(toReceiver', toReceiver)
          /\ Waits(toReceiver[c], Head(toReceiver[c]))
          /\ Count(toReceiver'[c], Head(toReceiver[c])) <
                 Count(toReceiver[c], Head(toReceiver[c]))
      BY <1>1, <3>2, <3>3, Shortened
    <3> QED BY ONLY <3>2, <3>4
  <2>2. PICK x \in {"Error", "ResumeSaved", "Resume"} :
            /\ Reply(c, x)
            /\ x = "ResumeSaved" => result
            /\ x = "Resume" => ~Locked(c) /\ ~result
            /\ handler' = [handler EXCEPT ![c] =
                             IF x = "Resume" THEN "receiving" ELSE "ended"]
    BY <1>22 DEF OpenTask, Becomes, Finished
  <2>3. /\ toSender' \in [Connections -> Seq(Replies)]
        /\ \A d \in Connections :
              d # c \/ link[c] # "up" => toSender'[d] = toSender[d]
        /\ KeptBut(toSender', toSender, c, x) /\ WithinBut(toSender',
             toSender, c, x)
    <3>1. x \in Replies BY DEF Replies
    <3>2. \/ toSender' = toSender
          \/ toSender' = [toSender EXCEPT ![c] = Append(@, x)]
      BY <1>1, <2>2 DEF Reply
    <3>3. link[c] # "up" => toSender' = toSender BY <1>1, <2>2 DEF Reply
    <3> QED BY <1>1, <3>1, <3>2, <3>3, Extended
  <2>4. \A d \in Connections :
            handler'[d] = IF d # c THEN handler[d]
                          ELSE IF x = "Resume" THEN "receiving" ELSE "ended"
    BY <1>5, <2>2
  <2>5. handler[c] = "accepted" /\ toReceiver'[c] = <<>>
    <3>1. handler[c] = "accepted" /\ toReceiver[c] = <<"Begin">>
      BY <1>22 DEF OpenTask, Hears, Linked
    <3>2. Tail(<<"Begin">>) = <<>> OBVIOUS
    <3> QED BY <1>1, <3>1, <3>2, <1>22 DEF OpenTask, Consume
  <2>6. TypeOK'
    <3>1. /\ staging' \in BOOLEAN
          /\ UNCHANGED <<senderVars, link, closed, part, result, cleaned,
               switched>>
      BY <1>22 DEF OpenTask, TypeOK
    <3>2. handler' \in [Connections ->
                            {"none", "accepted", "ended"} \cup Holding]
      <4>1. {"receiving", "ended"} \subseteq
                {"none", "accepted", "ended"} \cup Holding
        BY DEF Holding
      <4> QED BY <1>5, <2>2, <4>1
    <3> QED BY <2>1, <2>3, <3>1, <3>2 DEF TypeOK, senderVars
  <2>7. Linked'
    <3>1. UNCHANGED <<sender, attempt, closed, link>>
      BY <1>22 DEF OpenTask, senderVars
    <3>2. ~(c > attempt) BY <2>5 DEF Linked
    <3>3. sender \in {"sending", "stopping", "awaiting"} => attempt # c
      BY <2>5 DEF Linked
    <3>4. ASSUME NEW d \in Connections
          PROVE  /\ d > attempt => /\ handler'[d] = "none" /\ closed[d] = 0
                                   /\ toReceiver'[d] = <<>>
                 /\ link[d] = "up" => d = attempt /\ sender \in Talking
                 /\ link[d] # "up" => toSender'[d] = <<>>
                 /\ toSender'[d] # <<>> => handler'[d] \notin {"none",
                      "accepted"}
                 /\ handler'[d] = "accepted" =>
                       toReceiver'[d] \in {<<>>, <<"Begin">>}
      <4>1. CASE d = c
        BY <2>3, <2>4, <2>5, <3>2, <4>1 DEF Linked
      <4>2. CASE d # c
        BY <2>1, <2>3, <2>4, <4>2 DEF Linked
      <4> QED BY <4>1, <4>2
    <3>5. sender \in {"sending", "stopping", "awaiting"} =>
              handler'[attempt] \notin {"none", "accepted"}
      BY <1>3, <2>4, <3>3 DEF Linked
    <3> QED BY <3>1, <3>4, <3>5 DEF Linked
  <2>8. Counted'
    <3>1. \A d \in Connections :
            /\ Count(toReceiver[d], "File") \in Nat
            /\ Count(toReceiver'[d], "File") \in Nat
            /\ Count(toReceiver'[d], "File") <= Count(toReceiver[d], "File")
            /\ Count(toSender[d], "Closed") \in Nat
            /\ Count(toSender'[d], "Closed") \in Nat
            /\ Count(toSender'[d], "Closed") <= Count(toSender[d], "Closed")
      BY <1>4, <1>22, <2>1, <2>2, <2>3, <2>4, <2>5 DEF Within, WithinBut,
         OpenTask, senderVars
    <3>2. UNCHANGED <<attempt, queued, completed, closed>> BY <1>22 DEF
            OpenTask, senderVars
    <3> QED BY <1>3, <1>7, <3>1, <3>2, CountedStays
  <2>9. Asked'
    BY <1>3, <1>4, <1>22, <2>1, <2>2, <2>3, <2>4, <2>5
    DEF Asked, Kept, KeptBut, OpenTask, senderVars
  <2>10. Exclusive'
    BY <1>22, <2>1, <2>2, <2>3, <2>4, <2>5
    DEF Exclusive, Holding, OpenTask, senderVars, Locked
  <2>11. Published'
    BY <1>4, <1>22, <2>1, <2>2, <2>3, <2>4, <2>5
    DEF Published, Kept, KeptBut, OpenTask, senderVars
  <2>12. Halted'
    <3>1. UNCHANGED <<attempt, outcome, task, result>>
      BY <1>22 DEF OpenTask, senderVars
    <3>2. Stopped' => Stopped
      <4>1. attempt > 0 => attempt \in Connections BY <1>3
      <4>2. attempt \in Connections /\ Waits(toSender'[attempt], "Stopped") =>
                Waits(toSender[attempt], "Stopped")
        BY <2>3 DEF KeptBut
      <4> QED BY <3>1, <4>1, <4>2 DEF Stopped
    <3>3. \A d \in Connections : Committing(d)' => Committing(d)
      <4>1. ~Waits(toReceiver'[c], "Commit") BY <2>5 DEF Waits
      <4>2. handler'[c] # "committing" BY <2>4
      <4> QED BY <2>1, <2>4, <4>1, <4>2 DEF Committing
    <3> QED BY <3>1, <3>2, <3>3 DEF Halted
  <2>13. Steady'
    BY SMTT(30), <1>3, <1>4, <1>22, <2>1, <2>2, <2>3, <2>4, <2>5
    DEF Steady, Kept, KeptBut, OpenTask, senderVars
  <2>14. Stage' /\ SteadyDiscardIsConfirmed' /\ ShownAgrees'
    BY <1>22 DEF Stage, Talking, SteadyDiscardIsConfirmed, DiscardIsConfirmed,
                 ShownAgrees, OpenTask, senderVars
  <2> QED BY <2>6, <2>7, <2>8, <2>9, <2>10, <2>11, <2>12, <2>13, <2>14 DEF
               Inductive
<1>23. ASSUME NEW c \in Connections, ReceiveFile(c)
      PROVE  Inductive'
  <2>1. /\ toReceiver' \in [Connections -> Seq(Requests)]
        /\ \A d \in Connections : d # c => toReceiver'[d] = toReceiver[d]
        /\ toReceiver[c] # <<>>
        /\ Waits(toReceiver[c], "File") /\ Kept(toReceiver', toReceiver)
        /\ Within(toReceiver', toReceiver)
        /\ Count(toReceiver'[c], "File") < Count(toReceiver[c], "File")
    <3>1. Hears(c, "File") /\ Consume(c) BY <1>23 DEF ReceiveFile
    <3>2. toReceiver[c] # <<>> /\ Head(toReceiver[c]) = "File" BY <3>1 DEF Hears
    <3>3. toReceiver' = [toReceiver EXCEPT ![c] = Tail(@)] BY <3>1 DEF Consume
    <3>4. /\ toReceiver' \in [Connections -> Seq(Requests)]
          /\ \A d \in Connections : d # c => toReceiver'[d] = toReceiver[d]
          /\ Kept(toReceiver', toReceiver) /\ Within(toReceiver', toReceiver)
          /\ Waits(toReceiver[c], Head(toReceiver[c]))
          /\ Count(toReceiver'[c], Head(toReceiver[c])) <
                 Count(toReceiver[c], Head(toReceiver[c]))
      BY <1>1, <3>2, <3>3, Shortened
    <3> QED BY ONLY <3>2, <3>4
  <2>2. /\ toSender' \in [Connections -> Seq(Replies)]
        /\ \A d \in Connections :
              d # c \/ link[c] # "up" => toSender'[d] = toSender[d]
        /\ KeptBut(toSender', toSender, c, "Closed")
        /\ WithinBut(toSender', toSender, c, "Closed")
    <3>1. "Closed" \in Replies /\ Reply(c, "Closed") BY <1>23 DEF ReceiveFile,
            Replies
    <3>2. \/ toSender' = toSender
          \/ toSender' = [toSender EXCEPT ![c] = Append(@, "Closed")]
      BY <1>1, <3>1 DEF Reply
    <3>3. link[c] # "up" => toSender' = toSender BY <1>1, <3>1 DEF Reply
    <3> QED BY <1>1, <3>1, <3>2, <3>3, Extended
  <2>3. /\ closed[c] + 1 \in 0..FileCount
        /\ closed' \in [Connections -> 0..FileCount]
        /\ \A d \in Connections :
              closed'[d] = IF d = c THEN closed[c] + 1 ELSE closed[d]
    <3>1. closed' = [closed EXCEPT ![c] = @ + 1] BY <1>23 DEF ReceiveFile
    <3>2. Count(toReceiver'[c], "File") \in Nat
      BY <2>1 DEF Within
    <3>3. closed[c] + Count(toReceiver[c], "File") <= FileCount BY DEF Counted
    <3>4. Count(toReceiver[c], "File") \in Nat
          /\ Count(toReceiver'[c], "File") < Count(toReceiver[c], "File")
      BY <2>1 DEF Within
    <3>5. closed[c] \in Nat BY <1>7
    <3>6. closed[c] + 1 \in 0..FileCount
      BY ONLY <1>7, <3>2, <3>3, <3>4, <3>5
    <3> QED BY <1>5, <3>1, <3>6
  <2>4. TypeOK'
    BY <1>23, <2>1, <2>2, <2>3
    DEF TypeOK, Commands, Talking, Holding, ReceiveFile, senderVars
  <2>5. Linked'
    BY <1>2, <1>3, <1>6, <1>23, <2>1, <2>2, <2>3
    DEF Linked, Talking, ReceiveFile, senderVars
  <2>6. Counted'
    <3>1. UNCHANGED <<attempt, queued, completed>>
      BY <1>23 DEF ReceiveFile, senderVars
    <3>2. ASSUME NEW d \in Connections
          PROVE  /\ Count(toReceiver[d], "File") \in Nat
                 /\ Count(toReceiver'[d], "File") \in Nat
                 /\ closed[d] \in Nat /\ closed'[d] \in Nat
                 /\ closed'[d] + Count(toReceiver'[d], "File") <=
                       closed[d] + Count(toReceiver[d], "File")
      <4>1. /\ Count(toReceiver[d], "File") \in Nat
            /\ Count(toReceiver'[d], "File") \in Nat
            /\ Count(toReceiver'[d], "File") <= Count(toReceiver[d], "File")
        BY <2>1 DEF Within
      <4>2. d = c => Count(toReceiver'[d], "File") < Count(toReceiver[d],
              "File")
        BY <2>1
      <4>3. closed[d] \in Nat /\ closed'[d] = IF d = c THEN closed[d] + 1 ELSE
              closed[d]
        BY <1>7, <2>3
      <4> QED BY ONLY <4>1, <4>2, <4>3
    <3>3. ASSUME NEW d \in Connections
          PROVE  closed'[d] + Count(toReceiver'[d], "File") <= FileCount
      <4>1. closed[d] + Count(toReceiver[d], "File") <= FileCount
        BY DEF Counted
      <4> QED BY <1>7, <3>2, <4>1
    <3>4. ASSUME attempt > 0
          PROVE  /\ closed'[attempt] + Count(toReceiver'[attempt], "File") <=
                      queued
                 /\ completed + Count(toSender'[attempt], "Closed") <=
                       closed'[attempt]
      <4>1. /\ closed[attempt] + Count(toReceiver[attempt], "File") <= queued
            /\ completed + Count(toSender[attempt], "Closed") <= closed[attempt]
            /\ attempt \in Connections
        BY <1>3, <3>4 DEF Counted
      <4>2. closed'[attempt] + Count(toReceiver'[attempt], "File") <= queued
        BY <1>7, <3>2, <4>1
      <4>3. /\ Count(toSender[attempt], "Closed") \in Nat
            /\ Count(toSender'[attempt], "Closed") \in Nat
            /\ Count(toSender'[attempt], "Closed") <=
                  IF attempt = c THEN Count(toSender[attempt], "Closed") + 1
                  ELSE Count(toSender[attempt], "Closed")
        BY <2>2, <4>1 DEF WithinBut
      <4>4. closed[attempt] \in Nat /\ closed'[attempt] =
                IF attempt = c THEN closed[attempt] + 1 ELSE closed[attempt]
        BY <1>7, <2>3, <4>1
      <4>5. completed + Count(toSender'[attempt], "Closed") <= closed'[attempt]
        BY ONLY <1>7, <4>1, <4>3, <4>4
      <4> QED BY <4>2, <4>5
    <3> QED BY <3>1, <3>3, <3>4 DEF Counted
  <2>7. Asked'
    BY <1>3, <1>4, <1>23, <2>1, <2>2, <2>3
    DEF Asked, Kept, KeptBut, ReceiveFile, senderVars
  <2>8. Published'
    BY <1>4, <1>23, <2>1, <2>2, <2>3
    DEF Published, Kept, KeptBut, ReceiveFile, senderVars
  <2>9. Halted'
    BY <1>3, <1>4, <1>23, <2>1, <2>2, <2>3
    DEF Halted, Stopped, Committing, Kept, KeptBut, ReceiveFile, senderVars
  <2>10. Steady'
    BY <1>3, <1>4, <1>23, <2>1, <2>2, <2>3
    DEF Steady, Kept, KeptBut, ReceiveFile, senderVars
  <2>11. Exclusive' /\ Stage' /\ SteadyDiscardIsConfirmed' /\ ShownAgrees'
    BY <1>23 DEF Exclusive, Stage, Talking, SteadyDiscardIsConfirmed,
                 DiscardIsConfirmed, ShownAgrees, ReceiveFile, senderVars
  <2> QED BY <2>4, <2>5, <2>6, <2>7, <2>8, <2>9, <2>10, <2>11 DEF Inductive
<1>24. ASSUME NEW c \in Connections, ReceiveStop(c)
      PROVE  Inductive'
  <2>1. PICK x \in {"Pause", "Cancel"} :
            /\ Hears(c, x) /\ Consume(c)
            /\ handler' = [handler EXCEPT ![c] =
                             IF x = "Pause" THEN "pausing" ELSE "cancelling"]
    BY <1>24 DEF ReceiveStop, Becomes
  <2>2. /\ toReceiver' \in [Connections -> Seq(Requests)]
        /\ \A d \in Connections : d # c => toReceiver'[d] = toReceiver[d]
        /\ toReceiver[c] # <<>>
        /\ Waits(toReceiver[c], x) /\ Kept(toReceiver', toReceiver)
        /\ Within(toReceiver', toReceiver)
        /\ Count(toReceiver'[c], x) < Count(toReceiver[c], x)
    <3>1. toReceiver[c] # <<>> /\ Head(toReceiver[c]) = x BY <2>1 DEF Hears
    <3>2. toReceiver' = [toReceiver EXCEPT ![c] = Tail(@)] BY <2>1 DEF Consume
    <3>3. /\ toReceiver' \in [Connections -> Seq(Requests)]
          /\ \A d \in Connections : d # c => toReceiver'[d] = toReceiver[d]
          /\ Kept(toReceiver', toReceiver) /\ Within(toReceiver', toReceiver)
          /\ Waits(toReceiver[c], Head(toReceiver[c]))
          /\ Count(toReceiver'[c], Head(toReceiver[c])) <
                 Count(toReceiver[c], Head(toReceiver[c]))
      BY <1>1, <3>1, <3>2, Shortened
    <3> QED BY ONLY <3>1, <3>3
  <2>3. \A d \in Connections :
            handler'[d] = IF d # c THEN handler[d]
                          ELSE IF x = "Pause" THEN "pausing" ELSE "cancelling"
    BY <1>5, <2>1
  <2>4. TypeOK'
    <3>1. UNCHANGED <<senderVars, link, toSender, closed, part, staging, result,
                      cleaned, switched>>
      BY <1>24 DEF ReceiveStop
    <3>2. handler' \in [Connections ->
                            {"none", "accepted", "ended"} \cup Holding]
      <4>1. {"pausing", "cancelling"} \subseteq
                {"none", "accepted", "ended"} \cup Holding
        BY DEF Holding
      <4> QED BY <1>5, <2>1, <4>1
    <3> QED BY <2>2, <3>1, <3>2 DEF TypeOK, senderVars
  <2>5. Linked'
    <3>1. UNCHANGED <<sender, attempt, closed, link, toSender>>
      BY ONLY <1>24 DEF ReceiveStop, senderVars
    <3>2. handler'[c] \notin {"none", "accepted"} BY ONLY <2>3
    <3>3. \A d \in Connections : d # c => /\ handler'[d] = handler[d]
                                          /\ toReceiver'[d] = toReceiver[d]
      BY ONLY <2>2, <2>3
    <3>4. ~(c > attempt) BY ONLY <2>2, Linked DEF Linked
    <3>5. ASSUME NEW d \in Connections
          PROVE  /\ d > attempt => /\ handler'[d] = "none" /\ closed[d] = 0
                                   /\ toReceiver'[d] = <<>>
                 /\ toSender[d] # <<>> => handler'[d] \notin {"none", "accepted"}
                 /\ handler'[d] = "accepted" =>
                       toReceiver'[d] \in {<<>>, <<"Begin">>}
      BY ONLY <3>2, <3>3, <3>4, Linked DEF Linked
    <3>6. sender \in {"sending", "stopping", "awaiting"} =>
            handler'[attempt] \notin {"none", "accepted"}
      BY ONLY <1>3, <3>2, <3>3, Linked DEF Linked
    <3> QED BY ONLY <3>1, <3>5, <3>6, Linked DEF Linked, Talking
  <2>6. Counted'
    <3>1. \A d \in Connections :
            /\ Count(toReceiver[d], "File") \in Nat
            /\ Count(toReceiver'[d], "File") \in Nat
            /\ Count(toReceiver'[d], "File") <= Count(toReceiver[d], "File")
            /\ Count(toSender[d], "Closed") \in Nat
            /\ Count(toSender'[d], "Closed") \in Nat
            /\ Count(toSender'[d], "Closed") <= Count(toSender[d], "Closed")
      BY <1>4, <1>24, <2>1, <2>2, <2>3 DEF Within, WithinBut, ReceiveStop,
         senderVars
    <3>2. UNCHANGED <<attempt, queued, completed, closed>> BY <1>24 DEF
            ReceiveStop, senderVars
    <3> QED BY <1>3, <1>7, <3>1, <3>2, CountedStays
  <2>7. Asked'
    BY <1>3, <1>4, <1>24, <2>1, <2>2, <2>3
    DEF Asked, Kept, KeptBut, ReceiveStop, senderVars
  <2>8. Exclusive'
    BY <1>24, <2>1, <2>2, <2>3
    DEF Exclusive, Holding, ReceiveStop, senderVars
  <2>9. Halted'
    BY <1>3, <1>4, <1>24, <2>1, <2>2, <2>3
    DEF Halted, Stopped, Committing, Kept, KeptBut, ReceiveStop, senderVars
  <2>10. Steady'
    BY <1>3, <1>4, <1>24, <2>1, <2>2, <2>3
    DEF Steady, Kept, KeptBut, ReceiveStop, senderVars
  <2>11. Published' /\ Stage' /\ SteadyDiscardIsConfirmed' /\ ShownAgrees'
    BY <1>24 DEF Published, Stage, Talking, SteadyDiscardIsConfirmed,
                 DiscardIsConfirmed, ShownAgrees, ReceiveStop, senderVars
  <2> QED BY <2>4, <2>5, <2>6, <2>7, <2>8, <2>9, <2>10, <2>11 DEF Inductive
<1>25. ASSUME NEW c \in Connections, PauseDone(c)
      PROVE  Inductive'
  <2>1. /\ toSender' \in [Connections -> Seq(Replies)]
        /\ \A d \in Connections :
              d # c \/ link[c] # "up" => toSender'[d] = toSender[d]
        /\ KeptBut(toSender', toSender, c, "Stopped")
        /\ WithinBut(toSender', toSender, c, "Stopped")
    <3>1. "Stopped" \in Replies /\ Reply(c, "Stopped") BY <1>25 DEF PauseDone,
            Replies
    <3>2. \/ toSender' = toSender
          \/ toSender' = [toSender EXCEPT ![c] = Append(@, "Stopped")]
      BY <1>1, <3>1 DEF Reply
    <3>3. link[c] # "up" => toSender' = toSender BY <1>1, <3>1 DEF Reply
    <3> QED BY <1>1, <3>1, <3>2, <3>3, Extended
  <2>2. /\ handler' \in [Connections ->
                           {"none", "accepted", "ended"} \cup Holding]
        /\ \A d \in Connections :
              handler'[d] = IF d = c THEN "ended" ELSE handler[d]
    BY <1>5, <1>25 DEF PauseDone, Becomes, Holding
  <2>3. TypeOK'
    BY <1>25, <2>1, <2>2
    DEF TypeOK, Commands, Talking, Holding, PauseDone, senderVars
  <2>4. Linked'
    BY <1>2, <1>3, <1>6, <1>25, <2>1, <2>2
    DEF Linked, Talking, PauseDone, senderVars
  <2>5. Counted'
    <3>1. \A d \in Connections :
            /\ Count(toReceiver[d], "File") \in Nat
            /\ Count(toReceiver'[d], "File") \in Nat
            /\ Count(toReceiver'[d], "File") <= Count(toReceiver[d], "File")
            /\ Count(toSender[d], "Closed") \in Nat
            /\ Count(toSender'[d], "Closed") \in Nat
            /\ Count(toSender'[d], "Closed") <= Count(toSender[d], "Closed")
      BY <1>4, <1>25, <2>1, <2>2 DEF Within, WithinBut, PauseDone, senderVars
    <3>2. UNCHANGED <<attempt, queued, completed, closed>> BY <1>25 DEF
            PauseDone, senderVars
    <3> QED BY <1>3, <1>7, <3>1, <3>2, CountedStays
  <2>6. Asked'
    BY <1>3, <1>4, <1>25, <2>1, <2>2
    DEF Asked, Kept, KeptBut, PauseDone, senderVars
  <2>7. Exclusive'
    BY <1>25, <2>1, <2>2
    DEF Exclusive, Holding, PauseDone, senderVars
  <2>8. Published'
    BY <1>4, <1>25, <2>1, <2>2
    DEF Published, Kept, KeptBut, PauseDone, senderVars
  <2>9. Halted'
    BY <1>3, <1>4, <1>25, <2>1, <2>2
    DEF Halted, Stopped, Committing, Kept, KeptBut, PauseDone, senderVars,
        Exclusive, Holding
  <2>10. Steady'
    BY <1>3, <1>4, <1>25, <2>1, <2>2
    DEF Steady, Kept, KeptBut, PauseDone, senderVars
  <2>11. Stage' /\ SteadyDiscardIsConfirmed' /\ ShownAgrees'
    BY <1>25 DEF Stage, Talking, SteadyDiscardIsConfirmed, DiscardIsConfirmed,
                 ShownAgrees, PauseDone, senderVars
  <2> QED BY <2>3, <2>4, <2>5, <2>6, <2>7, <2>8, <2>9, <2>10, <2>11 DEF
               Inductive
<1>26. ASSUME NEW c \in Connections, CancelDone(c)
      PROVE  Inductive'
  <2>1. /\ toSender' \in [Connections -> Seq(Replies)]
        /\ \A d \in Connections :
              d # c \/ link[c] # "up" => toSender'[d] = toSender[d]
        /\ KeptBut(toSender', toSender, c, "Stopped")
        /\ WithinBut(toSender', toSender, c, "Stopped")
    <3>1. "Stopped" \in Replies /\ Reply(c, "Stopped") BY <1>26 DEF
            CancelDone, Replies
    <3>2. \/ toSender' = toSender
          \/ toSender' = [toSender EXCEPT ![c] = Append(@, "Stopped")]
      BY <1>1, <3>1 DEF Reply
    <3>3. link[c] # "up" => toSender' = toSender BY <1>1, <3>1 DEF Reply
    <3> QED BY <1>1, <3>1, <3>2, <3>3, Extended
  <2>2. /\ handler' \in [Connections ->
                           {"none", "accepted", "ended"} \cup Holding]
        /\ \A d \in Connections :
              handler'[d] = IF d = c THEN "ended" ELSE handler[d]
    BY <1>5, <1>26 DEF CancelDone, Becomes, Holding
  <2>3. TypeOK'
    <3>1. /\ part' = 0 /\ staging' = FALSE /\ cleaned' = cleaned \cup {c}
          /\ UNCHANGED <<senderVars, link, toReceiver, closed, result,
               switched>>
      BY <1>26 DEF CancelDone
    <3>2. part' \in 0..FileCount /\ cleaned' \in SUBSET Connections
      BY <1>7, <3>1 DEF TypeOK
    <3>3. staging' \in BOOLEAN BY <3>1
    <3> QED BY <2>1, <2>2, <3>1, <3>2, <3>3 DEF TypeOK, senderVars
  <2>4. Linked'
    BY <1>2, <1>3, <1>6, <1>26, <2>1, <2>2
    DEF Linked, Talking, CancelDone, senderVars
  <2>5. Counted'
    <3>1. \A d \in Connections :
            /\ Count(toReceiver[d], "File") \in Nat
            /\ Count(toReceiver'[d], "File") \in Nat
            /\ Count(toReceiver'[d], "File") <= Count(toReceiver[d], "File")
            /\ Count(toSender[d], "Closed") \in Nat
            /\ Count(toSender'[d], "Closed") \in Nat
            /\ Count(toSender'[d], "Closed") <= Count(toSender[d], "Closed")
      BY <1>4, <1>26, <2>1, <2>2 DEF Within, WithinBut, CancelDone, senderVars
    <3>2. UNCHANGED <<attempt, queued, completed, closed>> BY <1>26 DEF
            CancelDone, senderVars
    <3> QED BY <1>3, <1>7, <3>1, <3>2, CountedStays
  <2>6. Asked'
    BY <1>3, <1>4, <1>26, <2>1, <2>2
    DEF Asked, Kept, KeptBut, CancelDone, senderVars
  <2>7. Exclusive'
    BY <1>26, <2>1, <2>2
    DEF Exclusive, Holding, CancelDone, senderVars
  <2>8. Published'
    BY <1>4, <1>26, <2>1, <2>2
    DEF Published, Kept, KeptBut, CancelDone, senderVars
  <2>9. Halted'
    BY <1>3, <1>4, <1>26, <2>1, <2>2
    DEF Halted, Stopped, Committing, Kept, KeptBut, CancelDone, senderVars,
        Exclusive, Holding
  <2>10. Steady'
    BY <1>3, <1>4, <1>26, <2>1, <2>2
    DEF Steady, Kept, KeptBut, CancelDone, senderVars
  <2>11. SteadyDiscardIsConfirmed'
    BY <1>26, <2>1, <2>2
    DEF SteadyDiscardIsConfirmed, DiscardIsConfirmed, CancelDone, senderVars
  <2>12. Stage' /\ ShownAgrees'
    BY <1>26 DEF Stage, Talking, ShownAgrees, CancelDone, senderVars
  <2> QED BY <2>3, <2>4, <2>5, <2>6, <2>7, <2>8, <2>9, <2>10, <2>11, <2>12 DEF
               Inductive
<1>27. ASSUME NEW c \in Connections, ReceiveCommit(c)
      PROVE  Inductive'
  <2>1. /\ toReceiver' \in [Connections -> Seq(Requests)]
        /\ \A d \in Connections : d # c => toReceiver'[d] = toReceiver[d]
        /\ toReceiver[c] # <<>>
        /\ Waits(toReceiver[c], "Commit") /\ Kept(toReceiver', toReceiver)
        /\ Within(toReceiver', toReceiver)
        /\ Count(toReceiver'[c], "Commit") < Count(toReceiver[c], "Commit")
    <3>1. Hears(c, "Commit") /\ Consume(c) BY <1>27 DEF ReceiveCommit
    <3>2. toReceiver[c] # <<>> /\ Head(toReceiver[c]) = "Commit" BY <3>1 DEF
            Hears
    <3>3. toReceiver' = [toReceiver EXCEPT ![c] = Tail(@)] BY <3>1 DEF Consume
    <3>4. /\ toReceiver' \in [Connections -> Seq(Requests)]
          /\ \A d \in Connections : d # c => toReceiver'[d] = toReceiver[d]
          /\ Kept(toReceiver', toReceiver) /\ Within(toReceiver', toReceiver)
          /\ Waits(toReceiver[c], Head(toReceiver[c]))
          /\ Count(toReceiver'[c], Head(toReceiver[c])) <
                 Count(toReceiver[c], Head(toReceiver[c]))
      BY <1>1, <3>2, <3>3, Shortened
    <3> QED BY ONLY <3>2, <3>4
  <2>2. /\ handler' \in [Connections ->
                           {"none", "accepted", "ended"} \cup Holding]
        /\ \A d \in Connections :
              handler'[d] = IF d = c THEN "committing" ELSE handler[d]
    BY <1>5, <1>27 DEF ReceiveCommit, Becomes, Holding
  <2>3. TypeOK'
    BY <1>27, <2>1, <2>2
    DEF TypeOK, Commands, Talking, Holding, ReceiveCommit, senderVars
  <2>4. Linked'
    BY <1>2, <1>3, <1>6, <1>27, <2>1, <2>2
    DEF Linked, Talking, ReceiveCommit, senderVars
  <2>5. Counted'
    <3>1. \A d \in Connections :
            /\ Count(toReceiver[d], "File") \in Nat
            /\ Count(toReceiver'[d], "File") \in Nat
            /\ Count(toReceiver'[d], "File") <= Count(toReceiver[d], "File")
            /\ Count(toSender[d], "Closed") \in Nat
            /\ Count(toSender'[d], "Closed") \in Nat
            /\ Count(toSender'[d], "Closed") <= Count(toSender[d], "Closed")
      BY <1>4, <1>27, <2>1, <2>2 DEF Within, WithinBut, ReceiveCommit,
         senderVars
    <3>2. UNCHANGED <<attempt, queued, completed, closed>> BY <1>27 DEF
            ReceiveCommit, senderVars
    <3> QED BY <1>3, <1>7, <3>1, <3>2, CountedStays
  <2>6. Asked'
    BY <1>3, <1>4, <1>27, <2>1, <2>2
    DEF Asked, Kept, KeptBut, ReceiveCommit, senderVars
  <2>7. Exclusive'
    BY <1>27, <2>1, <2>2
    DEF Exclusive, Holding, ReceiveCommit, senderVars
  <2>8. Halted'
    BY <1>3, <1>4, <1>27, <2>1, <2>2
    DEF Halted, Stopped, Committing, Kept, KeptBut, ReceiveCommit, senderVars
  <2>9. Steady'
    BY <1>3, <1>4, <1>27, <2>1, <2>2
    DEF Steady, Kept, KeptBut, ReceiveCommit, senderVars
  <2>10. Published' /\ Stage' /\ SteadyDiscardIsConfirmed' /\ ShownAgrees'
    BY <1>27 DEF Published, Stage, Talking, SteadyDiscardIsConfirmed,
                 DiscardIsConfirmed, ShownAgrees, ReceiveCommit, senderVars
  <2> QED BY <2>3, <2>4, <2>5, <2>6, <2>7, <2>8, <2>9, <2>10 DEF Inductive
<1>28. ASSUME NEW c \in Connections, CommitDone(c)
      PROVE  Inductive'
  <2>1. /\ toSender' \in [Connections -> Seq(Replies)]
        /\ \A d \in Connections :
              d # c \/ link[c] # "up" => toSender'[d] = toSender[d]
        /\ KeptBut(toSender', toSender, c, "Complete")
        /\ WithinBut(toSender', toSender, c, "Complete")
    <3>1. "Complete" \in Replies /\ Reply(c, "Complete") BY <1>28 DEF
            CommitDone, Replies
    <3>2. \/ toSender' = toSender
          \/ toSender' = [toSender EXCEPT ![c] = Append(@, "Complete")]
      BY <1>1, <3>1 DEF Reply
    <3>3. link[c] # "up" => toSender' = toSender BY <1>1, <3>1 DEF Reply
    <3> QED BY <1>1, <3>1, <3>2, <3>3, Extended
  <2>2. /\ handler' \in [Connections ->
                           {"none", "accepted", "ended"} \cup Holding]
        /\ \A d \in Connections :
              handler'[d] = IF d = c THEN "ended" ELSE handler[d]
    BY <1>5, <1>28 DEF CommitDone, Becomes, Holding
  <2>3. TypeOK'
    <3>1. /\ result' = TRUE /\ staging' = FALSE
          /\ UNCHANGED <<senderVars, link, toReceiver, closed, part, cleaned,
                         switched>>
      BY <1>28 DEF CommitDone
    <3>2. result' \in BOOLEAN /\ staging' \in BOOLEAN BY <3>1
    <3> QED BY <2>1, <2>2, <3>1, <3>2 DEF TypeOK, senderVars
  <2>4. Linked'
    BY <1>2, <1>3, <1>6, <1>28, <2>1, <2>2
    DEF Linked, Talking, CommitDone, senderVars
  <2>5. Counted'
    <3>1. \A d \in Connections :
            /\ Count(toReceiver[d], "File") \in Nat
            /\ Count(toReceiver'[d], "File") \in Nat
            /\ Count(toReceiver'[d], "File") <= Count(toReceiver[d], "File")
            /\ Count(toSender[d], "Closed") \in Nat
            /\ Count(toSender'[d], "Closed") \in Nat
            /\ Count(toSender'[d], "Closed") <= Count(toSender[d], "Closed")
      BY <1>4, <1>28, <2>1, <2>2 DEF Within, WithinBut, CommitDone, senderVars
    <3>2. UNCHANGED <<attempt, queued, completed, closed>> BY <1>28 DEF
            CommitDone, senderVars
    <3> QED BY <1>3, <1>7, <3>1, <3>2, CountedStays
  <2>6. Asked'
    BY <1>3, <1>4, <1>28, <2>1, <2>2
    DEF Asked, Kept, KeptBut, CommitDone, senderVars
  <2>7. Exclusive'
    BY <1>28, <2>1, <2>2
    DEF Exclusive, Holding, CommitDone, senderVars
  <2>8. Published'
    BY <1>4, <1>28, <2>1, <2>2
    DEF Published, Kept, KeptBut, CommitDone, senderVars
  <2>9. Halted'
    BY <1>3, <1>4, <1>28, <2>1, <2>2
    DEF Halted, Stopped, Committing, Kept, KeptBut, CommitDone, senderVars
  <2>10. Steady'
    BY <1>3, <1>4, <1>28, <2>1, <2>2
    DEF Steady, Kept, KeptBut, CommitDone, senderVars
  <2>11. Stage' /\ SteadyDiscardIsConfirmed' /\ ShownAgrees'
    BY <1>28 DEF Stage, Talking, SteadyDiscardIsConfirmed, DiscardIsConfirmed,
                 ShownAgrees, CommitDone, senderVars
  <2> QED BY <2>3, <2>4, <2>5, <2>6, <2>7, <2>8, <2>9, <2>10, <2>11 DEF
               Inductive
<1>29. ASSUME NEW c \in Connections, HandlerFails(c)
      PROVE  Inductive'
  <2>1. /\ toSender' \in [Connections -> Seq(Replies)]
        /\ \A d \in Connections :
              d # c \/ link[c] # "up" => toSender'[d] = toSender[d]
        /\ KeptBut(toSender', toSender, c, "Error")
        /\ WithinBut(toSender', toSender, c, "Error")
    <3>1. "Error" \in Replies /\ Reply(c, "Error") BY <1>29 DEF HandlerFails,
            Replies
    <3>2. \/ toSender' = toSender
          \/ toSender' = [toSender EXCEPT ![c] = Append(@, "Error")]
      BY <1>1, <3>1 DEF Reply
    <3>3. link[c] # "up" => toSender' = toSender BY <1>1, <3>1 DEF Reply
    <3> QED BY <1>1, <3>1, <3>2, <3>3, Extended
  <2>2. /\ handler' \in [Connections ->
                           {"none", "accepted", "ended"} \cup Holding]
        /\ \A d \in Connections :
              handler'[d] = IF d = c THEN "ended" ELSE handler[d]
    BY <1>5, <1>29 DEF HandlerFails, Becomes, Holding
  <2>3. TypeOK'
    BY <1>29, <2>1, <2>2
    DEF TypeOK, Commands, Talking, Holding, HandlerFails, senderVars
  <2>4. Linked'
    <3>1. UNCHANGED <<sender, attempt, closed, link, toReceiver>>
      BY <1>29 DEF HandlerFails, senderVars
    <3>2. handler[c] \in Holding BY <1>29 DEF HandlerFails
    <3>3. ~(c > attempt) BY <3>2 DEF Linked, Holding
    <3>4. ASSUME NEW d \in Connections
          PROVE  /\ d > attempt => handler'[d] = "none"
                 /\ link[d] # "up" => toSender'[d] = <<>>
                 /\ toSender'[d] # <<>> => handler'[d] \notin {"none",
                      "accepted"}
                 /\ handler'[d] = "accepted" => handler[d] = "accepted"
      BY <2>1, <2>2, <3>3 DEF Linked
    <3>5. sender \in {"sending", "stopping", "awaiting"} =>
              handler'[attempt] \notin {"none", "accepted"}
      BY <1>3, <2>2 DEF Linked
    <3> QED BY <3>1, <3>4, <3>5 DEF Linked
  <2>5. Counted'
    <3>1. \A d \in Connections :
            /\ Count(toReceiver[d], "File") \in Nat
            /\ Count(toReceiver'[d], "File") \in Nat
            /\ Count(toReceiver'[d], "File") <= Count(toReceiver[d], "File")
            /\ Count(toSender[d], "Closed") \in Nat
            /\ Count(toSender'[d], "Closed") \in Nat
            /\ Count(toSender'[d], "Closed") <= Count(toSender[d], "Closed")
      BY <1>4, <1>29, <2>1, <2>2 DEF Within, WithinBut, HandlerFails, senderVars
    <3>2. UNCHANGED <<attempt, queued, completed, closed>> BY <1>29 DEF
            HandlerFails, senderVars
    <3> QED BY <1>3, <1>7, <3>1, <3>2, CountedStays
  <2>6. Asked'
    BY <1>3, <1>4, <1>29, <2>1, <2>2
    DEF Asked, Kept, KeptBut, HandlerFails, senderVars
  <2>7. Exclusive'
    BY <1>29, <2>1, <2>2
    DEF Exclusive, Holding, HandlerFails, senderVars
  <2>8. Published'
    BY <1>4, <1>29, <2>1, <2>2
    DEF Published, Kept, KeptBut, HandlerFails, senderVars
  <2>9. Halted'
    BY <1>3, <1>4, <1>29, <2>1, <2>2
    DEF Halted, Stopped, Committing, Kept, KeptBut, HandlerFails, senderVars
  <2>10. Steady'
    BY <1>3, <1>4, <1>29, <2>1, <2>2
    DEF Steady, Kept, KeptBut, HandlerFails, senderVars
  <2>11. Stage' /\ SteadyDiscardIsConfirmed' /\ ShownAgrees'
    BY <1>29 DEF Stage, Talking, SteadyDiscardIsConfirmed, DiscardIsConfirmed,
                 ShownAgrees, HandlerFails, senderVars
  <2> QED BY <2>3, <2>4, <2>5, <2>6, <2>7, <2>8, <2>9, <2>10, <2>11 DEF
               Inductive
<1>30. ASSUME NEW c \in Connections, HandlerLosesPeer(c)
      PROVE  Inductive'
  <2>1. /\ handler' \in [Connections ->
                           {"none", "accepted", "ended"} \cup Holding]
        /\ \A d \in Connections :
              handler'[d] = IF d = c THEN "ended" ELSE handler[d]
    BY <1>5, <1>30 DEF HandlerLosesPeer, Becomes, Holding
  <2>2. TypeOK'
    BY <1>30, <2>1
    DEF TypeOK, Commands, Talking, Holding, HandlerLosesPeer, senderVars
  <2>3. Linked'
    BY <1>2, <1>3, <1>6, <1>30, <2>1
    DEF Linked, Talking, HandlerLosesPeer, senderVars
  <2>4. Asked'
    BY <1>3, <1>4, <1>30, <2>1
    DEF Asked, Kept, KeptBut, HandlerLosesPeer, senderVars
  <2>5. Exclusive'
    BY <1>30, <2>1
    DEF Exclusive, Holding, HandlerLosesPeer, senderVars
  <2>6. Halted'
    BY <1>3, <1>4, <1>30, <2>1
    DEF Halted, Stopped, Committing, Kept, KeptBut, HandlerLosesPeer, senderVars
  <2>7. Steady'
    BY <1>3, <1>4, <1>30, <2>1
    DEF Steady, Kept, KeptBut, HandlerLosesPeer, senderVars
  <2>8. Counted' /\ Published' /\ Stage' /\ SteadyDiscardIsConfirmed' /\
          ShownAgrees'
    BY <1>30 DEF Counted, Published, Stage, Talking, SteadyDiscardIsConfirmed,
                 DiscardIsConfirmed, ShownAgrees, HandlerLosesPeer, senderVars
  <2> QED BY <2>2, <2>3, <2>4, <2>5, <2>6, <2>7, <2>8 DEF Inductive
<1>31. ASSUME NEW c \in Connections, Break(c)
      PROVE  Inductive'
  <2>1. /\ toReceiver' \in [Connections -> Seq(Requests)]
        /\ toSender' \in [Connections -> Seq(Replies)]
        /\ \A d \in Connections :
              /\ toReceiver'[d] = IF d = c THEN <<>> ELSE toReceiver[d]
              /\ toSender'[d] = IF d = c THEN <<>> ELSE toSender[d]
              /\ link'[d] = IF d = c THEN "cut" ELSE link[d]
    BY <1>1, <1>5, <1>31 DEF Break
  <2>2. /\ Kept(toReceiver', toReceiver) /\ Within(toReceiver', toReceiver)
        /\ Kept(toSender', toSender) /\ Within(toSender', toSender)
    BY <1>1, <2>1, Emptied
  <2>3. TypeOK'
    BY <1>31, <2>1, <2>2
    DEF TypeOK, Commands, Talking, Holding, Break, senderVars, receiverVars
  <2>4. Linked'
    BY <1>2, <1>3, <1>6, <1>31, <2>1, <2>2
    DEF Linked, Talking, Break, senderVars, receiverVars
  <2>5. Counted'
    <3>1. \A d \in Connections :
            /\ Count(toReceiver[d], "File") \in Nat
            /\ Count(toReceiver'[d], "File") \in Nat
            /\ Count(toReceiver'[d], "File") <= Count(toReceiver[d], "File")
            /\ Count(toSender[d], "Closed") \in Nat
            /\ Count(toSender'[d], "Closed") \in Nat
            /\ Count(toSender'[d], "Closed") <= Count(toSender[d], "Closed")
      BY <1>4, <1>31, <2>1, <2>2 DEF Within, WithinBut, Break, senderVars,
         receiverVars
    <3>2. UNCHANGED <<attempt, queued, completed, closed>> BY <1>31 DEF Break,
            senderVars, receiverVars
    <3> QED BY <1>3, <1>7, <3>1, <3>2, CountedStays
  <2>6. Asked'
    BY <1>3, <1>4, <1>31, <2>1, <2>2
    DEF Asked, Kept, KeptBut, Break, senderVars, receiverVars
  <2>7. Published'
    BY <1>4, <1>31, <2>1, <2>2
    DEF Published, Kept, KeptBut, Break, senderVars, receiverVars
  <2>8. Halted'
    BY <1>3, <1>4, <1>31, <2>1, <2>2
    DEF Halted, Stopped, Committing, Kept, KeptBut, Break, senderVars,
        receiverVars
  <2>9. Steady'
    BY <1>3, <1>4, <1>31, <2>1, <2>2
    DEF Steady, Kept, KeptBut, Break, senderVars, receiverVars
  <2>10. Exclusive' /\ Stage' /\ SteadyDiscardIsConfirmed' /\ ShownAgrees'
    BY <1>31 DEF Exclusive, Stage, Talking, SteadyDiscardIsConfirmed,
                 DiscardIsConfirmed, ShownAgrees, Break, senderVars,
                   receiverVars
  <2> QED BY <2>3, <2>4, <2>5, <2>6, <2>7, <2>8, <2>9, <2>10 DEF Inductive
<1>32. ASSUME SenderRestarts
      PROVE  Inductive'
  <2>1. /\ toSender' \in [Connections -> Seq(Replies)]
        /\ \A d \in Connections :
              toSender'[d] = IF d = attempt THEN <<>> ELSE toSender[d]
        /\ link' \in [Connections -> {"new", "up", "left", "cut"}]
        /\ \A d \in Connections :
              link'[d] = IF d = attempt /\ link[d] = "up" THEN "left" ELSE
                link[d]
        /\ Kept(toSender', toSender) /\ Within(toSender', toSender)
    <3>1. /\ toSender' = [toSender EXCEPT ![attempt] = <<>>]
          /\ link' = [link EXCEPT ![attempt] = IF @ = "up" THEN "left" ELSE @]
      BY <1>32 DEF SenderRestarts, End
    <3>2. \A d \in Connections :
             toSender'[d] = IF d = attempt THEN <<>> ELSE toSender[d]
      BY <1>1, <3>1
    <3>3. Kept(toSender', toSender) /\ Within(toSender', toSender)
      <4>1. \A d \in Connections : toSender'[d] = toSender[d] \/ toSender'[d]
              = <<>>
        BY ONLY <3>2
      <4>2. toSender \in [Connections -> Seq(Replies)] BY <1>1
      <4> QED BY ONLY <4>1, <4>2, Emptied
    <3>4. toSender' \in [Connections -> Seq(Replies)]
      <4>1. <<>> \in Seq(Replies) OBVIOUS
      <4>2. \A q \in Seq(Replies) :
              [toSender EXCEPT ![attempt] = q] \in [Connections -> Seq(Replies)]
        BY ONLY <1>1
      <4> QED BY ONLY <3>1, <4>1, <4>2
    <3>5. /\ link' \in [Connections -> {"new", "up", "left", "cut"}]
          /\ \A d \in Connections : link'[d] =
                IF d = attempt /\ link[d] = "up" THEN "left" ELSE link[d]
      BY <1>5, <3>1
    <3> QED BY <3>2, <3>3, <3>4, <3>5
  <2>2. TypeOK'
    BY <1>32, <2>1
    DEF TypeOK, Commands, Talking, Holding, SenderRestarts, receiverVars
  <2>3. Linked'
    BY <1>2, <1>3, <1>6, <1>32, <2>1
    DEF Linked, Talking, SenderRestarts, receiverVars
  <2>4. Counted'
    <3>1. \A d \in Connections :
            /\ Count(toReceiver[d], "File") \in Nat
            /\ Count(toReceiver'[d], "File") \in Nat
            /\ Count(toReceiver'[d], "File") <= Count(toReceiver[d], "File")
            /\ Count(toSender[d], "Closed") \in Nat
            /\ Count(toSender'[d], "Closed") \in Nat
            /\ Count(toSender'[d], "Closed") <= Count(toSender[d], "Closed")
      BY <1>4, <1>32, <2>1 DEF Within, WithinBut, SenderRestarts, receiverVars
    <3>2. UNCHANGED <<attempt, queued, completed, closed>> BY <1>32 DEF
            SenderRestarts, receiverVars
    <3> QED BY <1>3, <1>7, <3>1, <3>2, CountedStays
  <2>5. Asked'
    BY <1>3, <1>4, <1>32, <2>1
    DEF Asked, Kept, KeptBut, SenderRestarts, receiverVars
  <2>6. Published'
    BY <1>4, <1>32, <2>1
    DEF Published, Kept, KeptBut, SenderRestarts, receiverVars
  <2>7. Halted'
    BY <1>3, <1>4, <1>32, <2>1
    DEF Halted, Stopped, Committing, Kept, KeptBut, SenderRestarts, receiverVars
  <2>8. Steady'
    BY <1>3, <1>4, <1>32, <2>1
    DEF Steady, Kept, KeptBut, SenderRestarts, receiverVars
  <2>9. Stage'
    BY <1>32, <2>1
    DEF Stage, Talking, SenderRestarts, receiverVars
  <2>10. SteadyDiscardIsConfirmed'
    BY <1>32, <2>1
    DEF SteadyDiscardIsConfirmed, DiscardIsConfirmed, SenderRestarts,
        receiverVars, Stage
  <2>11. ShownAgrees'
    BY <1>32, <2>1
    DEF ShownAgrees, SenderRestarts, receiverVars
  <2>12. Exclusive'
    BY <1>32 DEF Exclusive, SenderRestarts, receiverVars
  <2> QED BY <2>2, <2>3, <2>4, <2>5, <2>6, <2>7, <2>8, <2>9, <2>10, <2>11,
               <2>12 DEF Inductive
<1>33. ASSUME ReceiverRestarts
      PROVE  Inductive'
  <2>1. /\ toReceiver' \in [Connections -> Seq(Requests)]
        /\ toSender' \in [Connections -> Seq(Replies)]
        /\ \A d \in Connections :
              /\ toReceiver'[d] = <<>> /\ toSender'[d] = <<>>
              /\ link'[d] = IF link[d] = "new" THEN "new" ELSE "cut"
              /\ handler'[d] = IF handler[d] = "none" THEN "none" ELSE "ended"
    BY <1>1, <1>5, <1>33 DEF ReceiverRestarts
  <2>2. /\ Kept(toReceiver', toReceiver) /\ Within(toReceiver', toReceiver)
        /\ Kept(toSender', toSender) /\ Within(toSender', toSender)
    BY <1>1, <2>1, Emptied
  <2>3. TypeOK'
    BY <1>33, <2>1, <2>2
    DEF TypeOK, Commands, Talking, Holding, ReceiverRestarts, senderVars
  <2>4. Linked'
    BY <1>2, <1>3, <1>6, <1>33, <2>1, <2>2
    DEF Linked, Talking, ReceiverRestarts, senderVars
  <2>5. Counted'
    <3>1. \A d \in Connections :
            /\ Count(toReceiver[d], "File") \in Nat
            /\ Count(toReceiver'[d], "File") \in Nat
            /\ Count(toReceiver'[d], "File") <= Count(toReceiver[d], "File")
            /\ Count(toSender[d], "Closed") \in Nat
            /\ Count(toSender'[d], "Closed") \in Nat
            /\ Count(toSender'[d], "Closed") <= Count(toSender[d], "Closed")
      BY <1>4, <1>33, <2>1, <2>2 DEF Within, WithinBut, ReceiverRestarts,
         senderVars
    <3>2. UNCHANGED <<attempt, queued, completed, closed>> BY <1>33 DEF
            ReceiverRestarts, senderVars
    <3> QED BY <1>3, <1>7, <3>1, <3>2, CountedStays
  <2>6. Asked'
    BY <1>3, <1>4, <1>33, <2>1, <2>2
    DEF Asked, Kept, KeptBut, ReceiverRestarts, senderVars
  <2>7. Exclusive'
    BY <1>33, <2>1, <2>2
    DEF Exclusive, Holding, ReceiverRestarts, senderVars
  <2>8. Published'
    BY <1>4, <1>33, <2>1, <2>2
    DEF Published, Kept, KeptBut, ReceiverRestarts, senderVars
  <2>9. Halted'
    BY <1>3, <1>4, <1>33, <2>1, <2>2
    DEF Halted, Stopped, Committing, Kept, KeptBut, ReceiverRestarts, senderVars
  <2>10. Steady'
    BY <1>3, <1>4, <1>33, <2>1, <2>2
    DEF Steady, Kept, KeptBut, ReceiverRestarts, senderVars
  <2>11. Stage' /\ SteadyDiscardIsConfirmed' /\ ShownAgrees'
    BY <1>33 DEF Stage, Talking, SteadyDiscardIsConfirmed, DiscardIsConfirmed,
                 ShownAgrees, ReceiverRestarts, senderVars
  <2> QED BY <2>3, <2>4, <2>5, <2>6, <2>7, <2>8, <2>9, <2>10, <2>11 DEF
               Inductive
<1>34. ASSUME UNCHANGED vars
      PROVE  Inductive'
  <2>1. TypeOK' /\ Linked' /\ Counted' /\ Asked' /\ Exclusive' /\ Published'
          /\ Halted' /\ Steady' /\ Stage' /\ SteadyDiscardIsConfirmed' /\
               ShownAgrees'
    BY <1>34 DEF TypeOK, Commands, Talking, Linked, Counted, Asked, Exclusive,
                 Published, Halted, Stopped, Committing, Steady, Stage,
                   SteadyDiscardIsConfirmed, DiscardIsConfirmed, ShownAgrees,
                     vars, senderVars, receiverVars
  <2> QED BY <2>1 DEF Inductive
<1> QED
  BY <1>8, <1>9, <1>10, <1>11, <1>12, <1>13, <1>14, <1>15, <1>16, <1>17,
     <1>18, <1>19, <1>20, <1>21, <1>22, <1>23, <1>24, <1>25, <1>26, <1>27,
       <1>28, <1>29, <1>30, <1>31, <1>32, <1>33, <1>34
  DEF Next, SenderStep, HandlerStep

-----------------------------------------------------------------------------
(* Theorems.                                                               *)

\* The invariant holds before the first attempt ...
LEMMA InductiveInit ==
    ASSUME Init
    PROVE  Inductive
<1>1. TypeOK
  <2>1. /\ MaxAttempts \in Nat /\ 0 \in 0..FileCount /\ 0 \in 0..MaxAttempts
        /\ <<>> \in Seq(Requests) /\ <<>> \in Seq(Replies)
    BY StopAssumption
  <2>2. staging \in BOOLEAN /\ result \in BOOLEAN /\ switched \in BOOLEAN
    BY DEF Init
  <2> QED BY <2>1, <2>2 DEF Init, TypeOK, Commands
<1>2. Linked /\ Asked /\ Exclusive
  BY DEF Init, Linked, Asked, Exclusive, Holding, Connections
<1>3. Counted
  <2>1. /\ \A c \in Connections : closed[c] = 0 /\ toReceiver[c] = <<>>
        /\ attempt = 0
    BY DEF Init
  <2>2. FileCount \in Nat BY StopAssumption
  <2> QED BY <2>1, <2>2, CountEmpty DEF Counted
<1>4. Published
  <2>1. \A c \in Connections : toSender[c] = <<>> BY DEF Init
  <2>2. \A m : ~Waits(<<>>, m) BY DEF Waits
  <2> QED BY <2>1, <2>2 DEF Init, Published
<1>5. Halted /\ Steady /\ Stage
  BY DEF Init, Halted, Stopped, Steady, Stage, Talking
<1>6. SteadyDiscardIsConfirmed /\ ShownAgrees
  BY DEF Init, SteadyDiscardIsConfirmed, DiscardIsConfirmed, ShownAgrees
<1> QED BY <1>1, <1>2, <1>3, <1>4, <1>5, <1>6 DEF Inductive

\* ... and for ever, whatever the users press, whatever breaks or restarts.
THEOREM InductiveHolds == Spec => []Inductive
<1>1. Init => Inductive BY InductiveInit
<1>2. Inductive /\ [Next]_vars => Inductive' BY InductiveStep
<1> QED BY <1>1, <1>2, PTL DEF Spec

\* Every variable keeps its type. In particular no count of completed or
\* closed files ever passes the number of files.
THEOREM TypeCorrect == Spec => []TypeOK
<1>1. Inductive => TypeOK BY DEF Inductive
<1> QED BY <1>1, InductiveHolds, PTL

\* README.md, "cancel": a task is forgotten only after the receiver has cleaned
\* up on the same connection, as long as the user leaves the command alone once
\* it is sent, for any number of earlier attempts and of messages in flight.
THEOREM SteadyDiscardAlwaysConfirmed == Spec => []SteadyDiscardIsConfirmed
<1>1. Inductive => SteadyDiscardIsConfirmed BY DEF Inductive
<1> QED BY <1>1, InductiveHolds, PTL

\* A sender that records success speaks of a task the receiver has published.
THEOREM SentAlwaysPublished == Spec => []SentIsPublished
<1>1. Inductive => SentIsPublished BY DEF Inductive, Published, SentIsPublished
<1> QED BY <1>1, InductiveHolds, PTL

\* A task forgotten as cancelled is not published, and will not be: when Stopped
\* is sent no session is left that has a Commit to carry out.
THEOREM DiscardedAlwaysUnpublished == Spec => []DiscardedIsUnpublished
<1>1. Inductive => DiscardedIsUnpublished
  BY DEF Inductive, Halted, Stopped, DiscardedIsUnpublished
<1> QED BY <1>1, InductiveHolds, PTL

\* What the user is told at the end of an attempt agrees with what is kept.
THEOREM AlwaysShownAgrees == Spec => []ShownAgrees
<1>1. Inductive => ShownAgrees BY DEF Inductive
<1> QED BY <1>1, InductiveHolds, PTL
=============================================================================
