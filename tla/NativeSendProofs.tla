-------------------------- MODULE NativeSendProofs --------------------------
(***************************************************************************)
(* Proofs about NativeSend, for any frames of any number of files, any     *)
(* payload, chunk and buffer length: the wire is exact, and the kernel     *)
(* never works with an OVERLAPPED that is gone.                            *)
(*                                                                         *)
(* The argument: while somebody writes a frame, the length of the wire     *)
(* says how much of that frame is out (Placed), and the worker's file and  *)
(* its buffer go on exactly there (Aligned).  So whatever is put next is   *)
(* what comes next (Extends).                                              *)
(***************************************************************************)
EXTENDS NativeSend, SequenceTheorems, TLAPS

Items == {Prefix(k) : k \in DOMAIN Frames}
           \cup {Unit(k, n) : k \in DOMAIN Frames, n \in Nat}

Copying == {"fast", "slow", "sendfile", "read", "write", "fast_wait", "slow_wait"}
Overlapped == {"await", "drain"}

Types ==
    /\ platform \in {"unix", "windows"}
    /\ native \in BOOLEAN
    /\ frame \in 1..Len(Frames) + 1
    /\ handler \in {"header", "copy", "append", "ended", "gone"}
    /\ worker \in Copying \cup Overlapped
                    \cup {"none", "submit", "done", "refused", "failed"}
    /\ cancelled \in BOOLEAN /\ late \in BOOLEAN /\ owned \in BOOLEAN
    /\ sent \in 0..Length
    /\ position \in [Files -> Nat]
    /\ buffer \in Seq(Items)
    /\ wire \in Seq(Items)
    /\ op \in {"none", "pending", "whole", "broken"}
    /\ room \in Nat

\* Who is at work, and what the end of that work means.
Control ==
    /\ worker # "none" => handler \in {"copy", "gone"} /\ frame \in DOMAIN Frames
    /\ handler \in {"copy", "append"} => frame \in DOMAIN Frames
    /\ handler = "ended" => frame = Len(Frames) + 1
    /\ owned <=> worker \in Overlapped
    /\ op = "pending" => worker \in Overlapped
    /\ worker \in Overlapped /\ op = "whole" => sent = Length
    /\ worker = "done" => sent = Length

\* How much of the frame at hand is out.
Placed ==
    /\ handler \in {"header", "ended"} => Len(wire) = Start(frame)
    /\ handler \in {"copy", "append"} \/ worker # "none" =>
          Len(wire) = Start(frame) + 1 + sent

\* The worker's file and buffer go on where the wire ends.
Aligned ==
    /\ worker \notin {"slow", "write", "slow_wait", "failed"} => buffer = <<>>
    /\ worker \in Copying =>
          LET next == Frames[frame].offset + sent IN
          /\ position[Frames[frame].file] = next + Len(buffer)
          /\ sent + Len(buffer) <= Length
          /\ \A i \in 1..Len(buffer) : buffer[i] = Unit(frame, next + i - 1)

Inductive == Types /\ Control /\ Placed /\ Aligned /\ WireIsExact

-----------------------------------------------------------------------------
(* The operators of the model.                                             *)

\* Frames follow one another without a gap.
LEMMA StartMonotone ==
    /\ \A k \in Nat \ {0} : Start(k) \in Nat /\ Start(k + 1) = Start(k) + Length + 1
    /\ \A j, k \in Nat \ {0} : j < k => Start(j) + Length + 1 <= Start(k)
<1> USE NativeSendAssumption
<1>1. ASSUME NEW a \in Nat, NEW b \in Nat PROVE a * b \in Nat
  OBVIOUS
<1>2. ASSUME NEW a \in Nat, NEW b \in Nat PROVE (a + 1) * b = a * b + b
  OBVIOUS
<1>3. ASSUME NEW a \in Nat, NEW b \in Nat, NEW c \in Nat, a < b
      PROVE  a * c + c <= b * c
  <2>1. PICK d \in Nat : b = a + 1 + d
    <3>1. b - a - 1 \in Nat /\ b = a + 1 + (b - a - 1)
      BY <1>3
    <3> QED
      BY <3>1
  <2>2. b * c = a * c + c + d * c
    BY <2>1
  <2> QED
    BY <1>1, <2>2
<1>4. ASSUME NEW k \in Nat \ {0}
      PROVE  Start(k) \in Nat /\ Start(k + 1) = Start(k) + Length + 1
  <2>1. k - 1 \in Nat /\ Length + 1 \in Nat /\ k = (k - 1) + 1
    OBVIOUS
  <2>2. Start(k) \in Nat
    BY <1>1, <2>1 DEF Start
  <2>3. ((k - 1) + 1) * (Length + 1) = (k - 1) * (Length + 1) + (Length + 1)
    BY <1>2, <2>1
  <2> QED
    BY <2>1, <2>2, <2>3 DEF Start
<1>5. ASSUME NEW j \in Nat \ {0}, NEW k \in Nat \ {0}, j < k
      PROVE  Start(j) + Length + 1 <= Start(k)
  <2>1. j - 1 \in Nat /\ k - 1 \in Nat /\ j - 1 < k - 1 /\ Length + 1 \in Nat
    BY <1>5
  <2>2. (j - 1) * (Length + 1) + (Length + 1) <= (k - 1) * (Length + 1)
    BY <1>3, <2>1
  <2>3. (j - 1) * (Length + 1) \in Nat
    BY <1>1, <2>1
  <2> QED
    BY <2>2, <2>3 DEF Start
<1> QED
  BY <1>4, <1>5

LEMMA MinOfTwo ==
    ASSUME NEW a \in Nat, NEW b \in Nat
    PROVE  Min({a, b}) \in Nat /\ Min({a, b}) <= a /\ Min({a, b}) <= b
<1>1. \E x \in {a, b} : \A y \in {a, b} : x <= y
  OBVIOUS
<1> QED
  BY <1>1 DEF Min

\* What a call may take is within what it is offered.
LEMMA SomeIsWithin ==
    ASSUME NEW limit \in Nat, room \in Nat, NEW n \in Some(limit)
    PROVE  n \in Nat /\ 1 <= n /\ n <= limit /\ n <= room
BY MinOfTwo DEF Some

LEMMA FramesTyped ==
    /\ Len(Frames) \in Nat /\ DOMAIN Frames = 1..Len(Frames)
    /\ \A k \in DOMAIN Frames :
          /\ Frames[k].file \in Files /\ Frames[k].offset \in Nat
          /\ Prefix(k) \in Items
          /\ \A n \in Nat : Unit(k, n) \in Items
<1>1. Frames \in Seq([file : Nat, offset : Nat])
  BY NativeSendAssumption
<1>2. Len(Frames) \in Nat /\ DOMAIN Frames = 1..Len(Frames)
  BY <1>1
<1>3. ASSUME NEW k \in DOMAIN Frames PROVE Frames[k].offset \in Nat
  <2>1. Frames[k] \in [file : Nat, offset : Nat]
    BY ONLY <1>1, <1>2, k \in DOMAIN Frames, ElementOfSeq
  <2> QED
    BY <2>1
<1> QED
  BY <1>2, <1>3 DEF Files, Items

-----------------------------------------------------------------------------
(* Putting what comes next keeps the wire exact.                           *)

\* A wire that grows within one frame is looked at in that frame only.
LEMMA Grows ==
    ASSUME NEW w \in Seq(Items), NEW v \in Seq(Items), NEW f \in DOMAIN Frames,
           Exact(w), Len(w) <= Len(v), \A i \in 1..Len(w) : v[i] = w[i],
           Start(f) <= Len(w), Len(v) <= Start(f) + Length + 1,
           Len(w) = Start(f) => v[Start(f) + 1] = Prefix(f),
           \A n \in 1..Length : Len(w) <= Start(f) + n /\ Start(f) + n < Len(v)
                                  => v[Start(f) + 1 + n] = Payload(f)[n]
    PROVE  Exact(v) /\ Len(v) <= Start(Len(Frames) + 1)
<1>1. /\ f \in Nat \ {0} /\ f < Len(Frames) + 1 /\ Len(Frames) + 1 \in Nat \ {0}
      /\ Length \in Nat
  BY ONLY SMTT(30), FramesTyped, NativeSendAssumption, f \in DOMAIN Frames
<1>2. /\ Start(f) \in Nat /\ Start(Len(Frames) + 1) \in Nat
      /\ Start(f) + Length + 1 <= Start(Len(Frames) + 1)
  BY ONLY <1>1, StartMonotone
<1>3. ASSUME NEW k \in DOMAIN Frames
      PROVE  /\ Len(v) > Start(k) => v[Start(k) + 1] = Prefix(k)
             /\ \A n \in 1..Length :
                  Len(v) > Start(k) + n => v[Start(k) + 1 + n] = Payload(k)[n]
  <2>1. k \in Nat \ {0}
    BY ONLY FramesTyped, k \in DOMAIN Frames
  <2>2. Start(k) \in Nat /\ Len(w) \in Nat /\ Len(v) \in Nat
    BY SMTT(30), <2>1, StartMonotone
  <2>3. CASE k < f
    <3>1. Start(k) + Length + 1 <= Start(f)
      BY ONLY <1>1, <2>1, <2>3, StartMonotone
    <3>2. Start(k) + Length + 1 <= Len(w)
      BY <1>1, <1>2, <2>2, <3>1
    <3>3. v[Start(k) + 1] = Prefix(k)
      <4>1. Start(k) + 1 \in 1..Len(w) /\ Len(w) > Start(k)
        BY ONLY <1>1, <2>2, <3>2
      <4> QED
        BY <4>1 DEF Exact
    <3>4. ASSUME NEW n \in 1..Length PROVE v[Start(k) + 1 + n] = Payload(k)[n]
      <4>1. Start(k) + 1 + n \in 1..Len(w) /\ Len(w) > Start(k) + n
        BY ONLY <1>1, <2>2, <3>2, n \in 1..Length
      <4> QED
        BY <4>1 DEF Exact
    <3> QED
      BY <3>3, <3>4
  <2>4. CASE k = f
    <3>1. v[Start(k) + 1] = Prefix(k)
      <4>1. CASE Len(w) > Start(f)
        <5>1. Start(f) + 1 \in 1..Len(w)
          BY <1>2, <4>1
        <5> QED
          BY <2>4, <4>1, <5>1 DEF Exact
      <4> QED
        BY <1>2, <2>4, <4>1
    <3>2. ASSUME NEW n \in 1..Length, Len(v) > Start(k) + n
          PROVE  v[Start(k) + 1 + n] = Payload(k)[n]
      <4>1. CASE Len(w) > Start(k) + n
        <5>1. Start(k) + 1 + n \in 1..Len(w)
          BY <1>1, <2>2, <4>1
        <5> QED
          BY <4>1, <5>1 DEF Exact
      <4>2. CASE Len(w) <= Start(k) + n
        BY <2>4, <3>2, <4>2
      <4>3. Start(k) + n \in Nat
        BY <1>1, <2>2
      <4> QED
        BY <4>1, <4>2, <4>3
    <3> QED
      BY <3>1, <3>2
  <2>5. CASE k > f
    <3>1. Start(f) + Length + 1 <= Start(k)
      BY ONLY <1>1, <2>1, <2>5, StartMonotone
    <3> QED
      BY <1>1, <1>2, <2>2, <3>1
  <2> QED
    BY <1>1, <2>1, <2>3, <2>4, <2>5
<1> QED
  BY <1>1, <1>2, <1>3 DEF Exact

\* The prefix of a frame, behind the frames before it.
LEMMA PutPrefix ==
    ASSUME Types, WireIsExact, frame \in DOMAIN Frames, handler' # "ended",
           Len(wire) = Start(frame), Put(<<Prefix(frame)>>)
    PROVE  /\ WireIsExact' /\ wire' \in Seq(Items) /\ room' \in Nat
           /\ Len(wire') = Start(frame) + 1
<1>1. /\ wire \in Seq(Items) /\ <<Prefix(frame)>> \in Seq(Items)
      /\ Len(wire) \in Nat /\ room \in Nat /\ Length \in Nat
      /\ Len(<<Prefix(frame)>>) = 1 /\ <<Prefix(frame)>>[1] = Prefix(frame)
  BY FramesTyped, NativeSendAssumption DEF Types
<1>2. /\ wire' = wire \o <<Prefix(frame)>> /\ room' = room - 1 /\ 1 <= room
  BY <1>1 DEF Put
<1>3. /\ wire' \in Seq(Items) /\ Len(wire') = Len(wire) + 1
      /\ \A i \in 1..Len(wire) + 1 :
            wire'[i] = IF i <= Len(wire) THEN wire[i] ELSE <<Prefix(frame)>>[i - Len(wire)]
  BY ONLY <1>1, <1>2, ConcatProperties
<1>4. /\ \A i \in 1..Len(wire) : wire'[i] = wire[i]
      /\ wire'[Len(wire) + 1] = Prefix(frame)
  BY ONLY <1>1, <1>3
<1>5. Exact(wire') /\ Len(wire') <= Start(Len(Frames) + 1)
  <2>1. Exact(wire) /\ Len(wire) <= Len(wire')
    BY <1>1, <1>3 DEF WireIsExact
  <2>2. /\ Start(frame) <= Len(wire) /\ Len(wire') <= Start(frame) + Length + 1
        /\ wire'[Start(frame) + 1] = Prefix(frame)
    BY <1>1, <1>3, <1>4
  <2>3. ASSUME NEW n \in 1..Length, Start(frame) + n < Len(wire')
        PROVE  FALSE
    BY <1>1, <1>3, <2>3
  <2> QED
    BY ONLY <1>1, <1>3, <1>4, <2>1, <2>2, <2>3, Grows, frame \in DOMAIN Frames
<1> QED
  BY <1>1, <1>2, <1>3, <1>5 DEF WireIsExact

\* Units of the frame at hand, from where it stands.
LEMMA PutUnits ==
    ASSUME Types, WireIsExact, frame \in DOMAIN Frames, handler' # "ended",
           Len(wire) = Start(frame) + 1 + sent,
           NEW items \in Seq(Items), sent + Len(items) <= Length,
           \A i \in 1..Len(items) :
              items[i] = Unit(frame, Frames[frame].offset + sent + i - 1),
           Put(items)
    PROVE  /\ WireIsExact' /\ wire' \in Seq(Items) /\ room' \in Nat
           /\ Len(wire') = Start(frame) + 1 + sent + Len(items)
<1> DEFINE end == Len(wire)
           more == Len(items)
<1>1. /\ wire \in Seq(Items) /\ sent \in Nat /\ more \in Nat /\ end \in Nat
      /\ Length \in Nat /\ room \in Nat /\ items \in Seq(Items)
  BY FramesTyped, NativeSendAssumption DEF Types
<1>2. /\ Start(frame) \in Nat /\ Frames[frame].offset \in Nat
      /\ end = Start(frame) + 1 + sent
  <2>1. frame \in Nat \ {0}
    BY ONLY frame \in DOMAIN Frames, FramesTyped
  <2> QED
    BY <2>1, FramesTyped, StartMonotone
<1>3. /\ wire' = wire \o items /\ room' = room - more /\ more <= room
  BY DEF Put
<1>4. /\ wire' \in Seq(Items) /\ Len(wire') = end + more
      /\ \A i \in 1..end + more :
            wire'[i] = IF i <= end THEN wire[i] ELSE items[i - end]
  BY ONLY <1>1, <1>3, ConcatProperties
<1>5. \A i \in 1..end : wire'[i] = wire[i]
  BY ONLY <1>1, <1>4
<1>6. ASSUME NEW n \in 1..Length, end <= Start(frame) + n, Start(frame) + n < end + more
      PROVE  wire'[Start(frame) + 1 + n] = Payload(frame)[n]
  <2>0. n \in Nat /\ sent + 1 <= n /\ n <= sent + more
    BY <1>1, <1>2, <1>6
  <2>1. n - sent \in 1..more /\ Start(frame) + 1 + n = end + (n - sent)
    BY ONLY <1>1, <1>2, <2>0
  <2>2. /\ end + (n - sent) \in 1..end + more /\ ~(end + (n - sent) <= end)
        /\ (end + (n - sent)) - end = n - sent
    BY ONLY <1>1, <2>1
  <2>3. wire'[Start(frame) + 1 + n] = items[n - sent]
    BY ONLY <1>4, <2>1, <2>2
  <2>4. items[n - sent] = Unit(frame, Frames[frame].offset + sent + (n - sent) - 1)
    BY <2>1
  <2>5. Frames[frame].offset + sent + (n - sent) - 1 = Frames[frame].offset + n - 1
    BY ONLY <1>1, <1>2, n \in 1..Length
  <2> QED
    BY <2>3, <2>4, <2>5 DEF Payload
<1>7. Exact(wire') /\ Len(wire') <= Start(Len(Frames) + 1)
  <2>1. Exact(wire)
    BY DEF WireIsExact
  <2>2. /\ Len(wire) <= Len(wire') /\ Start(frame) <= Len(wire)
        /\ Len(wire) # Start(frame) /\ Len(wire') <= Start(frame) + Length + 1
    BY <1>1, <1>2, <1>4
  <2>3. ASSUME NEW n \in 1..Length, Len(wire) <= Start(frame) + n, Start(frame) + n < Len(wire')
        PROVE  wire'[Start(frame) + 1 + n] = Payload(frame)[n]
    BY ONLY <1>4, <1>6, <2>3, n \in 1..Length
  <2> QED
    BY ONLY <1>1, <1>4, <1>5, <2>1, <2>2, <2>3, Grows, frame \in DOMAIN Frames
<1> QED
  BY <1>1, <1>3, <1>4, <1>7 DEF WireIsExact

-----------------------------------------------------------------------------
(* Units of a frame, read from the file or taken from memory.              *)

Units(f, from, n) == [i \in 1..n |-> Unit(f, from + i - 1)]

LEMMA UnitsTyped ==
    ASSUME NEW f \in DOMAIN Frames, NEW from \in Nat, NEW n \in Nat
    PROVE  /\ Units(f, from, n) \in Seq(Items) /\ Len(Units(f, from, n)) = n
           /\ \A i \in 1..n : Units(f, from, n)[i] = Unit(f, from + i - 1)
<1>1. ASSUME NEW i \in 1..n PROVE Unit(f, from + i - 1) \in Items
  <2>1. from + i - 1 \in Nat
    OBVIOUS
  <2> QED
    BY <2>1, FramesTyped
<1> QED
  BY <1>1 DEF Units

LEMMA PayloadPart ==
    ASSUME NEW f \in DOMAIN Frames, NEW from \in Nat, NEW n \in Nat, from + n <= Length
    PROVE  LET units == SubSeq(Payload(f), from + 1, from + n)
           IN  /\ units \in Seq(Items) /\ Len(units) = n
               /\ \A i \in 1..n : units[i] = Unit(f, Frames[f].offset + from + i - 1)
<1> DEFINE units == SubSeq(Payload(f), from + 1, from + n)
<1>1. Frames[f].offset \in Nat /\ Length \in Nat
  BY FramesTyped, NativeSendAssumption
<1>2. Payload(f) \in Seq(Items) /\ Len(Payload(f)) = Length
  <2>1. Payload(f) = Units(f, Frames[f].offset, Length)
    BY DEF Payload, Units
  <2> QED
    BY <1>1, <2>1, UnitsTyped
<1>3. from + n \in 0..Len(Payload(f)) /\ from + 1 \in 1..Len(Payload(f)) + 1
  BY <1>1, <1>2
<1>4. /\ units \in Seq(Items) /\ Len(units) = n
      /\ \A i \in 1..n : units[i] = Payload(f)[from + i]
  BY <1>2, <1>3, SubSeqProperties
<1>5. ASSUME NEW i \in 1..n
      PROVE  Payload(f)[from + i] = Unit(f, Frames[f].offset + from + i - 1)
  <2>1. from + i \in 1..Length
    BY <1>1
  <2>2. Frames[f].offset + (from + i) - 1 = Frames[f].offset + from + i - 1
    BY <1>1
  <2> QED
    BY <2>1, <2>2 DEF Payload
<1> QED
  BY <1>4, <1>5

-----------------------------------------------------------------------------
(* Every action keeps the inductive invariant.                             *)

LEMMA InductiveStep == Inductive /\ [Next]_vars => Inductive'
<1> SUFFICES ASSUME Inductive, [Next]_vars
             PROVE  Inductive'
  OBVIOUS
<1>t. Types /\ Control /\ Placed /\ Aligned /\ WireIsExact
  BY DEF Inductive
<1>n. Length \in Nat \ {0} /\ Chunk \in Nat \ {0} /\ Buffer \in Nat \ {0} /\ Room \in Nat
  BY NativeSendAssumption
<1>s. /\ frame \in Nat \ {0} /\ sent \in Nat /\ Left \in Nat /\ sent + Left = Length
      /\ Start(frame) \in Nat /\ Start(frame + 1) = Start(frame) + Length + 1
  <2>1. /\ frame \in Nat \ {0} /\ sent \in Nat /\ Left \in Nat
        /\ sent + Left = Length
    BY <1>t, <1>n, FramesTyped DEF Types, Left
  <2> QED
    BY ONLY <2>1, StartMonotone
<1> USE DEF conn, copy, kernel
<1>1. CASE UNCHANGED vars
  BY <1>1, <1>t DEF vars, Inductive, Types, Control, Placed, Aligned, WireIsExact
<1>2. CASE Header
  <2>1. /\ frame \in DOMAIN Frames /\ handler' # "ended"
        /\ Len(wire) = Start(frame) /\ Put(<<Prefix(frame)>>)
        /\ worker = "none" /\ buffer = <<>>
    BY SMTT(30), <1>2, <1>t, <1>s, FramesTyped DEF Header, Placed, Control, Aligned, Types
  <2>2. /\ WireIsExact' /\ wire' \in Seq(Items) /\ room' \in Nat
        /\ Len(wire') = Start(frame) + 1
    BY <1>t, <2>1, PutPrefix
  <2>3. Types'
    <3>1. position' \in [Files -> Nat]
      BY <1>2, <1>t, <2>1, FramesTyped DEF Header, Types
    <3>2. /\ handler' \in {"copy", "append"} /\ sent' \in 0..Length
          /\ worker' \in {"fast", "slow", "submit", "none"}
      BY <1>2, <1>n DEF Header
    <3> QED
      BY <1>2, <1>t, <2>2, <3>1, <3>2 DEF Header, Types, Copying
  <2>4. Control'
    BY <1>2, <1>t, <1>n, <2>1, FramesTyped DEF Header, Types, Control, Overlapped
  <2>5. Placed'
    BY <1>2, <1>s, <2>2 DEF Header, Placed
  <2>6. Aligned'
    BY <1>2, <1>t, <1>n, <2>1, FramesTyped DEF Header, Types, Aligned, Copying
  <2> QED
    BY <2>2, <2>3, <2>4, <2>5, <2>6 DEF Inductive
<1>3. CASE WriteAll
  <2> DEFINE items(n) == SubSeq(Payload(frame), sent + 1, sent + n)
  <2>1. PICK n \in Some(Left) : Put(items(n)) /\ sent' = sent + n
    BY <1>3 DEF WriteAll
  <2>2. /\ n \in Nat /\ 1 <= n /\ sent + n <= Length /\ frame \in DOMAIN Frames
        /\ worker = "none" /\ handler' # "ended" /\ Len(wire) = Start(frame) + 1 + sent
    BY SMTT(30), <1>3, <1>t, <1>s, SomeIsWithin DEF WriteAll, Types, Control, Placed
  <2>3. /\ items(n) \in Seq(Items) /\ Len(items(n)) = n
        /\ \A i \in 1..n : items(n)[i] = Unit(frame, Frames[frame].offset + sent + i - 1)
    BY ZenonT(30), <1>s, <2>2, PayloadPart
  <2>4. /\ WireIsExact' /\ wire' \in Seq(Items) /\ room' \in Nat
        /\ Len(wire') = Start(frame) + 1 + sent + n
    BY <1>t, <2>1, <2>2, <2>3, PutUnits
  <2>5. sent' \in 0..Length
    BY <1>n, <1>s, <2>1, <2>2
  <2>6. Types'
    BY <1>3, <1>t, <2>4, <2>5 DEF WriteAll, Types
  <2>7. Control'
    BY <1>3, <1>t, <2>2 DEF WriteAll, Control, Overlapped
  <2>8. Placed'
    BY SMTT(30), <1>3, <1>s, <2>1, <2>2, <2>4 DEF WriteAll, Placed
  <2>9. Aligned'
    BY <1>3, <1>t, <2>2 DEF WriteAll, Aligned, Copying
  <2> QED
    BY <2>4, <2>6, <2>7, <2>8, <2>9 DEF Inductive
<1>4. CASE Written
  <2>1. /\ sent = Length /\ frame \in DOMAIN Frames
        /\ Len(wire) = Start(frame + 1) /\ Len(wire') = Len(wire)
    BY <1>4, <1>t, <1>n, <1>s DEF Written, Control, Placed, Types
  <2>2. /\ frame' = frame + 1 /\ frame + 1 \in 1..Len(Frames) + 1
        /\ handler' \in {"header", "ended"} /\ worker' = "none"
        /\ handler' = "ended" => frame + 1 = Len(Frames) + 1
    BY <1>4, <1>s, <2>1, FramesTyped DEF Written, Following
  <2>3. buffer = <<>> /\ op # "pending"
    BY <1>4, <1>t DEF Written, Control, Aligned, Overlapped
  <2>4. Types'
    BY <1>4, <1>t, <2>2 DEF Written, Types
  <2>5. Control'
    BY <1>4, <1>t, <2>2, <2>3 DEF Written, Control, Overlapped
  <2>6. Placed'
    BY <2>1, <2>2 DEF Placed
  <2>7. Aligned'
    BY <1>4, <2>2, <2>3 DEF Written, Aligned, Copying
  <2>8. WireIsExact'
    BY <1>4, <1>t, <2>1, <2>2 DEF Written, WireIsExact
  <2> QED
    BY <2>4, <2>5, <2>6, <2>7, <2>8 DEF Inductive
<1>5. CASE Refused
  <2>1. Types' /\ Control'
    BY <1>5, <1>t DEF Refused, Types, Control, Copying, Overlapped
  <2>2. Placed' /\ WireIsExact'
    BY <1>5, <1>t DEF Refused, Control, Placed, WireIsExact
  <2>3. Aligned'
    BY <1>5, <1>t DEF Refused, Control, Aligned, Copying
  <2> QED
    BY <2>1, <2>2, <2>3 DEF Inductive
<1>6. CASE Gone
  <2>1. Types' /\ Control'
    BY <1>6, <1>t DEF Gone, Types, Control, Copying, Overlapped
  <2>2. Placed' /\ WireIsExact'
    BY <1>6, <1>t DEF Gone, Control, Placed, WireIsExact
  <2>3. Aligned'
    BY <1>6, <1>t DEF Gone, Control, Aligned, Copying
  <2> QED
    BY <2>1, <2>2, <2>3 DEF Inductive
<1>7. CASE Check
  <2>1. CASE Left > 0
    <3>1. Types' /\ Placed' /\ WireIsExact'
      BY <1>7, <1>t DEF Check, WorkerGoto, Types, Control, Placed, WireIsExact, Copying
    <3>2. Control'
      BY <1>7, <2>1, <1>t DEF Check, WorkerGoto, Types, Control, Overlapped
    <3>3. Aligned'
      BY <1>7, <2>1, <1>t DEF Check, WorkerGoto, Types, Aligned, Copying
    <3> QED
      BY <3>1, <3>2, <3>3 DEF Inductive
  <2>2. CASE worker \in {"fast", "slow"} /\ Left = 0 /\ WorkerGoto("done")
    <3>1. Types' /\ Placed' /\ WireIsExact'
      BY <2>2, <1>t DEF WorkerGoto, Types, Control, Placed, WireIsExact
    <3>2. Control'
      BY <2>2, <1>t, <1>s DEF WorkerGoto, Types, Control, Overlapped
    <3>3. buffer = <<>>
      <4>1. buffer \in Seq(Items) /\ sent + Len(buffer) <= Length /\ sent = Length
        BY <2>2, <1>t, <1>s DEF Types, Aligned, Copying
      <4>2. Len(buffer) = 0
        BY <4>1, <1>s
      <4> QED
        BY <4>1, <4>2, EmptySeq
    <3>4. Aligned'
      BY <2>2, <3>3 DEF WorkerGoto, Aligned, Copying
    <3> QED
      BY <3>1, <3>2, <3>4 DEF Inductive
  <2> QED
    BY <1>7, <1>s, <2>1, <2>2 DEF Check
<1>8. CASE Blocked
  <2>1. Types' /\ Control'
    BY <1>8, <1>t DEF Blocked, WorkerGoto, Types, Control, Copying, Overlapped
  <2>2. Placed' /\ WireIsExact'
    BY <1>8, <1>t DEF Blocked, WorkerGoto, Control, Placed, WireIsExact
  <2>3. Aligned'
    BY <1>8, <1>t DEF Blocked, WorkerGoto, Control, Aligned, Copying
  <2> QED
    BY <2>1, <2>2, <2>3 DEF Inductive
<1>9. CASE Wait
  <2>1. Types' /\ Control'
    BY <1>9, <1>t DEF Wait, WorkerGoto, Types, Control, Copying, Overlapped
  <2>2. Placed' /\ WireIsExact'
    BY <1>9, <1>t DEF Wait, WorkerGoto, Control, Placed, WireIsExact
  <2>3. Aligned'
    BY <1>9, <1>t DEF Wait, WorkerGoto, Control, Aligned, Copying
  <2> QED
    BY <2>1, <2>2, <2>3 DEF Inductive
<1>10. CASE Sendfile
  <2> DEFINE file == Frames[frame].file
             from == Frames[frame].offset + sent
             items(n) == Units(frame, position[file], n)
  <2>0. /\ frame \in DOMAIN Frames /\ handler' # "ended" /\ buffer = <<>>
        /\ Len(wire) = Start(frame) + 1 + sent
        /\ position[file] = from /\ from \in Nat /\ file \in Files
    <3>1. /\ frame \in DOMAIN Frames /\ handler' # "ended" /\ buffer = <<>>
          /\ Len(wire) = Start(frame) + 1 + sent
      BY <1>10, <1>t DEF Sendfile, Control, Placed, Aligned, Copying
    <3>2. position[file] = from + Len(buffer)
      BY <1>10, <1>t DEF Sendfile, Aligned, Copying
    <3> QED
      BY SMTT(30), <1>s, <3>1, <3>2, FramesTyped
  <2>1. PICK n \in Some(Min({Left, Chunk})) :
           /\ Put(items(n)) /\ sent' = sent + n
           /\ position' = [position EXCEPT ![file] = @ + n]
    BY <1>10 DEF Sendfile, Units
  <2>2. n \in Nat /\ 1 <= n /\ sent + n <= Length
    <3>1. Min({Left, Chunk}) \in Nat /\ Min({Left, Chunk}) <= Left
      BY ONLY <1>n, <1>s, MinOfTwo
    <3>2. n \in Nat /\ 1 <= n /\ n <= Min({Left, Chunk})
      BY <1>t, <2>1, <3>1, SomeIsWithin DEF Types
    <3> QED
      BY ONLY <1>n, <1>s, <3>1, <3>2
  <2>3. /\ items(n) \in Seq(Items) /\ Len(items(n)) = n
        /\ \A i \in 1..n : items(n)[i] = Unit(frame, Frames[frame].offset + sent + i - 1)
    <3>1. items(n) = Units(frame, from, n)
      BY <2>0
    <3>2. /\ Units(frame, from, n) \in Seq(Items) /\ Len(Units(frame, from, n)) = n
          /\ \A i \in 1..n : Units(frame, from, n)[i] = Unit(frame, from + i - 1)
      BY ONLY <2>0, <2>2, UnitsTyped
    <3> HIDE DEF items
    <3> QED
      BY ONLY <3>1, <3>2
  <2>4. /\ WireIsExact' /\ wire' \in Seq(Items) /\ room' \in Nat
        /\ Len(wire') = Start(frame) + 1 + sent + n
    BY <1>t, <2>0, <2>1, <2>2, <2>3, PutUnits
  <2>5. sent' \in 0..Length
    BY <1>n, <1>s, <2>1, <2>2
  <2>6. Types'
    <3>1. position' \in [Files -> Nat]
      BY <1>t, <2>0, <2>1, <2>2 DEF Types
    <3> QED
      BY <1>10, <1>t, <2>4, <2>5, <3>1 DEF Sendfile, Types, Copying
  <2>7. Control'
    BY <1>10, <1>t, <2>0 DEF Sendfile, Control, Overlapped
  <2>8. Placed'
    <3>1. handler' \notin {"header", "ended"}
      BY <1>10, <1>t DEF Sendfile, Control
    <3> QED
      BY <1>10, <1>s, <2>1, <2>2, <2>4, <3>1 DEF Sendfile, Placed
  <2>9. Aligned'
    <3>1. position'[file] = from + n
      BY <1>t, <2>0, <2>1, <2>2 DEF Types
    <3>2. /\ frame' = frame /\ worker' = "fast" /\ buffer' = <<>> /\ Len(buffer') = 0
          /\ Frames[frame].offset \in Nat
      BY <1>10, <2>0, FramesTyped DEF Sendfile
    <3> QED
      BY <1>s, <2>1, <2>2, <3>1, <3>2 DEF Aligned
  <2> QED
    BY <2>4, <2>6, <2>7, <2>8, <2>9 DEF Inductive
<1>11. CASE Unsupported
  <2>1. Types' /\ Control'
    BY <1>11, <1>t DEF Unsupported, WorkerGoto, Types, Control, Copying, Overlapped
  <2>2. Placed' /\ WireIsExact'
    BY <1>11, <1>t DEF Unsupported, WorkerGoto, Control, Placed, WireIsExact
  <2>3. Aligned'
    BY <1>11, <1>t DEF Unsupported, WorkerGoto, Control, Aligned, Copying
  <2> QED
    BY <2>1, <2>2, <2>3 DEF Inductive
<1>12. CASE Read
  <2> DEFINE file == Frames[frame].file
             from == Frames[frame].offset + sent
             items(n) == Units(frame, position[file], n)
  <2>1. /\ frame \in DOMAIN Frames /\ buffer = <<>> /\ Len(buffer) = 0
        /\ position[file] = from /\ from \in Nat /\ file \in Files
    <3>1. frame \in DOMAIN Frames /\ buffer = <<>>
      BY <1>12, <1>t DEF Read, Control, Aligned, Copying
    <3>2. position[file] = from + Len(buffer)
      BY <1>12, <1>t DEF Read, Aligned, Copying
    <3> QED
      BY <1>s, <3>1, <3>2, FramesTyped
  <2>2. PICK n \in 1..Min({Left, Buffer}) :
           buffer' = items(n) /\ position' = [position EXCEPT ![file] = @ + n]
    BY <1>12 DEF Read, Units
  <2>3. n \in Nat /\ sent + n <= Length
    BY <1>n, <1>s, MinOfTwo
  <2>4. /\ buffer' \in Seq(Items) /\ Len(buffer') = n
        /\ \A i \in 1..n : buffer'[i] = Unit(frame, from + i - 1)
    <3>1. buffer' = Units(frame, from, n)
      BY <2>1, <2>2
    <3> QED
      BY ONLY <2>1, <2>3, <3>1, UnitsTyped
  <2>5. Types'
    BY SMTT(30), <1>12, <1>t, <2>1, <2>2, <2>3, <2>4 DEF Read, Types, Copying
  <2>6. Control' /\ Placed' /\ WireIsExact'
    BY <1>12, <1>t DEF Read, Types, Control, Placed, WireIsExact, Overlapped
  <2>7. Aligned'
    BY <1>12, <1>t, <2>1, <2>2, <2>3, <2>4, FramesTyped DEF Read, Types, Aligned, Copying
  <2> QED
    BY <2>5, <2>6, <2>7 DEF Inductive
<1>13. CASE Write
  <2> DEFINE file == Frames[frame].file
             from == Frames[frame].offset + sent
             items(n) == SubSeq(buffer, 1, n)
             rest(n) == SubSeq(buffer, n + 1, Len(buffer))
  <2>0. /\ frame \in DOMAIN Frames /\ handler' # "ended"
        /\ Len(wire) = Start(frame) + 1 + sent
        /\ position[file] = from + Len(buffer) /\ from \in Nat /\ file \in Files
        /\ buffer \in Seq(Items) /\ Len(buffer) \in Nat /\ sent + Len(buffer) <= Length
        /\ \A i \in 1..Len(buffer) : buffer[i] = Unit(frame, from + i - 1)
    <3>1. /\ frame \in DOMAIN Frames /\ handler' # "ended"
          /\ Len(wire) = Start(frame) + 1 + sent
      BY <1>13, <1>t DEF Write, Control, Placed
    <3>2. /\ position[file] = from + Len(buffer) /\ sent + Len(buffer) <= Length
          /\ \A i \in 1..Len(buffer) : buffer[i] = Unit(frame, from + i - 1)
      BY <1>13, <1>t DEF Write, Aligned, Copying
    <3>3. buffer \in Seq(Items) /\ Len(buffer) \in Nat
      BY <1>t DEF Types
    <3>4. from \in Nat /\ file \in Files
      BY SMTT(30), <1>s, <3>1, FramesTyped
    <3> QED
      BY <3>1, <3>2, <3>3, <3>4
  <2>1. PICK n \in Some(Len(buffer)) :
           Put(items(n)) /\ buffer' = rest(n) /\ sent' = sent + n
    BY <1>13 DEF Write
  <2>2. n \in Nat /\ 1 <= n /\ n <= Len(buffer) /\ sent + n <= Length
    BY SMTT(30), <1>t, <1>s, <1>n, <2>0, SomeIsWithin DEF Types
  <2>3. /\ items(n) \in Seq(Items) /\ Len(items(n)) = n
        /\ \A i \in 1..n : items(n)[i] = Unit(frame, Frames[frame].offset + sent + i - 1)
    <3>1. 1 \in 1..Len(buffer) + 1 /\ n \in 0..Len(buffer)
      BY <2>0, <2>2
    <3> QED
      BY <2>0, <2>2, <3>1, SubSeqProperties
  <2>r. /\ rest(n) \in Seq(Items) /\ Len(rest(n)) = Len(buffer) - n
        /\ \A i \in 1..Len(buffer) - n : rest(n)[i] = Unit(frame, from + n + i - 1)
    <3>1. n + 1 \in 1..Len(buffer) + 1 /\ Len(buffer) \in 0..Len(buffer)
      BY <2>0, <2>2
    <3>2. /\ rest(n) \in Seq(Items) /\ Len(rest(n)) = Len(buffer) - n
          /\ \A i \in 1..Len(buffer) - n : rest(n)[i] = buffer[n + i]
      BY <2>0, <2>2, <3>1, SubSeqProperties
    <3>3. ASSUME NEW i \in 1..Len(buffer) - n
          PROVE  buffer[n + i] = Unit(frame, from + n + i - 1)
      <4>1. n + i \in 1..Len(buffer) /\ from + (n + i) - 1 = from + n + i - 1
        BY SMTT(30), <2>0, <2>2
      <4> QED
        BY <2>0, <4>1
    <3> QED
      BY <3>2, <3>3
  <2>4. /\ WireIsExact' /\ wire' \in Seq(Items) /\ room' \in Nat
        /\ Len(wire') = Start(frame) + 1 + sent + n
    BY <1>t, <2>0, <2>1, <2>2, <2>3, PutUnits
  <2>5. sent' \in 0..Length
    BY <1>n, <1>s, <2>1, <2>2
  <2>6. Types'
    BY <1>13, <1>t, <2>1, <2>4, <2>5, <2>r DEF Write, Types, Copying
  <2>7. Control'
    BY <1>13, <1>t, <2>0 DEF Write, Control, Overlapped
  <2>8. Placed'
    <3>1. handler' \notin {"header", "ended"}
      BY <1>13, <1>t DEF Write, Control
    <3> QED
      BY SMTT(30), <1>13, <1>s, <2>1, <2>2, <2>4, <3>1 DEF Write, Placed
  <2>9. Aligned'
    <3>1. /\ frame' = frame /\ worker' = "slow" /\ position' = position
          /\ Frames[frame].offset \in Nat
      BY <1>13, <2>0, FramesTyped DEF Write
    <3>2. Frames[frame].offset + sent' = from + n
      BY <1>s, <2>1, <2>2, <3>1
    <3>3. Len(buffer') = Len(buffer) - n
      BY <2>1, <2>r
    <3>4. sent' + Len(buffer') <= Length /\ position[file] = from + n + Len(buffer')
      <4>1. /\ sent \in Nat /\ n \in Nat /\ Len(buffer) \in Nat /\ from \in Nat
            /\ sent' = sent + n /\ sent + Len(buffer) <= Length
            /\ position[file] = from + Len(buffer) /\ Length \in Nat
        BY <1>n, <1>s, <2>0, <2>1, <2>2
      <4> HIDE DEF from
      <4> QED
        BY ONLY <3>3, <4>1
    <3> QED
      BY <2>1, <2>r, <3>1, <3>2, <3>4 DEF Aligned
  <2> QED
    BY <2>4, <2>6, <2>7, <2>8, <2>9 DEF Inductive
<1>14. CASE CallFails
  <2>1. Types' /\ Control'
    BY <1>14, <1>t DEF CallFails, WorkerGoto, Types, Control, Copying, Overlapped
  <2>2. Placed' /\ WireIsExact'
    BY <1>14, <1>t DEF CallFails, WorkerGoto, Control, Placed, WireIsExact
  <2>3. Aligned'
    BY <1>14, <1>t DEF CallFails, WorkerGoto, Control, Aligned, Copying
  <2> QED
    BY <2>1, <2>2, <2>3 DEF Inductive
<1>15. CASE SubmitAborts \/ SubmitFails
  <2>1. Types' /\ Control'
    BY <1>15, <1>t DEF SubmitAborts, SubmitFails, WorkerGoto, Types, Control, Copying, Overlapped
  <2>2. Placed' /\ WireIsExact'
    BY <1>15, <1>t DEF SubmitAborts, SubmitFails, WorkerGoto, Control, Placed, WireIsExact
  <2>3. Aligned'
    BY <1>15, <1>t DEF SubmitAborts, SubmitFails, WorkerGoto, Control, Aligned, Copying
  <2> QED
    BY <2>1, <2>2, <2>3 DEF Inductive
<1>16. CASE SubmitRefused
  <2>1. Types' /\ Control'
    BY <1>16, <1>t DEF SubmitRefused, WorkerGoto, Types, Control, Copying, Overlapped
  <2>2. Placed' /\ WireIsExact'
    BY <1>16, <1>t DEF SubmitRefused, WorkerGoto, Control, Placed, WireIsExact
  <2>3. Aligned'
    BY <1>16, <1>t DEF SubmitRefused, WorkerGoto, Control, Aligned, Copying
  <2> QED
    BY <2>1, <2>2, <2>3 DEF Inductive
<1>17. CASE Submit
  <2>1. Types' /\ Control'
    BY <1>17, <1>t DEF Submit, Types, Control, Copying, Overlapped
  <2>2. Placed' /\ WireIsExact'
    BY <1>17, <1>t DEF Submit, Control, Placed, WireIsExact
  <2>3. Aligned'
    BY <1>17, <1>t DEF Submit, Control, Aligned, Copying
  <2> QED
    BY <2>1, <2>2, <2>3 DEF Inductive
<1>18. CASE LeaveLoop
  <2>1. Types' /\ Control'
    BY <1>18, <1>t DEF LeaveLoop, WorkerGoto, Types, Control, Copying, Overlapped
  <2>2. Placed' /\ WireIsExact'
    BY <1>18, <1>t DEF LeaveLoop, WorkerGoto, Control, Placed, WireIsExact
  <2>3. Aligned'
    BY <1>18, <1>t DEF LeaveLoop, WorkerGoto, Control, Aligned, Copying
  <2> QED
    BY <2>1, <2>2, <2>3 DEF Inductive
<1>19. CASE WaitFails
  <2>1. Types' /\ Control'
    BY <1>19, <1>t DEF WaitFails, WorkerGoto, Types, Control, Copying, Overlapped
  <2>2. Placed' /\ WireIsExact'
    BY <1>19, <1>t DEF WaitFails, WorkerGoto, Control, Placed, WireIsExact
  <2>3. Aligned'
    BY <1>19, <1>t DEF WaitFails, WorkerGoto, Control, Aligned, Copying
  <2> QED
    BY <2>1, <2>2, <2>3 DEF Inductive
<1>20. CASE Result
  <2>1. Types' /\ Control'
    BY <1>20, <1>t DEF Result, Types, Control, Copying, Overlapped
  <2>2. Placed' /\ WireIsExact'
    BY <1>20, <1>t DEF Result, Control, Placed, WireIsExact
  <2>3. Aligned'
    BY <1>20, <1>t DEF Result, Control, Aligned, Copying
  <2> QED
    BY <2>1, <2>2, <2>3 DEF Inductive
<1>21. CASE Drain
  <2>1. Types' /\ Control'
    BY <1>21, <1>t DEF Drain, Types, Control, Copying, Overlapped
  <2>2. Placed' /\ WireIsExact'
    BY <1>21, <1>t DEF Drain, Control, Placed, WireIsExact
  <2>3. Aligned'
    BY <1>21, <1>t DEF Drain, Control, Aligned, Copying
  <2> QED
    BY <2>1, <2>2, <2>3 DEF Inductive
<1>22. CASE KernelSends
  <2> DEFINE items(n) == SubSeq(Payload(frame), sent + 1, sent + n)
  <2>1. PICK n \in Some(Left) : /\ Put(items(n)) /\ sent' = sent + n
                                /\ op' = IF n = Left THEN "whole" ELSE "pending"
    BY <1>22 DEF KernelSends
  <2>2. /\ n \in Nat /\ 1 <= n /\ sent + n <= Length /\ frame \in DOMAIN Frames
        /\ worker \in Overlapped /\ handler' # "ended"
        /\ Len(wire) = Start(frame) + 1 + sent
    BY SMTT(30), <1>22, <1>t, <1>s, SomeIsWithin DEF KernelSends, Types, Control, Placed, Overlapped
  <2>3. /\ items(n) \in Seq(Items) /\ Len(items(n)) = n
        /\ \A i \in 1..n : items(n)[i] = Unit(frame, Frames[frame].offset + sent + i - 1)
    BY ZenonT(30), <1>s, <2>2, PayloadPart
  <2>4. /\ WireIsExact' /\ wire' \in Seq(Items) /\ room' \in Nat
        /\ Len(wire') = Start(frame) + 1 + sent + n
    BY <1>t, <2>1, <2>2, <2>3, PutUnits
  <2>5. sent' \in 0..Length
    BY <1>n, <1>s, <2>1, <2>2
  <2>6. Types'
    BY <1>22, <1>t, <2>1, <2>4, <2>5 DEF KernelSends, Types
  <2>7. Control'
    BY <1>22, <1>t, <1>s, <2>1, <2>2 DEF KernelSends, Control, Overlapped
  <2>8. Placed'
    <3>1. handler' \notin {"header", "ended"}
      BY <1>22, <1>t, <2>2 DEF KernelSends, Overlapped, Control
    <3> QED
      BY SMTT(30), <1>22, <1>s, <2>1, <2>2, <2>4, <3>1 DEF KernelSends, Placed
  <2>9. Aligned'
    BY <1>22, <1>t, <2>2 DEF KernelSends, Aligned, Copying, Overlapped
  <2> QED
    BY <2>4, <2>6, <2>7, <2>8, <2>9 DEF Inductive
<1>23. CASE KernelEnds
  <2>1. Types' /\ Control'
    BY <1>23, <1>t DEF KernelEnds, Types, Control, Copying, Overlapped
  <2>2. Placed' /\ WireIsExact'
    BY <1>23, <1>t DEF KernelEnds, Control, Placed, WireIsExact
  <2>3. Aligned'
    BY <1>23, <1>t DEF KernelEnds, Control, Aligned, Copying
  <2> QED
    BY <2>1, <2>2, <2>3 DEF Inductive
<1>24. CASE PeerReads
  <2>1. Types' /\ Control'
    BY <1>24, <1>t, <1>n DEF PeerReads, Types, Control, Copying, Overlapped
  <2>2. Placed' /\ WireIsExact'
    BY <1>24, <1>t DEF PeerReads, Control, Placed, WireIsExact
  <2>3. Aligned'
    BY <1>24, <1>t DEF PeerReads, Control, Aligned, Copying
  <2> QED
    BY <2>1, <2>2, <2>3 DEF Inductive
<1>25. CASE TimePasses
  <2>1. Types' /\ Control'
    BY <1>25, <1>t DEF TimePasses, Types, Control, Copying, Overlapped
  <2>2. Placed' /\ WireIsExact'
    BY <1>25, <1>t DEF TimePasses, Control, Placed, WireIsExact
  <2>3. Aligned'
    BY <1>25, <1>t DEF TimePasses, Control, Aligned, Copying
  <2> QED
    BY <2>1, <2>2, <2>3 DEF Inductive
<1> QED
  BY <1>1, <1>2, <1>3, <1>4, <1>5, <1>6, <1>7, <1>8, <1>9, <1>10, <1>11, <1>12, <1>13, <1>14, <1>15, <1>16, <1>17, <1>18, <1>19, <1>20, <1>21, <1>22, <1>23, <1>24, <1>25 DEF Next, Worker, CallBreaks

-----------------------------------------------------------------------------

\* Who writes, what is out and where the worker's file stands fit together in
\* every behaviour.
THEOREM InductiveHolds == Spec => []Inductive
<1>1. Init => Inductive
  <2> SUFFICES ASSUME Init PROVE Inductive
    OBVIOUS
  <2>1. /\ wire = <<>> /\ Len(wire) = 0 /\ buffer = <<>> /\ Length \in Nat
        /\ <<>> \in Seq(Items) /\ Room \in Nat /\ Len(Frames) \in Nat
    BY FramesTyped, NativeSendAssumption DEF Init
  <2>2. Start(1) = 0
    BY <2>1 DEF Start
  <2>3. Types
    <3>1. /\ frame \in 1..Len(Frames) + 1 /\ sent \in 0..Length
          /\ position \in [Files -> Nat] /\ room \in Nat
      BY <2>1 DEF Init
    <3>2. buffer \in Seq(Items) /\ wire \in Seq(Items)
      BY <2>1
    <3> QED
      BY <3>1, <3>2 DEF Init, Types, Found
  <2>4. Control
    BY DEF Init, Control, Overlapped
  <2>5. Placed
    BY <2>1, <2>2 DEF Init, Placed
  <2>6. Aligned
    BY <2>1 DEF Init, Aligned, Copying
  <2>7. WireIsExact
    <3>1. \A k \in Nat \ {0} : Start(k) \in Nat
      BY StartMonotone
    <3>2. \A k \in DOMAIN Frames : k \in Nat \ {0}
      BY FramesTyped
    <3>3. Len(wire) <= Start(Len(Frames) + 1) /\ handler # "ended"
      BY <2>1, <3>1 DEF Init
    <3>4. Exact(wire)
      BY <2>1, <3>1, <3>2 DEF Exact
    <3> QED
      BY <3>3, <3>4 DEF WireIsExact
  <2> QED
    BY <2>3, <2>4, <2>5, <2>6, <2>7 DEF Inductive
<1> QED
  BY <1>1, InductiveStep, PTL DEF Spec

\* kernel_copy.rs: "Sending falls back at the exact offset"; windows_io.rs:
\* "append payload, not a new frame".  For any frames and however much each call
\* takes, the socket carries the frames in order, without a gap or a unit twice.
THEOREM WireAlwaysExact == Spec => []WireIsExact
BY InductiveHolds, PTL DEF Inductive

\* INTERNALS.md, windows_io.rs: a submitted request finds its handles and its
\* OVERLAPPED in place until it ends, whenever the handler or the worker leaves.
THEOREM KernelAlwaysOwns == Spec => []KernelOwnsWhatItUses
<1>1. Inductive => KernelOwnsWhatItUses
  BY DEF Inductive, Control, KernelOwnsWhatItUses
<1> QED
  BY <1>1, InductiveHolds, PTL
=============================================================================
