------------------------- MODULE FlowControlProofs -------------------------
(***************************************************************************)
(* Proofs about FlowControl, for any files, sizes of block, frame, window  *)
(* and channels: the types of all that is exchanged, the conservation of   *)
(* the credits, that a Commit is due, and that neither end ever refuses    *)
(* what the other sends nor overflows a channel it fills with try_send.    *)
(*                                                                         *)
(* The argument for the Commit follows the closing of a stream round the   *)
(* connection: a worker that was joined has read Closed (Told), Closed was *)
(* sent for a stream whose file is whole (Told), and the worker had every  *)
(* block acknowledged, hence known (Windowed), before it asked.            *)
(*                                                                         *)
(* The argument for the last says where everything under way is (Orderly): *)
(* the packets of a file between its two workers lead, one by one, from    *)
(* where the receiver's stands to where the sender's stands (Forward), and *)
(* so do the acknowledgements between the worker that reports and the      *)
(* worker that waits for them (Backward).  What is read next is then what  *)
(* is expected next, and no more is under way than the window allows.      *)
(***************************************************************************)
EXTENDS FlowControl, Integers, SequenceTheorems, FiniteSetTheorems,
        WellFoundedInduction, TLAPS

StreamKinds == {"Open", "Hash", "Data", "Close", "Checkpoint", "Closed"}
LoopKinds   == {"Pause", "Commit", "Stopped", "Complete"}

\* What belongs to a stream names its file; a hash or a Close has no bytes.
StreamMessages ==
    {m \in [kind : StreamKinds, file : Files, offset : Int, length : Int] :
        m.kind \in {"Hash", "Close"} => m.length = 0}
LoopMessages == [kind : LoopKinds, file : {none}, offset : Int, length : Int]
Messages == StreamMessages \cup LoopMessages

Uploads == [at : {"none", "open", "fill", "closing", "ended", "joined", "aborted"},
            offset : Nat, acked : Nat, queued : Nat]
Downloads == [at : {"none", "ready", "reporting", "ended", "failed", "joined"},
              offset : Int, buffer : Int, hash : BOOLEAN, credit : Int]

Typed ==
    /\ up \in [Files -> Uploads] /\ down \in [Files -> Downloads]
    /\ acks \in [Files -> Seq(Messages)] /\ queue \in [Files -> Seq(Messages)]
    /\ packets \in Seq(StreamMessages) /\ events \in Seq(StreamMessages)
    /\ writing \in Seq(Messages) /\ replying \in Seq(Messages)
    /\ toReceiver \in Seq(Messages) /\ toSender \in Seq(Messages)
    /\ known \in [Files -> Int] /\ reported \in [Files -> Int]
    /\ credit \in [Files -> Int] /\ completed \in Nat

\* Offsets at which a block begins or the file ends.
Aligned(f, x) == x = Size[f] \/ x % Block = 0

\* The window of a worker: a block is acknowledged after the loop knows of it, and
\* a worker asks for Closed when all is acknowledged.
Windowed ==
    \A f \in Files :
        /\ up[f].acked <= known[f] /\ known[f] <= Size[f]
        /\ Aligned(f, up[f].acked) /\ Aligned(f, up[f].offset)
        /\ up[f].offset < Size[f] =>
              up[f].queued < Len(BlockPackets(f, up[f].offset))
        /\ up[f].at \in {"closing", "ended", "joined"} => up[f].acked = Size[f]
        /\ \A i \in DOMAIN acks[f] :
              acks[f][i].kind = "Checkpoint" => acks[f][i].offset <= known[f]

\* A stream is closed once its file is whole, and whoever was told so knows.
Told ==
    /\ \A f \in closed : f \notin active /\ down[f].at = "joined" /\ down[f].offset = Size[f]
    /\ \A f \in Files : down[f].at = "ended" => down[f].offset = Size[f]
    /\ \A i \in DOMAIN replying : replying[i].kind = "Closed" => replying[i].file \in closed
    /\ \A i \in DOMAIN toSender : toSender[i].kind = "Closed" => toSender[i].file \in closed
    /\ \A f \in Files : \A i \in DOMAIN acks[f] : acks[f][i].kind = "Closed" => f \in closed
    /\ \A f \in Files : up[f].at \in {"ended", "joined"} => f \in closed

Counted ==
    /\ completed = Cardinality({f \in Files : up[f].at = "joined"})
    /\ sender \in {"committing", "sent"} => completed = Len(Size)
    /\ \A f \in Files : f >= waiting => up[f].at = "none"

\* Commit and its answer are only under way once the sender has asked.
Concluding ==
    /\ \A i \in DOMAIN writing :
          writing[i].kind = "Commit" => sender \in {"committing", "sent"}
    /\ \A i \in DOMAIN toReceiver :
          toReceiver[i].kind = "Commit" => sender \in {"committing", "sent"}
    /\ \A i \in DOMAIN replying :
          replying[i].kind = "Complete" => sender \in {"committing", "sent"}
    /\ \A i \in DOMAIN toSender :
          toSender[i].kind = "Complete" => sender \in {"committing", "sent"}

\* A stream that was never opened has nothing under way, so that its first credit
\* is the whole window.
Fresh ==
    /\ \A f \in Files : down[f].at = "none" =>
          queue[f] = <<>> /\ down[f].buffer = 0 /\ f \notin active
    /\ \A f \in Files : down[f].at # "reporting" => down[f].credit = 0
    /\ \A i \in DOMAIN events :
          events[i].kind = "Checkpoint" /\ down[events[i].file].at # "none"
    /\ closing # none => down[closing].at # "none"
    /\ receiver = "run" => \A f \in Files : down[f].at # "none" => f \in active \cup closed
    /\ receiver \in {"draining", "stopped"} => active = {}
    /\ \A f \in Files : \A i \in DOMAIN queue[f] :
          queue[f][i].file = f /\ queue[f][i].kind \in {"Hash", "Data", "Close"}

Inductive ==
    /\ TypeOK /\ Typed /\ Windowed /\ Told /\ Counted /\ Concluding /\ Fresh
    /\ CreditIsConserved

-----------------------------------------------------------------------------
(* Arithmetic of blocks.                                                   *)

LEMMA Constants ==
    /\ Block \in Nat /\ Block > 0 /\ Frame \in Nat /\ Frame > 0
  BY FlowControlAssumption

LEMMA DivMod ==
    ASSUME NEW a \in Nat, NEW b \in Nat, b > 0
    PROVE  a \div b \in Nat /\ a = (a \div b) * b + (a % b) /\ a % b \in 0..b - 1
<1>1. a \div b \in Nat /\ a % b \in 0..b - 1
  OBVIOUS
<1>2. ASSUME NEW q \in Int, q = a \div b PROVE a - q * b = a % b
  BY <1>2
<1>3. a - (a \div b) * b = a % b
  BY <1>1, <1>2
<1>4. (a \div b) * b \in Int /\ a % b \in Int
  BY <1>1
<1> DEFINE p == (a \div b) * b
           r == a % b
<1> HIDE DEF p, r
<1>5. a - p = r /\ p \in Int /\ r \in Int
  BY <1>3, <1>4 DEF p, r
<1>6. a = p + r
  BY ONLY <1>5, a \in Nat
<1> QED
  BY <1>1, <1>6 DEF p, r

\* From one multiple of the block to the next.
LEMMA Multiples ==
    ASSUME NEW a \in Nat, NEW b \in Nat, b > 0, a % b = 0
    PROVE  /\ (a + b) % b = 0
           /\ \A o \in Nat : o % b = 0 /\ a < o => a + b <= o
<1> DEFINE q == a \div b
<1>1. q \in Nat /\ a = q * b
  <2>1. q \in Nat /\ a = q * b + (a % b) /\ a % b = 0
    BY DivMod
  <2>2. q * b \in Nat
    BY <2>1
  <2> HIDE DEF q
  <2> QED
    BY <2>1, <2>2
<1> HIDE DEF q
<1>2. (a + b) % b = 0
  <2>1. a + b = (q + 1) * b /\ q + 1 \in Nat
    BY <1>1
  <2>2. \A n \in Nat : (n * b) % b = 0
    OBVIOUS
  <2> QED
    BY <2>1, <2>2
<1>3. ASSUME NEW o \in Nat, o % b = 0, a < o PROVE a + b <= o
  <2> DEFINE p == o \div b
  <2>1. p \in Nat /\ o = p * b + (o % b) /\ o % b = 0
    BY <1>3, DivMod
  <2> HIDE DEF p
  <2>2. p * b \in Nat
    BY <2>1
  <2>3. o = p * b
    BY <2>1, <2>2
  <2>4. (q + 1) * b <= p * b
    BY <1>1, <1>3, <2>1, <2>3
  <2>5. (q + 1) * b = a + b
    BY <1>1
  <2> QED
    BY <2>3, <2>4, <2>5
<1> QED
  BY <1>2, <1>3

\* The block after an aligned offset ends at an aligned one, and at most where
\* any later aligned one is.
LEMMA NextBlock ==
    ASSUME NEW f \in Files, NEW a \in Nat, Aligned(f, a), a <= Size[f]
    PROVE  /\ BlockEnd(f, a) \in Nat /\ BlockEnd(f, a) <= Size[f] /\ a <= BlockEnd(f, a)
           /\ Aligned(f, BlockEnd(f, a)) /\ BlockEnd(f, a) - a <= Block
           /\ a < Size[f] => a < BlockEnd(f, a)
           /\ \A o \in Nat : a < o /\ o <= Size[f] /\ Aligned(f, o) => BlockEnd(f, a) <= o
<1>1. Size[f] \in Nat /\ Block \in Nat /\ Block > 0
  BY Constants, FlowControlAssumption, ElementOfSeq, LenProperties DEF Files
<1> DEFINE size == Size[f]
<1> HIDE DEF size
<1>2. BlockEnd(f, a) = IF a + Block < size THEN a + Block ELSE size
  BY DEF BlockEnd, Least, size
<1>3. size \in Nat /\ (a = size \/ a % Block = 0) /\ a <= size
  BY <1>1 DEF Aligned, size
<1>4. a + Block < size => a % Block = 0 /\ (a + Block) % Block = 0
  <2>1. ASSUME a + Block < size PROVE a % Block = 0
    BY <1>1, <1>3, <2>1
  <2> QED
    BY <1>1, <2>1, Multiples
<1>5. ASSUME NEW o \in Nat, a < o, o <= size, o = size \/ o % Block = 0
      PROVE  BlockEnd(f, a) <= o
  <2>1. CASE o = size
    BY <1>1, <1>2, <1>3, <2>1
  <2>2. CASE o # size
    <3>1. a % Block = 0 /\ o % Block = 0
      BY <1>3, <1>5, <2>2
    <3>2. a + Block <= o
      BY <1>1, <1>5, <3>1, Multiples
    <3> QED
      BY <1>1, <1>2, <1>3, <1>5, <3>2
  <2> QED
    BY <2>1, <2>2
<1>6. Aligned(f, BlockEnd(f, a))
  BY <1>2, <1>4 DEF Aligned, size
<1> QED
  BY <1>1, <1>2, <1>3, <1>5, <1>6 DEF Aligned, size

\* Rounded up, something is at least one.
LEMMA AtLeastOne ==
    ASSUME NEW n \in Nat, NEW b \in Nat, b > 0
    PROVE  CeilDiv(n, b) \in Nat /\ (n > 0 => CeilDiv(n, b) >= 1) /\ CeilDiv(0, b) = 0
<1>1. ASSUME NEW a \in Nat, a >= b PROVE a \div b >= 1
  BY <1>1
<1>2. ASSUME NEW a \in Nat, a < b PROVE a \div b = 0
  BY <1>2
<1>3. n + b - 1 \in Nat /\ (n > 0 => n + b - 1 >= b) /\ 0 + b - 1 < b /\ 0 + b - 1 \in Nat
  OBVIOUS
<1>4. (n + b - 1) \div b \in Nat
  BY <1>3, DivMod
<1> QED
  BY <1>1, <1>2, <1>3, <1>4 DEF CeilDiv

\* A block has packets, each a message of the file.
LEMMA PacketsOfBlock ==
    ASSUME NEW f \in Files, NEW a \in Nat, Aligned(f, a), a < Size[f]
    PROVE  /\ BlockPackets(f, a) \in Seq(StreamMessages) /\ Len(BlockPackets(f, a)) > 0
           /\ \A i \in 1..Len(BlockPackets(f, a)) : BlockPackets(f, a)[i].file = f
<1> DEFINE n == BlockEnd(f, a) - a
           c == CeilDiv(n, Frame)
           hash == IF Streaming THEN <<Msg("Hash", f, a, 0)>> ELSE <<>>
           D(i) == Msg("Data", f, a + (i - 1) * Frame, Least(n - (i - 1) * Frame, Frame))
           data == [i \in 1..c |-> D(i)]
<1>1. Size[f] \in Nat
  BY FlowControlAssumption, ElementOfSeq, LenProperties DEF Files
<1>2. n \in Nat /\ n > 0
  <2>1. BlockEnd(f, a) \in Nat /\ a < BlockEnd(f, a)
    BY <1>1, NextBlock
  <2> QED
    BY <2>1
<1> HIDE DEF n
<1>3. c \in Nat /\ c >= 1
  BY <1>2, Constants, AtLeastOne
<1> HIDE DEF c
<1>4. \A i \in 1..c : D(i) \in StreamMessages /\ D(i).file = f
  <2> SUFFICES ASSUME NEW i \in 1..c
               PROVE  D(i) \in StreamMessages /\ D(i).file = f
    OBVIOUS
  <2> DEFINE start == (i - 1) * Frame
  <2>1. start \in Int
    BY <1>3, Constants
  <2> HIDE DEF start
  <2>2. a + start \in Int /\ Least(n - start, Frame) \in Int
    BY <1>2, <2>1, Constants DEF Least
  <2>3. D(i) = Msg("Data", f, a + start, Least(n - start, Frame))
    BY DEF start
  <2> HIDE DEF D
  <2> QED
    BY <2>2, <2>3 DEF Msg, StreamMessages, StreamKinds
<1> HIDE DEF D
<1>5. data \in [1..c -> StreamMessages]
  BY <1>4
<1>6. data \in Seq(StreamMessages)
  BY <1>3, <1>5, SeqDef
<1>7. Len(data) = c
  BY <1>3, <1>6, LenProperties
<1>8. \A i \in 1..c : data[i].file = f
  BY <1>4
<1>9. /\ hash \in Seq(StreamMessages) /\ Len(hash) \in Nat
      /\ \A i \in 1..Len(hash) : hash[i].file = f
  <2>1. Msg("Hash", f, a, 0) \in StreamMessages /\ Msg("Hash", f, a, 0).file = f
    BY DEF Msg, StreamMessages, StreamKinds
  <2>2. CASE Streaming
    BY <2>1, <2>2
  <2>3. CASE ~Streaming
    BY <2>3
  <2> QED
    BY <2>2, <2>3
<1>10. BlockPackets(f, a) = hash \o data
  BY DEF BlockPackets, n, c, D
<1> HIDE DEF hash, data
<1>11. /\ hash \o data \in Seq(StreamMessages) /\ Len(hash \o data) = Len(hash) + Len(data)
       /\ \A i \in 1..Len(hash) + Len(data) :
             (hash \o data)[i] = IF i <= Len(hash) THEN hash[i] ELSE data[i - Len(hash)]
  BY <1>6, <1>9, ConcatProperties
<1>12. Len(hash \o data) > 0
  BY <1>3, <1>7, <1>9, <1>11
<1>13. ASSUME NEW i \in 1..Len(hash) + c PROVE (hash \o data)[i].file = f
  <2>1. CASE i <= Len(hash)
    BY <1>7, <1>9, <1>11, <2>1
  <2>2. CASE ~(i <= Len(hash))
    <3>1. i - Len(hash) \in 1..c
      BY <1>3, <1>9, <2>2
    <3> QED
      BY <1>7, <1>8, <1>11, <2>2, <3>1
  <2> QED
    BY <2>1, <2>2
<1> QED
  BY <1>7, <1>10, <1>11, <1>12, <1>13

-----------------------------------------------------------------------------
(* The bytes of a file in a channel.                                       *)

\* The partial sums of the weights W; their last, x, is the sum.
Partial(l, W, T) == /\ T \in [0..l -> Int] /\ T[0] = 0
                    /\ \A i \in 1..l : T[i] = T[i - 1] + W[i]
Sums(l, W, x) == \E T : Partial(l, W, T) /\ x = T[l]

\* What each message of a channel weighs.
Weights(f, s) == [i \in 1..Len(s) |-> Weight(f, s[i])]

\* A property of every number below it holds of a number: there is no first one
\* of which it does not.
LEMMA NoFirst ==
    ASSUME NEW B \in SUBSET Nat, \A n \in B : \E m \in B : m < n
    PROVE  B = {}
<1> DEFINE R == OpToRel(<, Nat)
<1>1. IsWellFoundedOn(R, Nat)
  BY NatLessThanWellFounded
<1>2. ASSUME NEW x \in Nat, NEW y \in Nat, y < x PROVE <<y, x>> \in R
  BY <1>2 DEF OpToRel
<1> HIDE DEF R
<1>3. B # {} => \E x \in B : \A y \in B : ~(<<y, x>> \in R)
  BY <1>1, WFMin
<1> QED
  BY <1>2, <1>3

LEMMA WeightIsInt ==
    ASSUME NEW f, NEW m \in Messages
    PROVE  Weight(f, m) \in Int
  BY DEF Weight, Messages, StreamMessages, LoopMessages

LEMMA Partials ==
    ASSUME NEW l \in Nat, NEW W \in [1..l -> Int]
    PROVE  \E T : Partial(l, W, T)
<1> DEFINE B == {n \in 0..l : ~\E T : Partial(n, W, T)}
<1>1. Partial(0, W, [i \in 0..0 |-> 0])
  BY DEF Partial
<1>2. ASSUME NEW n \in 1..l, NEW T, Partial(n - 1, W, T)
      PROVE  Partial(n, W, [i \in 0..n |-> IF i = n THEN T[n - 1] + W[n] ELSE T[i]])
  <2> DEFINE U == [i \in 0..n |-> IF i = n THEN T[n - 1] + W[n] ELSE T[i]]
  <2>1. W[n] \in Int /\ n \in Nat /\ n - 1 \in 0..n - 1
    OBVIOUS
  <2>2. /\ T \in [0..n - 1 -> Int] /\ T[0] = 0
        /\ \A i \in 1..n - 1 : T[i] = T[i - 1] + W[i]
    BY <1>2 DEF Partial
  <2>3. T[n - 1] \in Int
    BY <2>1, <2>2
  <2>4. U = [i \in 0..n |-> IF i = n THEN T[n - 1] + W[n] ELSE T[i]]
    OBVIOUS
  <2> HIDE DEF U
  <2>5. U \in [0..n -> Int]
    <3>1. T[n - 1] + W[n] \in Int
      BY <2>1, <2>3
    <3>2. \A i \in 0..n : i # n => i \in 0..n - 1
      BY <2>1
    <3> QED
      BY <2>2, <2>4, <3>1, <3>2
  <2>6. U[0] = 0 /\ U[n] = T[n - 1] + W[n] /\ \A i \in 0..n - 1 : U[i] = T[i]
    BY <2>1, <2>2, <2>4
  <2>7. \A i \in 1..n : U[i] = U[i - 1] + W[i]
    <3> SUFFICES ASSUME NEW i \in 1..n PROVE U[i] = U[i - 1] + W[i]
      OBVIOUS
    <3>1. i - 1 \in 0..n - 1
      BY <2>1
    <3>2. CASE i = n
      BY <2>6, <3>1, <3>2
    <3>3. CASE i # n
      <4>1. i \in 1..n - 1 /\ i \in 0..n - 1
        BY <2>1, <3>3
      <4> QED
        BY <2>2, <2>6, <3>1, <4>1
    <3> QED
      BY <3>2, <3>3
  <2> QED
    BY <2>5, <2>6, <2>7 DEF Partial, U
<1>3. ASSUME NEW n \in B PROVE \E m \in B : m < n
  <2>1. n # 0 /\ n \in 0..l
    BY <1>1
  <2>2. n \in 1..l /\ n - 1 \in 0..l /\ n - 1 < n
    BY <2>1
  <2>3. n - 1 \in B
    BY <1>2, <2>2
  <2> QED
    BY <2>2, <2>3
<1>4. B \in SUBSET Nat
  OBVIOUS
<1>5. B = {}
  <2> HIDE DEF B
  <2> QED
    BY <1>3, <1>4, NoFirst
<1>6. l \in 0..l
  OBVIOUS
<1> QED
  BY <1>5, <1>6

\* The partial sums are determined.
LEMMA OnePartial ==
    ASSUME NEW l \in Nat, NEW W, NEW T, Partial(l, W, T), NEW U, Partial(l, W, U)
    PROVE  T[l] = U[l] /\ T[l] \in Int
<1>1. /\ T \in [0..l -> Int] /\ U \in [0..l -> Int] /\ T[0] = 0 /\ U[0] = 0
      /\ \A i \in 1..l : T[i] = T[i - 1] + W[i] /\ U[i] = U[i - 1] + W[i]
  BY DEF Partial
<1> DEFINE B == {n \in 0..l : U[n] # T[n]}
<1>2. ASSUME NEW n \in B PROVE \E m \in B : m < n
  <2>1. n # 0 /\ n \in 0..l
    BY <1>1
  <2>2. n \in 1..l /\ n - 1 \in 0..l /\ n - 1 < n
    BY <2>1
  <2>3. n - 1 \in B
    BY <1>1, <2>2
  <2> QED
    BY <2>2, <2>3
<1>3. B \in SUBSET Nat
  OBVIOUS
<1>4. B = {}
  <2> HIDE DEF B
  <2> QED
    BY <1>2, <1>3, NoFirst
<1>5. l \in 0..l
  OBVIOUS
<1> QED
  BY <1>1, <1>4, <1>5

\* One weight more at the end.
LEMMA SumWithLast ==
    ASSUME NEW l \in Nat, NEW W \in [1..l + 1 -> Int], NEW V \in [1..l -> Int],
           \A i \in 1..l : V[i] = W[i], NEW x, Sums(l, V, x)
    PROVE  Sums(l + 1, W, x + W[l + 1])
<1>1. PICK T : Partial(l + 1, W, T)
  <2>1. l + 1 \in Nat
    OBVIOUS
  <2> QED
    BY <2>1, Partials
<1>2. /\ T \in [0..l + 1 -> Int] /\ T[0] = 0
      /\ \A i \in 1..l + 1 : T[i] = T[i - 1] + W[i]
  BY <1>1 DEF Partial
<1> DEFINE U == [i \in 0..l |-> T[i]]
<1>3. Partial(l, V, U)
  <2>1. U \in [0..l -> Int] /\ U[0] = 0
    BY <1>2
  <2>2. ASSUME NEW i \in 1..l PROVE U[i] = U[i - 1] + V[i]
    <3>1. i \in 0..l /\ i - 1 \in 0..l /\ i \in 1..l + 1
      OBVIOUS
    <3> QED
      BY <1>2, <3>1
  <2> HIDE DEF U
  <2> QED
    BY <2>1, <2>2 DEF Partial
<1>4. x = T[l]
  <2>1. l \in 0..l
    OBVIOUS
  <2>2. PICK Z : Partial(l, V, Z) /\ x = Z[l]
    BY DEF Sums
  <2>3. x = U[l]
    <3> HIDE DEF U
    <3> QED
      BY <1>3, <2>2, OnePartial
  <2> QED
    BY <2>1, <2>3
<1>5. T[l + 1] = T[l] + W[l + 1]
  <2>1. l + 1 \in 1..l + 1 /\ (l + 1) - 1 = l
    OBVIOUS
  <2> QED
    BY <1>2, <2>1
<1> QED
  BY <1>1, <1>4, <1>5 DEF Sums

\* The first weight less.
LEMMA SumWithoutFirst ==
    ASSUME NEW l \in Nat, NEW W \in [1..l + 1 -> Int], NEW V \in [1..l -> Int],
           \A i \in 1..l : V[i] = W[i + 1], NEW x, Sums(l + 1, W, x)
    PROVE  Sums(l, V, x - W[1])
<1>1. PICK T : Partial(l + 1, W, T) /\ x = T[l + 1]
  BY DEF Sums
<1>2. /\ T \in [0..l + 1 -> Int] /\ T[0] = 0
      /\ \A i \in 1..l + 1 : T[i] = T[i - 1] + W[i]
  BY <1>1 DEF Partial
<1>3. T[1] = W[1] /\ T[1] \in Int
  <2>1. 1 \in 1..l + 1 /\ 1 - 1 = 0 /\ 1 \in 0..l + 1
    OBVIOUS
  <2>2. W[1] \in Int
    BY <2>1
  <2> QED
    BY <1>2, <2>1, <2>2
<1> DEFINE U == [i \in 0..l |-> T[i + 1] - T[1]]
<1>4. \A i \in 0..l : i + 1 \in 0..l + 1 /\ T[i + 1] \in Int
  BY <1>2
<1>5. Partial(l, V, U)
  <2>1. U \in [0..l -> Int] /\ U[0] = 0
    BY <1>3, <1>4
  <2>2. ASSUME NEW i \in 1..l PROVE U[i] = U[i - 1] + V[i]
    <3>1. /\ i \in 0..l /\ i - 1 \in 0..l /\ i + 1 \in 1..l + 1
          /\ (i + 1) - 1 = i /\ (i - 1) + 1 = i /\ i \in 0..l + 1
      OBVIOUS
    <3>2. U[i] = T[i + 1] - T[1] /\ U[i - 1] = T[i] - T[1]
      BY <3>1
    <3>3. T[i + 1] = T[i] + V[i] /\ V[i] \in Int
      BY <1>2, <3>1
    <3>4. T[i] \in Int /\ T[i + 1] \in Int
      <4>1. T \in [0..l + 1 -> Int]
        BY <1>2
      <4>2. T[i] \in Int
        BY ONLY <3>1, <4>1
      <4>3. T[i + 1] \in Int
        BY <1>4, <3>1
      <4> QED
        BY ONLY <4>2, <4>3
    <3> HIDE DEF U
    <3> QED
      BY <1>3, <3>2, <3>3, <3>4
  <2> HIDE DEF U
  <2> QED
    BY <2>1, <2>2 DEF Partial
<1>6. U[l] = x - W[1]
  <2>1. l \in 0..l
    OBVIOUS
  <2> QED
    BY <1>1, <1>3, <2>1
<1> QED
  BY <1>5, <1>6 DEF Sums

LEMMA SumOfZeros ==
    ASSUME NEW l \in Nat, NEW W \in [1..l -> Int], \A i \in 1..l : W[i] = 0
    PROVE  Sums(l, W, 0)
<1> DEFINE T == [i \in 0..l |-> 0]
<1>1. Partial(l, W, T)
  BY DEF Partial
<1>2. T[l] = 0
  OBVIOUS
<1> QED
  BY <1>1, <1>2 DEF Sums

\* What Total computes is the sum of the weights.
LEMMA TotalSums ==
    ASSUME NEW f, NEW s \in Seq(Messages)
    PROVE  /\ Weights(f, s) \in [1..Len(s) -> Int] /\ Len(s) \in Nat
           /\ \A i \in 1..Len(s) : Weights(f, s)[i] = Weight(f, s[i])
           /\ \A x : Sums(Len(s), Weights(f, s), x) <=> x = Total(f, s)
           /\ Total(f, s) \in Int
<1> DEFINE l == Len(s)
           W == Weights(f, s)
           R(h) == [i \in 0..l |-> IF i = 0 THEN 0 ELSE h[i - 1] + Weight(f, s[i])]
           g == CHOOSE h : h = R(h)
<1>1. l \in Nat /\ \A i \in 1..l : Weight(f, s[i]) \in Int
  BY LenProperties, ElementOfSeq, WeightIsInt
<1>2. W = [i \in 1..l |-> Weight(f, s[i])]
  BY Zenon DEF Weights
<1>3. Total(f, s) = g[l]
  BY Zenon DEF Total
<1> HIDE DEF l, W
<1>4. W \in [1..l -> Int] /\ \A i \in 1..l : W[i] = Weight(f, s[i])
  BY ONLY <1>1, <1>2
<1>5. PICK T : Partial(l, W, T)
  BY ONLY <1>1, <1>4, Partials
<1>6. /\ T \in [0..l -> Int] /\ T[0] = 0
      /\ \A i \in 1..l : T[i] = T[i - 1] + Weight(f, s[i])
  BY ONLY <1>4, <1>5 DEF Partial
<1>7. T = R(T)
  <2>1. \A i \in 0..l : T[i] = R(T)[i]
    BY ONLY <1>1, <1>6
  <2>2. T = [i \in 0..l |-> T[i]]
    BY ONLY <1>6
  <2> QED
    BY ONLY <2>1, <2>2
<1>8. g = R(g)
  <2> HIDE DEF R
  <2> QED
    BY ONLY <1>7
<1>9. Partial(l, W, g)
  <2> HIDE DEF g
  <2>1. \A i \in 0..l : g[i] = IF i = 0 THEN 0 ELSE g[i - 1] + Weight(f, s[i])
    BY ONLY <1>8
  <2>2. g[0] = 0 /\ \A i \in 1..l : g[i] = g[i - 1] + W[i]
    BY ONLY <1>1, <1>4, <2>1
  <2>3. \A i \in 0..l : g[i] = T[i]
    <3> DEFINE B == {n \in 0..l : g[n] # T[n]}
    <3>1. ASSUME NEW n \in B PROVE \E m \in B : m < n
      <4>1. n # 0 /\ n \in 0..l
        BY ONLY <1>6, <2>2, <3>1
      <4>2. n \in 1..l /\ n - 1 \in 0..l /\ n - 1 < n
        BY ONLY <1>1, <4>1
      <4>3. n - 1 \in B
        BY ONLY <1>4, <1>6, <2>2, <3>1, <4>2
      <4> QED
        BY ONLY <4>2, <4>3
    <3>2. B \in SUBSET Nat
      BY ONLY <1>1
    <3>3. B = {}
      <4> HIDE DEF B
      <4> QED
        BY ONLY <3>1, <3>2, NoFirst
    <3> QED
      BY ONLY <3>3
  <2>4. g = T
    <3>1. g = [i \in 0..l |-> g[i]]
      BY ONLY <1>8
    <3>2. T = [i \in 0..l |-> T[i]]
      BY ONLY <1>6
    <3> QED
      BY ONLY <2>3, <3>1, <3>2
  <2> QED
    BY ONLY <1>5, <2>4
<1> HIDE DEF g
<1>10. Sums(l, W, g[l])
  BY ONLY <1>9 DEF Sums
<1>11. ASSUME NEW x, Sums(l, W, x) PROVE x = g[l]
  <2>1. PICK U : Partial(l, W, U) /\ x = U[l]
    BY ONLY <1>11 DEF Sums
  <2> QED
    BY ONLY <1>1, <1>9, <2>1, OnePartial
<1>12. g[l] \in Int
  BY ONLY <1>1, <1>9, OnePartial
<1>13. \A x : Sums(l, W, x) <=> x = Total(f, s)
  BY ONLY <1>3, <1>10, <1>11
<1>14. Total(f, s) \in Int
  BY ONLY <1>3, <1>12
<1> QED
  BY ONLY <1>1, <1>4, <1>13, <1>14, Zenon DEF l, W

LEMMA TotalIsInt ==
    ASSUME NEW f, NEW s \in Seq(Messages)
    PROVE  Total(f, s) \in Int
  BY TotalSums

\* Nothing of a file, no bytes of it.
LEMMA TotalOfNone ==
    ASSUME NEW f, NEW s \in Seq(Messages), \A i \in 1..Len(s) : s[i].file # f
    PROVE  Total(f, s) = 0
<1> DEFINE l == Len(s)
           W == Weights(f, s)
<1>1. /\ W \in [1..l -> Int] /\ l \in Nat
      /\ \A i \in 1..l : W[i] = Weight(f, s[i])
      /\ \A x : Sums(l, W, x) <=> x = Total(f, s)
  BY TotalSums
<1>2. \A i \in 1..l : W[i] = 0
  BY <1>1 DEF Weight
<1> HIDE DEF l, W
<1>3. Sums(l, W, 0)
  BY ONLY <1>1, <1>2, SumOfZeros
<1> QED
  BY ONLY <1>1, <1>3

LEMMA TotalEmpty ==
    ASSUME NEW f
    PROVE  Total(f, <<>>) = 0
<1>1. <<>> \in Seq(Messages) /\ Len(<<>>) = 0
  BY EmptySeq
<1>2. \A i \in 1..Len(<<>>) : <<>>[i].file # f
  BY <1>1
<1> QED
  BY <1>1, <1>2, TotalOfNone

LEMMA TotalAppend ==
    ASSUME NEW f, NEW s \in Seq(Messages), NEW m \in Messages
    PROVE  Total(f, Append(s, m)) = Total(f, s) + Weight(f, m)
<1> DEFINE l == Len(s)
           a == Append(s, m)
           V == Weights(f, s)
           W == Weights(f, a)
<1>1. /\ l \in Nat /\ a \in Seq(Messages) /\ Len(a) = l + 1
      /\ \A i \in 1..l : a[i] = s[i]
      /\ a[l + 1] = m
  BY LenProperties, AppendProperties
<1> HIDE DEF a
<1>2. /\ V \in [1..l -> Int] /\ \A i \in 1..l : V[i] = Weight(f, s[i])
      /\ \A x : Sums(l, V, x) <=> x = Total(f, s)
  BY TotalSums
<1>3. /\ W \in [1..l + 1 -> Int] /\ \A i \in 1..l + 1 : W[i] = Weight(f, a[i])
      /\ \A x : Sums(l + 1, W, x) <=> x = Total(f, a)
  <2>1. /\ W \in [1..Len(a) -> Int] /\ \A i \in 1..Len(a) : W[i] = Weight(f, a[i])
        /\ \A x : Sums(Len(a), W, x) <=> x = Total(f, a)
    BY <1>1, TotalSums
  <2> HIDE DEF W
  <2> QED
    BY <1>1, <2>1, Zenon
<1> HIDE DEF l, V, W
<1>4. \A i \in 1..l : V[i] = W[i]
  <2>1. \A i \in 1..l : i \in 1..l + 1
    BY ONLY <1>1
  <2> QED
    BY ONLY <1>1, <1>2, <1>3, <2>1
<1>5. W[l + 1] = Weight(f, m)
  BY ONLY <1>1, <1>3
<1>6. Sums(l, V, Total(f, s))
  BY ONLY <1>2
<1>7. Sums(l + 1, W, Total(f, s) + W[l + 1])
  BY ONLY <1>1, <1>2, <1>3, <1>4, <1>6, SumWithLast, Zenon
<1> QED
  BY ONLY <1>3, <1>5, <1>7 DEF a

LEMMA TotalTail ==
    ASSUME NEW f, NEW s \in Seq(Messages), s # <<>>
    PROVE  Total(f, Tail(s)) = Total(f, s) - Weight(f, Head(s))
<1> DEFINE t == Tail(s)
           l == Len(t)
           V == Weights(f, t)
           W == Weights(f, s)
<1>1. /\ t \in Seq(Messages) /\ l \in Nat /\ Len(s) = l + 1
      /\ \A i \in 1..l : t[i] = s[i + 1]
      /\ Head(s) = s[1]
  BY LenProperties, HeadTailProperties, EmptySeq
<1> HIDE DEF t
<1>2. /\ V \in [1..l -> Int] /\ \A i \in 1..l : V[i] = Weight(f, t[i])
      /\ \A x : Sums(l, V, x) <=> x = Total(f, t)
  BY <1>1, TotalSums
<1>3. /\ W \in [1..l + 1 -> Int] /\ \A i \in 1..l + 1 : W[i] = Weight(f, s[i])
      /\ \A x : Sums(l + 1, W, x) <=> x = Total(f, s)
  <2>1. /\ W \in [1..Len(s) -> Int] /\ \A i \in 1..Len(s) : W[i] = Weight(f, s[i])
        /\ \A x : Sums(Len(s), W, x) <=> x = Total(f, s)
    BY TotalSums
  <2> HIDE DEF W
  <2> QED
    BY <1>1, <2>1, Zenon
<1> HIDE DEF l, V, W
<1>4. \A i \in 1..l : V[i] = W[i + 1]
  <2>1. \A i \in 1..l : i + 1 \in 1..l + 1
    BY ONLY <1>1
  <2> QED
    BY ONLY <1>1, <1>2, <1>3, <2>1
<1>5. W[1] = Weight(f, Head(s))
  <2>1. 1 \in 1..l + 1
    BY ONLY <1>1
  <2> QED
    BY ONLY <1>1, <1>3, <2>1
<1>6. Sums(l + 1, W, Total(f, s))
  BY ONLY <1>3
<1>7. Sums(l, V, Total(f, s) - W[1])
  BY ONLY <1>1, <1>2, <1>3, <1>4, <1>6, SumWithoutFirst, Zenon
<1> QED
  BY ONLY <1>2, <1>5, <1>7 DEF t

-----------------------------------------------------------------------------
(* Parts that a step leaves alone.                                         *)

LEMMA Sizes ==
    /\ \A f \in Files : Size[f] \in Nat /\ Start[f] \in Nat /\ f \in Nat /\ f # none
    /\ Files = 1..Len(Size) /\ Len(Size) \in Nat
<1>1. Size \in Seq(Nat) /\ Start \in Seq(Nat) /\ Len(Start) = Len(Size)
  BY FlowControlAssumption
<1>2. Files = 1..Len(Size) /\ Len(Size) \in Nat
  BY <1>1, LenProperties DEF Files
<1>3. \A f \in Files : Size[f] \in Nat /\ Start[f] \in Nat
  BY <1>1, <1>2, ElementOfSeq
<1> QED
  BY <1>2, <1>3 DEF none

LEMMA Faulted ==
    ASSUME Inductive, fault' \in {"overflow", "protocol"},
           UNCHANGED <<sending, pressed, toReceiver, toSender, receiving>>
    PROVE  Inductive'
<1> USE DEF sending, receiving
<1>1. TypeOK' /\ Typed'
  BY DEF Inductive, TypeOK, Typed
<1>2. Windowed' /\ Told' /\ Counted' /\ Concluding'
  BY DEF Inductive, Windowed, Told, Counted, Concluding
<1>3. Fresh' /\ CreditIsConserved'
  BY DEF Inductive, Fresh, CreditIsConserved
<1> QED
  BY <1>1, <1>2, <1>3 DEF Inductive

LEMMA SenderSide ==
    ASSUME Inductive, UNCHANGED receiving
    PROVE  Fresh' /\ CreditIsConserved'
  BY DEF Inductive, Fresh, CreditIsConserved, receiving

LEMMA SenderQuiet ==
    ASSUME Inductive, UNCHANGED receiving,
           UNCHANGED <<sender, writing, toReceiver, toSender>>
    PROVE  Fresh' /\ CreditIsConserved' /\ Concluding'
<1>1. Concluding'
  BY DEF Inductive, Concluding, receiving
<1> QED
  BY <1>1, SenderSide

LEMMA ReceiverSide ==
    ASSUME Inductive, UNCHANGED sending
    PROVE  Windowed' /\ Counted'
  BY DEF Inductive, Windowed, Counted, sending

\* A worker of the sender moves on.
LEMMA UpMoves ==
    ASSUME Typed, NEW f \in Files, NEW state, up' = [up EXCEPT ![f].at = state],
           state \in {"none", "open", "fill", "closing", "ended", "joined", "aborted"}
    PROVE  /\ up' \in [Files -> Uploads] /\ up'[f].at = state
           /\ \A g \in Files : /\ up'[g].offset = up[g].offset /\ up'[g].acked = up[g].acked
                               /\ up'[g].queued = up[g].queued
           /\ \A g \in Files \ {f} : up'[g] = up[g]
  BY DEF Typed, Uploads

LEMMA DownMoves ==
    ASSUME Typed, NEW f \in Files, NEW state, down' = [down EXCEPT ![f].at = state],
           state \in {"none", "ready", "reporting", "ended", "failed", "joined"}
    PROVE  /\ down' \in [Files -> Downloads] /\ down'[f].at = state
           /\ \A g \in Files : /\ down'[g].offset = down[g].offset
                               /\ down'[g].buffer = down[g].buffer
                               /\ down'[g].credit = down[g].credit
           /\ \A g \in Files \ {f} : down'[g] = down[g]
<1>1. down \in [Files -> Downloads] /\ down[f] \in Downloads
  BY DEF Typed
<1> DEFINE n == [down[f] EXCEPT !.at = state]
<1>2. /\ n \in Downloads /\ n.at = state /\ n.offset = down[f].offset
      /\ n.buffer = down[f].buffer /\ n.credit = down[f].credit
  BY <1>1 DEF Downloads
<1>3. down' = [down EXCEPT ![f] = n]
  OBVIOUS
<1> HIDE DEF n
<1> QED
  BY <1>1, <1>2, <1>3

\* What is known of an upload.
LEMMA UploadOf ==
    ASSUME Inductive, NEW f \in Files
    PROVE  /\ up[f].offset \in Nat /\ up[f].acked \in Nat /\ up[f].queued \in Nat
           /\ up[f].acked <= up[f].offset /\ up[f].offset <= Size[f]
           /\ up[f].at \in {"none", "open", "fill", "closing", "ended", "joined", "aborted"}
  BY DEF Inductive, TypeOK, Typed, Uploads

\* One element more, or the first one less.
LEMMA Appended ==
    ASSUME NEW S, NEW s \in Seq(S), NEW m \in S
    PROVE  /\ Append(s, m) \in Seq(S) /\ Len(Append(s, m)) = Len(s) + 1 /\ Len(s) \in Nat
           /\ \A i \in DOMAIN Append(s, m) : Append(s, m)[i] = m \/
                 (i \in DOMAIN s /\ Append(s, m)[i] = s[i])
<1> DEFINE l == Len(s)
           a == Append(s, m)
<1>1. /\ l \in Nat /\ DOMAIN s = 1..l /\ a \in Seq(S) /\ Len(a) = l + 1
      /\ \A i \in 1..l : a[i] = s[i]
      /\ a[l + 1] = m
  BY AppendProperties, LenProperties
<1>2. DOMAIN a = 1..l + 1
  BY <1>1, LenProperties
<1> HIDE DEF a, l
<1>3. \A i \in DOMAIN a : a[i] = m \/ (i \in DOMAIN s /\ a[i] = s[i])
  <2> SUFFICES ASSUME NEW i \in DOMAIN a
               PROVE  a[i] = m \/ (i \in DOMAIN s /\ a[i] = s[i])
    OBVIOUS
  <2>1. i = l + 1 \/ i \in 1..l
    BY <1>1, <1>2
  <2> QED
    BY <1>1, <2>1
<1> QED
  BY <1>1, <1>3 DEF a, l

LEMMA Tailed ==
    ASSUME NEW S, NEW s \in Seq(S), s # <<>>
    PROVE  /\ Tail(s) \in Seq(S) /\ Len(Tail(s)) <= Len(s) /\ Len(Tail(s)) \in Nat /\ Head(s) \in S
           /\ Len(s) \in Nat
           /\ 1 \in DOMAIN s /\ Head(s) = s[1]
           /\ \A i \in DOMAIN Tail(s) : i + 1 \in DOMAIN s /\ Tail(s)[i] = s[i + 1]
<1>1. /\ Len(s) \in Nat /\ DOMAIN s = 1..Len(s) /\ Len(s) # 0
  BY LenProperties, EmptySeq
<1>2. /\ Tail(s) \in Seq(S) /\ Len(Tail(s)) = Len(s) - 1 /\ Head(s) \in S
      /\ \A i \in 1..Len(Tail(s)) : Tail(s)[i] = s[i + 1]
  BY HeadTailProperties
<1>3. Head(s) = s[1]
  BY <1>1
<1>4. DOMAIN Tail(s) = 1..Len(s) - 1
  BY <1>2, LenProperties
<1> QED
  BY <1>1, <1>2, <1>3, <1>4

LEMMA Concatenated ==
    ASSUME NEW S, NEW s \in Seq(S), NEW t \in Seq(S)
    PROVE  \A i \in DOMAIN (s \o t) :
              \/ i \in DOMAIN s /\ (s \o t)[i] = s[i]
              \/ \E j \in DOMAIN t : (s \o t)[i] = t[j]
<1> DEFINE l == Len(s)
           m == Len(t)
           c == s \o t
<1>1. /\ l \in Nat /\ m \in Nat /\ DOMAIN s = 1..l /\ DOMAIN t = 1..m
      /\ c \in Seq(S) /\ Len(c) = l + m
      /\ \A i \in 1..l + m : c[i] = IF i <= l THEN s[i] ELSE t[i - l]
  BY LenProperties, ConcatProperties
<1>2. DOMAIN c = 1..l + m
  BY <1>1, LenProperties
<1> HIDE DEF c, l, m
<1>3. ASSUME NEW i \in 1..l + m
      PROVE  \/ i \in 1..l /\ c[i] = s[i]
             \/ \E j \in 1..m : c[i] = t[j]
  <2>1. CASE i <= l
    BY <1>1, <2>1
  <2>2. CASE ~(i <= l)
    <3>1. i - l \in 1..m /\ c[i] = t[i - l]
      BY <1>1, <2>2
    <3> QED
      BY <3>1
  <2> QED
    BY <2>1, <2>2
<1> QED
  BY <1>1, <1>2, <1>3 DEF c

LEMMA WiderSeq ==
    ASSUME NEW S, NEW T, NEW s \in Seq(S)
    PROVE  s \in Seq(S \cup T)
<1>1. Len(s) \in Nat /\ s \in [1..Len(s) -> S]
  BY LenProperties
<1>2. s \in [1..Len(s) -> S \cup T]
  BY <1>1
<1> QED
  BY <1>1, <1>2, SeqDef

LEMMA QueueSizes ==
    /\ SEND_QUEUE \in Nat /\ FileQueue \in Nat /\ AckQueue \in Nat /\ WINDOW \in Nat
    /\ Pipe \in Nat /\ ReplyPipe \in Nat /\ Streams \in Nat
<1>1. {Block, Frame, Streams} \subseteq Nat \ {0} /\ Window \in Nat
  BY FlowControlAssumption DEF WINDOW
<1>2. WINDOW \in Nat
  BY <1>1 DEF WINDOW
<1>3. /\ Block \div Frame \in Nat /\ WINDOW \div Frame \in Nat
      /\ WINDOW \div Block \in Nat /\ Window \div Block \in Nat
  BY <1>1, <1>2, DivMod
<1>4. Pipe \in Nat /\ ReplyPipe \in Nat
  BY FlowControlAssumption
<1> QED
  BY <1>1, <1>2, <1>3, <1>4 DEF SEND_QUEUE, FileQueue, AckQueue

LEMMA ChannelBounds ==
    ASSUME Inductive
    PROVE  /\ Len(packets) <= SEND_QUEUE /\ Len(events) <= Streams
           /\ Len(toReceiver) <= Pipe /\ Len(toSender) <= ReplyPipe
           /\ Len(writing) <= 1 /\ Len(replying) <= 1
  BY DEF Inductive, TypeOK

-----------------------------------------------------------------------------
(* The workers of the sender.                                              *)

\* A worker queues a packet and moves on.
LEMMA Enqueued ==
    ASSUME Inductive, NEW m \in StreamMessages, Enqueue(m), up' \in [Files -> Uploads],
           \A g \in Files : up'[g].acked <= up'[g].offset /\ up'[g].offset <= Size[g]
    PROVE  TypeOK' /\ Typed' /\ Fresh' /\ CreditIsConserved' /\ Concluding'
<1>1. /\ Len(packets) < SEND_QUEUE /\ packets' = Append(packets, m)
      /\ UNCHANGED <<sender, pressed, waiting, writing, acks, known, completed,
                     toReceiver, toSender, receiving, fault>>
  BY DEF Enqueue
<1>2. /\ packets' \in Seq(StreamMessages) /\ Len(packets') = Len(packets) + 1
      /\ Len(packets) \in Nat
  BY <1>1, Appended DEF Inductive, Typed
<1>3. Len(packets') <= SEND_QUEUE
  BY <1>1, <1>2, QueueSizes
<1>4. \A g \in Files : up'[g].at \in
         {"none", "open", "fill", "closing", "ended", "joined", "aborted"}
  BY DEF Uploads
<1>5. TypeOK'
  BY <1>1, <1>3, <1>4 DEF Inductive, TypeOK, receiving
<1>6. Typed'
  BY <1>1, <1>2 DEF Inductive, Typed, receiving
<1>7. Fresh' /\ CreditIsConserved' /\ Concluding'
  BY <1>1, SenderQuiet
<1> QED
  BY <1>5, <1>6, <1>7

LEMMA OpenStreamStep ==
    ASSUME Inductive, NEW f \in Files, OpenStream(f)
    PROVE  Inductive'
<1>1. /\ up[f].at = "open" /\ up' = [up EXCEPT ![f].at = "fill"]
      /\ Enqueue(Msg("Open", f, 0, 0))
  BY DEF OpenStream, At
<1>2. UNCHANGED <<acks, known, completed, sender, waiting, toSender, receiving>>
  BY <1>1 DEF Enqueue
<1>3. Msg("Open", f, 0, 0) \in StreamMessages
  BY DEF Msg, StreamMessages, StreamKinds
<1>4. /\ up' \in [Files -> Uploads] /\ up'[f].at = "fill"
      /\ \A g \in Files : /\ up'[g].offset = up[g].offset /\ up'[g].acked = up[g].acked
                          /\ up'[g].queued = up[g].queued
      /\ \A g \in Files \ {f} : up'[g] = up[g]
  BY <1>1, UpMoves DEF Inductive
<1>5. \A g \in Files : up'[g].acked <= up'[g].offset /\ up'[g].offset <= Size[g]
  BY <1>4, UploadOf
<1>6. TypeOK' /\ Typed' /\ Fresh' /\ CreditIsConserved' /\ Concluding'
  BY <1>1, <1>3, <1>4, <1>5, Enqueued
<1>7. Windowed'
  BY <1>2, <1>4 DEF Inductive, Windowed
<1>8. Told'
  BY <1>2, <1>4 DEF Inductive, Told, receiving
<1>9. Counted'
  <2>1. \A g \in Files : /\ up'[g].at = "joined" <=> up[g].at = "joined"
                         /\ up[g].at = "none" => up'[g].at = "none"
    BY <1>1, <1>4
  <2> QED
    BY <1>2, <2>1 DEF Inductive, Counted
<1> QED
  BY <1>6, <1>7, <1>8, <1>9 DEF Inductive

LEMMA QueuePacketStep ==
    ASSUME Inductive, NEW f \in Files, QueuePacket(f)
    PROVE  Inductive'
<1> DEFINE u == up[f]
           parts == BlockPackets(f, u.offset)
           end == BlockEnd(f, u.offset)
           next == IF u.queued + 1 = Len(parts)
                   THEN [u EXCEPT !.queued = 0, !.offset = end]
                   ELSE [u EXCEPT !.queued = u.queued + 1]
<1>1. /\ u.at = "fill" /\ u.offset < Size[f]
      /\ up' = [up EXCEPT ![f] = next] /\ Enqueue(parts[u.queued + 1])
  BY DEF QueuePacket, At, HasWindow
<1>2. UNCHANGED <<acks, known, completed, sender, waiting, toSender, receiving>>
  BY <1>1 DEF Enqueue
<1>3. /\ u.offset \in Nat /\ u.acked \in Nat /\ u.queued \in Nat
      /\ u.acked <= u.offset /\ u.offset <= Size[f] /\ Size[f] \in Nat /\ u \in Uploads
      /\ Aligned(f, u.offset) /\ u.queued < Len(parts)
  BY <1>1, UploadOf, Sizes DEF Inductive, Windowed, Typed
<1>4. parts \in Seq(StreamMessages) /\ Len(parts) \in Nat
  BY <1>1, <1>3, PacketsOfBlock, LenProperties
<1>5. parts[u.queued + 1] \in StreamMessages
  BY <1>3, <1>4, ElementOfSeq
<1>6. /\ end \in Nat /\ u.offset <= end /\ end <= Size[f] /\ Aligned(f, end)
  BY <1>3, NextBlock
<1> HIDE DEF u, end, parts
<1>7. /\ next \in Uploads /\ next.at = "fill" /\ next.acked = u.acked
      /\ next.acked <= next.offset /\ next.offset <= Size[f]
      /\ Aligned(f, next.offset)
      /\ \/ next.queued = 0
         \/ next.queued = u.queued + 1 /\ next.offset = u.offset /\ next.queued # Len(parts)
  <2>1. CASE u.queued + 1 = Len(parts)
    <3>1. next = [u EXCEPT !.queued = 0, !.offset = end]
      BY <2>1
    <3> HIDE DEF next
    <3>2. /\ next.queued = 0 /\ next.offset = end /\ next.at = u.at /\ next.acked = u.acked
          /\ next \in Uploads
      BY <1>3, <1>6, <3>1 DEF Uploads
    <3> QED
      BY <1>1, <1>3, <1>6, <3>2
  <2>2. CASE u.queued + 1 # Len(parts)
    <3>1. next = [u EXCEPT !.queued = u.queued + 1]
      BY <2>2
    <3> HIDE DEF next
    <3>2. /\ next.queued = u.queued + 1 /\ next.offset = u.offset /\ next.at = u.at
          /\ next.acked = u.acked /\ next \in Uploads
      BY <1>3, <3>1 DEF Uploads
    <3> QED
      BY <1>1, <1>3, <2>2, <3>2
  <2> QED
    BY <2>1, <2>2
<1> HIDE DEF next
<1>8. /\ up' \in [Files -> Uploads] /\ up'[f] = next
      /\ \A g \in Files \ {f} : up'[g] = up[g]
  BY <1>1, <1>7 DEF Inductive, Typed
<1>9. \A g \in Files : up'[g].acked <= up'[g].offset /\ up'[g].offset <= Size[g]
  BY <1>7, <1>8, UploadOf
<1>10. TypeOK' /\ Typed' /\ Fresh' /\ CreditIsConserved' /\ Concluding'
  BY <1>1, <1>5, <1>8, <1>9, Enqueued
<1>11. next.offset < Size[f] => next.queued < Len(BlockPackets(f, next.offset))
  <2>1. CASE next.queued = 0
    <3>1. next.offset \in Nat /\ Aligned(f, next.offset)
      BY <1>7 DEF Uploads
    <3>2. ASSUME next.offset < Size[f]
          PROVE  Len(BlockPackets(f, next.offset)) > 0
      BY <3>1, <3>2, PacketsOfBlock
    <3> QED
      BY <2>1, <3>2
  <2>2. CASE next.queued = u.queued + 1 /\ next.offset = u.offset /\ next.queued # Len(parts)
    <3>1. next.queued < Len(parts)
      BY <1>3, <1>4, <2>2
    <3> QED
      BY <2>2, <3>1 DEF parts
  <2> QED
    BY <1>7, <2>1, <2>2
<1>12. Windowed'
  <2>1. u.acked = up[f].acked
    BY DEF u
  <2> QED
    BY <1>2, <1>7, <1>8, <1>11, <2>1 DEF Inductive, Windowed
<1>13. Told'
  <2>1. up[f].at = "fill"
    BY <1>1 DEF u
  <2> QED
    BY <1>2, <1>7, <1>8, <2>1 DEF Inductive, Told, receiving
<1>14. Counted'
  <2>1. \A g \in Files : /\ up'[g].at = "joined" <=> up[g].at = "joined"
                         /\ up[g].at = "none" => up'[g].at = "none"
    BY <1>1, <1>7, <1>8 DEF u
  <2> QED
    BY <1>2, <2>1 DEF Inductive, Counted
<1> QED
  BY <1>10, <1>12, <1>13, <1>14 DEF Inductive

LEMMA TakeAckStep ==
    ASSUME Inductive, NEW f \in Files, TakeAck(f)
    PROVE  Inductive'
<1> DEFINE ack == Head(acks[f])
           end == BlockEnd(f, up[f].acked)
           mine == Msg("Checkpoint", f, end, end - up[f].acked)
<1>1. up[f].at = "fill" /\ acks[f] # <<>> /\ InFlight(f) > 0
  BY DEF TakeAck, At
<1>2. CASE ack # mine
  BY <1>2, Faulted DEF TakeAck, Ensure
<1>3. CASE ack = mine
  <2>1. /\ up' = [up EXCEPT ![f].acked = end] /\ acks' = [acks EXCEPT ![f] = Tail(@)]
        /\ UNCHANGED <<sender, pressed, waiting, packets, writing, known,
                       completed, toReceiver, toSender, receiving>>
        /\ UNCHANGED fault
    BY <1>3 DEF TakeAck, Ensure
  <2>2. /\ up[f].offset \in Nat /\ up[f].acked \in Nat
        /\ up[f].acked <= up[f].offset /\ up[f].offset <= Size[f] /\ Size[f] \in Nat
        /\ Aligned(f, up[f].acked) /\ Aligned(f, up[f].offset)
    BY UploadOf, Sizes DEF Inductive, Windowed
  <2>3. up[f].acked < up[f].offset
    <3>1. ASSUME up[f].acked = up[f].offset PROVE FALSE
      <4>1. up[f].offset - up[f].acked = 0
        BY <2>2, <3>1
      <4>2. InFlight(f) = 0
        BY <4>1, AtLeastOne, Constants DEF InFlight
      <4> QED
        BY <1>1, <4>2
    <3> QED
      BY <2>2, <3>1
  <2>4. end \in Nat /\ end <= up[f].offset /\ end <= Size[f] /\ Aligned(f, end)
    BY <2>2, <2>3, NextBlock
  <2>5. end <= known[f]
    <3>1. mine.kind = "Checkpoint" /\ mine.offset = end
      BY DEF Msg
    <3>2. 1 \in DOMAIN acks[f] /\ ack = acks[f][1]
      BY <1>1, Tailed DEF Inductive, Typed
    <3> QED
      BY <1>3, <3>1, <3>2 DEF Inductive, Windowed
  <2> HIDE DEF end, mine, ack
  <2>6. /\ up' \in [Files -> Uploads] /\ up'[f].acked = end /\ up'[f].offset = up[f].offset
        /\ up'[f].at = up[f].at /\ up'[f].queued = up[f].queued
        /\ \A g \in Files \ {f} : up'[g] = up[g]
    BY <2>1, <2>4 DEF Inductive, Typed, Uploads
  <2>7. /\ acks' \in [Files -> Seq(Messages)] /\ Len(acks'[f]) <= Len(acks[f])
        /\ Len(acks'[f]) \in Nat /\ Len(acks[f]) \in Nat
        /\ \A i \in DOMAIN acks'[f] : i + 1 \in DOMAIN acks[f] /\ acks'[f][i] = acks[f][i + 1]
        /\ \A g \in Files \ {f} : acks'[g] = acks[g]
    <3>1. acks \in [Files -> Seq(Messages)]
      BY DEF Inductive, Typed
    <3>2. acks' = [acks EXCEPT ![f] = Tail(acks[f])]
      BY <2>1
    <3>3. /\ Tail(acks[f]) \in Seq(Messages) /\ Len(Tail(acks[f])) <= Len(acks[f])
          /\ Len(Tail(acks[f])) \in Nat /\ Len(acks[f]) \in Nat
          /\ \A i \in DOMAIN Tail(acks[f]) :
                i + 1 \in DOMAIN acks[f] /\ Tail(acks[f])[i] = acks[f][i + 1]
      BY <1>1, <3>1, Tailed
    <3> QED
      BY <3>1, <3>2, <3>3
  <2>8. TypeOK'
    <3>1. \A g \in Files :
             /\ up'[g].at \in {"none", "open", "fill", "closing", "ended", "joined", "aborted"}
             /\ up'[g].acked <= up'[g].offset /\ up'[g].offset <= Size[g]
      BY <2>4, <2>6, UploadOf
    <3>2. \A g \in Files : Len(acks'[g]) <= AckQueue
      <4>1. Len(acks[f]) <= AckQueue /\ \A g \in Files : Len(acks[g]) <= AckQueue
        BY DEF Inductive, TypeOK
      <4>2. Len(acks'[f]) <= AckQueue
        BY <2>7, <4>1, QueueSizes
      <4> QED
        BY <2>7, <4>1, <4>2
    <3> QED
      BY <2>1, <3>1, <3>2 DEF Inductive, TypeOK, receiving
  <2>9. Typed'
    BY <2>1, <2>6, <2>7 DEF Inductive, Typed, receiving
  <2>10. Windowed'
    BY <1>1, <2>1, <2>4, <2>5, <2>6, <2>7 DEF Inductive, Windowed
  <2>11. Told'
    BY <1>1, <2>1, <2>6, <2>7 DEF Inductive, Told, receiving
  <2>12. Counted'
    <3>1. \A g \in Files : up'[g].at = up[g].at
      BY <2>6
    <3> QED
      BY <2>1, <3>1 DEF Inductive, Counted
  <2>13. Fresh' /\ CreditIsConserved' /\ Concluding'
    BY <2>1, SenderQuiet
  <2> QED
    BY <2>8, <2>9, <2>10, <2>11, <2>12, <2>13 DEF Inductive
<1> QED
  BY <1>2, <1>3

LEMMA CloseStreamStep ==
    ASSUME Inductive, NEW f \in Files, CloseStream(f)
    PROVE  Inductive'
<1>1. /\ up[f].at = "fill" /\ up' = [up EXCEPT ![f].at = "closing"]
      /\ Enqueue(Msg("Close", f, 0, 0))
  BY DEF CloseStream, At, AfterClose
<1>2. UNCHANGED <<acks, known, completed, sender, waiting, toSender, receiving>>
  BY <1>1 DEF Enqueue
<1>3. Msg("Close", f, 0, 0) \in StreamMessages
  BY DEF Msg, StreamMessages, StreamKinds
<1>4. /\ up' \in [Files -> Uploads] /\ up'[f].at = "closing"
      /\ \A g \in Files : /\ up'[g].offset = up[g].offset /\ up'[g].acked = up[g].acked
                          /\ up'[g].queued = up[g].queued
      /\ \A g \in Files \ {f} : up'[g] = up[g]
  BY <1>1, UpMoves DEF Inductive
<1>5. \A g \in Files : up'[g].acked <= up'[g].offset /\ up'[g].offset <= Size[g]
  BY <1>4, UploadOf
<1>6. TypeOK' /\ Typed' /\ Fresh' /\ CreditIsConserved' /\ Concluding'
  BY <1>1, <1>3, <1>4, <1>5, Enqueued
<1>7. up[f].acked = Size[f]
  <2>1. up[f].offset = Size[f] /\ InFlight(f) = 0
    BY DEF CloseStream, Flushed
  <2>2. up[f].offset \in Nat /\ up[f].acked \in Nat /\ up[f].acked <= up[f].offset
    BY UploadOf
  <2> DEFINE n == up[f].offset - up[f].acked
  <2>3. n \in Nat /\ CeilDiv(n, Block) = 0
    BY <2>1, <2>2 DEF InFlight
  <2> HIDE DEF n
  <2>4. n = 0
    BY <2>3, AtLeastOne, Constants
  <2> QED
    BY <2>1, <2>2, <2>4 DEF n
<1>8. Windowed'
  BY <1>2, <1>4, <1>7 DEF Inductive, Windowed
<1>9. Told'
  BY <1>2, <1>4 DEF Inductive, Told, receiving
<1>10. Counted'
  <2>1. \A g \in Files : /\ up'[g].at = "joined" <=> up[g].at = "joined"
                         /\ up[g].at = "none" => up'[g].at = "none"
    BY <1>1, <1>4
  <2> QED
    BY <1>2, <2>1 DEF Inductive, Counted
<1> QED
  BY <1>6, <1>8, <1>9, <1>10 DEF Inductive

LEMMA TakeClosedStep ==
    ASSUME Inductive, NEW f \in Files, TakeClosed(f)
    PROVE  Inductive'
<1>1. up[f].at = "closing" /\ acks[f] # <<>>
  BY DEF TakeClosed, At
<1>2. CASE Head(acks[f]).kind # "Closed"
  BY <1>2, Faulted DEF TakeClosed, Ensure
<1>3. CASE Head(acks[f]).kind = "Closed"
  <2>1. /\ up' = [up EXCEPT ![f].at = "ended"] /\ acks' = [acks EXCEPT ![f] = Tail(@)]
        /\ UNCHANGED <<sender, pressed, waiting, packets, writing, known,
                       completed, toReceiver, toSender, receiving>>
        /\ UNCHANGED fault
    BY <1>3 DEF TakeClosed, Ensure
  <2>2. /\ up' \in [Files -> Uploads] /\ up'[f].at = "ended"
        /\ \A g \in Files : /\ up'[g].offset = up[g].offset /\ up'[g].acked = up[g].acked
                            /\ up'[g].queued = up[g].queued
        /\ \A g \in Files \ {f} : up'[g] = up[g]
    BY <2>1, UpMoves DEF Inductive
  <2>3. /\ acks' \in [Files -> Seq(Messages)] /\ Len(acks'[f]) <= Len(acks[f])
        /\ Len(acks'[f]) \in Nat /\ Len(acks[f]) \in Nat
        /\ \A i \in DOMAIN acks'[f] : i + 1 \in DOMAIN acks[f] /\ acks'[f][i] = acks[f][i + 1]
        /\ \A g \in Files \ {f} : acks'[g] = acks[g]
        /\ 1 \in DOMAIN acks[f] /\ Head(acks[f]) = acks[f][1]
    <3>1. acks \in [Files -> Seq(Messages)]
      BY DEF Inductive, Typed
    <3>2. acks' = [acks EXCEPT ![f] = Tail(acks[f])]
      BY <2>1
    <3>3. /\ Tail(acks[f]) \in Seq(Messages) /\ Len(Tail(acks[f])) <= Len(acks[f])
          /\ Len(Tail(acks[f])) \in Nat /\ Len(acks[f]) \in Nat
          /\ 1 \in DOMAIN acks[f] /\ Head(acks[f]) = acks[f][1]
          /\ \A i \in DOMAIN Tail(acks[f]) :
                i + 1 \in DOMAIN acks[f] /\ Tail(acks[f])[i] = acks[f][i + 1]
      BY <1>1, <3>1, Tailed
    <3> QED
      BY <3>1, <3>2, <3>3
  <2>4. f \in closed
    BY <1>3, <2>3 DEF Inductive, Told
  <2>5. TypeOK'
    <3>1. \A g \in Files :
             /\ up'[g].at \in {"none", "open", "fill", "closing", "ended", "joined", "aborted"}
             /\ up'[g].acked <= up'[g].offset /\ up'[g].offset <= Size[g]
      BY <2>2, UploadOf
    <3>2. \A g \in Files : Len(acks'[g]) <= AckQueue
      <4>1. Len(acks[f]) <= AckQueue /\ \A g \in Files : Len(acks[g]) <= AckQueue
        BY DEF Inductive, TypeOK
      <4>2. Len(acks'[f]) <= AckQueue
        BY <2>3, <4>1, QueueSizes
      <4> QED
        BY <2>3, <4>1, <4>2
    <3> QED
      BY <2>1, <3>1, <3>2 DEF Inductive, TypeOK, receiving
  <2>6. Typed'
    BY <2>1, <2>2, <2>3 DEF Inductive, Typed, receiving
  <2>7. Windowed'
    BY <1>1, <2>1, <2>2, <2>3 DEF Inductive, Windowed
  <2>8. Told'
    BY <2>1, <2>2, <2>3, <2>4 DEF Inductive, Told, receiving
  <2>9. Counted'
    <3>1. \A g \in Files : /\ up'[g].at = "joined" <=> up[g].at = "joined"
                           /\ up[g].at = "none" => up'[g].at = "none"
      BY <1>1, <2>2
    <3> QED
      BY <2>1, <3>1 DEF Inductive, Counted
  <2>10. Fresh' /\ CreditIsConserved' /\ Concluding'
    BY <2>1, SenderQuiet
  <2> QED
    BY <2>5, <2>6, <2>7, <2>8, <2>9, <2>10 DEF Inductive
<1> QED
  BY <1>2, <1>3

-----------------------------------------------------------------------------
(* The loop of the sender.                                                 *)

LEMMA PressStep ==
    ASSUME Inductive, Press
    PROVE  Inductive'
<1>1. UNCHANGED <<sending, toReceiver, toSender, receiving, fault>>
  BY DEF Press
<1>2. pressed' = TRUE
  BY DEF Press
<1>3. TypeOK' /\ Typed'
  BY <1>1, <1>2 DEF Inductive, TypeOK, Typed, sending, receiving
<1>4. Told' /\ Concluding'
  BY <1>1 DEF Inductive, Told, Concluding, sending, receiving
<1>5. Windowed' /\ Counted' /\ Fresh' /\ CreditIsConserved'
  BY <1>1, SenderSide, ReceiverSide
<1> QED
  BY <1>3, <1>4, <1>5 DEF Inductive

LEMMA SpawnStep ==
    ASSUME Inductive, Spawn
    PROVE  Inductive'
<1>1. /\ waiting <= Len(Size) /\ up' = [up EXCEPT ![waiting].at = "open"]
      /\ waiting' = waiting + 1
      /\ UNCHANGED <<sender, pressed, packets, writing, acks, known, completed,
                     toReceiver, toSender, receiving, fault>>
  BY DEF Spawn, CanSpawn
<1>2. waiting \in Files /\ waiting \in Nat /\ waiting' \in 1..(Len(Size) + 1)
  BY <1>1, Sizes DEF Inductive, TypeOK
<1>3. /\ up' \in [Files -> Uploads] /\ up'[waiting].at = "open"
      /\ \A g \in Files : /\ up'[g].offset = up[g].offset /\ up'[g].acked = up[g].acked
                          /\ up'[g].queued = up[g].queued
      /\ \A g \in Files \ {waiting} : up'[g] = up[g]
  BY <1>1, <1>2, UpMoves DEF Inductive
<1>4. up[waiting].at = "none"
  BY <1>2 DEF Inductive, Counted
<1>5. \A g \in Files : /\ up'[g].at = "joined" <=> up[g].at = "joined"
                       /\ up'[g].at \in {"ended", "joined", "closing"} => up'[g] = up[g]
                       /\ up'[g].at \in {"none", "open", "fill", "closing", "ended",
                                         "joined", "aborted"}
                       /\ up'[g].acked <= up'[g].offset /\ up'[g].offset <= Size[g]
  BY <1>3, <1>4, UploadOf
<1>6. TypeOK'
  BY <1>1, <1>2, <1>5 DEF Inductive, TypeOK, receiving
<1>7. Typed'
  BY <1>1, <1>3 DEF Inductive, Typed, receiving
<1>8. Windowed'
  BY <1>1, <1>3, <1>5 DEF Inductive, Windowed
<1>9. Told'
  BY <1>1, <1>5 DEF Inductive, Told, receiving
<1>10. Counted'
  <2>1. \A g \in Files : g >= waiting' => up'[g].at = "none"
    <3> SUFFICES ASSUME NEW g \in Files, g >= waiting + 1
                 PROVE  up'[g].at = "none"
      BY <1>1
    <3>1. g # waiting /\ g >= waiting
      BY <1>2, Sizes
    <3> QED
      BY <1>3, <3>1 DEF Inductive, Counted
  <2> QED
    BY <1>1, <1>5, <2>1 DEF Inductive, Counted
<1>11. Fresh' /\ CreditIsConserved' /\ Concluding'
  BY <1>1, SenderQuiet
<1> QED
  BY <1>6, <1>7, <1>8, <1>9, <1>10, <1>11 DEF Inductive

LEMMA StopStep ==
    ASSUME Inductive, Stop
    PROVE  Inductive'
<1>1. /\ up' = [f \in Files |-> IF f \in Busy THEN [up[f] EXCEPT !.at = "aborted"]
                                              ELSE up[f]]
      /\ writing' = <<Msg("Pause", none, 0, 0)>> /\ sender' = "stopping"
      /\ UNCHANGED <<pressed, waiting, packets, acks, known, completed,
                     toReceiver, toSender, receiving, fault>>
  BY DEF Stop
<1>2. \A f \in Files : /\ f \in Busy => up[f].at \notin {"none", "joined"}
                       /\ f \notin Busy => up'[f] = up[f]
                       /\ f \in Busy => up'[f] = [up[f] EXCEPT !.at = "aborted"]
  BY <1>1 DEF Busy
<1>3. /\ up' \in [Files -> Uploads]
      /\ \A g \in Files : /\ up'[g].offset = up[g].offset /\ up'[g].acked = up[g].acked
                          /\ up'[g].queued = up[g].queued
                          /\ up'[g].at = up[g].at \/ (g \in Busy /\ up'[g].at = "aborted")
  <2>1. \A f \in Files : up[f] \in Uploads
    BY DEF Inductive, Typed
  <2> DEFINE new(f) == IF f \in Busy THEN [up[f] EXCEPT !.at = "aborted"] ELSE up[f]
  <2>2. up' = [f \in Files |-> new(f)]
    BY <1>1
  <2>3. \A g \in Files :
           /\ new(g) \in Uploads /\ new(g).offset = up[g].offset /\ new(g).acked = up[g].acked
           /\ new(g).queued = up[g].queued
           /\ new(g).at = up[g].at \/ (g \in Busy /\ new(g).at = "aborted")
    BY <2>1 DEF Uploads
  <2> HIDE DEF new
  <2> QED
    BY <2>2, <2>3
<1>4. writing' \in Seq(Messages) /\ Len(writing') = 1
  <2>1. Msg("Pause", none, 0, 0) \in Messages
    BY DEF Msg, Messages, LoopMessages, LoopKinds
  <2> QED
    BY <1>1, <2>1
<1>5. TypeOK'
  <2>1. \A g \in Files :
           /\ up'[g].at \in {"none", "open", "fill", "closing", "ended", "joined", "aborted"}
           /\ up'[g].acked <= up'[g].offset /\ up'[g].offset <= Size[g]
    BY <1>3, UploadOf
  <2> QED
    BY <1>1, <1>4, <2>1 DEF Inductive, TypeOK, receiving
<1>6. Typed'
  BY <1>1, <1>3, <1>4 DEF Inductive, Typed, receiving
<1>7. Windowed'
  BY <1>1, <1>3 DEF Inductive, Windowed
<1>8. Told'
  BY <1>1, <1>3 DEF Inductive, Told, receiving
<1>9. Counted'
  <2>1. \A g \in Files : /\ up'[g].at = "joined" <=> up[g].at = "joined"
                         /\ up[g].at = "none" => up'[g].at = "none"
    BY <1>2, <1>3
  <2> QED
    BY <1>1, <2>1 DEF Inductive, Counted
<1>11. Concluding'
  <2>1. \A i \in DOMAIN writing' : writing'[i].kind = "Pause"
    BY <1>1 DEF Msg
  <2>2. sender \notin {"committing", "sent"}
    BY DEF Stop, AtTop
  <2> QED
    BY <1>1, <2>1, <2>2 DEF Inductive, Concluding, receiving
<1>10. Fresh' /\ CreditIsConserved'
  BY <1>1, SenderSide
<1> QED
  BY <1>5, <1>6, <1>7, <1>8, <1>9, <1>10, <1>11 DEF Inductive

LEMMA CommitStep ==
    ASSUME Inductive, Commit
    PROVE  Inductive'
<1>1. /\ writing' = <<Msg("Commit", none, 0, 0)>> /\ sender' = "committing"
      /\ completed = Len(Size)
      /\ UNCHANGED <<pressed, waiting, up, packets, acks, known, completed,
                     toReceiver, toSender, receiving, fault>>
  BY DEF Commit
<1>2. writing' \in Seq(Messages) /\ Len(writing') = 1
  <2>1. Msg("Commit", none, 0, 0) \in Messages
    BY DEF Msg, Messages, LoopMessages, LoopKinds
  <2> QED
    BY <1>1, <2>1
<1>3. TypeOK'
  BY <1>1, <1>2 DEF Inductive, TypeOK, receiving
<1>4. Typed'
  BY <1>1, <1>2 DEF Inductive, Typed, receiving
<1>5. Windowed' /\ Told' /\ Counted'
  BY <1>1 DEF Inductive, Windowed, Told, Counted, receiving
<1>7. Concluding'
  BY <1>1 DEF Inductive, Concluding, receiving
<1>6. Fresh' /\ CreditIsConserved'
  BY <1>1, SenderSide
<1> QED
  BY <1>3, <1>4, <1>5, <1>6, <1>7 DEF Inductive

LEMMA TakePacketStep ==
    ASSUME Inductive, TakePacket
    PROVE  Inductive'
<1>1. /\ packets # <<>> /\ writing' = <<Head(packets)>> /\ packets' = Tail(packets)
      /\ UNCHANGED <<sender, pressed, waiting, up, acks, known, completed,
                     toReceiver, toSender, receiving, fault>>
  BY DEF TakePacket
<1>2. /\ packets' \in Seq(StreamMessages) /\ Len(packets') <= Len(packets)
      /\ Len(packets') \in Nat /\ Len(packets) \in Nat /\ Head(packets) \in StreamMessages
  BY <1>1, Tailed DEF Inductive, Typed
<1>3. Len(packets') <= SEND_QUEUE
  BY <1>2, QueueSizes DEF Inductive, TypeOK
<1>4. writing' \in Seq(Messages) /\ Len(writing') = 1
  <2>1. Head(packets) \in Messages
    BY <1>2 DEF Messages
  <2> QED
    BY <1>1, <2>1
<1>5. TypeOK'
  BY <1>1, <1>3, <1>4 DEF Inductive, TypeOK, receiving
<1>6. Typed'
  BY <1>1, <1>2, <1>4 DEF Inductive, Typed, receiving
<1>7. Windowed' /\ Told' /\ Counted'
  BY <1>1 DEF Inductive, Windowed, Told, Counted, receiving
<1>9. Concluding'
  <2>1. \A i \in DOMAIN writing' : writing'[i].kind # "Commit"
    BY <1>1, <1>2 DEF StreamMessages, StreamKinds
  <2> QED
    BY <1>1, <2>1 DEF Inductive, Concluding, receiving
<1>8. Fresh' /\ CreditIsConserved'
  BY <1>1, SenderSide
<1> QED
  BY <1>5, <1>6, <1>7, <1>8, <1>9 DEF Inductive

LEMMA WritePacketStep ==
    ASSUME Inductive, WritePacket
    PROVE  Inductive'
<1>1. /\ Len(toReceiver) < Pipe /\ toReceiver' = toReceiver \o writing /\ writing' = <<>>
      /\ UNCHANGED <<sender, pressed, waiting, up, packets, acks, known, completed,
                     toSender, receiving, fault>>
  BY DEF WritePacket
<1>2. /\ toReceiver' \in Seq(Messages) /\ Len(toReceiver') = Len(toReceiver) + Len(writing)
      /\ Len(writing) \in Nat /\ Len(toReceiver) \in Nat
  BY <1>1, ConcatProperties, LenProperties DEF Inductive, Typed
<1>3. Len(toReceiver') <= Pipe
  BY <1>1, <1>2, ChannelBounds, QueueSizes
<1>4. writing' \in Seq(Messages) /\ Len(writing') = 0
  BY <1>1, EmptySeq
<1>5. TypeOK'
  BY <1>1, <1>3, <1>4 DEF Inductive, TypeOK, receiving
<1>6. Typed'
  BY <1>1, <1>2, <1>4 DEF Inductive, Typed, receiving
<1>7. Windowed' /\ Told' /\ Counted'
  BY <1>1 DEF Inductive, Windowed, Told, Counted, receiving
<1>9. Concluding'
  <2>1. \A i \in DOMAIN toReceiver' :
           \/ i \in DOMAIN toReceiver /\ toReceiver'[i] = toReceiver[i]
           \/ \E j \in DOMAIN writing : toReceiver'[i] = writing[j]
    <3>1. toReceiver \in Seq(Messages) /\ writing \in Seq(Messages)
      BY DEF Inductive, Typed
    <3> QED
      BY <1>1, <3>1, Concatenated
  <2>2. \A i \in DOMAIN writing' : FALSE
    BY <1>1
  <2> QED
    BY <1>1, <2>1, <2>2 DEF Inductive, Concluding, receiving
<1>8. Fresh' /\ CreditIsConserved'
  BY <1>1, SenderSide
<1> QED
  BY <1>5, <1>6, <1>7, <1>8, <1>9 DEF Inductive

LEMMA TakeReplyStep ==
    ASSUME Inductive, TakeReply
    PROVE  Inductive'
<1> DEFINE reply == Head(toSender)
           f == reply.file
<1>1. toSender # <<>>
  BY DEF TakeReply
<1>2. /\ Tail(toSender) \in Seq(Messages)
      /\ Len(Tail(toSender)) <= Len(toSender) /\ Len(Tail(toSender)) \in Nat
      /\ Len(toSender) \in Nat
      /\ 1 \in DOMAIN toSender /\ reply = toSender[1] /\ reply \in Messages
      /\ \A i \in DOMAIN Tail(toSender) :
            i + 1 \in DOMAIN toSender /\ Tail(toSender)[i] = toSender[i + 1]
  BY <1>1, Tailed DEF Inductive, Typed
<1> HIDE DEF reply
<1>3. CASE UNCHANGED <<sending, pressed, toReceiver, toSender, receiving>>
           /\ fault' \in {"overflow", "protocol"}
  BY <1>3, Faulted
<1>4. CASE /\ reply.kind \in {"Checkpoint", "Closed"} /\ Len(acks[f]) < AckQueue
           /\ up[f].at \in {"open", "fill", "closing"}
           /\ reply.kind = "Checkpoint" =>
                 reply.offset \in known[f]..Size[f] /\ reply.length <= Block
           /\ known' = IF reply.kind = "Checkpoint"
                       THEN [known EXCEPT ![f] = reply.offset] ELSE known
           /\ acks' = [acks EXCEPT ![f] = Append(@, reply)]
           /\ toSender' = Tail(toSender) /\ UNCHANGED fault
           /\ UNCHANGED <<sender, pressed, waiting, up, packets, writing,
                          completed, toReceiver, receiving>>
  <2>1. f \in Files /\ reply.offset \in Int
    BY <1>2, <1>4 DEF Messages, StreamMessages, LoopMessages, LoopKinds
  <2> HIDE DEF f
  <2>2. acks \in [Files -> Seq(Messages)] /\ known \in [Files -> Int]
    BY DEF Inductive, Typed
  <2>3. /\ acks' \in [Files -> Seq(Messages)] /\ Len(acks'[f]) = Len(acks[f]) + 1
        /\ Len(acks[f]) \in Nat
        /\ \A i \in DOMAIN acks'[f] : acks'[f][i] = reply \/
              (i \in DOMAIN acks[f] /\ acks'[f][i] = acks[f][i])
        /\ \A g \in Files \ {f} : acks'[g] = acks[g]
    <3>1. /\ Append(acks[f], reply) \in Seq(Messages)
          /\ Len(Append(acks[f], reply)) = Len(acks[f]) + 1 /\ Len(acks[f]) \in Nat
          /\ \A i \in DOMAIN Append(acks[f], reply) : Append(acks[f], reply)[i] = reply \/
                (i \in DOMAIN acks[f] /\ Append(acks[f], reply)[i] = acks[f][i])
      BY <1>2, <2>1, <2>2, Appended
    <3>2. acks' = [acks EXCEPT ![f] = Append(acks[f], reply)]
      BY <1>4
    <3> QED
      BY <2>1, <2>2, <3>1, <3>2
  <2>4. /\ known' \in [Files -> Int] /\ known[f] <= known'[f] /\ known'[f] <= Size[f]
        /\ reply.kind = "Checkpoint" => reply.offset = known'[f]
        /\ \A g \in Files \ {f} : known'[g] = known[g]
    <3>1. known[f] \in Int /\ Size[f] \in Nat /\ known[f] <= Size[f]
      BY <2>1, <2>2, Sizes DEF Inductive, Windowed
    <3>2. CASE reply.kind = "Checkpoint"
      <4>1. known' = [known EXCEPT ![f] = reply.offset] /\ reply.offset \in known[f]..Size[f]
        BY <1>4, <3>2
      <4> QED
        BY <2>1, <2>2, <3>1, <4>1
    <3>3. CASE reply.kind # "Checkpoint"
      <4>1. known' = known
        BY <1>4, <3>3
      <4> QED
        BY <2>2, <3>1, <3>3, <4>1
    <3> QED
      BY <3>2, <3>3
  <2>5. TypeOK'
    <3>1. Len(acks'[f]) <= AckQueue
      BY <1>4, <2>3, QueueSizes
    <3>2. Len(toSender') <= ReplyPipe
      BY <1>2, <1>4, ChannelBounds, QueueSizes
    <3>3. \A g \in Files : Len(acks'[g]) <= AckQueue
      BY <2>3, <3>1 DEF Inductive, TypeOK
    <3> QED
      BY <1>4, <3>2, <3>3 DEF Inductive, TypeOK, receiving
  <2>6. Typed'
    BY <1>2, <1>4, <2>3, <2>4 DEF Inductive, Typed, receiving
  <2>7. Windowed'
    <3> SUFFICES ASSUME NEW g \in Files
                 PROVE  /\ up[g].acked <= known'[g] /\ known'[g] <= Size[g]
                        /\ \A i \in DOMAIN acks'[g] :
                              acks'[g][i].kind = "Checkpoint" => acks'[g][i].offset <= known'[g]
      BY <1>4 DEF Inductive, Windowed
    <3>1. CASE g # f
      BY <2>3, <2>4, <3>1 DEF Inductive, Windowed
    <3>2. CASE g = f
      <4>1. up[f].acked \in Nat /\ up[f].acked <= known[f] /\ known[f] \in Int /\ known'[f] \in Int
        BY <2>1, <2>2, <2>4, UploadOf DEF Inductive, Windowed
      <4>2. up[f].acked <= known'[f]
        BY <2>4, <4>1
      <4>3. ASSUME NEW i \in DOMAIN acks'[f], acks'[f][i].kind = "Checkpoint"
            PROVE  acks'[f][i].offset <= known'[f]
        <5>1. CASE acks'[f][i] = reply
          BY <2>4, <4>1, <4>3, <5>1
        <5>2. CASE i \in DOMAIN acks[f] /\ acks'[f][i] = acks[f][i]
          <6>1. acks[f][i].offset <= known[f]
            BY <2>1, <4>3, <5>2 DEF Inductive, Windowed
          <6>2. acks[f][i] \in Messages
            BY <2>1, <2>2, <5>2, ElementOfSeq, LenProperties
          <6>3. acks[f][i].offset \in Int
            BY <6>2 DEF Messages, StreamMessages, LoopMessages
          <6> QED
            BY <2>4, <4>1, <5>2, <6>1, <6>3
        <5> QED
          BY <2>3, <5>1, <5>2
      <4> QED
        BY <2>4, <3>2, <4>2, <4>3
    <3> QED
      BY <3>1, <3>2
  <2>8. Told'
    <3>1. reply.kind = "Closed" => f \in closed
      BY <1>2 DEF Inductive, Told, f
    <3>2. ASSUME NEW g \in Files, NEW i \in DOMAIN acks'[g], acks'[g][i].kind = "Closed"
          PROVE  g \in closed
      <4>1. \A j \in DOMAIN acks[g] : acks[g][j].kind = "Closed" => g \in closed
        BY DEF Inductive, Told
      <4>2. CASE g # f
        <5>1. acks'[g] = acks[g]
          BY ONLY <2>3, <4>2
        <5> QED
          BY ONLY <3>2, <4>1, <5>1
      <4>3. CASE g = f
        <5>1. acks'[g][i] = reply \/ (i \in DOMAIN acks[g] /\ acks'[g][i] = acks[g][i])
          BY ONLY <2>3, <3>2, <4>3
        <5> QED
          BY ONLY <3>1, <3>2, <4>1, <4>3, <5>1
      <4> QED
        BY ONLY <4>2, <4>3
    <3>3. \A i \in DOMAIN toSender' : toSender'[i].kind = "Closed" => toSender'[i].file \in closed
      BY <1>2, <1>4 DEF Inductive, Told
    <3>4. UNCHANGED <<up, receiving>>
      BY <1>4
    <3> QED
      BY <3>2, <3>3, <3>4 DEF Inductive, Told, receiving
  <2>9. Counted'
    BY <1>4 DEF Inductive, Counted
  <2>11. Concluding'
    BY <1>2, <1>4 DEF Inductive, Concluding, receiving
  <2>10. Fresh' /\ CreditIsConserved'
    BY <1>4, SenderSide
  <2> QED
    BY <2>5, <2>6, <2>7, <2>8, <2>9, <2>10, <2>11 DEF Inductive
<1>5. \/ UNCHANGED <<sending, pressed, toReceiver, toSender, receiving>>
         /\ fault' \in {"overflow", "protocol"}
      \/ /\ reply.kind \in {"Checkpoint", "Closed"} /\ ~(Len(acks[f]) >= AckQueue)
         /\ up[f].at \in {"open", "fill", "closing"}
         /\ reply.kind = "Checkpoint" =>
               reply.offset \in known[f]..Size[f] /\ reply.length <= Block
         /\ known' = IF reply.kind = "Checkpoint"
                     THEN [known EXCEPT ![f] = reply.offset] ELSE known
         /\ acks' = [acks EXCEPT ![f] = Append(@, reply)]
         /\ toSender' = Tail(toSender) /\ UNCHANGED fault
         /\ UNCHANGED <<sender, pressed, waiting, up, packets, writing,
                        completed, toReceiver, receiving>>
  BY DEF TakeReply, Ensure, reply
<1>6. ~(Len(acks[f]) >= AckQueue) /\ f \in Files => Len(acks[f]) < AckQueue
  <2>1. f \in Files => Len(acks[f]) \in Nat
    BY LenProperties DEF Inductive, Typed
  <2> QED
    BY <2>1, QueueSizes
<1>7. reply.kind \in {"Checkpoint", "Closed"} => f \in Files
  BY <1>2 DEF Messages, StreamMessages, LoopMessages, LoopKinds
<1> QED
  BY <1>3, <1>4, <1>5, <1>6, <1>7

LEMMA JoinSenderStep ==
    ASSUME Inductive, NEW f \in Files, JoinSender(f)
    PROVE  Inductive'
<1>1. /\ up[f].at = "ended" /\ sender = "run"
      /\ up' = [up EXCEPT ![f].at = "joined"] /\ completed' = completed + 1
      /\ UNCHANGED <<sender, pressed, waiting, packets, writing, acks, known,
                     toReceiver, toSender, receiving, fault>>
  BY DEF JoinSender, At, Selecting, AtTop
<1>2. /\ up' \in [Files -> Uploads] /\ up'[f].at = "joined"
      /\ \A g \in Files : /\ up'[g].offset = up[g].offset /\ up'[g].acked = up[g].acked
                          /\ up'[g].queued = up[g].queued
      /\ \A g \in Files \ {f} : up'[g] = up[g]
  BY <1>1, UpMoves DEF Inductive
<1>3. TypeOK'
  <2>1. \A g \in Files :
           /\ up'[g].at \in {"none", "open", "fill", "closing", "ended", "joined", "aborted"}
           /\ up'[g].acked <= up'[g].offset /\ up'[g].offset <= Size[g]
    BY <1>2, UploadOf
  <2> QED
    BY <1>1, <2>1 DEF Inductive, TypeOK, receiving
<1>4. Typed'
  <2>1. completed' \in Nat
    BY <1>1 DEF Inductive, Typed
  <2> QED
    BY <1>1, <1>2, <2>1 DEF Inductive, Typed, receiving
<1>5. Windowed'
  BY <1>1, <1>2 DEF Inductive, Windowed
<1>6. Told'
  BY <1>1, <1>2 DEF Inductive, Told, receiving
<1>7. Counted'
  <2> DEFINE Joined == {g \in Files : up[g].at = "joined"}
  <2>1. {g \in Files : up'[g].at = "joined"} = Joined \cup {f} /\ f \notin Joined
    BY <1>1, <1>2
  <2>2. IsFiniteSet(Joined)
    <3>1. IsFiniteSet(Files)
      BY Sizes, FS_Interval
    <3> QED
      BY <3>1, FS_Subset
  <2> HIDE DEF Joined
  <2>3. Cardinality(Joined \cup {f}) = Cardinality(Joined) + 1
    BY <2>1, <2>2, FS_AddElement
  <2>4. completed' = Cardinality({g \in Files : up'[g].at = "joined"})
    BY <1>1, <2>1, <2>3 DEF Inductive, Counted, Joined
  <2>5. \A g \in Files : g >= waiting' => up'[g].at = "none"
    BY <1>1, <1>2 DEF Inductive, Counted
  <2> QED
    BY <1>1, <2>4, <2>5 DEF Counted
<1>8. Fresh' /\ CreditIsConserved' /\ Concluding'
  BY <1>1, SenderQuiet
<1> QED
  BY <1>3, <1>4, <1>5, <1>6, <1>7, <1>8 DEF Inductive

LEMMA ConcludeStep ==
    ASSUME Inductive, Conclude
    PROVE  Inductive'
<1>1. sender \in {"stopping", "committing"} /\ toSender # <<>>
  BY DEF Conclude
<1>2. CASE ~(sender = "committing" => Head(toSender).kind = "Complete")
  BY <1>2, Faulted DEF Conclude, Ensure
<1>3. CASE sender = "committing" => Head(toSender).kind = "Complete"
  <2>1. /\ toSender' = Tail(toSender)
        /\ sender' = CASE Head(toSender).kind = "Stopped" -> "stopped"
                       [] Head(toSender).kind = "Complete" -> "sent"
                       [] OTHER -> sender
        /\ UNCHANGED <<pressed, waiting, up, packets, writing, acks, known,
                       completed, toReceiver, receiving>>
        /\ UNCHANGED fault
    BY <1>3 DEF Conclude, Ensure
  <2>2. /\ Tail(toSender) \in Seq(Messages)
        /\ Len(Tail(toSender)) <= Len(toSender) /\ Len(Tail(toSender)) \in Nat
        /\ Len(toSender) \in Nat
        /\ \A i \in DOMAIN Tail(toSender) :
              i + 1 \in DOMAIN toSender /\ Tail(toSender)[i] = toSender[i + 1]
    BY <1>1, Tailed DEF Inductive, Typed
  <2>3. Len(toSender') <= ReplyPipe
    BY <2>1, <2>2, ChannelBounds, QueueSizes
  <2>4. sender' \in {"stopped", "sent", sender}
    BY <2>1
  <2>5. TypeOK'
    <3>1. sender' \in {"run", "stopping", "committing", "stopped", "sent"}
      BY <1>1, <2>4
    <3> QED
      BY <2>1, <2>3, <3>1 DEF Inductive, TypeOK, receiving
  <2>6. Typed'
    BY <2>1, <2>2 DEF Inductive, Typed, receiving
  <2>7. Windowed' /\ Told'
    BY <2>1, <2>2 DEF Inductive, Windowed, Told, receiving
  <2>8. Counted'
    <3>1. CASE sender' \notin {"committing", "sent"}
      BY <2>1, <3>1 DEF Inductive, Counted
    <3>2. CASE Head(toSender).kind = "Complete"
      <4>1. 1 \in DOMAIN toSender /\ Head(toSender) = toSender[1]
        BY <1>1, Tailed DEF Inductive, Typed
      <4>2. sender \in {"committing", "sent"}
        BY <3>2, <4>1 DEF Inductive, Concluding
      <4> QED
        BY <2>1, <4>2 DEF Inductive, Counted
    <3>3. CASE Head(toSender).kind # "Complete"
      <4>1. sender' \in {"stopped", sender}
        BY <2>1, <3>3
      <4> QED
        BY <2>1, <4>1 DEF Inductive, Counted
    <3> QED
      BY <3>1, <3>2, <3>3
  <2>10. Concluding'
    <3>1. sender \in {"committing", "sent"} => sender' \in {"committing", "sent"}
      BY <1>1, <1>3, <2>1
    <3> QED
      BY <2>1, <2>2, <3>1 DEF Inductive, Concluding, receiving
  <2>9. Fresh' /\ CreditIsConserved'
    BY <2>1, SenderSide
  <2> QED
    BY <2>5, <2>6, <2>7, <2>8, <2>9, <2>10 DEF Inductive
<1> QED
  BY <1>2, <1>3

-----------------------------------------------------------------------------
(* The loop of the receiver.                                               *)

\* The one message of a reply.
LEMMA Replied ==
    ASSUME NEW m \in Messages, Reply(m)
    PROVE  /\ replying' \in Seq(Messages) /\ Len(replying') = 1
           /\ \A i \in DOMAIN replying' : replying'[i] = m
  BY DEF Reply

LEMMA Consumed ==
    ASSUME Inductive, toReceiver # <<>>, Consume
    PROVE  /\ toReceiver' \in Seq(Messages) /\ Len(toReceiver') <= Pipe /\ Packet \in Messages
           /\ 1 \in DOMAIN toReceiver /\ Packet = toReceiver[1]
           /\ \A i \in DOMAIN toReceiver' :
                 i + 1 \in DOMAIN toReceiver /\ toReceiver'[i] = toReceiver[i + 1]
<1>1. /\ Tail(toReceiver) \in Seq(Messages) /\ Len(Tail(toReceiver)) <= Len(toReceiver)
      /\ Len(Tail(toReceiver)) \in Nat /\ Head(toReceiver) \in Messages
      /\ Len(toReceiver) \in Nat
      /\ 1 \in DOMAIN toReceiver /\ Head(toReceiver) = toReceiver[1]
      /\ \A i \in DOMAIN Tail(toReceiver) :
            i + 1 \in DOMAIN toReceiver /\ Tail(toReceiver)[i] = toReceiver[i + 1]
  BY Tailed DEF Inductive, Typed
<1>2. Len(Tail(toReceiver)) <= Pipe
  BY <1>1, ChannelBounds, QueueSizes
<1> QED
  BY <1>1, <1>2 DEF Consume, Packet

\* What is known of a download.
LEMMA DownloadOf ==
    ASSUME Inductive, NEW f \in Files
    PROVE  /\ down[f] \in Downloads
           /\ down[f].offset \in Int /\ down[f].buffer \in Int /\ down[f].credit \in Int
           /\ down[f].offset + down[f].buffer <= Size[f]
           /\ down[f].at \in {"none", "ready", "reporting", "ended", "failed", "joined"}
           /\ credit[f] \in Int /\ Total(f, queue[f]) \in Int /\ Total(f, events) \in Int
<1>1. /\ down[f] \in Downloads /\ credit[f] \in Int /\ queue[f] \in Seq(Messages)
      /\ events \in Seq(StreamMessages)
  BY DEF Inductive, Typed
<1>2. events \in Seq(Messages)
  BY <1>1, WiderSeq DEF Messages
<1>3. Total(f, queue[f]) \in Int /\ Total(f, events) \in Int
  BY <1>1, <1>2, TotalIsInt
<1> QED
  BY <1>1, <1>3 DEF Inductive, TypeOK, Downloads

LEMMA WriteReplyStep ==
    ASSUME Inductive, WriteReply
    PROVE  Inductive'
<1>1. /\ Len(toSender) < ReplyPipe /\ toSender' = toSender \o replying /\ replying' = <<>>
      /\ UNCHANGED <<sending, pressed, toReceiver, receiver, active, closed, credit,
                     queue, closing, down, events, reported, fault>>
  BY DEF WriteReply
<1>2. toSender \in Seq(Messages) /\ replying \in Seq(Messages) /\ Len(replying) <= 1
  BY DEF Inductive, Typed, TypeOK
<1>3. /\ toSender' \in Seq(Messages) /\ Len(toSender') = Len(toSender) + Len(replying)
      /\ Len(replying) \in Nat /\ Len(toSender) \in Nat
      /\ \A i \in DOMAIN toSender' :
            \/ i \in DOMAIN toSender /\ toSender'[i] = toSender[i]
            \/ \E j \in DOMAIN replying : toSender'[i] = replying[j]
  BY <1>1, <1>2, ConcatProperties, LenProperties, Concatenated
<1>4. Len(toSender') <= ReplyPipe
  BY <1>1, <1>2, <1>3, FlowControlAssumption
<1>5. replying' \in Seq(Messages) /\ Len(replying') = 0 /\ \A i \in DOMAIN replying' : FALSE
  BY <1>1, EmptySeq
<1>6. TypeOK'
  BY <1>1, <1>4, <1>5 DEF Inductive, TypeOK, sending
<1>7. Typed'
  BY <1>1, <1>3, <1>5 DEF Inductive, Typed, sending
<1>8. Windowed' /\ Counted'
  BY <1>1, ReceiverSide
<1>9. Told'
  BY <1>1, <1>3, <1>5 DEF Inductive, Told, sending
<1>10. Concluding'
  BY <1>1, <1>3, <1>5 DEF Inductive, Concluding, sending
<1>11. Fresh' /\ CreditIsConserved'
  BY <1>1 DEF Inductive, Fresh, CreditIsConserved
<1> QED
  BY <1>6, <1>7, <1>8, <1>9, <1>10, <1>11 DEF Inductive

LEMMA TakeEventStep ==
    ASSUME Inductive, TakeEvent
    PROVE  Inductive'
<1> DEFINE event == Head(events)
           e == event.file
<1>1. events # <<>>
  BY DEF TakeEvent
<1>2. CASE e \notin active
  BY <1>2, Faulted DEF TakeEvent, Ensure
<1>3. CASE e \in active
  <2>1. /\ events' = Tail(events) /\ credit' = [credit EXCEPT ![e] = @ + event.length]
        /\ reported' = [reported EXCEPT ![e] = event.offset] /\ Reply(event)
        /\ UNCHANGED <<sending, pressed, toReceiver, toSender, receiver,
                       active, closed, queue, closing, down>>
        /\ UNCHANGED fault
    BY <1>3 DEF TakeEvent, Ensure, Returned
  <2>2. /\ events \in Seq(StreamMessages) /\ events' \in Seq(StreamMessages)
        /\ Len(events') <= Len(events) /\ Len(events') \in Nat /\ Len(events) \in Nat
        /\ event \in StreamMessages
        /\ 1 \in DOMAIN events /\ event = events[1]
        /\ \A i \in DOMAIN events' : i + 1 \in DOMAIN events /\ events'[i] = events[i + 1]
    BY <1>1, <2>1, Tailed DEF Inductive, Typed
  <2>3. Len(events') <= Streams
    BY <2>2, ChannelBounds, QueueSizes
  <2>4. events \in Seq(Messages) /\ event \in Messages
    BY <2>2, WiderSeq DEF Messages
  <2>5. \A g : Total(g, events') = Total(g, events) - Weight(g, event)
    BY <1>1, <2>1, <2>4, TotalTail
  <2>6. /\ replying' \in Seq(Messages) /\ Len(replying') = 1
        /\ \A i \in DOMAIN replying' : replying'[i] = event
    BY <2>1, <2>4, Replied
  <2>7. event.kind = "Checkpoint"
    BY <2>2 DEF Inductive, Fresh
  <2>8. e \in Files /\ event.length \in Int /\ event.offset \in Int
    BY <2>2 DEF StreamMessages
  <2>17. reported' \in [Files -> Int]
    BY <2>1, <2>8 DEF Inductive, Typed
  <2> HIDE DEF e
  <2> DEFINE w == event.length
  <2>9. /\ credit' \in [Files -> Int] /\ credit'[e] = credit[e] + w
        /\ \A g \in Files \ {e} : credit'[g] = credit[g]
    <3>1. credit \in [Files -> Int] /\ w \in Int /\ credit' = [credit EXCEPT ![e] = @ + w]
      BY <2>1, <2>8 DEF Inductive, Typed
    <3> HIDE DEF w
    <3> QED
      BY <2>8, <3>1
  <2> HIDE DEF event
  <2>10. TypeOK'
    BY <2>1, <2>3, <2>6 DEF Inductive, TypeOK, sending
  <2>11. Typed'
    BY <2>1, <2>2, <2>6, <2>9, <2>17 DEF Inductive, Typed, sending
  <2>12. Windowed' /\ Counted'
    BY <2>1, ReceiverSide
  <2>13. Told'
    BY <2>1, <2>6, <2>7 DEF Inductive, Told, sending
  <2>14. Concluding'
    BY <2>1, <2>6, <2>7 DEF Inductive, Concluding, sending
  <2>15. Fresh'
    BY <2>1, <2>2 DEF Inductive, Fresh
  <2>16. CreditIsConserved'
    <3> SUFFICES ASSUME NEW g \in active
                 PROVE  credit'[g] + Total(g, queue[g]) + down[g].buffer + down[g].credit
                            + Total(g, events') = WINDOW
      BY <2>1 DEF CreditIsConserved
    <3>1. g \in Files
      BY DEF Inductive, TypeOK
    <3> DEFINE c == credit[g]
               c2 == credit'[g]
               q == Total(g, queue[g])
               b == down[g].buffer
               d == down[g].credit
               t == Total(g, events)
               t2 == Total(g, events')
               v == Weight(g, event)
    <3>2. c \in Int /\ q \in Int /\ b \in Int /\ d \in Int /\ t \in Int
      BY <3>1, DownloadOf
    <3>3. c + q + b + d + t = WINDOW
      BY DEF Inductive, CreditIsConserved
    <3>4. t2 = t - v /\ c2 = c + v /\ v \in Int
      BY <2>5, <2>8, <2>9, <3>1, <3>2 DEF Weight, e
    <3> HIDE DEF c, c2, q, b, d, t, t2, v
    <3>5. c2 + q + b + d + t2 = WINDOW
      BY ONLY <3>2, <3>3, <3>4
    <3> QED
      BY <3>5 DEF c2, q, b, d, t2
  <2> QED
    BY <2>10, <2>11, <2>12, <2>13, <2>14, <2>15, <2>16 DEF Inductive
<1> QED
  BY <1>2, <1>3

LEMMA JoinReceiverStep ==
    ASSUME Inductive, NEW f \in Files, JoinReceiver(f)
    PROVE  Inductive'
<1>1. /\ down[f].at = "ended" /\ down' = [down EXCEPT ![f].at = "joined"]
      /\ active' = active \ {f} /\ closed' = closed \cup {f}
      /\ Reply(Msg("Closed", f, 0, 0))
      /\ UNCHANGED <<sending, pressed, toReceiver, toSender, receiver, credit, queue,
                     closing, events, reported, fault>>
  BY DEF JoinReceiver
<1>2. /\ down' \in [Files -> Downloads] /\ down'[f].at = "joined"
      /\ \A g \in Files : /\ down'[g].offset = down[g].offset
                          /\ down'[g].buffer = down[g].buffer
                          /\ down'[g].credit = down[g].credit
      /\ \A g \in Files \ {f} : down'[g] = down[g]
  BY <1>1, DownMoves DEF Inductive
<1>3. Msg("Closed", f, 0, 0) \in Messages
  BY DEF Msg, Messages, StreamMessages, StreamKinds
<1>4. /\ replying' \in Seq(Messages) /\ Len(replying') = 1
      /\ \A i \in DOMAIN replying' : /\ replying'[i].file = f
                                     /\ replying'[i].kind = "Closed"
  BY <1>1, <1>3, Replied DEF Msg
<1>5. TypeOK'
  <2>1. \A g \in Files :
           /\ down'[g].at \in {"none", "ready", "reporting", "ended", "failed", "joined"}
           /\ down'[g].offset + down'[g].buffer <= Size[g]
    BY <1>2, DownloadOf
  <2> QED
    BY <1>1, <1>4, <2>1 DEF Inductive, TypeOK, sending
<1>6. Typed'
  BY <1>1, <1>2, <1>4 DEF Inductive, Typed, sending
<1>7. Windowed' /\ Counted'
  BY <1>1, ReceiverSide
<1>8. Told'
  BY <1>1, <1>2, <1>4 DEF Inductive, Told, sending
<1>9. Concluding'
  BY <1>1, <1>4 DEF Inductive, Concluding, sending
<1>10. Fresh'
  <2>1. \A g \in Files : /\ down'[g].at = "none" <=> down[g].at = "none"
                         /\ down'[g].at = "reporting" <=> down[g].at = "reporting"
    BY <1>1, <1>2
  <2>2. \A i \in DOMAIN events : events[i].file \in Files
    BY ElementOfSeq, LenProperties DEF Inductive, Typed, StreamMessages
  <2>3. closing \in Files \cup {none}
    BY DEF Inductive, TypeOK
  <2> QED
    BY <1>1, <1>2, <2>1, <2>2, <2>3 DEF Inductive, Fresh
<1>11. CreditIsConserved'
  <2>1. \A g \in active' : g \in active /\ g \in Files
    BY <1>1 DEF Inductive, TypeOK
  <2> QED
    BY <1>1, <1>2, <2>1 DEF Inductive, CreditIsConserved
<1> QED
  BY <1>5, <1>6, <1>7, <1>8, <1>9, <1>10, <1>11 DEF Inductive

LEMMA TakeOpenStep ==
    ASSUME Inductive, TakeOpen
    PROVE  Inductive'
<1> DEFINE f == Packet.file
<1>1. receiver = "run" /\ toReceiver # <<>> /\ Packet.kind = "Open"
  BY DEF TakeOpen, Arrives, Handling, Packet
<1>2. CASE ~(f \notin active \cup closed /\ Cardinality(active) < Streams)
  BY <1>2, Faulted DEF TakeOpen, Ensure
<1>3. CASE f \notin active \cup closed /\ Cardinality(active) < Streams
  <2>1. /\ Consume /\ active' = active \cup {f} /\ credit' = [credit EXCEPT ![f] = WINDOW]
        /\ down' = [down EXCEPT ![f].at = "ready"]
        /\ UNCHANGED <<sending, pressed, toSender, receiver, closed, queue,
                       closing, events, replying, reported>>
        /\ UNCHANGED fault
    BY <1>3 DEF TakeOpen, Ensure
  <2>2. /\ toReceiver' \in Seq(Messages) /\ Len(toReceiver') <= Pipe /\ Packet \in Messages
        /\ \A i \in DOMAIN toReceiver' :
              i + 1 \in DOMAIN toReceiver /\ toReceiver'[i] = toReceiver[i + 1]
    BY <1>1, <2>1, Consumed
  <2>3. f \in Files
    BY <1>1, <2>2 DEF Messages, StreamMessages, LoopMessages, LoopKinds
  <2> HIDE DEF f
  <2>4. down[f].at = "none"
    BY <1>1, <1>3, <2>3 DEF Inductive, Fresh
  <2>5. /\ down' \in [Files -> Downloads] /\ down'[f].at = "ready"
        /\ \A g \in Files : /\ down'[g].offset = down[g].offset
                            /\ down'[g].buffer = down[g].buffer
                            /\ down'[g].credit = down[g].credit
        /\ \A g \in Files \ {f} : down'[g] = down[g]
    BY <2>1, <2>3, DownMoves DEF Inductive
  <2>6. /\ credit' \in [Files -> Int] /\ credit'[f] = WINDOW
        /\ \A g \in Files \ {f} : credit'[g] = credit[g]
    BY <2>1, <2>3, QueueSizes DEF Inductive, Typed
  <2>7. \A i \in DOMAIN events : events[i].file \in Files \ {f}
    <3>1. \A i \in DOMAIN events : events[i].file \in Files
      BY ElementOfSeq, LenProperties DEF Inductive, Typed, StreamMessages
    <3> QED
      BY <2>4, <3>1 DEF Inductive, Fresh
  <2>8. TypeOK'
    <3>1. \A g \in Files :
             /\ down'[g].at \in {"none", "ready", "reporting", "ended", "failed", "joined"}
             /\ down'[g].offset + down'[g].buffer <= Size[g]
      BY <2>5, DownloadOf
    <3> QED
      BY <2>1, <2>2, <2>3, <3>1 DEF Inductive, TypeOK, sending
  <2>9. Typed'
    BY <2>1, <2>2, <2>5, <2>6 DEF Inductive, Typed, sending
  <2>10. Windowed' /\ Counted'
    BY <2>1, ReceiverSide
  <2>11. Told'
    BY <1>3, <2>1, <2>4, <2>5 DEF Inductive, Told, sending, TypeOK
  <2>12. Concluding'
    BY <2>1, <2>2 DEF Inductive, Concluding, sending
  <2>13. Fresh'
    <3>1. closing \in Files \cup {none}
      BY DEF Inductive, TypeOK
    <3>2. \A g \in Files : /\ down'[g].at = "none" => g # f /\ down[g].at = "none"
                           /\ down'[g].at # "reporting" => down[g].at # "reporting"
      BY <2>4, <2>5
    <3>3. closing # none => down'[closing].at # "none"
      BY <2>5, <3>1 DEF Inductive, Fresh
    <3>4. \A i \in DOMAIN events : down'[events[i].file].at # "none"
      BY <2>5, <2>7 DEF Inductive, Fresh
    <3>5. \A g \in Files : down'[g].at # "none" => g \in active' \cup closed'
      BY <1>1, <2>1, <2>5 DEF Inductive, Fresh
    <3>6. receiver' \notin {"draining", "stopped"}
      BY <1>1, <2>1
    <3> QED
      BY <2>1, <2>5, <3>2, <3>3, <3>4, <3>5, <3>6 DEF Inductive, Fresh
  <2>14. CreditIsConserved'
    <3>1. Total(f, queue[f]) = 0 /\ down[f].buffer = 0 /\ down[f].credit = 0
      BY <2>3, <2>4, TotalEmpty DEF Inductive, Fresh
    <3>2. Total(f, events) = 0
      <4>1. events \in Seq(Messages)
        BY WiderSeq DEF Inductive, Typed, Messages
      <4>2. \A i \in 1..Len(events) : events[i].file # f
        BY <2>7, <4>1, LenProperties
      <4> QED
        BY <4>1, <4>2, TotalOfNone
    <3>3. credit'[f] + Total(f, queue[f]) + down'[f].buffer + down'[f].credit
              + Total(f, events) = WINDOW
      BY <2>3, <2>5, <2>6, <3>1, <3>2, QueueSizes
    <3>4. ASSUME NEW g \in active, g # f
          PROVE  credit'[g] + Total(g, queue[g]) + down'[g].buffer + down'[g].credit
                     + Total(g, events) = WINDOW
      <4>1. g \in Files
        BY DEF Inductive, TypeOK
      <4> QED
        BY <2>5, <2>6, <3>4, <4>1 DEF Inductive, CreditIsConserved
    <3> QED
      BY <2>1, <3>3, <3>4 DEF CreditIsConserved
  <2> QED
    BY <2>8, <2>9, <2>10, <2>11, <2>12, <2>13, <2>14 DEF Inductive
<1> QED
  BY <1>2, <1>3

\* The channel of a worker gets one message more.
LEMMA QueueGrows ==
    ASSUME Typed, NEW f \in Files, NEW m \in Messages,
           queue' = [queue EXCEPT ![f] = Append(@, m)]
    PROVE  /\ queue' \in [Files -> Seq(Messages)]
           /\ Len(queue'[f]) = Len(queue[f]) + 1 /\ Len(queue[f]) \in Nat
           /\ \A i \in DOMAIN queue'[f] : queue'[f][i] = m \/
                 (i \in DOMAIN queue[f] /\ queue'[f][i] = queue[f][i])
           /\ Total(f, queue'[f]) = Total(f, queue[f]) + Weight(f, m)
           /\ \A g \in Files \ {f} : queue'[g] = queue[g]
<1>1. queue \in [Files -> Seq(Messages)]
  BY DEF Typed
<1>2. queue[f] \in Seq(Messages) /\ queue'[f] = Append(queue[f], m)
  BY <1>1
<1>3. Append(queue[f], m) \in Seq(Messages)
  BY <1>2, Appended
<1>4. /\ Len(queue'[f]) = Len(queue[f]) + 1 /\ Len(queue[f]) \in Nat
      /\ \A i \in DOMAIN queue'[f] : queue'[f][i] = m \/
            (i \in DOMAIN queue[f] /\ queue'[f][i] = queue[f][i])
  BY <1>2, Appended
<1>5. Total(f, queue'[f]) = Total(f, queue[f]) + Weight(f, m)
  BY <1>2, TotalAppend
<1>6. queue' \in [Files -> Seq(Messages)] /\ \A g \in Files \ {f} : queue'[g] = queue[g]
  BY <1>1, <1>3
<1> QED
  BY <1>4, <1>5, <1>6

\* Only what the queue, the download and the credit of one stream hold changes: its
\* account has to be balanced, the others' are.
LEMMA Balanced ==
    ASSUME Inductive, NEW f \in Files, active' = active,
           \A g \in Files \ {f} : /\ credit'[g] = credit[g] /\ queue'[g] = queue[g]
                                  /\ down'[g] = down[g]
                                  /\ Total(g, events') = Total(g, events),
           f \in active =>
              credit'[f] + Total(f, queue'[f]) + down'[f].buffer + down'[f].credit
                  + Total(f, events') = WINDOW
    PROVE  CreditIsConserved'
<1> SUFFICES ASSUME NEW g \in active
             PROVE  credit'[g] + Total(g, queue'[g]) + down'[g].buffer + down'[g].credit
                        + Total(g, events') = WINDOW
  BY DEF CreditIsConserved
<1>1. g \in Files
  BY DEF Inductive, TypeOK
<1>2. CASE g = f
  BY <1>2
<1>3. CASE g # f
  BY <1>1, <1>3 DEF Inductive, CreditIsConserved
<1> QED
  BY <1>2, <1>3

LEMMA TakePartStep ==
    ASSUME Inductive, TakePart
    PROVE  Inductive'
<1> DEFINE f == Packet.file
           w == Packet.length
<1>1. toReceiver # <<>> /\ Packet.kind \in {"Data", "Hash"}
  BY DEF TakePart, Arrives, Packet
<1>2. CASE UNCHANGED <<sending, pressed, toReceiver, toSender, receiving>>
           /\ fault' \in {"overflow", "protocol"}
  BY <1>2, Faulted
<1>3. CASE /\ ~(Len(queue[f]) >= FileQueue)
           /\ f \in active /\ down[f].at \in {"ready", "reporting"}
           /\ Consume /\ credit' = [credit EXCEPT ![f] = @ - w]
           /\ queue' = [queue EXCEPT ![f] = Append(@, Packet)]
           /\ UNCHANGED fault
           /\ UNCHANGED <<sending, pressed, toSender, receiver, active,
                          closed, closing, down, events, replying, reported>>
  <2>1. /\ toReceiver' \in Seq(Messages) /\ Len(toReceiver') <= Pipe /\ Packet \in Messages
        /\ \A i \in DOMAIN toReceiver' :
              i + 1 \in DOMAIN toReceiver /\ toReceiver'[i] = toReceiver[i + 1]
    BY <1>1, <1>3, Consumed
  <2>2. f \in Files
    BY <1>3 DEF Inductive, TypeOK
  <2>3. w \in Int
    BY <2>1 DEF Messages, StreamMessages, LoopMessages
  <2>4. Packet.file = f
    OBVIOUS
  <2> HIDE DEF f, w
  <2>5. /\ queue' \in [Files -> Seq(Messages)]
        /\ Len(queue'[f]) = Len(queue[f]) + 1 /\ Len(queue[f]) \in Nat
        /\ \A i \in DOMAIN queue'[f] : queue'[f][i] = Packet \/
              (i \in DOMAIN queue[f] /\ queue'[f][i] = queue[f][i])
        /\ Total(f, queue'[f]) = Total(f, queue[f]) + Weight(f, Packet)
        /\ \A g \in Files \ {f} : queue'[g] = queue[g]
    <3>1. Typed /\ queue' = [queue EXCEPT ![f] = Append(@, Packet)]
      BY <1>3 DEF Inductive
    <3> QED
      BY ONLY <2>1, <2>2, <3>1, QueueGrows
  <2>6. /\ credit' \in [Files -> Int] /\ credit'[f] = credit[f] - w
        /\ \A g \in Files \ {f} : credit'[g] = credit[g]
    BY <1>3, <2>2, <2>3 DEF Inductive, Typed
  <2>7. \A g \in Files : Len(queue'[g]) <= FileQueue
    <3>1. Len(queue'[f]) <= FileQueue
      BY <1>3, <2>5, QueueSizes
    <3> QED
      BY <2>5, <3>1 DEF Inductive, TypeOK
  <2>8. TypeOK'
    BY <1>3, <2>1, <2>7 DEF Inductive, TypeOK, sending
  <2>9. Typed'
    BY <1>3, <2>1, <2>5, <2>6 DEF Inductive, Typed, sending
  <2>10. Windowed' /\ Counted'
    BY <1>3, ReceiverSide
  <2>11. Told'
    BY <1>3 DEF Inductive, Told, sending
  <2>12. Concluding'
    BY <1>3, <2>1 DEF Inductive, Concluding, sending
  <2>13. Fresh'
    <3>1. \A g \in Files : down[g].at = "none" => g # f
      BY <1>3
    <3>2. \A g \in Files : \A i \in DOMAIN queue'[g] :
             queue'[g][i].file = g /\ queue'[g][i].kind \in {"Hash", "Data", "Close"}
      <4>1. \A i \in DOMAIN queue'[f] :
               queue'[f][i].file = f /\ queue'[f][i].kind \in {"Hash", "Data", "Close"}
        BY <1>1, <2>2, <2>4, <2>5 DEF Inductive, Fresh
      <4> QED
        BY <2>5, <4>1 DEF Inductive, Fresh
    <3>3. \A g \in Files : down[g].at = "none" => queue'[g] = <<>>
      BY <2>5, <3>1 DEF Inductive, Fresh
    <3> QED
      BY <1>3, <3>2, <3>3 DEF Inductive, Fresh
  <2>14. CreditIsConserved'
    <3> DEFINE c == credit[f]
               c2 == credit'[f]
               q == Total(f, queue[f])
               q2 == Total(f, queue'[f])
               b == down[f].buffer
               d == down[f].credit
               t == Total(f, events)
    <3>1. c \in Int /\ q \in Int /\ b \in Int /\ d \in Int /\ t \in Int
      BY <2>2, DownloadOf
    <3>2. c + q + b + d + t = WINDOW
      BY <1>3 DEF Inductive, CreditIsConserved
    <3>3. c2 = c - w /\ q2 = q + w
      BY <2>4, <2>5, <2>6 DEF Weight, w
    <3> HIDE DEF c, c2, q, q2, b, d, t
    <3>4. c2 + q2 + b + d + t = WINDOW
      BY ONLY <2>3, <3>1, <3>2, <3>3
    <3>5. credit'[f] + Total(f, queue'[f]) + down[f].buffer + down[f].credit
              + Total(f, events) = WINDOW
      BY <3>4 DEF c2, q2, b, d, t
    <3> QED
      BY <1>3, <2>2, <2>5, <2>6, <3>5, Balanced
  <2> QED
    BY <2>8, <2>9, <2>10, <2>11, <2>12, <2>13, <2>14 DEF Inductive
<1>4. \/ UNCHANGED <<sending, pressed, toReceiver, toSender, receiving>>
         /\ fault' \in {"overflow", "protocol"}
      \/ /\ ~(Len(queue[f]) >= FileQueue)
         /\ f \in active /\ down[f].at \in {"ready", "reporting"}
         /\ Consume /\ credit' = [credit EXCEPT ![f] = @ - w]
         /\ queue' = [queue EXCEPT ![f] = Append(@, Packet)]
         /\ UNCHANGED fault
         /\ UNCHANGED <<sending, pressed, toSender, receiver, active,
                        closed, closing, down, events, replying, reported>>
  <2> HIDE DEF f, w
  <2>1. CASE f \in active /\ Len(queue[f]) >= FileQueue
    BY <2>1 DEF TakePart, Ensure, f, w
  <2>2. CASE ~(f \in active /\ Len(queue[f]) >= FileQueue)
    BY <2>2 DEF TakePart, Ensure, f, w
  <2> QED
    BY <2>1, <2>2
<1> QED
  BY ONLY <1>2, <1>3, <1>4

LEMMA TakeCloseStep ==
    ASSUME Inductive, TakeClose
    PROVE  Inductive'
<1>1. toReceiver # <<>>
  BY DEF TakeClose, Arrives
<1>2. CASE Packet.file \notin active
  BY <1>2, Faulted DEF TakeClose, Ensure
<1>3. CASE Packet.file \in active
  <2>1. /\ Consume /\ closing' = Packet.file
        /\ UNCHANGED <<sending, pressed, toSender, receiver, active, closed,
                       credit, queue, down, events, replying, reported>>
        /\ UNCHANGED fault
    BY <1>3 DEF TakeClose, Ensure
  <2>2. /\ toReceiver' \in Seq(Messages) /\ Len(toReceiver') <= Pipe
        /\ \A i \in DOMAIN toReceiver' :
              i + 1 \in DOMAIN toReceiver /\ toReceiver'[i] = toReceiver[i + 1]
    BY <1>1, <2>1, Consumed
  <2>3. closing' \in Files /\ closing' \in active
    BY <1>3, <2>1 DEF Inductive, TypeOK
  <2>4. TypeOK'
    BY <2>1, <2>2, <2>3 DEF Inductive, TypeOK, sending
  <2>5. Typed'
    BY <2>1, <2>2 DEF Inductive, Typed, sending
  <2>6. Windowed' /\ Counted'
    BY <2>1, ReceiverSide
  <2>7. Told'
    BY <2>1 DEF Inductive, Told, sending
  <2>8. Concluding'
    BY <2>1, <2>2 DEF Inductive, Concluding, sending
  <2>9. Fresh'
    BY <2>1, <2>3 DEF Inductive, Fresh
  <2>10. CreditIsConserved'
    BY <2>1 DEF Inductive, CreditIsConserved
  <2> QED
    BY <2>4, <2>5, <2>6, <2>7, <2>8, <2>9, <2>10 DEF Inductive
<1> QED
  BY <1>2, <1>3

LEMMA EnqueueCloseStep ==
    ASSUME Inductive, EnqueueClose
    PROVE  Inductive'
<1> DEFINE last == Msg("Close", closing, 0, 0)
           f == closing
<1>1. /\ closing # none /\ Len(queue[f]) < FileQueue
      /\ queue' = [queue EXCEPT ![f] = Append(@, last)] /\ closing' = none
      /\ UNCHANGED <<sending, pressed, toReceiver, toSender, receiver, active, closed,
                     credit, down, events, replying, reported, fault>>
  BY DEF EnqueueClose
<1>2. f \in Files
  BY <1>1 DEF Inductive, TypeOK
<1>3. last \in Messages /\ last.file = f /\ last.kind = "Close" /\ last.length = 0
  BY <1>2 DEF Msg, Messages, StreamMessages, StreamKinds
<1> HIDE DEF f, last
<1>4. /\ queue' \in [Files -> Seq(Messages)]
      /\ Len(queue'[f]) = Len(queue[f]) + 1 /\ Len(queue[f]) \in Nat
      /\ \A i \in DOMAIN queue'[f] : queue'[f][i] = last \/
            (i \in DOMAIN queue[f] /\ queue'[f][i] = queue[f][i])
      /\ Total(f, queue'[f]) = Total(f, queue[f]) + Weight(f, last)
      /\ \A g \in Files \ {f} : queue'[g] = queue[g]
  <2>1. Typed /\ queue' = [queue EXCEPT ![f] = Append(@, last)]
    BY <1>1 DEF Inductive
  <2>2. last \in Messages
    BY <1>3
  <2> QED
    BY ONLY <1>2, <2>1, <2>2, QueueGrows
<1>5. \A g \in Files : Len(queue'[g]) <= FileQueue
  <2>1. Len(queue'[f]) <= FileQueue
    BY <1>1, <1>4, QueueSizes
  <2> QED
    BY <1>4, <2>1 DEF Inductive, TypeOK
<1>6. TypeOK'
  BY <1>1, <1>5 DEF Inductive, TypeOK, sending
<1>7. Typed'
  BY <1>1, <1>4 DEF Inductive, Typed, sending
<1>8. Windowed' /\ Counted'
  BY <1>1, ReceiverSide
<1>9. Told'
  BY <1>1 DEF Inductive, Told, sending
<1>10. Concluding'
  BY <1>1 DEF Inductive, Concluding, sending
<1>11. Fresh'
  <2>1. down[f].at # "none"
    BY <1>1 DEF Inductive, Fresh, f
  <2>2. \A g \in Files : \A i \in DOMAIN queue'[g] :
           queue'[g][i].file = g /\ queue'[g][i].kind \in {"Hash", "Data", "Close"}
    <3>1. \A i \in DOMAIN queue'[f] :
             queue'[f][i].file = f /\ queue'[f][i].kind \in {"Hash", "Data", "Close"}
      BY <1>2, <1>3, <1>4 DEF Inductive, Fresh
    <3> QED
      BY <1>4, <3>1 DEF Inductive, Fresh
  <2>3. \A g \in Files : down[g].at = "none" => queue'[g] = <<>>
    BY <1>4, <2>1 DEF Inductive, Fresh
  <2> QED
    BY <1>1, <2>2, <2>3 DEF Inductive, Fresh
<1>12. CreditIsConserved'
  <2>1. Total(f, queue'[f]) = Total(f, queue[f])
    BY <1>2, <1>3, <1>4, DownloadOf DEF Weight
  <2>2. f \in active => credit[f] + Total(f, queue'[f]) + down[f].buffer + down[f].credit
                            + Total(f, events) = WINDOW
    BY <2>1 DEF Inductive, CreditIsConserved
  <2> QED
    BY <1>1, <1>2, <1>4, <2>2, Balanced
<1> QED
  BY <1>6, <1>7, <1>8, <1>9, <1>10, <1>11, <1>12 DEF Inductive

LEMMA TakePauseStep ==
    ASSUME Inductive, TakePause
    PROVE  Inductive'
<1>1. /\ toReceiver # <<>> /\ Consume /\ active' = {} /\ receiver' = "draining"
      /\ UNCHANGED <<sending, pressed, toSender, closed, credit, queue, closing,
                     down, events, replying, reported, fault>>
  BY DEF TakePause, Arrives
<1>2. /\ toReceiver' \in Seq(Messages) /\ Len(toReceiver') <= Pipe
      /\ \A i \in DOMAIN toReceiver' :
            i + 1 \in DOMAIN toReceiver /\ toReceiver'[i] = toReceiver[i + 1]
  BY <1>1, Consumed
<1>3. TypeOK'
  BY <1>1, <1>2 DEF Inductive, TypeOK, sending
<1>4. Typed'
  BY <1>1, <1>2 DEF Inductive, Typed, sending
<1>5. Windowed' /\ Counted'
  BY <1>1, ReceiverSide
<1>6. Told'
  BY <1>1 DEF Inductive, Told, sending
<1>7. Concluding'
  BY <1>1, <1>2 DEF Inductive, Concluding, sending
<1>8. Fresh' /\ CreditIsConserved'
  BY <1>1 DEF Inductive, Fresh, CreditIsConserved
<1> QED
  BY <1>3, <1>4, <1>5, <1>6, <1>7, <1>8 DEF Inductive

LEMMA DrainEventStep ==
    ASSUME Inductive, DrainEvent
    PROVE  Inductive'
<1>1. /\ receiver = "draining" /\ events # <<>> /\ events' = Tail(events)
      /\ UNCHANGED <<sending, pressed, toReceiver, toSender, receiver, active, closed,
                     credit, queue, closing, down, replying, reported, fault>>
  BY DEF DrainEvent
<1>2. /\ events' \in Seq(StreamMessages) /\ Len(events') <= Len(events)
      /\ Len(events') \in Nat /\ Len(events) \in Nat
      /\ \A i \in DOMAIN events' : i + 1 \in DOMAIN events /\ events'[i] = events[i + 1]
  BY <1>1, Tailed DEF Inductive, Typed
<1>3. Len(events') <= Streams
  BY <1>2, ChannelBounds, QueueSizes
<1>4. TypeOK'
  BY <1>1, <1>3 DEF Inductive, TypeOK, sending
<1>5. Typed'
  BY <1>1, <1>2 DEF Inductive, Typed, sending
<1>6. Windowed' /\ Counted'
  BY <1>1, ReceiverSide
<1>7. Told'
  BY <1>1 DEF Inductive, Told, sending
<1>8. Concluding'
  BY <1>1 DEF Inductive, Concluding, sending
<1>9. Fresh'
  BY <1>1, <1>2 DEF Inductive, Fresh
<1>10. CreditIsConserved'
  BY <1>1 DEF Inductive, Fresh, CreditIsConserved
<1> QED
  BY <1>4, <1>5, <1>6, <1>7, <1>8, <1>9, <1>10 DEF Inductive

LEMMA DrainWorkerStep ==
    ASSUME Inductive, NEW f \in Files, DrainWorker(f)
    PROVE  Inductive'
<1>1. /\ receiver = "draining" /\ down[f].at \in {"ended", "failed"}
      /\ down' = [down EXCEPT ![f].at = "joined"]
      /\ UNCHANGED <<sending, pressed, toReceiver, toSender, receiver, active, closed,
                     credit, queue, closing, events, replying, reported, fault>>
  BY DEF DrainWorker
<1>2. /\ down' \in [Files -> Downloads] /\ down'[f].at = "joined"
      /\ \A g \in Files : /\ down'[g].offset = down[g].offset
                          /\ down'[g].buffer = down[g].buffer
                          /\ down'[g].credit = down[g].credit
      /\ \A g \in Files \ {f} : down'[g] = down[g]
  BY <1>1, DownMoves DEF Inductive
<1>3. TypeOK'
  <2>1. \A g \in Files :
           /\ down'[g].at \in {"none", "ready", "reporting", "ended", "failed", "joined"}
           /\ down'[g].offset + down'[g].buffer <= Size[g]
    BY <1>2, DownloadOf
  <2> QED
    BY <1>1, <2>1 DEF Inductive, TypeOK, sending
<1>4. Typed'
  BY <1>1, <1>2 DEF Inductive, Typed, sending
<1>5. Windowed' /\ Counted'
  BY <1>1, ReceiverSide
<1>6. Told'
  BY <1>1, <1>2 DEF Inductive, Told, sending, TypeOK
<1>7. Concluding'
  BY <1>1 DEF Inductive, Concluding, sending
<1>8. Fresh'
  <2>1. \A g \in Files : /\ down'[g].at = "none" <=> down[g].at = "none"
                         /\ down'[g].at = "reporting" <=> down[g].at = "reporting"
    BY <1>1, <1>2
  <2>2. \A i \in DOMAIN events : events[i].file \in Files
    BY ElementOfSeq, LenProperties DEF Inductive, Typed, StreamMessages
  <2>3. closing \in Files \cup {none}
    BY DEF Inductive, TypeOK
  <2> QED
    BY <1>1, <1>2, <2>1, <2>2, <2>3 DEF Inductive, Fresh
<1>9. CreditIsConserved'
  BY <1>1 DEF Inductive, Fresh, CreditIsConserved
<1> QED
  BY <1>3, <1>4, <1>5, <1>6, <1>7, <1>8, <1>9 DEF Inductive

LEMMA DrainedStep ==
    ASSUME Inductive, Drained
    PROVE  Inductive'
<1>1. /\ receiver = "draining" /\ receiver' = "stopped"
      /\ Reply(Msg("Stopped", none, 0, 0))
      /\ UNCHANGED <<sending, pressed, toReceiver, toSender, active, closed, credit,
                     queue, closing, down, events, reported, fault>>
  BY DEF Drained
<1>2. Msg("Stopped", none, 0, 0) \in Messages
  BY DEF Msg, Messages, LoopMessages, LoopKinds
<1>3. /\ replying' \in Seq(Messages) /\ Len(replying') = 1
      /\ \A i \in DOMAIN replying' : replying'[i].kind = "Stopped"
  BY <1>1, <1>2, Replied DEF Msg
<1>4. TypeOK'
  BY <1>1, <1>3 DEF Inductive, TypeOK, sending
<1>5. Typed'
  BY <1>1, <1>3 DEF Inductive, Typed, sending
<1>6. Windowed' /\ Counted'
  BY <1>1, ReceiverSide
<1>7. Told'
  BY <1>1, <1>3 DEF Inductive, Told, sending
<1>8. Concluding'
  BY <1>1, <1>3 DEF Inductive, Concluding, sending
<1>9. Fresh' /\ CreditIsConserved'
  BY <1>1 DEF Inductive, Fresh, CreditIsConserved
<1> QED
  BY <1>4, <1>5, <1>6, <1>7, <1>8, <1>9 DEF Inductive

LEMMA TakeCommitStep ==
    ASSUME Inductive, TakeCommit
    PROVE  Inductive'
<1>1. toReceiver # <<>> /\ Packet.kind = "Commit"
  BY DEF TakeCommit, Arrives, Packet
<1>2. CASE ~(active = {} /\ closed = Files)
  BY <1>2, Faulted DEF TakeCommit, Ensure
<1>3. CASE active = {} /\ closed = Files
  <2>1. /\ Consume /\ receiver' = "complete" /\ Reply(Msg("Complete", none, 0, 0))
        /\ UNCHANGED <<sending, pressed, toSender, active, closed, credit,
                       queue, closing, down, events, reported>>
        /\ UNCHANGED fault
    BY <1>3 DEF TakeCommit, Ensure
  <2>2. /\ toReceiver' \in Seq(Messages) /\ Len(toReceiver') <= Pipe /\ Packet \in Messages
        /\ 1 \in DOMAIN toReceiver /\ Packet = toReceiver[1]
        /\ \A i \in DOMAIN toReceiver' :
              i + 1 \in DOMAIN toReceiver /\ toReceiver'[i] = toReceiver[i + 1]
    BY <1>1, <2>1, Consumed
  <2>3. sender \in {"committing", "sent"}
    BY <1>1, <2>2 DEF Inductive, Concluding
  <2>4. Msg("Complete", none, 0, 0) \in Messages
    BY DEF Msg, Messages, LoopMessages, LoopKinds
  <2>5. /\ replying' \in Seq(Messages) /\ Len(replying') = 1
        /\ \A i \in DOMAIN replying' : replying'[i].kind = "Complete"
    BY <2>1, <2>4, Replied DEF Msg
  <2>6. TypeOK'
    BY <2>1, <2>2, <2>5 DEF Inductive, TypeOK, sending
  <2>7. Typed'
    BY <2>1, <2>2, <2>5 DEF Inductive, Typed, sending
  <2>8. Windowed' /\ Counted'
    BY <2>1, ReceiverSide
  <2>9. Told'
    BY <2>1, <2>5 DEF Inductive, Told, sending
  <2>10. Concluding'
    BY <2>1, <2>2, <2>3 DEF Inductive, Concluding, sending
  <2>11. Fresh' /\ CreditIsConserved'
    BY <2>1 DEF Inductive, Fresh, CreditIsConserved
  <2> QED
    BY <2>6, <2>7, <2>8, <2>9, <2>10, <2>11 DEF Inductive
<1> QED
  BY <1>2, <1>3

-----------------------------------------------------------------------------
(* The workers of the receiver.                                            *)

\* The channel of a worker loses its first message.
LEMMA QueueShrinks ==
    ASSUME Typed, NEW f \in Files, queue[f] # <<>>,
           queue' = [queue EXCEPT ![f] = Tail(@)]
    PROVE  /\ queue' \in [Files -> Seq(Messages)]
           /\ Len(queue'[f]) <= Len(queue[f]) /\ Len(queue[f]) \in Nat
           /\ Len(queue'[f]) \in Nat
           /\ Head(queue[f]) \in Messages
           /\ 1 \in DOMAIN queue[f] /\ Head(queue[f]) = queue[f][1]
           /\ \A i \in DOMAIN queue'[f] :
                 i + 1 \in DOMAIN queue[f] /\ queue'[f][i] = queue[f][i + 1]
           /\ Total(f, queue'[f]) = Total(f, queue[f]) - Weight(f, Head(queue[f]))
           /\ \A g \in Files \ {f} : queue'[g] = queue[g]
<1>1. queue \in [Files -> Seq(Messages)]
  BY DEF Typed
<1>2. queue[f] \in Seq(Messages) /\ queue'[f] = Tail(queue[f])
  BY <1>1
<1>3. /\ Tail(queue[f]) \in Seq(Messages) /\ Len(Tail(queue[f])) <= Len(queue[f])
      /\ Len(Tail(queue[f])) \in Nat /\ Len(queue[f]) \in Nat
      /\ Head(queue[f]) \in Messages
      /\ 1 \in DOMAIN queue[f] /\ Head(queue[f]) = queue[f][1]
      /\ \A i \in DOMAIN Tail(queue[f]) :
            i + 1 \in DOMAIN queue[f] /\ Tail(queue[f])[i] = queue[f][i + 1]
  BY <1>2, Tailed
<1>4. Total(f, queue'[f]) = Total(f, queue[f]) - Weight(f, Head(queue[f]))
  BY <1>2, TotalTail
<1>5. queue' \in [Files -> Seq(Messages)] /\ \A g \in Files \ {f} : queue'[g] = queue[g]
  BY <1>1, <1>2, <1>3
<1> QED
  BY <1>2, <1>3, <1>4, <1>5

\* What a worker's record may become: n, having taken w bytes from its channel.
Received(f, n, w) ==
    /\ n \in Downloads /\ n.at \in {"ready", "reporting", "ended"}
    /\ n.offset + n.buffer <= Size[f]
    /\ n.at = "ended" => n.offset = Size[f]
    /\ n.at # "reporting" => n.credit = 0
    /\ n.buffer + n.credit = down[f].buffer + w

LEMMA PartReceived ==
    ASSUME Inductive, NEW f \in Files, ReceivePart(f), UNCHANGED fault
    PROVE  /\ down[f].at = "ready" /\ queue[f] # <<>>
           /\ queue' = [queue EXCEPT ![f] = Tail(@)]
           /\ UNCHANGED <<sending, pressed, toReceiver, toSender, receiver, active,
                          closed, credit, closing, events, replying, reported>>
           /\ \E n : down' = [down EXCEPT ![f] = n]
                     /\ Received(f, n, Head(queue[f]).length)
<1> DEFINE packet == Head(queue[f])
           d      == down[f]
           w      == packet.length
           filled == d.buffer + w
           whole  == filled = Block \/ d.offset + filled = Size[f]
           valid  == CASE packet.kind = "Hash" ->
                            /\ packet.offset = d.offset /\ d.offset < Size[f]
                            /\ ~d.hash /\ d.buffer = 0
                       [] packet.kind = "Data" ->
                            /\ Streaming => d.hash
                            /\ packet.offset = d.offset + d.buffer
                            /\ packet.length <= Frame /\ filled <= Block
                            /\ d.offset + filled <= Size[f]
                       [] packet.kind = "Close" ->
                            d.buffer = 0 /\ d.offset = Size[f] /\ ~d.hash
           moved  == [down EXCEPT ![f] =
                CASE packet.kind = "Hash"  -> [@ EXCEPT !.hash = TRUE]
                  [] packet.kind = "Close" -> [@ EXCEPT !.at = "ended"]
                  [] packet.kind = "Data"  ->
                       IF whole
                         THEN [at |-> "reporting", offset |-> @.offset + filled,
                               buffer |-> 0, hash |-> FALSE, credit |-> filled]
                         ELSE [@ EXCEPT !.buffer = filled]]
           n == CASE packet.kind = "Hash"  -> [d EXCEPT !.hash = TRUE]
                  [] packet.kind = "Close" -> [d EXCEPT !.at = "ended"]
                  [] packet.kind = "Data"  ->
                       IF whole
                         THEN [at |-> "reporting", offset |-> d.offset + filled,
                               buffer |-> 0, hash |-> FALSE, credit |-> filled]
                         ELSE [d EXCEPT !.buffer = filled]
<1>1. d.at = "ready" /\ queue[f] # <<>>
  BY DEF ReceivePart, Whole
<1>2. fault \in {"none"} /\ Ensure(valid, "protocol",
          /\ queue' = [queue EXCEPT ![f] = Tail(@)]
          /\ down' = moved
          /\ UNCHANGED <<sending, pressed, toReceiver, toSender, receiver, active,
                         closed, credit, closing, events, replying, reported>>)
  BY DEF ReceivePart, Whole, Alive
<1> HIDE DEF moved, valid
<1>3. valid
  BY <1>2 DEF Ensure
<1>4. /\ queue' = [queue EXCEPT ![f] = Tail(@)]
      /\ down' = moved
      /\ UNCHANGED <<sending, pressed, toReceiver, toSender, receiver, active,
                     closed, credit, closing, events, replying, reported>>
  BY <1>2, <1>3 DEF Ensure
<1>5. moved = [down EXCEPT ![f] = n]
  BY DEF moved
<1> HIDE DEF n
<1>6. /\ packet \in Messages /\ 1 \in DOMAIN queue[f] /\ packet = queue[f][1]
  BY <1>1, Tailed DEF Inductive, Typed
<1>7. packet.kind \in {"Hash", "Data", "Close"}
  BY <1>6 DEF Inductive, Fresh
<1>8. w \in Int /\ (packet.kind \in {"Hash", "Close"} => w = 0)
  BY <1>6, <1>7 DEF Messages, StreamMessages, LoopMessages, LoopKinds
<1>9. /\ d \in Downloads /\ d.offset \in Int /\ d.buffer \in Int /\ d.credit \in Int
      /\ d.offset + d.buffer <= Size[f] /\ Size[f] \in Nat
  BY DownloadOf, Sizes
<1>10. d.credit = 0
  BY <1>1 DEF Inductive, Fresh
<1> HIDE DEF packet, w
<1>11. Received(f, n, w)
  <2>1. CASE packet.kind = "Hash"
    <3>1. n = [d EXCEPT !.hash = TRUE]
      BY <2>1 DEF n
    <3> HIDE DEF d
    <3>2. /\ n \in Downloads /\ n.at = d.at /\ n.offset = d.offset
          /\ n.buffer = d.buffer /\ n.credit = d.credit
      BY <1>9, <3>1 DEF Downloads
    <3>3. w = 0
      BY <1>8, <2>1
    <3>4. n.buffer + n.credit = d.buffer + w
      BY <1>9, <1>10, <3>2, <3>3
    <3> QED
      BY <1>1, <1>9, <1>10, <3>2, <3>4 DEF Received, d
  <2>2. CASE packet.kind = "Close"
    <3>1. n = [d EXCEPT !.at = "ended"] /\ d.offset = Size[f] /\ d.buffer = 0
      BY <1>3, <2>2 DEF n, valid
    <3> HIDE DEF d
    <3>2. /\ n \in Downloads /\ n.at = "ended" /\ n.offset = d.offset
          /\ n.buffer = d.buffer /\ n.credit = d.credit
      BY <1>9, <3>1 DEF Downloads
    <3>3. w = 0
      BY <1>8, <2>2
    <3>4. n.buffer + n.credit = d.buffer + w
      BY <1>9, <1>10, <3>2, <3>3
    <3> QED
      BY <1>9, <1>10, <3>1, <3>2, <3>4 DEF Received, d
  <2>3. CASE packet.kind = "Data"
    <3>1. d.offset + filled <= Size[f] /\ filled \in Int
      BY <1>3, <1>8, <1>9, <2>3 DEF valid
    <3>2. CASE whole
      <4>1. n = [at |-> "reporting", offset |-> d.offset + filled,
                 buffer |-> 0, hash |-> FALSE, credit |-> filled]
        BY <2>3, <3>2 DEF n
      <4> HIDE DEF d, whole
      <4>2. /\ n \in Downloads /\ n.at = "reporting" /\ n.offset = d.offset + filled
            /\ n.buffer = 0 /\ n.credit = filled
        <5>1. d.offset + filled \in Int
          BY <1>9, <3>1
        <5> HIDE DEF filled
        <5> QED
          BY <3>1, <4>1, <5>1 DEF Downloads
      <4>3. n.offset + n.buffer <= Size[f] /\ n.buffer + n.credit = d.buffer + w
        BY <1>8, <1>9, <3>1, <4>2
      <4> QED
        BY <4>2, <4>3 DEF Received, d
    <3>3. CASE ~whole
      <4>1. n = [d EXCEPT !.buffer = filled]
        BY <2>3, <3>3 DEF n
      <4> HIDE DEF d, whole
      <4>2. /\ n \in Downloads /\ n.at = d.at /\ n.offset = d.offset
            /\ n.buffer = filled /\ n.credit = d.credit
        <5> HIDE DEF filled
        <5> QED
          BY <1>9, <3>1, <4>1 DEF Downloads
      <4>3. n.offset + n.buffer <= Size[f] /\ n.buffer + n.credit = d.buffer + w
        BY <1>8, <1>9, <1>10, <3>1, <4>2
      <4> QED
        BY <1>1, <1>10, <4>2, <4>3 DEF Received, d
    <3> QED
      BY <3>2, <3>3
  <2> QED
    BY <1>7, <2>1, <2>2, <2>3
<1> QED
  BY <1>1, <1>4, <1>5, <1>11 DEF packet, w

LEMMA ReceivePartStep ==
    ASSUME Inductive, NEW f \in Files, ReceivePart(f)
    PROVE  Inductive'
<1>1. CASE ~UNCHANGED fault
  BY <1>1, Faulted DEF ReceivePart, Ensure
<1>2. CASE UNCHANGED fault
  <2> DEFINE w == Head(queue[f]).length
  <2>1. /\ down[f].at = "ready" /\ queue[f] # <<>>
        /\ queue' = [queue EXCEPT ![f] = Tail(@)]
        /\ UNCHANGED <<sending, pressed, toReceiver, toSender, receiver, active,
                       closed, credit, closing, events, replying, reported>>
        /\ \E n : down' = [down EXCEPT ![f] = n] /\ Received(f, n, w)
    BY <1>2, PartReceived
  <2>2. PICK n : down' = [down EXCEPT ![f] = n] /\ Received(f, n, w)
    BY <2>1
  <2>3. /\ queue' \in [Files -> Seq(Messages)]
        /\ Len(queue'[f]) <= Len(queue[f]) /\ Len(queue[f]) \in Nat
        /\ Len(queue'[f]) \in Nat
        /\ Head(queue[f]) \in Messages
        /\ 1 \in DOMAIN queue[f] /\ Head(queue[f]) = queue[f][1]
        /\ \A i \in DOMAIN queue'[f] :
              i + 1 \in DOMAIN queue[f] /\ queue'[f][i] = queue[f][i + 1]
        /\ Total(f, queue'[f]) = Total(f, queue[f]) - Weight(f, Head(queue[f]))
        /\ \A g \in Files \ {f} : queue'[g] = queue[g]
    <3>1. Typed
      BY DEF Inductive
    <3> QED
      BY ONLY <2>1, <3>1, QueueShrinks, f \in Files
  <2>4. Head(queue[f]).file = f /\ w \in Int
    BY <2>3 DEF Inductive, Fresh, Messages, StreamMessages, LoopMessages
  <2> HIDE DEF w
  <2>5. /\ down' \in [Files -> Downloads] /\ down'[f] = n
        /\ \A g \in Files \ {f} : down'[g] = down[g]
    BY <2>2 DEF Inductive, Typed, Received
  <2>6. /\ n.at \in {"ready", "reporting", "ended"} /\ n.offset + n.buffer <= Size[f]
        /\ n.at = "ended" => n.offset = Size[f]
        /\ n.at # "reporting" => n.credit = 0
        /\ n.buffer + n.credit = down[f].buffer + w
        /\ n.buffer \in Int /\ n.credit \in Int
    BY <2>2 DEF Received, Downloads
  <2>7. \A g \in Files : Len(queue'[g]) <= FileQueue
    <3>1. Len(queue'[f]) <= FileQueue
      BY <2>3, QueueSizes DEF Inductive, TypeOK
    <3> QED
      BY <2>3, <3>1 DEF Inductive, TypeOK
  <2>8. TypeOK'
    <3>1. \A g \in Files :
             /\ down'[g].at \in {"none", "ready", "reporting", "ended", "failed", "joined"}
             /\ down'[g].offset + down'[g].buffer <= Size[g]
      BY <2>5, <2>6, DownloadOf
    <3> QED
      BY <1>2, <2>1, <2>7, <3>1 DEF Inductive, TypeOK, sending
  <2>9. Typed'
    BY <2>1, <2>3, <2>5 DEF Inductive, Typed, sending
  <2>10. Windowed' /\ Counted'
    BY <2>1, ReceiverSide
  <2>11. Told'
    BY <2>1, <2>5, <2>6 DEF Inductive, Told, sending, TypeOK
  <2>12. Concluding'
    BY <2>1 DEF Inductive, Concluding, sending
  <2>13. Fresh'
    <3>1. \A g \in Files : /\ down'[g].at = "none" <=> down[g].at = "none"
                           /\ down'[g].at = "none" => g # f
      BY <2>1, <2>5, <2>6
    <3>2. \A i \in DOMAIN events : events[i].file \in Files
      BY ElementOfSeq, LenProperties DEF Inductive, Typed, StreamMessages
    <3>3. closing \in Files \cup {none}
      BY DEF Inductive, TypeOK
    <3>4. \A g \in Files : \A i \in DOMAIN queue'[g] :
             queue'[g][i].file = g /\ queue'[g][i].kind \in {"Hash", "Data", "Close"}
      <4>1. \A i \in DOMAIN queue'[f] :
               queue'[f][i].file = f /\ queue'[f][i].kind \in {"Hash", "Data", "Close"}
        BY <2>3 DEF Inductive, Fresh
      <4> QED
        BY <2>3, <4>1 DEF Inductive, Fresh
    <3>5. \A g \in Files : down'[g].at = "none" =>
             queue'[g] = <<>> /\ down'[g].buffer = 0 /\ g \notin active
      BY <2>3, <2>5, <3>1 DEF Inductive, Fresh
    <3>6. \A g \in Files : down'[g].at # "reporting" => down'[g].credit = 0
      BY <2>5, <2>6 DEF Inductive, Fresh
    <3> QED
      BY <2>1, <3>1, <3>2, <3>3, <3>4, <3>5, <3>6 DEF Inductive, Fresh
  <2>14. CreditIsConserved'
    <3> DEFINE c == credit[f]
               q == Total(f, queue[f])
               q2 == Total(f, queue'[f])
               b == down[f].buffer
               d == down[f].credit
               b2 == n.buffer
               d2 == n.credit
               t == Total(f, events)
    <3>1. c \in Int /\ q \in Int /\ b \in Int /\ d \in Int /\ t \in Int
      BY DownloadOf
    <3>2. f \in active => c + q + b + d + t = WINDOW
      BY DEF Inductive, CreditIsConserved
    <3>3. d = 0
      BY <2>1 DEF Inductive, Fresh
    <3>4. q2 = q - w
      BY <2>3, <2>4 DEF Weight, w
    <3>5. b2 + d2 = b + w /\ b2 \in Int /\ d2 \in Int
      BY <2>6
    <3> HIDE DEF c, q, q2, b, d, b2, d2, t
    <3>6. f \in active => c + q2 + b2 + d2 + t = WINDOW
      BY ONLY <2>4, <3>1, <3>2, <3>3, <3>4, <3>5
    <3>7. f \in active => credit[f] + Total(f, queue'[f]) + down'[f].buffer
                              + down'[f].credit + Total(f, events) = WINDOW
      BY <2>5, <3>6 DEF c, q2, b2, d2, t
    <3> QED
      BY <2>1, <2>3, <2>5, <3>7, Balanced
  <2> QED
    BY <2>8, <2>9, <2>10, <2>11, <2>12, <2>13, <2>14 DEF Inductive
<1> QED
  BY <1>1, <1>2

LEMMA ReportBlockStep ==
    ASSUME Inductive, NEW f \in Files, ReportBlock(f)
    PROVE  Inductive'
<1> DEFINE m == Msg("Checkpoint", f, down[f].offset, down[f].credit)
           n == [down[f] EXCEPT !.at = "ready", !.credit = 0]
<1>1. /\ down[f].at = "reporting" /\ Len(events) < Streams /\ events' = Append(events, m)
      /\ down' = [down EXCEPT ![f] = n]
      /\ UNCHANGED <<sending, pressed, toReceiver, toSender, receiver, active, closed,
                     credit, queue, closing, replying, reported, fault>>
  BY DEF ReportBlock
<1>2. /\ down[f] \in Downloads /\ down[f].offset \in Int /\ down[f].credit \in Int
      /\ down[f].buffer \in Int
  BY DownloadOf
<1>3. /\ n \in Downloads /\ n.at = "ready" /\ n.credit = 0 /\ n.offset = down[f].offset
      /\ n.buffer = down[f].buffer
  <2> SUFFICES ASSUME NEW d \in Downloads,
                      NEW e, e = [d EXCEPT !.at = "ready", !.credit = 0]
               PROVE  /\ e \in Downloads /\ e.at = "ready" /\ e.credit = 0
                      /\ e.offset = d.offset /\ e.buffer = d.buffer
    BY <1>2
  <2> DEFINE h == [d EXCEPT !.at = "ready"]
  <2>1. /\ h \in Downloads /\ h.at = "ready" /\ h.offset = d.offset /\ h.buffer = d.buffer
    BY DEF Downloads
  <2>2. e = [h EXCEPT !.credit = 0]
    BY DEF Downloads
  <2> HIDE DEF h
  <2> QED
    BY <2>1, <2>2 DEF Downloads
<1>4. /\ m \in StreamMessages /\ m.kind = "Checkpoint" /\ m.file = f
      /\ m.length = down[f].credit
  BY <1>2 DEF Msg, StreamMessages, StreamKinds
<1>5. m \in Messages
  BY <1>4 DEF Messages
<1> HIDE DEF m, n
<1>6. /\ down' \in [Files -> Downloads] /\ down'[f] = n
      /\ \A g \in Files \ {f} : down'[g] = down[g]
  BY <1>1, <1>3 DEF Inductive, Typed
<1>7. events \in Seq(StreamMessages) /\ events \in Seq(Messages)
  BY WiderSeq DEF Inductive, Typed, Messages
<1>8. /\ events' \in Seq(StreamMessages) /\ Len(events') = Len(events) + 1
      /\ Len(events) \in Nat
      /\ \A i \in DOMAIN events' : events'[i] = m \/
            (i \in DOMAIN events /\ events'[i] = events[i])
  BY <1>1, <1>4, <1>7, Appended
<1>9. \A g : Total(g, events') = Total(g, events) + Weight(g, m)
  BY <1>1, <1>5, <1>7, TotalAppend
<1>10. Len(events') <= Streams
  BY <1>1, <1>8, FlowControlAssumption
<1>11. TypeOK'
  <2>1. \A g \in Files :
           /\ down'[g].at \in {"none", "ready", "reporting", "ended", "failed", "joined"}
           /\ down'[g].offset + down'[g].buffer <= Size[g]
    BY <1>3, <1>6, DownloadOf
  <2> QED
    BY <1>1, <1>10, <2>1 DEF Inductive, TypeOK, sending
<1>12. Typed'
  BY <1>1, <1>6, <1>8 DEF Inductive, Typed, sending
<1>13. Windowed' /\ Counted'
  BY <1>1, ReceiverSide
<1>14. Told'
  BY <1>1, <1>3, <1>6 DEF Inductive, Told, sending, TypeOK
<1>15. Concluding'
  BY <1>1 DEF Inductive, Concluding, sending
<1>16. Fresh'
  <2>1. \A g \in Files : down'[g].at = "none" <=> down[g].at = "none"
    BY <1>1, <1>3, <1>6
  <2>2. \A i \in DOMAIN events : events[i].file \in Files
    BY ElementOfSeq, LenProperties DEF Inductive, Typed, StreamMessages
  <2>3. closing \in Files \cup {none}
    BY DEF Inductive, TypeOK
  <2>4. \A i \in DOMAIN events' :
           events'[i].kind = "Checkpoint" /\ down'[events'[i].file].at # "none"
    BY <1>1, <1>4, <1>8, <2>1, <2>2 DEF Inductive, Fresh
  <2>5. \A g \in Files : down'[g].at # "reporting" => down'[g].credit = 0
    BY <1>3, <1>6 DEF Inductive, Fresh
  <2>6. \A g \in Files : down'[g].buffer = down[g].buffer
    BY <1>3, <1>6
  <2> QED
    BY <1>1, <2>1, <2>3, <2>4, <2>5, <2>6 DEF Inductive, Fresh
<1>17. CreditIsConserved'
  <2> DEFINE c == credit[f]
             q == Total(f, queue[f])
             b == down[f].buffer
             d == down[f].credit
             t == Total(f, events)
             t2 == Total(f, events')
  <2>1. c \in Int /\ q \in Int /\ b \in Int /\ d \in Int /\ t \in Int
    BY DownloadOf
  <2>2. f \in active => c + q + b + d + t = WINDOW
    BY DEF Inductive, CreditIsConserved
  <2>3. t2 = t + d
    BY <1>4, <1>9 DEF Weight
  <2> HIDE DEF c, q, b, d, t, t2
  <2>4. f \in active => c + q + b + 0 + t2 = WINDOW
    BY ONLY <2>1, <2>2, <2>3
  <2>5. f \in active => credit[f] + Total(f, queue[f]) + down'[f].buffer
                            + down'[f].credit + Total(f, events') = WINDOW
    BY <1>3, <1>6, <2>4 DEF c, q, b, t2
  <2>6. \A g \in Files \ {f} : Total(g, events') = Total(g, events)
    <3> SUFFICES ASSUME NEW g \in Files \ {f}
                 PROVE  Total(g, events') = Total(g, events)
      OBVIOUS
    <3>1. Weight(g, m) = 0
      BY <1>4 DEF Weight
    <3> QED
      BY <1>9, <3>1, DownloadOf
  <2> QED
    BY <1>1, <1>6, <2>5, <2>6, Balanced
<1> QED
  BY <1>11, <1>12, <1>13, <1>14, <1>15, <1>16, <1>17 DEF Inductive

LEMMA InterruptedStep ==
    ASSUME Inductive, NEW f \in Files, Interrupted(f)
    PROVE  Inductive'
<1>1. /\ down[f].at = "ready" /\ down' = [down EXCEPT ![f].at = "failed"]
      /\ UNCHANGED <<sending, pressed, toReceiver, toSender, receiver, active, closed,
                     credit, queue, closing, events, replying, reported, fault>>
  BY DEF Interrupted
<1>2. /\ down' \in [Files -> Downloads] /\ down'[f].at = "failed"
      /\ \A g \in Files : /\ down'[g].offset = down[g].offset
                          /\ down'[g].buffer = down[g].buffer
                          /\ down'[g].credit = down[g].credit
      /\ \A g \in Files \ {f} : down'[g] = down[g]
  BY <1>1, DownMoves DEF Inductive
<1>3. TypeOK'
  <2>1. \A g \in Files :
           /\ down'[g].at \in {"none", "ready", "reporting", "ended", "failed", "joined"}
           /\ down'[g].offset + down'[g].buffer <= Size[g]
    BY <1>2, DownloadOf
  <2> QED
    BY <1>1, <2>1 DEF Inductive, TypeOK, sending
<1>4. Typed'
  BY <1>1, <1>2 DEF Inductive, Typed, sending
<1>5. Windowed' /\ Counted'
  BY <1>1, ReceiverSide
<1>6. Told'
  BY <1>1, <1>2 DEF Inductive, Told, sending, TypeOK
<1>7. Concluding'
  BY <1>1 DEF Inductive, Concluding, sending
<1>8. Fresh'
  <2>1. \A g \in Files : /\ down'[g].at = "none" <=> down[g].at = "none"
                         /\ down'[g].at = "reporting" <=> down[g].at = "reporting"
    BY <1>1, <1>2
  <2>2. \A i \in DOMAIN events : events[i].file \in Files
    BY ElementOfSeq, LenProperties DEF Inductive, Typed, StreamMessages
  <2>3. closing \in Files \cup {none}
    BY DEF Inductive, TypeOK
  <2> QED
    BY <1>1, <1>2, <2>1, <2>2, <2>3 DEF Inductive, Fresh
<1>9. CreditIsConserved'
  <2>1. \A g \in active : g \in Files
    BY DEF Inductive, TypeOK
  <2> QED
    BY <1>1, <1>2, <2>1 DEF Inductive, CreditIsConserved
<1> QED
  BY <1>3, <1>4, <1>5, <1>6, <1>7, <1>8, <1>9 DEF Inductive

-----------------------------------------------------------------------------
(* The invariant holds initially and in every step, and what follows.      *)

LEMMA InductiveInit ==
    ASSUME Init
    PROVE  Inductive
<1>1. /\ sender = "run" /\ pressed = FALSE /\ waiting = 1
      /\ up = [f \in Files |-> [at |-> "none", offset |-> Start[f],
                                acked |-> Start[f], queued |-> 0]]
      /\ packets = <<>> /\ writing = <<>>
      /\ acks = [f \in Files |-> <<>>] /\ known = Start /\ completed = 0
      /\ toReceiver = <<>> /\ toSender = <<>>
  BY DEF Init
<1>2. /\ receiver = "run" /\ active = {} /\ closed = {}
      /\ credit = [f \in Files |-> 0]
      /\ queue = [f \in Files |-> <<>>] /\ closing = none
      /\ down = [f \in Files |-> [at |-> "none", offset |-> Start[f],
                                  buffer |-> 0, hash |-> FALSE, credit |-> 0]]
      /\ events = <<>> /\ replying = <<>> /\ reported = Start /\ fault = "none"
  BY DEF Init
<1>3. \A f \in Files : /\ Start[f] \in Nat /\ Size[f] \in Nat /\ Start[f] <= Size[f]
                       /\ Aligned(f, Start[f])
  BY Sizes, FlowControlAssumption DEF Aligned
<1>4. \A f \in Files : /\ up[f] = [at |-> "none", offset |-> Start[f],
                                   acked |-> Start[f], queued |-> 0]
                       /\ down[f] = [at |-> "none", offset |-> Start[f],
                                     buffer |-> 0, hash |-> FALSE, credit |-> 0]
                       /\ acks[f] = <<>> /\ queue[f] = <<>>
  BY <1>1, <1>2
<1>5. \A f \in Files : /\ up[f].at = "none" /\ up[f].acked = Start[f]
                       /\ up[f].offset = Start[f] /\ up[f].queued = 0
  <2> SUFFICES ASSUME NEW f \in Files,
                      NEW u, u = [at |-> "none", offset |-> Start[f],
                                  acked |-> Start[f], queued |-> 0]
               PROVE  u.at = "none" /\ u.acked = Start[f] /\ u.offset = Start[f] /\ u.queued = 0
    BY <1>4
  <2> QED
    OBVIOUS
<1>6. \A f \in Files : /\ down[f].at = "none" /\ down[f].offset = Start[f]
                       /\ down[f].buffer = 0 /\ down[f].credit = 0
  <2> SUFFICES ASSUME NEW f \in Files,
                      NEW d, d = [at |-> "none", offset |-> Start[f],
                                  buffer |-> 0, hash |-> FALSE, credit |-> 0]
               PROVE  d.at = "none" /\ d.offset = Start[f] /\ d.buffer = 0 /\ d.credit = 0
    BY <1>4
  <2> QED
    OBVIOUS
<1>7. Len(<<>>) = 0 /\ \A S : <<>> \in Seq(S)
  BY EmptySeq
<1>8. TypeOK
  <2>1. \A f \in Files :
          /\ up[f].at = "none" /\ up[f].acked <= up[f].offset /\ up[f].offset <= Size[f]
          /\ down[f].at = "none" /\ down[f].offset + down[f].buffer <= Size[f]
          /\ Len(acks[f]) <= AckQueue /\ Len(queue[f]) <= FileQueue
    <3> SUFFICES ASSUME NEW f \in Files
                 PROVE  /\ up[f].at = "none" /\ up[f].acked <= up[f].offset
                        /\ up[f].offset <= Size[f]
                        /\ down[f].at = "none" /\ down[f].offset + down[f].buffer <= Size[f]
                        /\ Len(acks[f]) <= AckQueue /\ Len(queue[f]) <= FileQueue
      OBVIOUS
    <3>1. /\ up[f].at = "none" /\ up[f].acked = Start[f] /\ up[f].offset = Start[f]
          /\ down[f].at = "none" /\ down[f].offset = Start[f] /\ down[f].buffer = 0
      BY <1>5, <1>6
    <3>2. Len(acks[f]) = 0 /\ Len(queue[f]) = 0
      BY <1>4, <1>7
    <3> QED
      BY <1>3, <3>1, <3>2, QueueSizes
  <2>2. /\ Len(packets) <= SEND_QUEUE /\ Len(events) <= Streams
        /\ Len(writing) <= 1 /\ Len(replying) <= 1
        /\ Len(toReceiver) <= Pipe /\ Len(toSender) <= ReplyPipe
    BY <1>1, <1>2, <1>7, QueueSizes, FlowControlAssumption
  <2>3. waiting \in 1..(Len(Size) + 1)
    BY <1>1, Sizes
  <2> QED
    BY <1>1, <1>2, <2>1, <2>2, <2>3 DEF TypeOK
<1>9. Typed
  <2>1. up \in [Files -> Uploads] /\ down \in [Files -> Downloads]
    BY <1>1, <1>2, <1>3 DEF Uploads, Downloads
  <2>2. acks \in [Files -> Seq(Messages)] /\ queue \in [Files -> Seq(Messages)]
    BY <1>1, <1>2, <1>7
  <2>3. known \in [Files -> Int] /\ reported \in [Files -> Int]
    <3>1. Start \in [Files -> Nat]
      BY FlowControlAssumption, LenProperties DEF Files
    <3> QED
      BY <1>1, <1>2, <3>1
  <2> QED
    BY <1>1, <1>2, <1>7, <2>1, <2>2, <2>3 DEF Typed
<1>10. Windowed
  <2> SUFFICES ASSUME NEW f \in Files
               PROVE  /\ up[f].acked <= known[f] /\ known[f] <= Size[f]
                      /\ Aligned(f, up[f].acked) /\ Aligned(f, up[f].offset)
                      /\ up[f].offset < Size[f] =>
                            up[f].queued < Len(BlockPackets(f, up[f].offset))
                      /\ up[f].at \notin {"closing", "ended", "joined"}
                      /\ DOMAIN acks[f] = {}
    BY DEF Windowed
  <2>1. Start[f] < Size[f] => 0 < Len(BlockPackets(f, Start[f]))
    <3>1. Start[f] \in Nat /\ Aligned(f, Start[f])
      BY <1>3
    <3>2. ASSUME Start[f] < Size[f] PROVE Len(BlockPackets(f, Start[f])) > 0
      BY <3>1, <3>2, PacketsOfBlock
    <3> QED
      BY <3>2
  <2>2. DOMAIN acks[f] = {}
    <3>1. acks[f] = <<>>
      BY <1>4
    <3> QED
      BY ONLY <3>1
  <2>3. /\ up[f].acked = Start[f] /\ up[f].offset = Start[f] /\ up[f].queued = 0
        /\ up[f].at = "none" /\ known[f] = Start[f]
    BY <1>1, <1>5
  <2> QED
    BY <1>3, <2>1, <2>2, <2>3
<1>11. Told
  BY <1>1, <1>2, <1>4, <1>5, <1>6 DEF Told
<1>12. Counted
  <2>1. {f \in Files : up[f].at = "joined"} = {}
    <3>1. \A f \in Files : up[f].at = "none"
      BY <1>5
    <3> QED
      BY <3>1
  <2>2. Cardinality({}) = 0
    BY FS_EmptySet
  <2> QED
    BY <1>1, <1>5, <2>1, <2>2 DEF Counted
<1>13. Concluding
  BY <1>1, <1>2 DEF Concluding
<1>14. Fresh
  BY <1>2, <1>4, <1>6 DEF Fresh
<1>15. CreditIsConserved
  BY <1>2 DEF CreditIsConserved
<1> QED
  BY <1>8, <1>9, <1>10, <1>11, <1>12, <1>13, <1>14, <1>15 DEF Inductive

LEMMA InductiveStep ==
    ASSUME Inductive, [Next]_vars
    PROVE  Inductive'
<1>1. CASE SendLoop
  <2>1. CASE Spawn \/ Stop \/ Commit
    BY <2>1, SpawnStep, StopStep, CommitStep
  <2>2. CASE TakePacket \/ WritePacket \/ TakeReply \/ Conclude
    BY <2>2, TakePacketStep, WritePacketStep, TakeReplyStep, ConcludeStep
  <2>3. CASE \E f \in Files : JoinSender(f)
    BY <2>3, JoinSenderStep
  <2> QED
    BY <1>1, <2>1, <2>2, <2>3 DEF SendLoop
<1>2. CASE ReceiveLoop
  <2>1. CASE WriteReply \/ TakeEvent \/ TakeOpen \/ TakePart \/ TakeClose
    BY <2>1, WriteReplyStep, TakeEventStep, TakeOpenStep, TakePartStep, TakeCloseStep
  <2>2. CASE EnqueueClose \/ TakePause \/ DrainEvent \/ Drained \/ TakeCommit
    BY <2>2, EnqueueCloseStep, TakePauseStep, DrainEventStep, DrainedStep, TakeCommitStep
  <2>3. CASE \E f \in Files : JoinReceiver(f) \/ DrainWorker(f)
    BY <2>3, JoinReceiverStep, DrainWorkerStep
  <2> QED
    BY <1>2, <2>1, <2>2, <2>3 DEF ReceiveLoop
<1>3. ASSUME NEW f \in Files, SendWorker(f) PROVE Inductive'
  BY <1>3, OpenStreamStep, QueuePacketStep, TakeAckStep, CloseStreamStep, TakeClosedStep
     DEF SendWorker
<1>4. ASSUME NEW f \in Files, ReceiveWorker(f) PROVE Inductive'
  BY <1>4, ReceivePartStep, ReportBlockStep, InterruptedStep DEF ReceiveWorker
<1>5. CASE UNCHANGED vars
  <2>1. UNCHANGED <<sending, pressed, toReceiver, toSender, receiving, fault>>
    BY <1>5 DEF vars
  <2>2. TypeOK' /\ Typed'
    BY <2>1 DEF Inductive, TypeOK, Typed, sending, receiving
  <2>3. Told' /\ Concluding'
    BY <2>1 DEF Inductive, Told, Concluding, sending, receiving
  <2>4. Windowed' /\ Counted' /\ Fresh' /\ CreditIsConserved'
    BY <2>1, SenderSide, ReceiverSide
  <2> QED
    BY <2>2, <2>3, <2>4 DEF Inductive
<1> QED
  BY <1>1, <1>2, <1>3, <1>4, <1>5, PressStep DEF Next, Work

\* In every reachable state of a connection, whatever the files, the sizes of
\* blocks and channels and the moment of a pause, the parts of the invariant hold.
THEOREM InductiveHolds == Spec => []Inductive
<1>1. Init => Inductive
  BY InductiveInit
<1>2. Inductive /\ [Next]_vars => Inductive'
  BY InductiveStep
<1> QED
  BY <1>1, <1>2, PTL DEF Spec

\* Every variable keeps its type, and no channel ever holds more than the code
\* gave it room for.
THEOREM TypeCorrect == Spec => []TypeOK
<1>1. Inductive => TypeOK
  BY DEF Inductive
<1> QED
  BY <1>1, InductiveHolds, PTL

\* transport.rs, credits: what a stream may still send, what is in its channel and
\* its buffer, and what is on its way back add up to the window.
THEOREM CreditAlwaysConserved == Spec => []CreditIsConserved
<1>1. Inductive => CreditIsConserved
  BY DEF Inductive
<1> QED
  BY <1>1, InductiveHolds, PTL

\* When as many files were joined as there are, all were.
LEMMA AllJoined ==
    ASSUME Inductive, completed = Len(Size)
    PROVE  \A f \in Files : up[f].at = "joined"
<1> DEFINE J == {f \in Files : up[f].at = "joined"}
<1>1. Files = 1..Len(Size) /\ Len(Size) \in Nat
  BY Sizes
<1>2. IsFiniteSet(Files) /\ Cardinality(Files) = Len(Size)
  <2>1. /\ IsFiniteSet(1..Len(Size))
        /\ Cardinality(1..Len(Size)) = IF 1 > Len(Size) THEN 0 ELSE Len(Size) - 1 + 1
    <3> DEFINE n == Len(Size)
    <3>1. n \in Int /\ 1 \in Int
      BY <1>1
    <3> HIDE DEF n
    <3>2. IsFiniteSet(1..n) /\ Cardinality(1..n) = IF 1 > n THEN 0 ELSE n - 1 + 1
      BY ONLY <3>1, FS_Interval
    <3> QED
      BY <3>2 DEF n
  <2> QED
    BY <1>1, <2>1
<1>3. Cardinality(J) = Len(Size)
  BY DEF Inductive, Counted
<1>4. J \subseteq Files
  OBVIOUS
<1> HIDE DEF J
<1>5. J = Files
  BY <1>2, <1>3, <1>4, FS_Subset
<1> QED
  BY <1>5 DEF J

\* Sender and receiver agree on the end: a Commit is only under way when every
\* file is whole at the receiver, every stream is closed on both ends and every
\* block was acknowledged to the sender.
THEOREM CommitAlwaysDue == Spec => []CommitIsDue
<1>1. ASSUME Inductive PROVE CommitIsDue
  <2> SUFFICES ASSUME sender \in {"committing", "sent"}
               PROVE  /\ active = {}
                      /\ \A f \in Files : down[f].offset = Size[f] /\ known[f] = Size[f]
    BY DEF CommitIsDue
  <2>1. \A f \in Files : up[f].at = "joined"
    BY <1>1, AllJoined DEF Inductive, Counted
  <2>2. \A f \in Files : f \in closed /\ up[f].acked = Size[f]
    BY <1>1, <2>1 DEF Inductive, Told, Windowed
  <2>3. \A f \in Files : f \notin active /\ down[f].offset = Size[f]
    BY <1>1, <2>2 DEF Inductive, Told
  <2>4. active = {}
    BY <1>1, <2>3 DEF Inductive, TypeOK
  <2>5. \A f \in Files : known[f] = Size[f]
    <3> SUFFICES ASSUME NEW f \in Files PROVE known[f] = Size[f]
      OBVIOUS
    <3>1. known[f] \in Int /\ Size[f] \in Nat
      BY <1>1, Sizes DEF Inductive, Typed
    <3>2. Size[f] <= known[f] /\ known[f] <= Size[f]
      BY <1>1, <2>2 DEF Inductive, Windowed
    <3> QED
      BY <3>1, <3>2
  <2> QED
    BY <2>3, <2>4, <2>5
<1> QED
  BY <1>1, InductiveHolds, PTL

-----------------------------------------------------------------------------
(* Where every message of a stream is.                                     *)

\* s leads from a to b when the triple of each message in it, with where the
\* stream stands before and after the message, is in M.
Path(M, s, a, b) ==
    \E p : /\ p[1] = a /\ p[Len(s) + 1] = b
           /\ \A i \in 1..Len(s) : <<p[i], s[i], p[i + 1]>> \in M

\* The stream of a file stands before its Open, before a packet of a block or
\* before its Close, or it is closed.
Hashes == IF Streaming THEN 1 ELSE 0
Place(at, offset, queued) == [at |-> at, offset |-> offset, queued |-> queued]
Places(f) ==
    {c \in [at : {"open", "fill", "closed"}, offset : Nat, queued : Nat] :
        /\ c.offset <= Size[f] /\ Aligned(f, c.offset)
        /\ c.offset < Size[f] => c.queued < Len(BlockPackets(f, c.offset))
        /\ c.offset = Size[f] \/ c.at = "open" => c.queued = 0
        /\ c.at = "closed" => c.offset = Size[f]}

\* From c the stream goes on with m and stands at d.
Moves(f, c, m, d) ==
    \/ /\ c.at = "open"
       /\ m = Msg("Open", f, 0, 0) /\ d = Place("fill", c.offset, 0)
    \/ /\ c.at = "fill" /\ c.offset < Size[f]
       /\ m = BlockPackets(f, c.offset)[c.queued + 1]
       /\ d = IF c.queued + 1 = Len(BlockPackets(f, c.offset))
              THEN Place("fill", BlockEnd(f, c.offset), 0)
              ELSE Place("fill", c.offset, c.queued + 1)
    \/ /\ c.at = "fill" /\ c.offset = Size[f]
       /\ m = Msg("Close", f, 0, 0) /\ d = Place("closed", c.offset, 0)

\* Messages of other files change nothing for f.
Sends(f) ==
    {x \in Places(f) \X Messages \X Places(f) :
        IF x[2].file = f THEN Moves(f, x[1], x[2], x[3]) ELSE x[3] = x[1]}

\* The acknowledgements of a file stand at the end of a block, and past the end of
\* the file when it is closed.
Marks(f) == {o \in 0..Size[f] : Aligned(f, o)} \cup {Size[f] + 1}
Returns(f, a, m, b) ==
    \/ /\ a < Size[f] /\ b = BlockEnd(f, a)
       /\ m = Msg("Checkpoint", f, b, b - a)
    \/ /\ a = Size[f] /\ b = Size[f] + 1
       /\ m = Msg("Closed", f, 0, 0)
Answers(f) ==
    {x \in Marks(f) \X Messages \X Marks(f) :
        IF x[2].file = f THEN Returns(f, x[1], x[2], x[3]) ELSE x[3] = x[1]}

\* The messages, the bytes and the blocks before a place.
PacketsPerBlock == Hashes + Block \div Frame
Rank(f, c) ==
    IF c.at = "open" THEN 0
    ELSE CeilDiv(c.offset, Block) * PacketsPerBlock + c.queued
            + (IF c.at = "fill" THEN 1 ELSE 2)
Bytes(c) == IF c.queued = 0 THEN c.offset
            ELSE c.offset + (c.queued - Hashes) * Frame
Blocks(f, o) == IF o > Size[f] THEN CeilDiv(Size[f], Block) + 1 ELSE CeilDiv(o, Block)

\* Where the worker of the receiver stands, and what is in its channel up to a.
Reached(f, r) ==
    /\ r \in Places(f) /\ r.offset = down[f].offset
    /\ r.at = "open" <=> down[f].at = "none"
    /\ r.at = "fill" <=> down[f].at \in {"ready", "reporting"}
    /\ r.queued = 0 => down[f].buffer = 0 /\ ~down[f].hash
    /\ r.queued > 0 => /\ down[f].hash = Streaming /\ down[f].at = "ready"
                       /\ down[f].buffer = (r.queued - Hashes) * Frame
Behind(f, a) ==
    \E r : /\ Reached(f, r) /\ Path(Sends(f), queue[f], r, a) /\ a \in Places(f)
           /\ Total(f, queue[f]) = Bytes(a) - Bytes(r)

\* Where the worker of the sender stands, and what is under way from a on.
Queued(f, e) ==
    /\ e \in Places(f) /\ e.offset = up[f].offset /\ e.queued = up[f].queued
    /\ up[f].at \in {"none", "open"} => e.at = "open" /\ up[f].acked = up[f].offset
    /\ up[f].at = "fill" => e.at = "fill"
    /\ up[f].at \in {"closing", "ended", "joined"} => e.at = "closed"
    /\ e.at = "closed" => up[f].acked = Size[f]
Route(M, close, there, write, packed, a, e) ==
    \E b, c, d : /\ Path(M, close, a, b) /\ Path(M, there, b, c)
                 /\ Path(M, write, c, d) /\ Path(M, packed, d, e)
Close == IF closing = none THEN <<>> ELSE <<Msg("Close", closing, 0, 0)>>
Ahead(f, a) ==
    \E e : Queued(f, e) /\ Route(Sends(f), Close, toReceiver, writing, packets, a, e)

\* Nothing of a stream is lost, doubled or out of order on its way.
Forth(f) ==
    receiver = "run" \/ down[f].at \in {"ready", "reporting"} =>
        \E a : Behind(f, a) /\ (receiver = "run" => Ahead(f, a))
Forward == \A f \in Files : Forth(f)

\* Nor are its acknowledgements.  After Pause the sender skips replies.
Acked(f) == IF up[f].at \in {"ended", "joined"} THEN Size[f] + 1 ELSE up[f].acked
Reported(f) == IF f \in closed THEN Size[f] + 1 ELSE reported[f]
Done(f) == IF f \in closed THEN Size[f] + 1 ELSE down[f].offset - down[f].credit
Heard(f, k) ==
    /\ k \in Marks(f) /\ known[f] = Least(k, Size[f]) /\ k <= Reported(f)
    /\ Acked(f) \in Marks(f) /\ Path(Answers(f), acks[f], Acked(f), k)
    /\ \A i \in 1..Len(acks[f]) : acks[f][i].file = f
Replies(f, k) ==
    sender \notin {"stopping", "stopped"} =>
        \E j : Path(Answers(f), toSender, k, j) /\ Path(Answers(f), replying, j, Reported(f))
Reports(f) ==
    /\ reported[f] \in Marks(f) /\ reported[f] <= Size[f]
    /\ receiver = "run" =>
          /\ Done(f) \in Marks(f) /\ Path(Answers(f), events, Reported(f), Done(f))
          /\ Total(f, events) + down[f].credit + reported[f] = down[f].offset
    /\ down[f].at = "reporting" =>
          \E o \in 0..Size[f] - 1 :
              /\ Aligned(f, o) /\ down[f].offset = BlockEnd(f, o)
              /\ down[f].credit = down[f].offset - o
Back(f) == Reports(f) /\ \E k : Heard(f, k) /\ Replies(f, k)
Backward == \A f \in Files : Back(f)

\* A worker has a stream until it is joined, and its blocks fit the window.
Occupied == {f \in Files : up[f].at \in {"open", "fill", "closing", "ended", "aborted"}}
Opened ==
    /\ Cardinality(Occupied) <= Streams
    /\ \A f \in Files :
          /\ up[f].at = "aborted" => sender \in {"stopping", "stopped"}
          /\ InFlight(f) <= Window \div Block
          /\ up[f].queued > 0 => InFlight(f) < Window \div Block

\* What the loops tell each other.
Final(m) ==
    /\ m.file = none => m.kind \in {"Stopped", "Complete"}
    /\ m.kind = "Stopped" => sender \in {"stopping", "stopped"}
Loops ==
    /\ receiver \in {"draining", "stopped"} => sender \in {"stopping", "stopped"}
    /\ receiver = "complete" => sender \in {"committing", "sent"}
    /\ receiver # "run" => closing = none
    /\ \A i \in 1..Len(writing) : writing[i].kind = "Pause" => sender \in {"stopping", "stopped"}
    /\ \A i \in 1..Len(toReceiver) :
          toReceiver[i].kind = "Pause" => sender \in {"stopping", "stopped"}
    /\ \A i \in 1..Len(replying) : Final(replying[i])
    /\ \A i \in 1..Len(toSender) : Final(toSender[i])

Orderly == Alive /\ Forward /\ Backward /\ Opened /\ Loops
-----------------------------------------------------------------------------
(* Paths.                                                                  *)

LEMMA PathEmpty ==
    ASSUME NEW M, NEW a
    PROVE  Path(M, <<>>, a, a) /\ \A b : Path(M, <<>>, a, b) => a = b
<1>1. Len(<<>>) = 0
  OBVIOUS
<1>2. Path(M, <<>>, a, a)
  <2> DEFINE p == [i \in 1..1 |-> a]
  <2>1. p[1] = a
    OBVIOUS
  <2>2. \A i \in 1..0 : FALSE
    OBVIOUS
  <2> HIDE DEF p
  <2> QED
    BY <1>1, <2>1, <2>2 DEF Path
<1>3. ASSUME NEW b, Path(M, <<>>, a, b) PROVE a = b
  BY <1>1, <1>3 DEF Path
<1> QED
  BY <1>2, <1>3

\* A path grows with its last message.
LEMMA PathAppend ==
    ASSUME NEW M, NEW S, NEW s \in Seq(S), NEW m \in S, NEW a, NEW b, NEW c,
           Path(M, s, a, b), <<b, m, c>> \in M
    PROVE  Path(M, Append(s, m), a, c)
<1> DEFINE l == Len(s)
           t == Append(s, m)
<1>1. /\ l \in Nat /\ Len(t) = l + 1 /\ t[l + 1] = m
      /\ \A i \in 1..l : t[i] = s[i]
  BY AppendProperties, LenProperties
<1>2. PICK p : /\ p[1] = a /\ p[l + 1] = b
               /\ \A i \in 1..l : <<p[i], s[i], p[i + 1]>> \in M
  BY DEF Path
<1> HIDE DEF l, t
<1> DEFINE q == [i \in 1..l + 2 |-> IF i = l + 2 THEN c ELSE p[i]]
<1>3. q[1] = a /\ q[l + 2] = c /\ q[l + 1] = b
  BY <1>1, <1>2
<1>4. ASSUME NEW i \in 1..l PROVE <<q[i], t[i], q[i + 1]>> \in M
  <2>1. q[i] = p[i] /\ q[i + 1] = p[i + 1]
    BY <1>1
  <2> HIDE DEF q
  <2> QED
    BY <1>1, <1>2, <2>1
<1> HIDE DEF q
<1>5. \A i \in 1..l + 1 : <<q[i], t[i], q[i + 1]>> \in M
  <2> SUFFICES ASSUME NEW i \in 1..l + 1
               PROVE  <<q[i], t[i], q[i + 1]>> \in M
    OBVIOUS
  <2>1. CASE i \in 1..l
    BY <1>4, <2>1
  <2>2. CASE i = l + 1
    <3>1. i + 1 = l + 2
      BY <1>1, <2>2
    <3> QED
      BY <1>1, <1>3, <2>2, <3>1
  <2> QED
    BY <1>1, <2>1, <2>2
<1>6. Len(t) + 1 = l + 2
  BY <1>1
<1> QED
  BY <1>1, <1>3, <1>5, <1>6 DEF Path, t

\* ... and loses its first.
LEMMA PathTail ==
    ASSUME NEW M, NEW S, NEW s \in Seq(S), s # <<>>, NEW a, NEW b, Path(M, s, a, b)
    PROVE  \E c : <<a, Head(s), c>> \in M /\ Path(M, Tail(s), c, b)
<1> DEFINE l == Len(s)
           t == Tail(s)
<1>1. /\ l \in Nat /\ l >= 1 /\ Len(t) = l - 1 /\ Head(s) = s[1]
      /\ \A i \in 1..l - 1 : t[i] = s[i + 1]
  <2>1. l \in Nat /\ l # 0
    BY LenProperties, EmptySeq
  <2>2. Len(t) = l - 1 /\ \A i \in 1..Len(t) : t[i] = s[i + 1]
    BY HeadTailProperties
  <2>3. Head(s) = s[1]
    BY <2>1
  <2> QED
    BY <2>1, <2>2, <2>3
<1>2. PICK p : /\ p[1] = a /\ p[l + 1] = b
               /\ \A i \in 1..l : <<p[i], s[i], p[i + 1]>> \in M
  BY DEF Path
<1> HIDE DEF l, t
<1> DEFINE q == [i \in 1..l |-> p[i + 1]]
<1>3. q[1] = p[2] /\ q[l] = b
  BY <1>1, <1>2
<1>4. ASSUME NEW i \in 1..l - 1 PROVE <<q[i], t[i], q[i + 1]>> \in M
  <2>1. q[i] = p[i + 1] /\ q[i + 1] = p[i + 2] /\ i + 1 \in 1..l /\ (i + 1) + 1 = i + 2
    BY <1>1
  <2> HIDE DEF q
  <2>2. <<p[i + 1], s[i + 1], p[i + 2]>> \in M
    BY <1>2, <2>1
  <2> QED
    BY <1>1, <2>1, <2>2
<1> HIDE DEF q
<1>5. Path(M, t, p[2], b)
  <2>1. Len(t) + 1 = l
    BY <1>1
  <2> QED
    BY <1>1, <1>3, <1>4, <2>1 DEF Path
<1>6. <<a, Head(s), p[2]>> \in M
  <2>1. 1 \in 1..l /\ 1 + 1 = 2
    BY <1>1
  <2> QED
    BY <1>1, <1>2, <2>1
<1> QED
  BY <1>5, <1>6 DEF t

\* If messages never go back in the order v, nor does a path: every place on it is
\* past a.
Rising(M, P, v) ==
    \A x \in M : x[1] \in P /\ x[3] \in P /\ v[x[1]] <= v[x[3]]
Visits(M, s, a, b, P, v) ==
    \E p : /\ p[1] = a /\ p[Len(s) + 1] = b
           /\ \A n \in 1..Len(s) + 1 : p[n] \in P /\ v[a] <= v[p[n]]
           /\ \A n \in 1..Len(s) : <<p[n], s[n], p[n + 1]>> \in M

LEMMA PathPlaces ==
    ASSUME NEW M, NEW S, NEW s \in Seq(S), NEW a, NEW b, Path(M, s, a, b),
           NEW P, NEW v \in [P -> Int], a \in P, Rising(M, P, v)
    PROVE  Visits(M, s, a, b, P, v)
<1> DEFINE l == Len(s)
<1>1. l \in Nat
  BY LenProperties
<1>2. PICK p : /\ p[1] = a /\ p[l + 1] = b
               /\ \A i \in 1..l : <<p[i], s[i], p[i + 1]>> \in M
  BY DEF Path
<1> HIDE DEF l
<1>3. \A i \in 1..l : p[i] \in P /\ p[i + 1] \in P /\ v[p[i]] <= v[p[i + 1]]
  <2> SUFFICES ASSUME NEW i \in 1..l
               PROVE  p[i] \in P /\ p[i + 1] \in P /\ v[p[i]] <= v[p[i + 1]]
    OBVIOUS
  <2> DEFINE x == <<p[i], s[i], p[i + 1]>>
  <2>1. x \in M
    BY <1>2
  <2>2. x[1] = p[i] /\ x[3] = p[i + 1]
    OBVIOUS
  <2> HIDE DEF x
  <2> QED
    BY <2>1, <2>2 DEF Rising
<1> DEFINE B == {n \in 1..l + 1 : ~(p[n] \in P /\ v[a] <= v[p[n]])}
<1>4. ASSUME NEW n \in B PROVE \E m \in B : m < n
  <2>1. n # 1 /\ n \in 1..l + 1 /\ ~(p[n] \in P /\ v[a] <= v[p[n]])
    BY <1>2
  <2>2. n - 1 \in 1..l /\ n - 1 \in 1..l + 1 /\ n - 1 < n /\ (n - 1) + 1 = n
    BY <1>1, <2>1
  <2>3. p[n - 1] \in P /\ p[n] \in P /\ v[p[n - 1]] <= v[p[n]]
    BY <1>3, <2>2
  <2>4. v[a] \in Int /\ v[p[n - 1]] \in Int /\ v[p[n]] \in Int
    BY <2>3
  <2>5. ~(v[a] <= v[p[n - 1]])
    BY <2>1, <2>3, <2>4
  <2>6. n - 1 \in B
    BY <2>2, <2>5
  <2> QED
    BY <2>2, <2>6
<1>5. B \in SUBSET Nat
  BY <1>1
<1>6. B = {}
  <2> HIDE DEF B
  <2> QED
    BY <1>4, <1>5, NoFirst
<1>7. \A n \in 1..l + 1 : p[n] \in P /\ v[a] <= v[p[n]]
  BY <1>6
<1> HIDE DEF B
<1> QED
  BY <1>2, <1>7 DEF l, Visits

LEMMA PathRises ==
    ASSUME NEW M, NEW S, NEW s \in Seq(S), NEW a, NEW b, Path(M, s, a, b),
           NEW P, NEW v \in [P -> Int], a \in P,
           \A x \in M : x[1] \in P /\ x[3] \in P /\ v[x[1]] <= v[x[3]]
    PROVE  b \in P /\ v[a] <= v[b]
<1>0. Visits(M, s, a, b, P, v)
  <2>1. Rising(M, P, v)
    BY DEF Rising
  <2> QED
    BY <2>1, PathPlaces
<1>1. PICK p : /\ p[1] = a /\ p[Len(s) + 1] = b
               /\ \A n \in 1..Len(s) + 1 : p[n] \in P /\ v[a] <= v[p[n]]
               /\ \A n \in 1..Len(s) : <<p[n], s[n], p[n + 1]>> \in M
  BY <1>0 DEF Visits
<1>2. Len(s) + 1 \in 1..Len(s) + 1
  BY LenProperties
<1> QED
  BY <1>1, <1>2

\* ... and each of its messages starts past a.
LEMMA PathThrough ==
    ASSUME NEW M, NEW S, NEW s \in Seq(S), NEW a, NEW b, Path(M, s, a, b),
           NEW P, NEW v \in [P -> Int], a \in P,
           \A x \in M : x[1] \in P /\ x[3] \in P /\ v[x[1]] <= v[x[3]],
           NEW i \in 1..Len(s)
    PROVE  \E c \in P, d \in P : <<c, s[i], d>> \in M /\ v[a] <= v[c]
<1>0. Visits(M, s, a, b, P, v)
  <2>1. Rising(M, P, v)
    BY DEF Rising
  <2> QED
    BY <2>1, PathPlaces
<1>1. PICK p : /\ p[1] = a /\ p[Len(s) + 1] = b
               /\ \A n \in 1..Len(s) + 1 : p[n] \in P /\ v[a] <= v[p[n]]
               /\ \A n \in 1..Len(s) : <<p[n], s[n], p[n + 1]>> \in M
  BY <1>0 DEF Visits
<1>2. i \in 1..Len(s) + 1 /\ i + 1 \in 1..Len(s) + 1
  BY LenProperties
<1> QED
  BY <1>1, <1>2
-----------------------------------------------------------------------------
(* Arithmetic of places.                                                   *)

\* What rounding up does.
LEMMA RoundedUp ==
    ASSUME NEW n \in Nat, NEW b \in Nat, b > 0
    PROVE  /\ CeilDiv(n, b) \in Nat /\ CeilDiv(n, b) * b \in Nat
           /\ n <= CeilDiv(n, b) * b /\ CeilDiv(n, b) * b < n + b
           /\ \A q \in Nat : n <= q * b /\ q * b < n + b => q = CeilDiv(n, b)
<1> DEFINE a == n + b - 1
           c == a \div b
<1>1. a \in Nat
  OBVIOUS
<1>2. c \in Nat /\ a = c * b + (a % b) /\ a % b \in 0..b - 1
  BY <1>1, DivMod
<1> DEFINE r == a % b
           p == c * b
<1>3. p \in Nat
  BY <1>2
<1>4. CeilDiv(n, b) = c
  BY DEF CeilDiv
<1> HIDE DEF c, r, p
<1>5. n <= p /\ p < n + b
  BY <1>2, <1>3 DEF p, r
<1> HIDE DEF a
<1>6. ASSUME NEW q \in Nat, n <= q * b, q * b < n + b PROVE q = c
  <2>1. ASSUME q < c PROVE FALSE
    <3>1. (q + 1) * b <= p
      BY <1>2, <2>1 DEF p
    <3>2. (q + 1) * b = q * b + b /\ q * b \in Nat
      OBVIOUS
    <3> QED
      BY <1>3, <1>5, <1>6, <3>1, <3>2
  <2>2. ASSUME c < q PROVE FALSE
    <3>1. (c + 1) * b <= q * b
      BY <1>2, <2>2
    <3>2. (c + 1) * b = p + b /\ q * b \in Nat
      BY <1>2 DEF p
    <3> QED
      BY <1>3, <1>5, <1>6, <3>1, <3>2
  <2> QED
    BY <1>2, <2>1, <2>2
<1> QED
  BY <1>2, <1>3, <1>4, <1>5, <1>6 DEF p

LEMMA RoundedOrder ==
    ASSUME NEW n \in Nat, NEW m \in Nat, n <= m, NEW b \in Nat, b > 0
    PROVE  CeilDiv(n, b) <= CeilDiv(m, b)
<1> DEFINE c == CeilDiv(n, b)
           d == CeilDiv(m, b)
<1>1. c \in Nat /\ c * b \in Nat /\ c * b < n + b
  BY RoundedUp
<1>2. d \in Nat /\ d * b \in Nat /\ m <= d * b
  BY RoundedUp
<1> HIDE DEF c, d
<1>3. ASSUME d < c PROVE FALSE
  <2>1. (d + 1) * b <= c * b
    BY <1>1, <1>2, <1>3
  <2>2. (d + 1) * b = d * b + b
    BY <1>2
  <2> QED
    BY <1>1, <1>2, <2>1, <2>2
<1> QED
  BY <1>1, <1>2, <1>3 DEF c, d

\* A multiple is its quotient times the divisor.
LEMMA Multiple ==
    ASSUME NEW a \in Nat, NEW b \in Nat, b > 0, a % b = 0
    PROVE  a = CeilDiv(a, b) * b
<1> DEFINE q == a \div b
<1>1. q \in Nat /\ a = q * b + (a % b) /\ a % b = 0
  BY DivMod
<1>2. q * b \in Nat
  BY <1>1
<1> HIDE DEF q
<1>3. a = q * b
  BY <1>1, <1>2
<1>4. q = CeilDiv(a, b)
  <2>1. a <= q * b /\ q * b < a + b
    BY <1>2, <1>3
  <2> QED
    BY <1>1, <2>1, RoundedUp
<1> QED
  BY <1>3, <1>4

\* One block more, if it is not empty, is one more.
LEMMA RoundedNext ==
    ASSUME NEW a \in Nat, NEW b \in Nat, b > 0, a % b = 0, NEW e \in Nat, a < e, e <= a + b
    PROVE  CeilDiv(e, b) = CeilDiv(a, b) + 1
<1> DEFINE q == CeilDiv(a, b)
<1>1. q \in Nat /\ a = q * b
  BY Multiple, RoundedUp
<1> HIDE DEF q
<1>2. (q + 1) * b = a + b
  BY <1>1
<1>3. e <= (q + 1) * b /\ (q + 1) * b < e + b /\ q + 1 \in Nat
  BY <1>1, <1>2
<1>4. q + 1 = CeilDiv(e, b)
  BY <1>3, RoundedUp
<1> QED
  BY <1>4 DEF q

\* Whole blocks may be taken off before rounding.
LEMMA RoundedRest ==
    ASSUME NEW a \in Nat, NEW b \in Nat, b > 0, a % b = 0, NEW o \in Nat, a <= o
    PROVE  CeilDiv(o - a, b) = CeilDiv(o, b) - CeilDiv(a, b)
<1> DEFINE q == CeilDiv(a, b)
           c == CeilDiv(o - a, b)
<1>1. q \in Nat /\ a = q * b
  BY Multiple, RoundedUp
<1>2. c \in Nat /\ c * b \in Nat /\ o - a <= c * b /\ c * b < o - a + b
  <2>1. o - a \in Nat
    OBVIOUS
  <2> QED
    BY <2>1, RoundedUp
<1> HIDE DEF q, c
<1>3. (q + c) * b = a + c * b
  BY <1>1, <1>2
<1>4. q + c \in Nat /\ o <= (q + c) * b /\ (q + c) * b < o + b
  BY <1>1, <1>2, <1>3
<1>5. q + c = CeilDiv(o, b)
  BY <1>4, RoundedUp
<1> QED
  BY <1>1, <1>2, <1>5 DEF q, c

\* A block has no more packets than fit.
LEMMA PacketsFit ==
    /\ Block \div Frame \in Nat /\ Block \div Frame >= 1 /\ Block = (Block \div Frame) * Frame
    /\ Hashes \in 0..1 /\ PacketsPerBlock \in Nat /\ PacketsPerBlock = Hashes + Block \div Frame
    /\ \A n \in Nat : n <= Block => CeilDiv(n, Frame) <= Block \div Frame
<1> DEFINE q == Block \div Frame
<1>1. Block \in Nat /\ Frame \in Nat /\ Frame > 0 /\ Block > 0 /\ Block % Frame = 0
  BY FlowControlAssumption
<1>2. q \in Nat /\ Block = q * Frame
  <2>1. q \in Nat /\ Block = q * Frame + (Block % Frame)
    BY <1>1, DivMod
  <2>2. q * Frame \in Nat
    BY <1>1, <2>1
  <2> HIDE DEF q
  <2> QED
    BY <1>1, <2>1, <2>2
<1> HIDE DEF q
<1>3. q >= 1
  BY <1>1, <1>2
<1>4. q = CeilDiv(Block, Frame)
  <2>1. Block <= q * Frame /\ q * Frame < Block + Frame
    BY <1>1, <1>2
  <2> QED
    BY <1>1, <1>2, <2>1, RoundedUp
<1>5. \A n \in Nat : n <= Block => CeilDiv(n, Frame) <= q
  BY <1>1, <1>4, RoundedOrder
<1>6. Hashes \in 0..1
  BY DEF Hashes
<1> QED
  BY <1>2, <1>3, <1>5, <1>6 DEF q, PacketsPerBlock

\* The packets of a block: a hash if there is one, then frames.
LEMMA PartsOfBlock ==
    ASSUME NEW f \in Files, NEW a \in Nat, Aligned(f, a), a < Size[f],
           NEW n, n = BlockEnd(f, a) - a, NEW i \in 1..Len(BlockPackets(f, a))
    PROVE  /\ Len(BlockPackets(f, a)) = Hashes + CeilDiv(n, Frame)
           /\ i <= Hashes => Streaming /\ BlockPackets(f, a)[i] = Msg("Hash", f, a, 0)
           /\ i > Hashes => BlockPackets(f, a)[i] =
                 Msg("Data", f, a + (i - Hashes - 1) * Frame,
                     Least(n - (i - Hashes - 1) * Frame, Frame))
<1> DEFINE c == CeilDiv(n, Frame)
           hash == IF Streaming THEN <<Msg("Hash", f, a, 0)>> ELSE <<>>
           D(j) == Msg("Data", f, a + (j - 1) * Frame, Least(n - (j - 1) * Frame, Frame))
           data == [j \in 1..c |-> D(j)]
           h == Hashes
<1>1. BlockPackets(f, a) = hash \o data
  BY DEF BlockPackets
<1>2. n \in Nat /\ c \in Nat
  <2>1. BlockEnd(f, a) \in Nat /\ a <= BlockEnd(f, a)
    BY NextBlock, Sizes
  <2>2. n \in Nat
    BY <2>1
  <2> QED
    BY <2>2, Constants, AtLeastOne
<1>3. h \in 0..1
  BY DEF Hashes
<1> DEFINE M == {Msg("Hash", f, a, 0)} \cup {D(j) : j \in 1..c}
<1>4. data \in Seq(M) /\ Len(data) = c
  <2> HIDE DEF D
  <2>1. data \in [1..c -> M]
    OBVIOUS
  <2>2. data \in Seq(M)
    BY <1>2, <2>1, SeqDef
  <2> QED
    BY <1>2, <2>1, <2>2, LenProperties
<1>5. \A j \in 1..c : data[j] = D(j)
  OBVIOUS
<1>6. hash \in Seq(M) /\ Len(hash) = h /\ (1 <= h => Streaming /\ hash[1] = Msg("Hash", f, a, 0))
  <2>1. Msg("Hash", f, a, 0) \in M
    OBVIOUS
  <2> HIDE DEF M
  <2>2. CASE Streaming
    BY <2>1, <2>2 DEF Hashes
  <2>3. CASE ~Streaming
    BY <2>3 DEF Hashes
  <2> QED
    BY <2>2, <2>3
<1> HIDE DEF hash, data, c, h, M, D
<1>7. /\ Len(hash \o data) = h + c
      /\ \A j \in 1..h + c : (hash \o data)[j] = IF j <= h THEN hash[j] ELSE data[j - h]
  BY <1>4, <1>6, ConcatProperties
<1>8. i \in 1..h + c
  BY <1>1, <1>7
<1>9. ASSUME i <= h PROVE Streaming /\ BlockPackets(f, a)[i] = Msg("Hash", f, a, 0)
  <2>1. i = 1 /\ 1 <= h
    BY <1>3, <1>8, <1>9
  <2> QED
    BY <1>1, <1>6, <1>7, <1>8, <2>1
<1>10. ASSUME i > h PROVE BlockPackets(f, a)[i] = D(i - h)
  <2>1. i - h \in 1..c /\ ~(i <= h)
    BY <1>2, <1>3, <1>8, <1>10
  <2> QED
    BY <1>1, <1>5, <1>7, <1>8, <2>1
<1> QED
  BY <1>1, <1>7, <1>9, <1>10 DEF h, c, D
\* The four ways on.
Advance(f, c, m, d) ==
    \/ /\ m.kind = "Open" /\ c.at = "open" /\ d = Place("fill", c.offset, 0)
    \/ /\ m.kind = "Hash" /\ c.at = "fill" /\ Streaming /\ c.offset < Size[f] /\ c.queued = 0
       /\ m.offset = c.offset /\ d = Place("fill", c.offset, 1)
    \/ /\ m.kind = "Data" /\ c.at = "fill" /\ c.offset < Size[f]
       /\ Streaming => c.queued > 0
       /\ m.offset = Bytes(c) /\ m.length <= Frame
       /\ \/ d = Place("fill", BlockEnd(f, c.offset), 0)
          \/ d = Place("fill", c.offset, c.queued + 1) /\ Bytes(d) < BlockEnd(f, c.offset)
    \/ /\ m = Msg("Close", f, 0, 0) /\ c.at = "fill" /\ c.offset = Size[f]
       /\ d = Place("closed", c.offset, 0)

LEMMA PlaceIs ==
    ASSUME NEW f \in Files, NEW c \in Places(f)
    PROVE  /\ c.at \in {"open", "fill", "closed"} /\ c.offset \in Nat /\ c.queued \in Nat
           /\ c.offset <= Size[f] /\ Aligned(f, c.offset) /\ Size[f] \in Nat
           /\ c.offset < Size[f] => c.queued < Len(BlockPackets(f, c.offset))
           /\ c.offset = Size[f] \/ c.at = "open" => c.queued = 0
           /\ c.at = "closed" => c.offset = Size[f]
  BY Sizes DEF Places

LEMMA PlaceFields ==
    ASSUME NEW at, NEW offset, NEW queued
    PROVE  /\ Place(at, offset, queued).at = at /\ Place(at, offset, queued).offset = offset
           /\ Place(at, offset, queued).queued = queued
  BY DEF Place

\* A place with no packet of its block queued.
LEMMA PlaceAtBlock ==
    ASSUME NEW f \in Files, NEW o \in Nat, o <= Size[f], Aligned(f, o),
           NEW at \in {"open", "fill", "closed"}, at = "closed" => o = Size[f]
    PROVE  Place(at, o, 0) \in Places(f) /\ Bytes(Place(at, o, 0)) = o
<1>1. o < Size[f] => 0 < Len(BlockPackets(f, o))
  BY PacketsOfBlock
<1> DEFINE c == Place(at, o, 0)
<1>2. c.at = at /\ c.offset = o /\ c.queued = 0
  BY PlaceFields
<1>3. c \in [at : {"open", "fill", "closed"}, offset : Nat, queued : Nat]
  BY DEF Place
<1> HIDE DEF c
<1>4. c \in Places(f) /\ Bytes(c) = o
  BY <1>1, <1>2, <1>3 DEF Places, Bytes
<1> QED
  BY <1>4 DEF c

LEMMA RankIs ==
    ASSUME NEW f \in Files, NEW c \in Places(f)
    PROVE  /\ CeilDiv(c.offset, Block) \in Nat /\ CeilDiv(c.offset, Block) * PacketsPerBlock \in Nat
           /\ Rank(f, c) \in Nat
           /\ c.at = "open" <=> Rank(f, c) = 0
           /\ c.at = "fill" =>
                 Rank(f, c) = CeilDiv(c.offset, Block) * PacketsPerBlock + c.queued + 1
           /\ c.at = "closed" =>
                 Rank(f, c) = CeilDiv(c.offset, Block) * PacketsPerBlock + c.queued + 2
<1>1. /\ c.at \in {"open", "fill", "closed"} /\ c.offset \in Nat /\ c.queued \in Nat
  BY PlaceIs
<1> DEFINE q == CeilDiv(c.offset, Block)
           p == q * PacketsPerBlock
<1>2. q \in Nat
  BY <1>1, AtLeastOne, Constants
<1>3. p \in Nat
  BY <1>2, PacketsFit
<1>4. Rank(f, c) = IF c.at = "open" THEN 0
                   ELSE p + c.queued + (IF c.at = "fill" THEN 1 ELSE 2)
  BY DEF Rank
<1> HIDE DEF p
<1>5. /\ Rank(f, c) \in Nat
      /\ c.at = "open" <=> Rank(f, c) = 0
      /\ c.at = "fill" => Rank(f, c) = p + c.queued + 1
      /\ c.at = "closed" => Rank(f, c) = p + c.queued + 2
  BY <1>1, <1>3, <1>4
<1> QED
  BY <1>2, <1>3, <1>5 DEF p

\* One packet of a block.
LEMMA MovesPacket ==
    ASSUME NEW f \in Files, NEW c \in Places(f), NEW m, NEW d,
           c.at = "fill", c.offset < Size[f],
           m = BlockPackets(f, c.offset)[c.queued + 1],
           d = IF c.queued + 1 = Len(BlockPackets(f, c.offset))
               THEN Place("fill", BlockEnd(f, c.offset), 0)
               ELSE Place("fill", c.offset, c.queued + 1)
    PROVE  /\ d \in Places(f) /\ m \in StreamMessages /\ m.file = f
           /\ Rank(f, c) + 1 <= Rank(f, d)
           /\ Bytes(c) \in Nat /\ m.length \in Nat /\ Bytes(d) = Bytes(c) + m.length
           /\ c.offset <= d.offset
           /\ Advance(f, c, m, d)
<1> DEFINE o == c.offset
           k == c.queued
           e == BlockEnd(f, o)
           n == e - o
           h == Hashes
           N == CeilDiv(n, Frame)
           L == Len(BlockPackets(f, o))
<1>1. /\ o \in Nat /\ k \in Nat /\ o <= Size[f] /\ Aligned(f, o) /\ Size[f] \in Nat /\ k < L
  BY PlaceIs
<1>2. L \in Nat /\ BlockPackets(f, o) \in Seq(StreamMessages)
  BY <1>1, PacketsOfBlock, LenProperties
<1>3. k + 1 \in 1..L
  BY <1>1, <1>2
<1>4. m \in StreamMessages /\ m.file = f
  <2>1. BlockPackets(f, o)[k + 1] \in StreamMessages
    BY <1>2, <1>3, ElementOfSeq
  <2> QED
    BY <1>1, <1>3, <2>1, PacketsOfBlock
<1>5. /\ e \in Nat /\ e <= Size[f] /\ o < e /\ Aligned(f, e) /\ e <= o + Block /\ n \in Nat /\ n > 0
      /\ n <= Block
  <2>1. /\ e \in Nat /\ e <= Size[f] /\ o < e /\ Aligned(f, e) /\ e - o <= Block
    BY <1>1, NextBlock
  <2> HIDE DEF e, o
  <2> QED
    BY <1>1, <2>1, Constants DEF o
<1>6. /\ L = h + N
      /\ k + 1 <= h => Streaming /\ m = Msg("Hash", f, o, 0)
      /\ k + 1 > h => m = Msg("Data", f, o + ((k + 1) - h - 1) * Frame,
                                        Least(n - ((k + 1) - h - 1) * Frame, Frame))
  <2>1. o < Size[f] /\ n = BlockEnd(f, o) - o /\ o \in Nat /\ Aligned(f, o)
    BY <1>1
  <2>2. k + 1 \in 1..Len(BlockPackets(f, o))
    BY <1>3
  <2> HIDE DEF n, o, k
  <2>3. \A i \in 1..Len(BlockPackets(f, o)) :
           /\ Len(BlockPackets(f, o)) = Hashes + CeilDiv(n, Frame)
           /\ i <= Hashes => Streaming /\ BlockPackets(f, o)[i] = Msg("Hash", f, o, 0)
           /\ i > Hashes => BlockPackets(f, o)[i] =
                 Msg("Data", f, o + (i - Hashes - 1) * Frame,
                     Least(n - (i - Hashes - 1) * Frame, Frame))
    BY <2>1, PartsOfBlock
  <2>4. m = BlockPackets(f, o)[k + 1]
    BY DEF o, k
  <2> QED
    BY <2>2, <2>3, <2>4, Zenon
<1>7. N \in Nat /\ N >= 1 /\ N * Frame \in Nat /\ n <= N * Frame /\ N * Frame < n + Frame
  <2> HIDE DEF n
  <2>1. N \in Nat /\ N >= 1
    BY <1>5, Constants, AtLeastOne
  <2>2. N * Frame \in Nat /\ n <= N * Frame /\ N * Frame < n + Frame
    BY <1>5, Constants, RoundedUp
  <2> QED
    BY <2>1, <2>2
<1>8. N <= Block \div Frame /\ h \in 0..1 /\ PacketsPerBlock = h + Block \div Frame
      /\ Block \div Frame \in Nat
  <2> HIDE DEF n
  <2> QED
    BY <1>5, PacketsFit
<1>9. /\ d = IF k + 1 = L THEN Place("fill", e, 0) ELSE Place("fill", o, k + 1)
      /\ Bytes(c) = IF k = 0 THEN o ELSE o + (k - h) * Frame
  BY DEF Bytes
<1>10. Frame \in Nat /\ Frame > 0
  BY Constants
<1>11. /\ c.at = "fill" /\ c.offset = o /\ c.queued = k
  OBVIOUS
<1>12. Rank(f, c) = CeilDiv(o, Block) * PacketsPerBlock + k + 1 /\ CeilDiv(o, Block) \in Nat
       /\ CeilDiv(o, Block) * PacketsPerBlock \in Nat
  BY RankIs
<1>13. CeilDiv(e, Block) = CeilDiv(o, Block) + 1
  <2>1. o % Block = 0
    BY <1>1 DEF Aligned
  <2> HIDE DEF o, e
  <2> QED
    BY <1>1, <1>5, <2>1, Constants, RoundedNext
<1>14. BlockEnd(f, o) = e
  OBVIOUS
<1>15. k + 1 = L \/ k + 1 < L
  BY <1>1, <1>2
<1>16. n = e - o
  OBVIOUS
<1>17. L = Len(BlockPackets(f, o))
  OBVIOUS
<1> HIDE DEF o, k, e, n, h, N, L
<1>20. CASE k + 1 = L
  <2>1. d = Place("fill", e, 0)
    BY <1>9, <1>20
  <2>2. d \in Places(f) /\ Bytes(d) = e
    BY <1>5, <2>1, PlaceAtBlock
  <2>3. d.at = "fill" /\ d.offset = e /\ d.queued = 0
    BY <2>1, PlaceFields
  <2>4. k + 1 > h /\ (k + 1) - h - 1 = N - 1 /\ k < PacketsPerBlock
    BY <1>1, <1>6, <1>7, <1>8, <1>20
  <2>5. m = Msg("Data", f, o + (N - 1) * Frame, Least(n - (N - 1) * Frame, Frame))
    BY <1>6, <2>4
  <2> DEFINE s == (N - 1) * Frame
  <2>6. s = N * Frame - Frame /\ s \in Nat
    <3>1. s = N * Frame - Frame
      BY <1>7, <1>10
    <3>2. s \in Nat
      BY <1>7, <1>10
    <3> QED
      BY <3>1, <3>2
  <2>7. Bytes(c) = o + s
    <3>1. CASE k = 0
      <4>1. N = 1
        BY <1>6, <1>7, <1>8, <1>20, <3>1
      <4>2. s = 0
        BY <1>10, <4>1
      <4> QED
        BY <1>1, <1>9, <3>1, <4>2
    <3>2. CASE k # 0
      <4>1. k - h = N - 1
        BY <1>1, <1>6, <1>7, <1>8, <1>20
      <4> QED
        BY <1>9, <3>2, <4>1
    <3> QED
      BY <3>1, <3>2
  <2> HIDE DEF s
  <2>8. n - s <= Frame /\ n - s > 0
    BY <1>5, <1>7, <1>10, <2>6
  <2>9. m = Msg("Data", f, o + s, n - s)
    BY <1>5, <1>10, <2>5, <2>6, <2>8 DEF Least, s
  <2>10. m.kind = "Data" /\ m.offset = o + s /\ m.length = n - s
    BY <2>9 DEF Msg
  <2>11. Rank(f, d) = CeilDiv(e, Block) * PacketsPerBlock + 1
    BY <2>2, <2>3, RankIs
  <2>12. CeilDiv(e, Block) * PacketsPerBlock = CeilDiv(o, Block) * PacketsPerBlock + PacketsPerBlock
    <3>1. \A x \in Nat, y \in Nat : (x + 1) * y = x * y + y
      OBVIOUS
    <3>2. PacketsPerBlock \in Nat
      BY <1>8
    <3> QED
      BY <1>12, <1>13, <3>1, <3>2
  <2>13. Rank(f, c) + 1 <= Rank(f, d)
    <3> DEFINE p == CeilDiv(o, Block) * PacketsPerBlock
    <3>1. p \in Nat /\ Rank(f, c) = p + k + 1 /\ Rank(f, d) = p + PacketsPerBlock + 1
      BY <1>12, <2>11, <2>12
    <3> HIDE DEF p
    <3> QED
      BY <1>1, <1>8, <2>4, <3>1
  <2>14. Streaming => k > 0
    <3>1. Streaming => h = 1
      BY DEF h, Hashes
    <3> QED
      BY <1>1, <2>4, <3>1
  <2>15. Advance(f, c, m, d)
    BY <1>11, <1>14, <2>1, <2>7, <2>8, <2>10, <2>14 DEF Advance
  <2>16. Bytes(c) \in Nat /\ m.length \in Nat /\ Bytes(d) = Bytes(c) + m.length
    BY <1>1, <1>5, <1>16, <2>2, <2>6, <2>7, <2>8, <2>10
  <2>17. c.offset <= d.offset
    BY <1>1, <1>5, <1>11, <2>3
  <2> QED
    BY <1>4, <2>2, <2>13, <2>15, <2>16, <2>17
<1>21. CASE k + 1 < L
  <2>1. d = Place("fill", o, k + 1)
    BY <1>1, <1>2, <1>9, <1>21
  <2>2. d.at = "fill" /\ d.offset = o /\ d.queued = k + 1
    BY <2>1, PlaceFields
  <2>3. d \in Places(f)
    <3>1. d \in [at : {"open", "fill", "closed"}, offset : Nat, queued : Nat]
      BY <1>1, <2>1 DEF Place
    <3>2. o < Size[f] /\ k + 1 < Len(BlockPackets(f, o))
      BY <1>11, <1>17, <1>21
    <3>3. o # Size[f]
      BY <1>1, <3>2
    <3> QED
      BY <1>1, <2>2, <3>1, <3>2, <3>3 DEF Places
  <2>4. Rank(f, d) = CeilDiv(o, Block) * PacketsPerBlock + (k + 1) + 1
    BY <2>2, <2>3, RankIs
  <2>5. Rank(f, c) + 1 <= Rank(f, d)
    <3> DEFINE p == CeilDiv(o, Block) * PacketsPerBlock
    <3>1. p \in Nat /\ Rank(f, c) = p + k + 1 /\ Rank(f, d) = p + (k + 1) + 1
      BY <1>12, <2>4
    <3> HIDE DEF p
    <3> QED
      BY <1>1, <3>1
  <2>6. Bytes(d) = o + ((k + 1) - h) * Frame
    <3>1. Bytes(d) = IF k + 1 = 0 THEN o ELSE o + ((k + 1) - h) * Frame
      BY <2>2 DEF Bytes, h
    <3> QED
      BY <1>1, <3>1
  <2>7. CASE k + 1 <= h
    <3>1. h = 1 /\ k = 0
      BY <1>1, <1>8, <2>7
    <3>2. Bytes(c) = o /\ Bytes(d) = o
      BY <1>1, <1>9, <1>10, <2>6, <3>1
    <3>3. Streaming /\ m.kind = "Hash" /\ m.offset = o /\ m.length = 0
      BY <1>6, <2>7 DEF Msg
    <3>4. Advance(f, c, m, d)
      BY <1>11, <2>1, <3>1, <3>3 DEF Advance
    <3>5. c.offset <= d.offset
      BY <1>1, <1>11, <2>2
    <3>6. Bytes(c) \in Nat /\ m.length \in Nat /\ Bytes(d) = Bytes(c) + m.length
      BY <1>1, <3>2, <3>3
    <3> QED
      BY <1>4, <2>3, <2>5, <3>4, <3>5, <3>6
  <2>8. CASE k + 1 > h
    <3> DEFINE j == k - h
               s == j * Frame
    <3>1. j \in Nat /\ (k + 1) - h - 1 = j /\ (k + 1) - h = j + 1 /\ j + 1 <= N - 1
      BY <1>1, <1>6, <1>7, <1>8, <1>21, <2>8
    <3>2. m = Msg("Data", f, o + s, Least(n - s, Frame))
      BY <1>6, <2>8, <3>1
    <3>3. Bytes(c) = o + s
      <4>1. CASE k = 0
        <5>1. j = 0
          BY <1>8, <2>8, <3>1, <4>1
        <5>2. s = 0
          BY <1>10, <5>1
        <5> QED
          BY <1>1, <1>9, <4>1, <5>2
      <4>2. CASE k # 0
        BY <1>9, <4>2
      <4> QED
        BY <4>1, <4>2
    <3>4. Bytes(d) = o + (j + 1) * Frame
      BY <2>6, <3>1
    <3> HIDE DEF j
    <3>5. (j + 1) * Frame = s + Frame /\ s \in Nat
      BY <1>10, <3>1
    <3>6. (j + 1) * Frame <= (N - 1) * Frame
      BY <1>7, <1>10, <3>1
    <3>7. (N - 1) * Frame = N * Frame - Frame
      BY <1>7, <1>10
    <3> HIDE DEF s
    <3>8. s + Frame < n
      BY <1>5, <1>7, <1>10, <3>5, <3>6, <3>7
    <3>9. Least(n - s, Frame) = Frame
      BY <1>5, <1>10, <3>5, <3>8 DEF Least
    <3>10. m.kind = "Data" /\ m.offset = o + s /\ m.length = Frame
      BY <3>2, <3>9 DEF Msg
    <3>11. Streaming => k > 0
      <4>1. Streaming => h = 1
        BY DEF h, Hashes
      <4> QED
        BY <1>1, <2>8, <4>1
    <3>12. Bytes(d) < e /\ Bytes(d) = o + s + Frame
      BY <1>1, <1>5, <1>10, <1>16, <3>4, <3>5, <3>8
    <3>13. m.length <= Frame
      BY <1>10, <3>10
    <3>14. Advance(f, c, m, d)
      BY <1>11, <1>14, <2>1, <3>3, <3>10, <3>11, <3>12, <3>13 DEF Advance
    <3>15. c.offset <= d.offset
      BY <1>1, <1>11, <2>2
    <3>16. Bytes(c) \in Nat /\ m.length \in Nat /\ Bytes(d) = Bytes(c) + m.length
      BY <1>1, <1>10, <3>3, <3>5, <3>10, <3>12
    <3> QED
      BY <1>4, <2>3, <2>5, <3>14, <3>15, <3>16
  <2> QED
    BY <1>1, <1>8, <2>7, <2>8
<1> QED
  BY <1>15, <1>20, <1>21
\* A path does not leave P if no message does.
LEMMA PathEnds ==
    ASSUME NEW M, NEW S, NEW s \in Seq(S), NEW a, NEW b, Path(M, s, a, b),
           NEW P, a \in P, \A x \in M : x[1] \in P /\ x[3] \in P
    PROVE  b \in P
<1> DEFINE v == [c \in P |-> 0]
<1>1. v \in [P -> Int] /\ \A c \in P : v[c] = 0
  OBVIOUS
<1> HIDE DEF v
<1>2. \A x \in M : x[1] \in P /\ x[3] \in P /\ v[x[1]] <= v[x[3]]
  BY <1>1
<1> QED
  BY <1>1, <1>2, PathRises

\* If each message of a path rises by one at least, the path is no longer than it
\* is high.
LEMMA PathCounts ==
    ASSUME NEW M, NEW S, NEW s \in Seq(S), NEW a, NEW b, Path(M, s, a, b),
           NEW P, NEW v \in [P -> Int], a \in P,
           \A x \in M : x[1] \in P /\ x[3] \in P,
           \A i \in 1..Len(s) : \A x \in M : x[2] = s[i] => v[x[1]] + 1 <= v[x[3]]
    PROVE  b \in P /\ v[a] + Len(s) <= v[b]
<1> DEFINE l == Len(s)
<1>1. l \in Nat
  BY LenProperties
<1>2. PICK p : /\ p[1] = a /\ p[l + 1] = b
               /\ \A i \in 1..l : <<p[i], s[i], p[i + 1]>> \in M
  BY DEF Path
<1> HIDE DEF l
<1>3. \A i \in 1..l : p[i] \in P /\ p[i + 1] \in P /\ v[p[i]] + 1 <= v[p[i + 1]]
  <2> SUFFICES ASSUME NEW i \in 1..l
               PROVE  p[i] \in P /\ p[i + 1] \in P /\ v[p[i]] + 1 <= v[p[i + 1]]
    OBVIOUS
  <2> DEFINE x == <<p[i], s[i], p[i + 1]>>
  <2>1. x \in M
    BY <1>2
  <2>2. x[1] = p[i] /\ x[2] = s[i] /\ x[3] = p[i + 1]
    OBVIOUS
  <2>3. i \in 1..Len(s)
    BY DEF l
  <2> HIDE DEF x
  <2> QED
    BY <2>1, <2>2, <2>3
<1> DEFINE B == {n \in 1..l + 1 : ~(p[n] \in P /\ v[a] + (n - 1) <= v[p[n]])}
<1>4. ASSUME NEW n \in B PROVE \E m \in B : m < n
  <2>0. n \in 1..l + 1 /\ ~(p[n] \in P /\ v[a] + (n - 1) <= v[p[n]])
    OBVIOUS
  <2>1. n # 1
    <3> SUFFICES ASSUME n = 1 PROVE FALSE
      OBVIOUS
    <3>1. p[1] = a /\ v[a] \in Int
      BY <1>2
    <3> QED
      BY <2>0, <3>1
  <2>2. n - 1 \in 1..l /\ n - 1 \in 1..l + 1 /\ n - 1 < n /\ (n - 1) + 1 = n
    BY <1>1, <2>0, <2>1
  <2>3. p[n - 1] \in P /\ p[n] \in P /\ v[p[n - 1]] + 1 <= v[p[n]]
    BY <1>3, <2>2
  <2>4. v[a] \in Int /\ v[p[n - 1]] \in Int /\ v[p[n]] \in Int
    BY <2>3
  <2>5. ~(v[a] + ((n - 1) - 1) <= v[p[n - 1]])
    BY <2>0, <2>3, <2>4
  <2>6. n - 1 \in B
    BY <2>2, <2>5
  <2> QED
    BY <2>2, <2>6
<1>5. B \in SUBSET Nat
  BY <1>1
<1>6. B = {}
  <2> HIDE DEF B
  <2> QED
    BY <1>4, <1>5, NoFirst
<1>7. \A n \in 1..l + 1 : p[n] \in P /\ v[a] + (n - 1) <= v[p[n]]
  BY <1>6
<1> HIDE DEF B
<1>8. l + 1 \in 1..l + 1 /\ (l + 1) - 1 = l
  BY <1>1
<1>9. p[l + 1] \in P /\ v[a] + l <= v[p[l + 1]]
  BY <1>7, <1>8
<1> QED
  BY <1>2, <1>9 DEF l

\* Messages that change nothing lead nowhere.
LEMMA PathStill ==
    ASSUME NEW M, NEW S, NEW s \in Seq(S), NEW a,
           \A i \in 1..Len(s) : <<a, s[i], a>> \in M
    PROVE  Path(M, s, a, a)
<1> DEFINE l == Len(s)
           p == [i \in 1..l + 1 |-> a]
<1>1. l \in Nat
  BY LenProperties
<1>2. \A i \in 1..l + 1 : p[i] = a
  OBVIOUS
<1>3. 1 \in 1..l + 1 /\ l + 1 \in 1..l + 1
  BY <1>1
<1>4. ASSUME NEW i \in 1..l PROVE <<p[i], s[i], p[i + 1]>> \in M
  <2>1. i \in 1..l + 1 /\ i + 1 \in 1..l + 1
    BY <1>1
  <2>2. p[i] = a /\ p[i + 1] = a
    BY <1>2, <2>1
  <2>3. <<a, s[i], a>> \in M
    OBVIOUS
  <2> HIDE DEF p
  <2> QED
    BY <2>2, <2>3
<1> HIDE DEF p
<1>5. p[1] = a /\ p[Len(s) + 1] = a
  BY <1>2, <1>3
<1> QED
  BY <1>4, <1>5 DEF Path

LEMMA SendsIs ==
    ASSUME NEW f \in Files, NEW c, NEW m, NEW d
    PROVE  <<c, m, d>> \in Sends(f) <=>
              /\ c \in Places(f) /\ m \in Messages /\ d \in Places(f)
              /\ IF m.file = f THEN Moves(f, c, m, d) ELSE d = c
<1> DEFINE x == <<c, m, d>>
<1>1. x[1] = c /\ x[2] = m /\ x[3] = d
  OBVIOUS
<1>2. x \in Places(f) \X Messages \X Places(f) <=>
         c \in Places(f) /\ m \in Messages /\ d \in Places(f)
  OBVIOUS
<1> HIDE DEF x
<1>3. x \in Sends(f) <=> /\ x \in Places(f) \X Messages \X Places(f)
                         /\ IF x[2].file = f THEN Moves(f, x[1], x[2], x[3]) ELSE x[3] = x[1]
  BY DEF Sends
<1>4. x \in Sends(f) <=>
              /\ c \in Places(f) /\ m \in Messages /\ d \in Places(f)
              /\ IF m.file = f THEN Moves(f, c, m, d) ELSE d = c
  BY <1>1, <1>2, <1>3
<1> QED
  BY <1>4 DEF x

LEMMA SendsTriple ==
    ASSUME NEW f \in Files, NEW x \in Sends(f)
    PROVE  x[1] \in Places(f) /\ x[3] \in Places(f) /\ x = <<x[1], x[2], x[3]>>
  BY DEF Sends

LEMMA MovesIs ==
    ASSUME NEW f \in Files, NEW c \in Places(f), NEW m, NEW d, Moves(f, c, m, d)
    PROVE  /\ d \in Places(f) /\ m \in StreamMessages /\ m.file = f
           /\ Rank(f, c) + 1 <= Rank(f, d)
           /\ Bytes(c) \in Nat /\ m.length \in Nat /\ Bytes(d) = Bytes(c) + m.length
           /\ c.offset <= d.offset
           /\ Advance(f, c, m, d)
<1>1. /\ c.at \in {"open", "fill", "closed"} /\ c.offset \in Nat /\ c.queued \in Nat
      /\ c.offset <= Size[f] /\ Aligned(f, c.offset) /\ Size[f] \in Nat
      /\ c.offset = Size[f] \/ c.at = "open" => c.queued = 0
  BY PlaceIs
<1>2. CASE c.at = "open" /\ m = Msg("Open", f, 0, 0) /\ d = Place("fill", c.offset, 0)
  <2>1. d \in Places(f) /\ Bytes(d) = c.offset
    BY <1>1, <1>2, PlaceAtBlock
  <2>2. Bytes(c) = c.offset
    BY <1>1, <1>2 DEF Bytes
  <2>3. d.offset = c.offset /\ d.at = "fill"
    BY <1>2, PlaceFields
  <2>4. Rank(f, c) = 0 /\ Rank(f, d) \in Nat /\ Rank(f, d) # 0
    BY <1>2, <2>1, <2>3, RankIs
  <2>5. m \in StreamMessages /\ m.file = f /\ m.length = 0 /\ m.kind = "Open"
    BY <1>2 DEF Msg, StreamMessages, StreamKinds
  <2>6. Advance(f, c, m, d)
    BY <1>2, <2>5 DEF Advance
  <2> QED
    BY <1>1, <2>1, <2>2, <2>3, <2>4, <2>5, <2>6
<1>3. CASE /\ c.at = "fill" /\ c.offset < Size[f]
           /\ m = BlockPackets(f, c.offset)[c.queued + 1]
           /\ d = IF c.queued + 1 = Len(BlockPackets(f, c.offset))
                  THEN Place("fill", BlockEnd(f, c.offset), 0)
                  ELSE Place("fill", c.offset, c.queued + 1)
  BY <1>3, MovesPacket
<1>4. CASE /\ c.at = "fill" /\ c.offset = Size[f]
           /\ m = Msg("Close", f, 0, 0) /\ d = Place("closed", c.offset, 0)
  <2>1. d \in Places(f) /\ Bytes(d) = c.offset
    BY <1>1, <1>4, PlaceAtBlock
  <2>2. Bytes(c) = c.offset /\ c.queued = 0
    BY <1>1, <1>4 DEF Bytes
  <2>3. d.offset = c.offset /\ d.at = "closed" /\ d.queued = 0
    BY <1>4, PlaceFields
  <2>4. Rank(f, c) + 1 <= Rank(f, d)
    <3> DEFINE p == CeilDiv(c.offset, Block) * PacketsPerBlock
    <3>1. Rank(f, c) = p + c.queued + 1 /\ p \in Nat
      BY <1>4, RankIs
    <3>2. Rank(f, d) = p + d.queued + 2
      BY <2>1, <2>3, RankIs
    <3> HIDE DEF p
    <3> QED
      BY <2>2, <2>3, <3>1, <3>2
  <2>5. m \in StreamMessages /\ m.file = f /\ m.length = 0 /\ m.kind = "Close"
    BY <1>4 DEF Msg, StreamMessages, StreamKinds
  <2>6. Advance(f, c, m, d)
    BY <1>4 DEF Advance
  <2> QED
    BY <1>1, <2>1, <2>2, <2>3, <2>4, <2>5, <2>6
<1> QED
  BY <1>2, <1>3, <1>4 DEF Moves

LEMMA PlaceNumbers ==
    ASSUME NEW f \in Files, NEW c \in Places(f)
    PROVE  Rank(f, c) \in Nat /\ Bytes(c) \in Int /\ c.offset \in Nat
<1>1. Rank(f, c) \in Nat /\ c.offset \in Nat /\ c.queued \in Nat
  BY RankIs, PlaceIs
<1>2. Frame \in Nat /\ Hashes \in Int
  BY PacketsFit, Constants
<1>3. Bytes(c) \in Int
  BY <1>1, <1>2 DEF Bytes
<1> QED
  BY <1>1, <1>3

\* A stream goes forward.
LEMMA SendsRise ==
    ASSUME NEW f \in Files, NEW s \in Seq(Messages), NEW a \in Places(f), NEW b,
           Path(Sends(f), s, a, b)
    PROVE  /\ b \in Places(f) /\ Rank(f, a) <= Rank(f, b) /\ Bytes(a) <= Bytes(b)
           /\ a.offset <= b.offset
           /\ (\A i \in 1..Len(s) : s[i].file = f) => Rank(f, a) + Len(s) <= Rank(f, b)
<1> DEFINE P == Places(f)
           M == Sends(f)
           v == [c \in P |-> Rank(f, c)]
           w == [c \in P |-> Bytes(c)]
           o == [c \in P |-> c.offset]
<1>1. \A c \in P : Rank(f, c) \in Int /\ c.offset \in Int
  BY PlaceNumbers
<1>2. \A c \in P : Bytes(c) \in Int
  BY PlaceNumbers
<1>3. v \in [P -> Int] /\ w \in [P -> Int] /\ o \in [P -> Int]
  BY <1>1, <1>2
<1>4. ASSUME NEW x \in M
      PROVE  /\ x[1] \in P /\ x[3] \in P
             /\ Rank(f, x[1]) <= Rank(f, x[3]) /\ Bytes(x[1]) <= Bytes(x[3])
             /\ x[1].offset <= x[3].offset
             /\ x[2].file = f => Rank(f, x[1]) + 1 <= Rank(f, x[3])
  <2>1. x[1] \in P /\ x[3] \in P /\ x = <<x[1], x[2], x[3]>>
    BY SendsTriple
  <2>2. IF x[2].file = f THEN Moves(f, x[1], x[2], x[3]) ELSE x[3] = x[1]
    BY <2>1, SendsIs
  <2>3. CASE x[2].file = f
    <3>1. Moves(f, x[1], x[2], x[3])
      BY <2>2, <2>3
    <3> HIDE DEF P
    <3>2. /\ Rank(f, x[1]) + 1 <= Rank(f, x[3])
          /\ Bytes(x[1]) \in Nat /\ x[2].length \in Nat /\ Bytes(x[3]) = Bytes(x[1]) + x[2].length
          /\ x[1].offset <= x[3].offset
      BY <2>1, <3>1, MovesIs DEF P
    <3> QED
      BY <1>1, <2>1, <3>2
  <2>4. CASE x[2].file # f
    <3>1. x[3] = x[1]
      BY <2>2, <2>4
    <3> QED
      BY <1>1, <1>2, <2>1, <2>4, <3>1
  <2> QED
    BY <2>3, <2>4
<1>5. \A c \in P : v[c] = Rank(f, c) /\ w[c] = Bytes(c) /\ o[c] = c.offset
  OBVIOUS
<1> HIDE DEF v, w, o, P, M
<1>6. Path(M, s, a, b) /\ a \in P
  BY DEF M, P
<1>7. \A x \in M : x[1] \in P /\ x[3] \in P /\ v[x[1]] <= v[x[3]]
  BY <1>4, <1>5
<1>8. \A x \in M : x[1] \in P /\ x[3] \in P /\ w[x[1]] <= w[x[3]]
  BY <1>4, <1>5
<1>9. \A x \in M : x[1] \in P /\ x[3] \in P /\ o[x[1]] <= o[x[3]]
  BY <1>4, <1>5
<1>10. b \in P /\ v[a] <= v[b]
  <2>1. v[a] <= v[b]
    BY <1>3, <1>6, <1>7, PathRises
  <2>2. b \in P
    BY <1>6, <1>7, PathEnds
  <2> QED
    BY <2>1, <2>2
<1>11. w[a] <= w[b]
  BY <1>3, <1>6, <1>8, PathRises
<1>12. o[a] <= o[b]
  BY <1>3, <1>6, <1>9, PathRises
<1>13. ASSUME \A i \in 1..Len(s) : s[i].file = f PROVE v[a] + Len(s) <= v[b]
  <2>1. \A i \in 1..Len(s) : \A x \in M : x[2] = s[i] => v[x[1]] + 1 <= v[x[3]]
    BY <1>4, <1>5, <1>13
  <2>2. \A x \in M : x[1] \in P /\ x[3] \in P
    BY <1>7
  <2> QED
    BY <1>3, <1>6, <2>1, <2>2, PathCounts
<1> QED
  BY <1>5, <1>6, <1>10, <1>11, <1>12, <1>13 DEF P
-----------------------------------------------------------------------------
(* The acknowledgements.                                                   *)

LEMMA MarkIs ==
    ASSUME NEW f \in Files
    PROVE  /\ \A x \in Marks(f) : /\ x \in Nat /\ x <= Size[f] + 1
                                  /\ x <= Size[f] => Aligned(f, x)
                                  /\ x <= Size[f] \/ x = Size[f] + 1
           /\ \A x \in Nat : x <= Size[f] /\ Aligned(f, x) => x \in Marks(f)
           /\ Size[f] + 1 \in Marks(f) /\ Size[f] \in Marks(f) /\ Size[f] \in Nat
  BY Sizes DEF Marks, Aligned

LEMMA ReturnsIs ==
    ASSUME NEW f \in Files, NEW a \in Marks(f), NEW m, NEW b, Returns(f, a, m, b)
    PROVE  /\ b \in Marks(f) /\ m \in StreamMessages /\ m.file = f
           /\ a < b /\ Blocks(f, a) \in Nat /\ Blocks(f, b) = Blocks(f, a) + 1
           /\ \/ /\ m.kind = "Checkpoint" /\ m.offset = b /\ m.length = b - a
                 /\ a < Size[f] /\ b <= Size[f] /\ b - a <= Block
                 /\ b = BlockEnd(f, a) /\ m = Msg("Checkpoint", f, b, b - a)
              \/ /\ m.kind = "Closed" /\ m.length = 0
                 /\ a = Size[f] /\ b = Size[f] + 1
<1>1. a \in Nat /\ Size[f] \in Nat /\ (a <= Size[f] => Aligned(f, a))
  BY MarkIs
<1>2. Block \in Nat /\ Block > 0
  BY Constants
<1>3. CASE a < Size[f] /\ b = BlockEnd(f, a) /\ m = Msg("Checkpoint", f, b, b - a)
  <2>1. b \in Nat /\ b <= Size[f] /\ a < b /\ Aligned(f, b) /\ b - a <= Block
    BY <1>1, <1>3, NextBlock
  <2>2. b \in Marks(f)
    BY <2>1, MarkIs
  <2>3. /\ m \in StreamMessages /\ m.file = f /\ m.kind = "Checkpoint" /\ m.offset = b
        /\ m.length = b - a
    BY <1>1, <1>3, <2>1 DEF Msg, StreamMessages, StreamKinds
  <2>4. a % Block = 0
    BY <1>1, <1>3 DEF Aligned
  <2>5. CeilDiv(b, Block) = CeilDiv(a, Block) + 1 /\ CeilDiv(a, Block) \in Nat
    <3>1. b <= a + Block
      BY <1>1, <1>2, <2>1
    <3>2. CeilDiv(b, Block) = CeilDiv(a, Block) + 1
      BY ONLY <1>1, <1>2, <2>1, <2>4, <3>1, RoundedNext
    <3>3. CeilDiv(a, Block) \in Nat
      BY ONLY <1>1, <1>2, AtLeastOne
    <3> QED
      BY <3>2, <3>3
  <2>6. Blocks(f, a) = CeilDiv(a, Block) /\ Blocks(f, b) = CeilDiv(b, Block)
    <3>1. ~(a > Size[f]) /\ ~(b > Size[f])
      BY <1>1, <1>3, <2>1
    <3> QED
      BY <3>1 DEF Blocks
  <2> QED
    BY <1>3, <2>1, <2>2, <2>3, <2>5, <2>6
<1>4. CASE a = Size[f] /\ b = Size[f] + 1 /\ m = Msg("Closed", f, 0, 0)
  <2>1. b \in Marks(f) /\ a < b
    BY <1>1, <1>4, MarkIs
  <2>2. m \in StreamMessages /\ m.file = f /\ m.kind = "Closed" /\ m.length = 0
    BY <1>4 DEF Msg, StreamMessages, StreamKinds
  <2>3. Blocks(f, a) = CeilDiv(Size[f], Block) /\ Blocks(f, b) = CeilDiv(Size[f], Block) + 1
    <3>1. ~(a > Size[f]) /\ b > Size[f]
      BY <1>1, <1>4
    <3> QED
      BY <1>4, <3>1 DEF Blocks
  <2>4. CeilDiv(Size[f], Block) \in Nat
    BY <1>1, <1>2, AtLeastOne
  <2> QED
    BY <1>4, <2>1, <2>2, <2>3, <2>4
<1> QED
  BY <1>3, <1>4 DEF Returns

LEMMA AnswersIs ==
    ASSUME NEW f \in Files, NEW c, NEW m, NEW d
    PROVE  <<c, m, d>> \in Answers(f) <=>
              /\ c \in Marks(f) /\ m \in Messages /\ d \in Marks(f)
              /\ IF m.file = f THEN Returns(f, c, m, d) ELSE d = c
<1> DEFINE x == <<c, m, d>>
<1>1. x[1] = c /\ x[2] = m /\ x[3] = d
  OBVIOUS
<1>2. x \in Marks(f) \X Messages \X Marks(f) <=>
         c \in Marks(f) /\ m \in Messages /\ d \in Marks(f)
  OBVIOUS
<1> HIDE DEF x
<1>3. x \in Answers(f) <=> /\ x \in Marks(f) \X Messages \X Marks(f)
                           /\ IF x[2].file = f THEN Returns(f, x[1], x[2], x[3]) ELSE x[3] = x[1]
  BY DEF Answers
<1>4. x \in Answers(f) <=>
              /\ c \in Marks(f) /\ m \in Messages /\ d \in Marks(f)
              /\ IF m.file = f THEN Returns(f, c, m, d) ELSE d = c
  BY <1>1, <1>2, <1>3
<1> QED
  BY <1>4 DEF x

LEMMA AnswersTriple ==
    ASSUME NEW f \in Files, NEW x \in Answers(f)
    PROVE  x[1] \in Marks(f) /\ x[3] \in Marks(f) /\ x = <<x[1], x[2], x[3]>>
  BY DEF Answers

LEMMA BlocksIs ==
    ASSUME NEW f \in Files, NEW a \in Marks(f)
    PROVE  Blocks(f, a) \in Nat /\ (a <= Size[f] => Blocks(f, a) = CeilDiv(a, Block))
           /\ Blocks(f, Size[f] + 1) = CeilDiv(Size[f], Block) + 1
<1>1. a \in Nat /\ Size[f] \in Nat
  BY MarkIs
<1>2. CeilDiv(a, Block) \in Nat /\ CeilDiv(Size[f], Block) \in Nat
  BY <1>1, Constants, AtLeastOne
<1>3. /\ a <= Size[f] => ~(a > Size[f])
      /\ Size[f] + 1 > Size[f]
  BY <1>1
<1> QED
  BY <1>2, <1>3 DEF Blocks

\* Acknowledgements go forward, one block each.
LEMMA AnswersRise ==
    ASSUME NEW f \in Files, NEW s \in Seq(Messages), NEW a \in Marks(f), NEW b,
           Path(Answers(f), s, a, b)
    PROVE  /\ b \in Marks(f) /\ a <= b
           /\ (\A i \in 1..Len(s) : s[i].file = f) => Blocks(f, a) + Len(s) <= Blocks(f, b)
           /\ \A i \in 1..Len(s) : s[i].file = f =>
                 \E c \in Marks(f), d \in Marks(f) : Returns(f, c, s[i], d) /\ a <= c
<1> DEFINE P == Marks(f)
           M == Answers(f)
           v == [c \in P |-> c]
           w == [c \in P |-> Blocks(f, c)]
<1>1. \A c \in P : c \in Int
  BY MarkIs
<1>2. \A c \in P : Blocks(f, c) \in Int
  BY BlocksIs
<1>3. v \in [P -> Int] /\ w \in [P -> Int]
  BY <1>1, <1>2
<1>4. ASSUME NEW x \in M
      PROVE  /\ x[1] \in P /\ x[3] \in P /\ x[1] <= x[3]
             /\ x[2].file = f => /\ Blocks(f, x[1]) + 1 <= Blocks(f, x[3])
                                 /\ Returns(f, x[1], x[2], x[3])
  <2>1. x[1] \in P /\ x[3] \in P /\ x = <<x[1], x[2], x[3]>>
    BY AnswersTriple
  <2>2. IF x[2].file = f THEN Returns(f, x[1], x[2], x[3]) ELSE x[3] = x[1]
    BY <2>1, AnswersIs
  <2>3. CASE x[2].file = f
    <3>1. Returns(f, x[1], x[2], x[3])
      BY <2>2, <2>3
    <3> HIDE DEF P
    <3>2. x[1] < x[3] /\ Blocks(f, x[1]) \in Nat /\ Blocks(f, x[3]) = Blocks(f, x[1]) + 1
      BY <2>1, <3>1, ReturnsIs DEF P
    <3> QED
      BY <1>1, <2>1, <3>1, <3>2
  <2>4. CASE x[2].file # f
    <3>1. x[3] = x[1]
      BY <2>2, <2>4
    <3> QED
      BY <1>1, <2>1, <2>4, <3>1
  <2> QED
    BY <2>3, <2>4
<1>5. \A c \in P : v[c] = c /\ w[c] = Blocks(f, c)
  OBVIOUS
<1> HIDE DEF v, w, P, M
<1>6. Path(M, s, a, b) /\ a \in P
  BY DEF M, P
<1>7. \A x \in M : x[1] \in P /\ x[3] \in P /\ v[x[1]] <= v[x[3]]
  BY <1>4, <1>5
<1>8. b \in P
  BY <1>6, <1>7, PathEnds
<1>9. v[a] <= v[b]
  BY <1>3, <1>6, <1>7, PathRises
<1>10. ASSUME \A i \in 1..Len(s) : s[i].file = f PROVE w[a] + Len(s) <= w[b]
  <2>1. \A i \in 1..Len(s) : \A x \in M : x[2] = s[i] => w[x[1]] + 1 <= w[x[3]]
    BY <1>4, <1>5, <1>10
  <2>2. \A x \in M : x[1] \in P /\ x[3] \in P
    BY <1>7
  <2> QED
    BY <1>3, <1>6, <2>1, <2>2, PathCounts
<1>11. ASSUME NEW i \in 1..Len(s)
       PROVE  \E c \in P, d \in P : <<c, s[i], d>> \in M /\ v[a] <= v[c]
  BY <1>3, <1>6, <1>7, PathThrough
<1>12. ASSUME NEW i \in 1..Len(s), s[i].file = f
       PROVE  \E c \in P, d \in P : Returns(f, c, s[i], d) /\ a <= c
  <2>1. PICK c \in P, d \in P : <<c, s[i], d>> \in M /\ v[a] <= v[c]
    BY <1>11
  <2> DEFINE x == <<c, s[i], d>>
  <2>2. x \in M
    BY <2>1
  <2>3. x[1] = c /\ x[2] = s[i] /\ x[3] = d
    OBVIOUS
  <2> HIDE DEF x
  <2>4. Returns(f, c, s[i], d)
    BY <1>4, <1>12, <2>2, <2>3
  <2>5. a <= c
    BY <1>5, <1>6, <2>1
  <2> QED
    BY <2>4, <2>5
<1> QED
  BY <1>5, <1>6, <1>8, <1>9, <1>10, <1>12 DEF P

\* A channel with nothing of f leads nowhere.
LEMMA AnswersStill ==
    ASSUME NEW f \in Files, NEW s \in Seq(Messages), NEW a \in Marks(f),
           \A i \in 1..Len(s) : s[i].file # f
    PROVE  Path(Answers(f), s, a, a)
<1>1. \A i \in 1..Len(s) : <<a, s[i], a>> \in Answers(f)
  <2> SUFFICES ASSUME NEW i \in 1..Len(s)
               PROVE  <<a, s[i], a>> \in Answers(f)
    OBVIOUS
  <2>1. s[i] \in Messages
    BY ElementOfSeq
  <2> QED
    BY <2>1, AnswersIs
<1> QED
  BY <1>1, PathStill
-----------------------------------------------------------------------------
(* What steps do to a route.                                               *)

\* Two paths, one after the other.
LEMMA PathConcat ==
    ASSUME NEW M, NEW S, NEW s \in Seq(S), NEW m \in S, NEW a, NEW b, NEW c,
           Path(M, s, a, b), Path(M, <<m>>, b, c)
    PROVE  Path(M, s \o <<m>>, a, c)
<1>1. <<b, m, c>> \in M
  <2> DEFINE t == <<m>>
  <2>1. Len(t) = 1 /\ t[1] = m /\ 1 + 1 = 2
    OBVIOUS
  <2> HIDE DEF t
  <2>2. PICK p : /\ p[1] = b /\ p[2] = c
                 /\ \A i \in 1..1 : <<p[i], t[i], p[i + 1]>> \in M
    BY <2>1 DEF Path, t
  <2>3. <<p[1], t[1], p[1 + 1]>> \in M
    BY <2>2
  <2> QED
    BY <2>1, <2>2, <2>3
<1>2. s \o <<m>> = Append(s, m)
  BY AppendIsConcat
<1> QED
  BY <1>1, <1>2, PathAppend

\* A path of one message.
LEMMA PathOne ==
    ASSUME NEW M, NEW a, NEW m, NEW b
    PROVE  Path(M, <<m>>, a, b) <=> <<a, m, b>> \in M
<1> DEFINE t == <<m>>
<1>1. Len(t) = 1 /\ t[1] = m /\ 1 + 1 = 2
  OBVIOUS
<1> HIDE DEF t
<1>2. ASSUME Path(M, t, a, b) PROVE <<a, m, b>> \in M
  <2>1. PICK p : /\ p[1] = a /\ p[2] = b
                 /\ \A i \in 1..1 : <<p[i], t[i], p[i + 1]>> \in M
    BY <1>1, <1>2 DEF Path
  <2>2. <<p[1], t[1], p[1 + 1]>> \in M
    BY <2>1
  <2> QED
    BY <1>1, <2>1, <2>2
<1>3. ASSUME <<a, m, b>> \in M PROVE Path(M, t, a, b)
  <2> DEFINE p == [i \in 1..2 |-> IF i = 1 THEN a ELSE b]
  <2>1. p[1] = a /\ p[2] = b
    OBVIOUS
  <2> HIDE DEF p
  <2>2. \A i \in 1..1 : <<p[i], t[i], p[i + 1]>> \in M
    <3> SUFFICES ASSUME NEW i \in 1..1
                 PROVE  <<p[i], t[i], p[i + 1]>> \in M
      OBVIOUS
    <3>1. i = 1
      OBVIOUS
    <3> QED
      BY <1>1, <1>3, <2>1, <3>1
  <2> QED
    BY <1>1, <2>1, <2>2 DEF Path
<1> QED
  BY <1>2, <1>3 DEF t

\* A worker queues a message.
LEMMA RouteQueued ==
    ASSUME NEW M, NEW S, NEW close, NEW there, NEW write, NEW packed \in Seq(S), NEW a, NEW e,
           Route(M, close, there, write, packed, a, e),
           NEW m \in S, NEW g, <<e, m, g>> \in M
    PROVE  Route(M, close, there, write, Append(packed, m), a, g)
<1>1. PICK b, c, d : /\ Path(M, close, a, b) /\ Path(M, there, b, c)
                     /\ Path(M, write, c, d) /\ Path(M, packed, d, e)
  BY DEF Route
<1>2. Path(M, Append(packed, m), d, g)
  BY <1>1, PathAppend
<1> QED
  BY <1>1, <1>2 DEF Route

\* The loop takes it ...
LEMMA RouteTaken ==
    ASSUME NEW M, NEW S, NEW close, NEW there, NEW packed \in Seq(S), NEW a, NEW e,
           Route(M, close, there, <<>>, packed, a, e), packed # <<>>
    PROVE  Route(M, close, there, <<Head(packed)>>, Tail(packed), a, e)
<1>1. PICK b, c, d : /\ Path(M, close, a, b) /\ Path(M, there, b, c)
                     /\ Path(M, <<>>, c, d) /\ Path(M, packed, d, e)
  BY DEF Route
<1>2. c = d
  BY <1>1, PathEmpty
<1>3. PICK g : <<d, Head(packed), g>> \in M /\ Path(M, Tail(packed), g, e)
  BY <1>1, PathTail
<1>4. Path(M, <<Head(packed)>>, c, g)
  BY <1>2, <1>3, PathOne
<1> QED
  BY <1>1, <1>3, <1>4 DEF Route

\* ... and writes it.
LEMMA RouteWritten ==
    ASSUME NEW M, NEW S, NEW close, NEW there \in Seq(S), NEW m \in S, NEW packed, NEW a, NEW e,
           Route(M, close, there, <<m>>, packed, a, e)
    PROVE  Route(M, close, there \o <<m>>, <<>>, packed, a, e)
<1>1. PICK b, c, d : /\ Path(M, close, a, b) /\ Path(M, there, b, c)
                     /\ Path(M, <<m>>, c, d) /\ Path(M, packed, d, e)
  BY DEF Route
<1>2. Path(M, there \o <<m>>, b, d)
  BY <1>1, PathConcat
<1>3. Path(M, <<>>, d, d)
  BY PathEmpty
<1> QED
  BY <1>1, <1>2, <1>3 DEF Route

\* The loop of the other end reads it ...
LEMMA RouteRead ==
    ASSUME NEW M, NEW S, NEW there \in Seq(S), NEW write, NEW packed, NEW a, NEW e,
           Route(M, <<>>, there, write, packed, a, e), there # <<>>
    PROVE  \E b : <<a, Head(there), b>> \in M /\ Route(M, <<>>, Tail(there), write, packed, b, e)
<1>1. PICK b, c, d : /\ Path(M, <<>>, a, b) /\ Path(M, there, b, c)
                     /\ Path(M, write, c, d) /\ Path(M, packed, d, e)
  BY DEF Route
<1>2. a = b
  BY <1>1, PathEmpty
<1>3. PICK g : <<a, Head(there), g>> \in M /\ Path(M, Tail(there), g, c)
  BY <1>1, <1>2, PathTail
<1>4. Path(M, <<>>, g, g)
  BY PathEmpty
<1>5. Route(M, <<>>, Tail(there), write, packed, g, e)
  BY <1>1, <1>3, <1>4 DEF Route
<1> QED
  BY <1>3, <1>5

\* ... and, if it is a Close, keeps it ...
LEMMA RouteKept ==
    ASSUME NEW M, NEW S, NEW there, NEW write, NEW packed, NEW a, NEW m, NEW b, NEW e,
           <<a, m, b>> \in M, Route(M, <<>>, there, write, packed, b, e)
    PROVE  Route(M, <<m>>, there, write, packed, a, e)
<1>1. PICK b0, c, d : /\ Path(M, <<>>, b, b0) /\ Path(M, there, b0, c)
                      /\ Path(M, write, c, d) /\ Path(M, packed, d, e)
  BY DEF Route
<1>2. b = b0
  BY <1>1, PathEmpty
<1>3. Path(M, <<m>>, a, b)
  BY PathOne
<1> QED
  BY <1>1, <1>2, <1>3 DEF Route

\* ... until the worker has room.
LEMMA RouteLeft ==
    ASSUME NEW M, NEW there, NEW write, NEW packed, NEW a, NEW m, NEW e,
           Route(M, <<m>>, there, write, packed, a, e)
    PROVE  \E b : <<a, m, b>> \in M /\ Route(M, <<>>, there, write, packed, b, e)
<1>1. PICK b, c, d : /\ Path(M, <<m>>, a, b) /\ Path(M, there, b, c)
                     /\ Path(M, write, c, d) /\ Path(M, packed, d, e)
  BY DEF Route
<1>2. <<a, m, b>> \in M
  BY <1>1, PathOne
<1>3. Path(M, <<>>, b, b)
  BY PathEmpty
<1> QED
  BY <1>1, <1>2, <1>3 DEF Route

\* What changes nothing for f may be written.
LEMMA RoutePassed ==
    ASSUME NEW f \in Files, NEW close \in Seq(Messages), NEW there \in Seq(Messages), NEW packed,
           NEW a \in Places(f), NEW e,
           Route(Sends(f), close, there, <<>>, packed, a, e),
           NEW m \in Messages, m.file # f
    PROVE  Route(Sends(f), close, there, <<m>>, packed, a, e)
<1> DEFINE M == Sends(f)
<1>1. PICK b, c, d : /\ Path(M, close, a, b) /\ Path(M, there, b, c)
                     /\ Path(M, <<>>, c, d) /\ Path(M, packed, d, e)
  BY DEF Route
<1>2. c = d
  BY <1>1, PathEmpty
<1>3. c \in Places(f)
  BY <1>1, SendsRise
<1>4. <<c, m, c>> \in M
  BY <1>3, SendsIs
<1>5. Path(M, <<m>>, c, d)
  <2> HIDE DEF M
  <2> QED
    BY <1>2, <1>4, PathOne
<1> QED
  BY <1>1, <1>5 DEF Route

\* A route goes forward.
LEMMA RouteRises ==
    ASSUME NEW f \in Files, NEW close \in Seq(Messages), NEW there \in Seq(Messages),
           NEW write \in Seq(Messages), NEW packed \in Seq(Messages),
           NEW a \in Places(f), NEW e, Route(Sends(f), close, there, write, packed, a, e)
    PROVE  /\ e \in Places(f) /\ Rank(f, a) <= Rank(f, e) /\ Bytes(a) <= Bytes(e)
           /\ a.offset <= e.offset
<1> DEFINE M == Sends(f)
<1>1. PICK b, c, d : /\ Path(M, close, a, b) /\ Path(M, there, b, c)
                     /\ Path(M, write, c, d) /\ Path(M, packed, d, e)
  BY DEF Route
<1>2. \A x \in Places(f) : Rank(f, x) \in Int /\ Bytes(x) \in Int /\ x.offset \in Int
  BY PlaceNumbers
<1>3. b \in Places(f) /\ Rank(f, a) <= Rank(f, b) /\ Bytes(a) <= Bytes(b) /\ a.offset <= b.offset
  BY <1>1, SendsRise
<1>4. c \in Places(f) /\ Rank(f, b) <= Rank(f, c) /\ Bytes(b) <= Bytes(c) /\ b.offset <= c.offset
  BY <1>1, <1>3, SendsRise
<1>5. d \in Places(f) /\ Rank(f, c) <= Rank(f, d) /\ Bytes(c) <= Bytes(d) /\ c.offset <= d.offset
  BY <1>1, <1>4, SendsRise
<1>6. e \in Places(f) /\ Rank(f, d) <= Rank(f, e) /\ Bytes(d) <= Bytes(e) /\ d.offset <= e.offset
  BY <1>1, <1>5, SendsRise
<1>7. Rank(f, a) <= Rank(f, e)
  BY <1>2, <1>3, <1>4, <1>5, <1>6
<1>8. Bytes(a) <= Bytes(e)
  BY <1>2, <1>3, <1>4, <1>5, <1>6
<1>9. a.offset <= e.offset
  <2>1. /\ a.offset \in Int /\ b.offset \in Int /\ c.offset \in Int /\ d.offset \in Int
        /\ e.offset \in Int
    BY <1>2, <1>3, <1>4, <1>5, <1>6
  <2>2. /\ a.offset <= b.offset /\ b.offset <= c.offset /\ c.offset <= d.offset
        /\ d.offset <= e.offset
    BY <1>3, <1>4, <1>5, <1>6
  <2> QED
    BY ONLY <2>1, <2>2
<1> QED
  BY <1>6, <1>7, <1>8, <1>9
-----------------------------------------------------------------------------
(* What a step leaves in order.                                            *)

LEMMA ForwardSame ==
    ASSUME Forward,
           UNCHANGED <<receiver, queue, down, closing, toReceiver, writing, packets, up>>
    PROVE  Forward'
  BY DEF Forward, Forth, Behind, Reached, Ahead, Queued, Close

LEMMA ReportsSame ==
    ASSUME NEW f \in Files, Reports(f), receiver' = receiver, events' = events,
           reported'[f] = reported[f], down'[f] = down[f], f \in closed' <=> f \in closed
    PROVE  Reports(f)'
<1>1. Reported(f)' = Reported(f) /\ Done(f)' = Done(f)
  BY DEF Reported, Done
<1> QED
  BY <1>1 DEF Reports

LEMMA HeardSame ==
    ASSUME NEW f \in Files, NEW k, Heard(f, k), known'[f] = known[f], acks'[f] = acks[f],
           Reported(f)' = Reported(f), Acked(f)' = Acked(f)
    PROVE  Heard(f, k)'
  BY DEF Heard

LEMMA RepliesSame ==
    ASSUME NEW f \in Files, NEW k, Replies(f, k), UNCHANGED <<sender, toSender, replying>>,
           Reported(f)' = Reported(f)
    PROVE  Replies(f, k)'
  BY DEF Replies

LEMMA BackwardSame ==
    ASSUME Backward, UNCHANGED <<reported, receiver, closed, down, events, known, acks,
                                 sender, toSender, replying>>,
           \A f \in Files : Acked(f)' = Acked(f)
    PROVE  Backward'
<1>1. ASSUME NEW f \in Files PROVE Back(f)'
  <2>1. PICK k : Reports(f) /\ Heard(f, k) /\ Replies(f, k)
    BY DEF Backward, Back
  <2>2. Reports(f)' /\ Reported(f)' = Reported(f)
    BY <2>1, ReportsSame DEF Reported
  <2>3. Heard(f, k)'
    BY <2>1, <2>2, HeardSame
  <2>4. Replies(f, k)'
    BY <2>1, <2>2, RepliesSame
  <2> QED
    BY <2>2, <2>3, <2>4 DEF Back
<1> QED
  BY <1>1 DEF Backward

LEMMA OpenedSame ==
    ASSUME Opened, UNCHANGED <<up, sender>>
    PROVE  Opened'
  BY DEF Opened, Occupied, InFlight

LEMMA LoopsSame ==
    ASSUME Loops,
           UNCHANGED <<receiver, sender, closing, writing, toReceiver, replying, toSender>>
    PROVE  Loops'
  BY DEF Loops, Final

\* A step of the sender disturbs only what is ahead of the receiver's loop.
LEMMA SenderForth ==
    ASSUME NEW f \in Files, Forth(f), UNCHANGED <<receiver, queue, down>>,
           \A a \in Places(f) : receiver = "run" /\ Ahead(f, a) => Ahead(f, a)'
    PROVE  Forth(f)'
<1>1. ASSUME NEW a, Behind(f, a) PROVE Behind(f, a)' /\ a \in Places(f)
  BY <1>1 DEF Behind, Reached
<1> QED
  BY <1>1 DEF Forth

\* A step of the receiver disturbs only what is up to there.
LEMMA AheadSame ==
    ASSUME UNCHANGED <<closing, toReceiver, writing, packets, up>>
    PROVE  \A f \in Files : \A a : Ahead(f, a) => Ahead(f, a)'
  BY DEF Ahead, Queued, Close

LEMMA CloseIs ==
    ASSUME Inductive
    PROVE  Close \in Seq(Messages) /\ (closing = none => Close = <<>>)
<1>1. closing \in Files \cup {none}
  BY DEF Inductive, TypeOK
<1>2. CASE closing = none
  BY <1>2 DEF Close
<1>3. CASE closing # none
  <2>1. closing \in Files
    BY <1>1, <1>3
  <2>2. Msg("Close", closing, 0, 0) \in Messages
    BY <2>1 DEF Msg, Messages, StreamMessages, StreamKinds
  <2> QED
    BY <1>3, <2>2 DEF Close
<1> QED
  BY <1>2, <1>3

LEMMA Channels ==
    ASSUME Inductive
    PROVE  /\ toReceiver \in Seq(Messages) /\ writing \in Seq(Messages)
           /\ packets \in Seq(Messages) /\ packets \in Seq(StreamMessages)
           /\ toSender \in Seq(Messages) /\ replying \in Seq(Messages)
           /\ events \in Seq(Messages) /\ events \in Seq(StreamMessages)
           /\ Close \in Seq(Messages)
           /\ \A f \in Files : acks[f] \in Seq(Messages) /\ queue[f] \in Seq(Messages)
<1>1. packets \in Seq(StreamMessages) /\ events \in Seq(StreamMessages)
  BY DEF Inductive, Typed
<1>2. packets \in Seq(Messages) /\ events \in Seq(Messages)
  BY <1>1, WiderSeq DEF Messages
<1>3. /\ toReceiver \in Seq(Messages) /\ writing \in Seq(Messages)
      /\ toSender \in Seq(Messages) /\ replying \in Seq(Messages)
      /\ \A f \in Files : acks[f] \in Seq(Messages) /\ queue[f] \in Seq(Messages)
  BY DEF Inductive, Typed
<1> QED
  BY <1>1, <1>2, <1>3, CloseIs

\* A loop's own message is none of a stream's.
LEMMA OwnMessage ==
    ASSUME NEW kind \in LoopKinds
    PROVE  /\ Msg(kind, none, 0, 0) \in Messages /\ Msg(kind, none, 0, 0).file = none
           /\ Msg(kind, none, 0, 0).kind = kind
           /\ \A f \in Files : Msg(kind, none, 0, 0).file # f
<1>1. Msg(kind, none, 0, 0) \in LoopMessages
  BY DEF Msg, LoopMessages
<1> QED
  BY <1>1, Sizes DEF Msg, Messages

\* A channel of one message.
LEMMA Single ==
    ASSUME NEW S, NEW s \in Seq(S), Len(s) <= 1, s # <<>>
    PROVE  s = <<Head(s)>> /\ Head(s) \in S /\ s[1] = Head(s)
<1>1. Len(s) = 1
  <2> DEFINE n == Len(s)
  <2>1. n \in Nat /\ n # 0 /\ n <= 1
    BY LenProperties, EmptySeq
  <2> HIDE DEF n
  <2>2. n = 1
    BY <2>1
  <2> QED
    BY <2>2 DEF n
<1>2. s = <<s[1]>> /\ s[1] \in S
  BY <1>1
<1>3. Head(s) = s[1]
  BY <1>1
<1> QED
  BY <1>2, <1>3
-----------------------------------------------------------------------------
(* The bounds on what is under way.                                        *)

LEMMA DivExact ==
    ASSUME NEW q \in Nat, NEW b \in Nat, b > 0
    PROVE  (q * b) \div b = q
<1> DEFINE a == q * b
           c == a \div b
           r == a % b
<1>1. a \in Nat
  OBVIOUS
<1>2. c \in Nat /\ a = c * b + r /\ r \in 0..b - 1
  BY <1>1, DivMod
<1> HIDE DEF c, r
<1>3. c * b \in Nat
  BY <1>2
<1>4. ASSUME c < q PROVE FALSE
  <2>1. (c + 1) * b <= q * b
    BY <1>2, <1>4
  <2>2. (c + 1) * b = c * b + b
    BY <1>2
  <2> QED
    BY <1>1, <1>2, <1>3, <2>1, <2>2
<1>5. ASSUME q < c PROVE FALSE
  <2>1. (q + 1) * b <= c * b
    BY <1>2, <1>5
  <2>2. (q + 1) * b = q * b + b
    OBVIOUS
  <2> QED
    BY <1>1, <1>2, <1>3, <2>1, <2>2
<1>6. c = q
  BY <1>2, <1>4, <1>5
<1> QED
  BY <1>6 DEF c

\* A window is one block or two; the channel of a worker of the receiver takes the
\* packets of two.
LEMMA WindowFits ==
    /\ Window \in Nat /\ Window <= WINDOW /\ WINDOW \in Nat
    /\ Window \div Block \in 1..2 /\ Window = (Window \div Block) * Block
    /\ AckQueue = Window \div Block + 1
    /\ PacketsPerBlock \in Nat /\ 2 * PacketsPerBlock + 1 <= FileQueue
<1> DEFINE w == Window \div Block
           q == Block \div Frame
<1>1. /\ Block \in Nat /\ Block > 0 /\ Frame \in Nat /\ Frame > 0 /\ WINDOW = 2 * Block
      /\ Window \in Nat /\ Window <= WINDOW /\ Window >= Block /\ Window % Block = 0
  BY FlowControlAssumption DEF WINDOW
<1>2. w \in Nat /\ Window = w * Block
  <2>1. w \in Nat /\ Window = w * Block + (Window % Block)
    BY <1>1, DivMod
  <2> HIDE DEF w
  <2>2. w * Block \in Nat
    BY <1>1, <2>1
  <2> QED
    BY <1>1, <2>1, <2>2
<1> HIDE DEF w
<1>3. w \in 1..2
  <2>1. w # 0
    BY <1>1, <1>2
  <2>2. ASSUME w > 2 PROVE FALSE
    <3>1. 3 * Block <= w * Block
      BY <1>1, <1>2, <2>2
    <3> QED
      BY <1>1, <1>2, <3>1
  <2> QED
    BY <1>2, <2>1, <2>2
<1>4. q \in Nat /\ Block = q * Frame
  BY PacketsFit
<1>5. WINDOW \div Block = 2
  <2>1. (2 * Block) \div Block = 2
    BY <1>1, DivExact
  <2> QED
    BY <1>1, <2>1
<1>6. WINDOW \div Frame = 2 * q
  <2> HIDE DEF q
  <2>1. ((2 * q) * Frame) \div Frame = 2 * q
    <3>1. 2 * q \in Nat
      BY <1>4
    <3> QED
      BY <1>1, <3>1, DivExact
  <2>2. (2 * q) * Frame = 2 * Block
    BY <1>1, <1>4
  <2> QED
    BY <1>1, <2>1, <2>2
<1>7. Hashes \in 0..1 /\ PacketsPerBlock \in Nat /\ PacketsPerBlock = Hashes + q
  BY PacketsFit
<1>8. FileQueue = 2 * q + 2 + 1
  BY <1>5, <1>6 DEF FileQueue
<1> HIDE DEF q
<1>9. 2 * PacketsPerBlock + 1 <= FileQueue
  BY <1>4, <1>7, <1>8
<1> QED
  BY <1>1, <1>2, <1>3, <1>7, <1>9 DEF w, AckQueue

\* How far a worker of the sender is ahead of the acknowledgements.
LEMMA Limits ==
    ASSUME Inductive, Opened, NEW f \in Files, NEW e, Queued(f, e)
    PROVE  /\ CeilDiv(up[f].acked, Block) \in Nat /\ CeilDiv(up[f].offset, Block) \in Nat
           /\ CeilDiv(up[f].offset, Block) <= CeilDiv(up[f].acked, Block) + Window \div Block
           /\ Bytes(e) <= up[f].acked + Window
           /\ Rank(f, e) <= CeilDiv(up[f].acked, Block) * PacketsPerBlock + 2 * PacketsPerBlock + 2
<1> DEFINE k == up[f].acked
           o == up[f].offset
           n == CeilDiv(o - k, Block)
           A == CeilDiv(k, Block)
           E == CeilDiv(o, Block)
           w == Window \div Block
           P == PacketsPerBlock
           h == Hashes
           u == e.queued
           q == Block \div Frame
<1>1. k \in Nat /\ o \in Nat /\ k <= o /\ o <= Size[f] /\ Aligned(f, k) /\ Size[f] \in Nat
  BY UploadOf, Sizes DEF Inductive, Windowed
<1>2. n <= w /\ (u > 0 => n < w)
  BY DEF Opened, InFlight, Queued
<1>3. e \in Places(f) /\ e.offset = o
  BY DEF Queued
<1>4. Block \in Nat /\ Block > 0 /\ Frame \in Nat /\ Frame > 0
  BY Constants
<1>5. w \in 1..2 /\ Window = w * Block /\ Window \in Nat /\ P \in Nat
  BY WindowFits
<1>6. q \in Nat /\ Block = q * Frame /\ h \in 0..1 /\ P = h + q
  BY PacketsFit
<1>7. u \in Nat /\ (u > 0 => o < Size[f] /\ e.at = "fill" /\ u < Len(BlockPackets(f, o)))
  <2>1. /\ e.at \in {"open", "fill", "closed"} /\ u \in Nat /\ o \in Nat /\ Size[f] \in Nat
        /\ o <= Size[f]
        /\ o < Size[f] => u < Len(BlockPackets(f, o))
        /\ o = Size[f] \/ e.at = "open" => u = 0
        /\ e.at = "closed" => o = Size[f]
    BY <1>3, PlaceIs
  <2> HIDE DEF u, o
  <2> QED
    BY <2>1
<1>8. n \in Nat /\ o - k <= n * Block /\ n * Block \in Nat
  <2>1. o - k \in Nat
    BY <1>1
  <2> HIDE DEF o, k
  <2> QED
    BY <1>4, <2>1, RoundedUp
<1>9. A \in Nat /\ E \in Nat
  BY <1>1, <1>4, AtLeastOne
<1>10. E = A + n
  <2>1. CASE k = Size[f]
    <3>1. o = k /\ o - k = 0
      BY <1>1, <2>1
    <3>2. n = 0
      BY <1>4, <3>1, AtLeastOne
    <3> HIDE DEF n
    <3> QED
      BY <1>9, <3>1, <3>2
  <2>2. CASE k # Size[f]
    <3>1. k % Block = 0
      BY <1>1, <2>2 DEF Aligned
    <3>2. n = E - A
      <4> HIDE DEF k, o
      <4> QED
        BY <1>1, <1>4, <3>1, RoundedRest
    <3> HIDE DEF n, E, A
    <3> QED
      BY <1>8, <1>9, <3>2
  <2> QED
    BY <2>1, <2>2
<1>11. u > 0 => u - h < q + 0 /\ u < P
  <2> SUFFICES ASSUME u > 0 PROVE u - h < q /\ u < P
    BY <1>6, <1>7
  <2> DEFINE m == BlockEnd(f, o) - o
             L == Len(BlockPackets(f, o))
  <2>1. o < Size[f] /\ u < L /\ Aligned(f, o)
    BY <1>3, <1>7, PlaceIs
  <2>2. m \in Nat /\ m <= Block
    <3>1. BlockEnd(f, o) \in Nat /\ o <= BlockEnd(f, o) /\ BlockEnd(f, o) - o <= Block
      BY <1>1, <2>1, NextBlock
    <3> HIDE DEF o
    <3> QED
      BY <1>1, <3>1
  <2>3. L \in Nat /\ L >= 1
    <3>1. BlockPackets(f, o) \in Seq(StreamMessages) /\ L > 0
      BY <1>1, <2>1, PacketsOfBlock
    <3>2. L \in Nat
      BY <3>1, LenProperties
    <3> QED
      BY <3>1, <3>2
  <2>4. L = h + CeilDiv(m, Frame)
    <3>1. 1 \in 1..Len(BlockPackets(f, o))
      BY <2>3
    <3> HIDE DEF o, m
    <3>2. m = BlockEnd(f, o) - o
      BY DEF m
    <3> QED
      BY <1>1, <2>1, <3>1, <3>2, PartsOfBlock
  <2>5. CeilDiv(m, Frame) <= q
    <3> HIDE DEF m
    <3> QED
      BY <2>2, PacketsFit
  <2>6. CeilDiv(m, Frame) \in Nat
    <3> HIDE DEF m
    <3> QED
      BY <1>4, <2>2, AtLeastOne
  <2> HIDE DEF L, m, u, q, h
  <2> QED
    BY <1>6, <1>7, <2>1, <2>3, <2>4, <2>5, <2>6
<1>12. Bytes(e) = IF u = 0 THEN o ELSE o + (u - h) * Frame
  BY <1>3 DEF Bytes
<1>13. Rank(f, e) <= E * P + u + 2 /\ (u > 0 => Rank(f, e) = E * P + u + 1) /\ E * P \in Nat
       /\ Rank(f, e) \in Nat
  <2>1. /\ e.at = "open" <=> Rank(f, e) = 0
        /\ Rank(f, e) \in Nat /\ E * P \in Nat
        /\ e.at = "fill" => Rank(f, e) = E * P + u + 1
        /\ e.at = "closed" => Rank(f, e) = E * P + u + 2
        /\ e.at \in {"open", "fill", "closed"}
    BY <1>3, RankIs, PlaceIs
  <2> DEFINE x == E * P
  <2> HIDE DEF x, u
  <2>2. Rank(f, e) <= x + u + 2 /\ (u > 0 => Rank(f, e) = x + u + 1)
    BY <1>7, <2>1 DEF x
  <2> QED
    BY <2>1, <2>2 DEF x
<1> HIDE DEF k, o, n, A, E, w, P, h, u, q
<1>14. E <= A + w
  BY <1>2, <1>5, <1>8, <1>9, <1>10
<1>15. CASE u = 0
  <2>1. n * Block <= w * Block
    BY <1>2, <1>4, <1>5, <1>8
  <2>2. o <= k + Window
    BY <1>1, <1>5, <1>8, <2>1
  <2>3. E * P <= (A + 2) * P
    BY <1>5, <1>9, <1>14
  <2>4. (A + 2) * P = A * P + 2 * P /\ A * P \in Nat
    BY <1>5, <1>9
  <2>5. Rank(f, e) <= A * P + 2 * P + 2
    <3> DEFINE x == A * P
               y == E * P
    <3>1. y <= x + 2 * P /\ x \in Nat /\ y \in Nat /\ Rank(f, e) <= y + 2
      BY <1>13, <1>15, <2>3, <2>4
    <3>2. Rank(f, e) \in Nat
      BY <1>13
    <3> HIDE DEF x, y
    <3>3. Rank(f, e) <= x + 2 * P + 2
      BY ONLY <1>5, <3>1, <3>2
    <3> QED
      BY <3>3 DEF x
  <2> QED
    BY <1>9, <1>12, <1>14, <1>15, <2>2, <2>5 DEF k, o, A, E, w, P
<1>16. CASE u > 0
  <2>1. n <= w - 1
    BY <1>2, <1>5, <1>8, <1>16
  <2>2. n * Block <= (w - 1) * Block
    BY <1>4, <1>5, <1>8, <2>1
  <2>3. (w - 1) * Block = w * Block - Block
    BY <1>4, <1>5
  <2>4. o - k <= Window - Block
    BY <1>1, <1>4, <1>5, <1>8, <2>2, <2>3
  <2>5. (u - h) * Frame <= q * Frame
    <3>1. u - h \in Int /\ u - h <= q
      BY <1>6, <1>7, <1>11, <1>16
    <3> DEFINE x == u - h
    <3> HIDE DEF x
    <3>2. x * Frame <= q * Frame
      BY <1>4, <1>6, <3>1 DEF x
    <3> QED
      BY <3>2 DEF x
  <2>6. (u - h) * Frame \in Int
    BY <1>4, <1>6, <1>7
  <2>7. o + (u - h) * Frame <= k + Window
    <3> DEFINE x == (u - h) * Frame
    <3>1. x \in Int /\ x <= Block
      BY <1>6, <2>5, <2>6
    <3> HIDE DEF x
    <3>2. o + x <= k + Window
      BY <1>1, <1>4, <1>5, <2>4, <3>1
    <3> QED
      BY <3>2 DEF x
  <2>8. E <= A + 1
    BY <1>5, <1>8, <1>9, <1>10, <2>1
  <2>9. E * P <= (A + 1) * P
    BY <1>5, <1>9, <2>8
  <2>10. (A + 1) * P = A * P + P /\ A * P \in Nat
    BY <1>5, <1>9
  <2>11. Rank(f, e) <= A * P + 2 * P + 2
    <3> DEFINE x == A * P
               y == E * P
    <3>1. y <= x + P /\ x \in Nat /\ y \in Nat /\ Rank(f, e) = y + u + 1
      BY <1>13, <1>16, <2>9, <2>10
    <3>2. u < P
      BY <1>11, <1>16
    <3> HIDE DEF x, y
    <3>3. Rank(f, e) <= x + 2 * P + 2
      BY <1>5, <1>7, <3>1, <3>2
    <3> QED
      BY <3>3 DEF x
  <2>12. Bytes(e) <= k + Window
    BY <1>7, <1>12, <1>16, <2>7
  <2> QED
    BY <1>9, <1>14, <2>11, <2>12 DEF k, o, A, E, w, P
<1> QED
  BY <1>7, <1>15, <1>16
-----------------------------------------------------------------------------
(* Order: the workers of the sender.                                       *)

LEMMA EnqueuedForth ==
    ASSUME Inductive, Forward, NEW f \in Files, NEW m \in StreamMessages, m.file = f, Enqueue(m),
           \A g \in Files \ {f} : up'[g] = up[g],
           \A e : Queued(f, e) => \E d : Moves(f, e, m, d) /\ Queued(f, d)'
    PROVE  Forward'
<1>1. packets' = Append(packets, m) /\ UNCHANGED <<writing, toReceiver, receiving>>
  BY DEF Enqueue
<1>2. UNCHANGED <<receiver, queue, down, closing, toReceiver, writing>> /\ Close' = Close
  BY <1>1 DEF receiving, Close
<1>3. packets \in Seq(Messages) /\ m \in Messages
  BY Channels DEF Messages
<1>4. ASSUME NEW g \in Files, NEW a \in Places(g), Ahead(g, a) PROVE Ahead(g, a)'
  <2>1. PICK e : Queued(g, e) /\ Route(Sends(g), Close, toReceiver, writing, packets, a, e)
    BY <1>4 DEF Ahead
  <2>2. e \in Places(g)
    BY <2>1 DEF Queued
  <2>3. CASE g = f
    <3>1. PICK d : Moves(f, e, m, d) /\ Queued(f, d)'
      BY <2>1, <2>3
    <3>2. <<e, m, d>> \in Sends(f)
      BY <1>3, <2>2, <2>3, <3>1, MovesIs, SendsIs
    <3>3. Route(Sends(g), Close, toReceiver, writing, Append(packets, m), a, d)
      BY <1>3, <2>1, <2>3, <3>2, RouteQueued
    <3> QED
      BY <1>1, <1>2, <2>3, <3>1, <3>3 DEF Ahead
  <2>4. CASE g # f
    <3>1. <<e, m, e>> \in Sends(g)
      BY <1>3, <2>2, <2>4, SendsIs
    <3>2. Route(Sends(g), Close, toReceiver, writing, Append(packets, m), a, e)
      BY <1>3, <2>1, <3>1, RouteQueued
    <3>3. Queued(g, e)'
      BY <2>1, <2>4 DEF Queued
    <3> QED
      BY <1>1, <1>2, <3>2, <3>3 DEF Ahead
  <2> QED
    BY <2>3, <2>4
<1>5. ASSUME NEW g \in Files PROVE Forth(g)'
  BY <1>2, <1>4, SenderForth DEF Forward
<1> QED
  BY <1>5 DEF Forward

\* A worker that queues nothing stays where it is in the stream.
LEMMA UpForth ==
    ASSUME Forward, UNCHANGED <<packets, writing, toReceiver, receiving>>,
           \A g \in Files : \A e : Queued(g, e) => Queued(g, e)'
    PROVE  Forward'
<1>1. UNCHANGED <<receiver, queue, down, closing>> /\ Close' = Close
  BY DEF receiving, Close
<1>2. ASSUME NEW g \in Files, NEW a \in Places(g), Ahead(g, a) PROVE Ahead(g, a)'
  <2>1. PICK e : Queued(g, e) /\ Route(Sends(g), Close, toReceiver, writing, packets, a, e)
    BY <1>2 DEF Ahead
  <2> QED
    BY <1>1, <2>1 DEF Ahead
<1>3. ASSUME NEW g \in Files PROVE Forth(g)'
  BY <1>1, <1>2, SenderForth DEF Forward
<1> QED
  BY <1>3 DEF Forward

LEMMA OpenedUp ==
    ASSUME Opened, NEW f \in Files, sender' = sender, \A g \in Files \ {f} : up'[g] = up[g],
           up[f].at \in {"open", "fill", "closing", "ended"},
           up'[f].at \in {"open", "fill", "closing", "ended"},
           InFlight(f)' <= Window \div Block,
           up'[f].queued > 0 => InFlight(f)' < Window \div Block
    PROVE  Opened'
<1>1. Occupied' = Occupied
  BY DEF Occupied
<1>2. ASSUME NEW g \in Files
      PROVE  /\ up'[g].at = "aborted" => sender' \in {"stopping", "stopped"}
             /\ InFlight(g)' <= Window \div Block
             /\ up'[g].queued > 0 => InFlight(g)' < Window \div Block
  <2>1. CASE g = f
    BY <2>1
  <2>2. CASE g # f
    <3>1. up'[g] = up[g] /\ InFlight(g)' = InFlight(g)
      BY <2>2 DEF InFlight
    <3> QED
      BY <3>1 DEF Opened
  <2> QED
    BY <2>1, <2>2
<1> QED
  BY <1>1, <1>2 DEF Opened

LEMMA OpenStreamOrder ==
    ASSUME Inductive, Orderly, NEW f \in Files, OpenStream(f)
    PROVE  Orderly'
<1> DEFINE m == Msg("Open", f, 0, 0)
<1>1. up[f].at = "open" /\ up' = [up EXCEPT ![f].at = "fill"] /\ Enqueue(m)
  BY DEF OpenStream, At
<1>2. UNCHANGED <<sender, known, acks, toSender, toReceiver, writing, receiving, fault>>
  BY <1>1 DEF Enqueue
<1>3. /\ up' \in [Files -> Uploads] /\ up'[f].at = "fill"
      /\ \A g \in Files : /\ up'[g].offset = up[g].offset /\ up'[g].acked = up[g].acked
                          /\ up'[g].queued = up[g].queued
      /\ \A g \in Files \ {f} : up'[g] = up[g]
  BY <1>1, UpMoves DEF Inductive
<1>4. m \in StreamMessages /\ m.file = f
  BY DEF Msg, StreamMessages, StreamKinds
<1>5. Enqueue(m)
  BY <1>1
<1>6. ASSUME NEW e, Queued(f, e) PROVE \E d : Moves(f, e, m, d) /\ Queued(f, d)'
  <2> DEFINE d == Place("fill", e.offset, 0)
  <2>1. e \in Places(f) /\ e.at = "open" /\ e.offset = up[f].offset /\ e.queued = up[f].queued
    BY <1>1, <1>6 DEF Queued
  <2>2. Moves(f, e, m, d)
    BY <2>1 DEF Moves
  <2>3. e.queued = 0
    BY <2>1, PlaceIs
  <2>4. d.at = "fill" /\ d.offset = e.offset /\ d.queued = 0
    BY PlaceFields
  <2> HIDE DEF d, m
  <2>5. d \in Places(f)
    BY <2>1, <2>2, MovesIs
  <2>6. Queued(f, d)'
    BY <1>3, <2>1, <2>3, <2>4, <2>5 DEF Queued
  <2> QED
    BY <2>2, <2>6
<1> HIDE DEF m
<1>7. Forward'
  BY <1>3, <1>4, <1>5, <1>6, EnqueuedForth DEF Orderly
<1>8. Backward'
  <2>1. \A g \in Files : Acked(g)' = Acked(g)
    BY <1>1, <1>3 DEF Acked
  <2> QED
    BY <1>2, <2>1, BackwardSame DEF Orderly, receiving
<1>9. Opened'
  <2>1. InFlight(f)' = InFlight(f) /\ up'[f].queued = up[f].queued
    BY <1>3 DEF InFlight
  <2>2. InFlight(f) <= Window \div Block /\ (up[f].queued > 0 => InFlight(f) < Window \div Block)
    BY DEF Orderly, Opened
  <2> QED
    BY <1>1, <1>2, <1>3, <2>1, <2>2, OpenedUp DEF Orderly
<1>10. Loops'
  BY <1>2, LoopsSame DEF Orderly, receiving
<1> QED
  BY <1>2, <1>7, <1>8, <1>9, <1>10 DEF Orderly, Alive
\* One block more is one more.
LEMMA RoundedStep ==
    ASSUME NEW n \in Nat, NEW m \in Nat, NEW b \in Nat, b > 0, m <= n + b
    PROVE  CeilDiv(m, b) <= CeilDiv(n, b) + 1
<1> DEFINE q == CeilDiv(n, b)
<1>1. q \in Nat /\ q * b \in Nat /\ n <= q * b /\ q * b < n + b
  BY RoundedUp
<1> HIDE DEF q
<1>2. (q + 1) * b = q * b + b
  BY <1>1
<1>3. q + 1 = CeilDiv(n + b, b)
  <2>1. n + b <= (q + 1) * b /\ (q + 1) * b < (n + b) + b /\ q + 1 \in Nat /\ n + b \in Nat
    BY <1>1, <1>2
  <2> QED
    BY <2>1, RoundedUp
<1>4. CeilDiv(m, b) <= CeilDiv(n + b, b)
  <2>1. n + b \in Nat
    OBVIOUS
  <2> QED
    BY <2>1, RoundedOrder
<1> QED
  BY <1>3, <1>4 DEF q

LEMMA QueuePacketOrder ==
    ASSUME Inductive, Orderly, NEW f \in Files, QueuePacket(f)
    PROVE  Orderly'
<1> DEFINE u == up[f]
           parts == BlockPackets(f, u.offset)
           end == BlockEnd(f, u.offset)
           m == parts[u.queued + 1]
           next == IF u.queued + 1 = Len(parts)
                   THEN [u EXCEPT !.queued = 0, !.offset = end]
                   ELSE [u EXCEPT !.queued = u.queued + 1]
<1>1. /\ u.at = "fill" /\ u.offset < Size[f] /\ InFlight(f) < Window \div Block
      /\ up' = [up EXCEPT ![f] = next] /\ Enqueue(m)
  BY DEF QueuePacket, At, HasWindow
<1>2. UNCHANGED <<sender, known, acks, toSender, toReceiver, writing, receiving, fault>>
  BY <1>1 DEF Enqueue
<1>3. /\ u.offset \in Nat /\ u.acked \in Nat /\ u.queued \in Nat /\ u \in Uploads
      /\ u.acked <= u.offset /\ u.offset <= Size[f] /\ Size[f] \in Nat
      /\ Aligned(f, u.offset)
  BY UploadOf, Sizes DEF Inductive, Windowed, Typed
<1>4. end \in Nat /\ u.offset < end /\ end <= u.offset + Block
  <2>1. end \in Nat /\ u.offset < end /\ end - u.offset <= Block
    BY <1>1, <1>3, NextBlock
  <2> HIDE DEF u, end
  <2> QED
    BY <1>3, <2>1, Constants
<1>5. /\ next \in Uploads /\ next.at = "fill" /\ next.acked = u.acked
      /\ u.queued + 1 = Len(parts) => next.queued = 0 /\ next.offset = end
      /\ u.queued + 1 # Len(parts) => next.queued = u.queued + 1 /\ next.offset = u.offset
  <2> HIDE DEF u, end, parts
  <2>1. CASE u.queued + 1 = Len(parts)
    <3>1. next = [u EXCEPT !.queued = 0, !.offset = end]
      BY <2>1
    <3> HIDE DEF next
    <3> QED
      BY <1>1, <1>3, <1>4, <2>1, <3>1 DEF Uploads
  <2>2. CASE u.queued + 1 # Len(parts)
    <3>1. next = [u EXCEPT !.queued = u.queued + 1]
      BY <2>2
    <3> HIDE DEF next
    <3> QED
      BY <1>1, <1>3, <2>2, <3>1 DEF Uploads
  <2> QED
    BY <2>1, <2>2
<1> HIDE DEF next
<1>6. /\ up'[f] = next
      /\ \A g \in Files \ {f} : up'[g] = up[g]
  BY <1>1 DEF Inductive, Typed
<1>7. ASSUME NEW e, Queued(f, e)
      PROVE  /\ \E d : Moves(f, e, m, d) /\ Queued(f, d)'
             /\ m \in StreamMessages /\ m.file = f
  <2> DEFINE d == IF e.queued + 1 = Len(BlockPackets(f, e.offset))
                  THEN Place("fill", BlockEnd(f, e.offset), 0)
                  ELSE Place("fill", e.offset, e.queued + 1)
  <2>1. e \in Places(f) /\ e.at = "fill" /\ e.offset = u.offset /\ e.queued = u.queued
    BY <1>1, <1>7 DEF Queued
  <2>2. m = BlockPackets(f, e.offset)[e.queued + 1] /\ e.offset < Size[f]
    BY <1>1, <2>1
  <2>3. /\ d.at = "fill"
        /\ u.queued + 1 = Len(parts) => d.queued = 0 /\ d.offset = end
        /\ u.queued + 1 # Len(parts) => d.queued = u.queued + 1 /\ d.offset = u.offset
    BY <2>1, PlaceFields
  <2> HIDE DEF m
  <2>4. Moves(f, e, m, d)
    BY <2>1, <2>2 DEF Moves
  <2> HIDE DEF d, u, parts, end
  <2>5. d \in Places(f) /\ m \in StreamMessages /\ m.file = f
    BY <2>1, <2>4, MovesIs
  <2>6. d.offset = next.offset /\ d.queued = next.queued
    BY <1>5, <2>3
  <2>7. Queued(f, d)'
    BY <1>5, <1>6, <2>3, <2>5, <2>6 DEF Queued
  <2> QED
    BY <2>4, <2>5, <2>7
<1>8. Enqueue(m)
  BY <1>1
<1>9. m \in StreamMessages /\ m.file = f
  <2>1. parts \in Seq(StreamMessages) /\ Len(parts) > 0
        /\ \A i \in 1..Len(parts) : parts[i].file = f
    BY <1>1, <1>3, PacketsOfBlock
  <2>2. u.queued < Len(parts)
    BY <1>1 DEF Inductive, Windowed
  <2>3. Len(parts) \in Nat
    BY <2>1, LenProperties
  <2> HIDE DEF parts, u
  <2>4. u.queued + 1 \in 1..Len(parts)
    BY <1>3, <2>2, <2>3
  <2> QED
    BY <2>1, <2>4, ElementOfSeq
<1> HIDE DEF m
<1>10. Forward'
  BY <1>6, <1>7, <1>8, <1>9, EnqueuedForth DEF Orderly
<1>11. Backward'
  <2>1. up[f].at = "fill" /\ up'[f].at = "fill" /\ up'[f].acked = up[f].acked
    BY <1>1, <1>5, <1>6
  <2>2. \A g \in Files : Acked(g)' = Acked(g)
    BY <1>6, <2>1 DEF Acked
  <2> QED
    BY <1>2, <2>2, BackwardSame DEF Orderly, receiving
<1>12. Opened'
  <2> DEFINE w == Window \div Block
             n == CeilDiv(u.offset - u.acked, Block)
             n2 == CeilDiv(next.offset - next.acked, Block)
  <2>1. n < w /\ InFlight(f) = n
    BY <1>1 DEF InFlight
  <2>2. InFlight(f)' = n2
    BY <1>6 DEF InFlight
  <2>3. w \in Nat
    BY WindowFits
  <2>4. n \in Nat /\ u.offset - u.acked \in Nat
    <3>1. u.offset - u.acked \in Nat
      BY <1>3
    <3> QED
      BY <3>1, Constants, AtLeastOne
  <2>5. CASE u.queued + 1 = Len(parts)
    <3>1. next.offset - next.acked = end - u.acked /\ next.queued = 0
      BY <1>5, <2>5
    <3>2. end - u.acked \in Nat /\ end - u.acked <= (u.offset - u.acked) + Block
      <4> HIDE DEF u, end
      <4> QED
        BY <1>3, <1>4, Constants
    <3>3. CeilDiv(end - u.acked, Block) <= n + 1 /\ CeilDiv(end - u.acked, Block) \in Nat
      <4> HIDE DEF u, end
      <4> QED
        BY <2>4, <3>2, Constants, RoundedStep, AtLeastOne
    <3> HIDE DEF n, w, u, end
    <3>4. n2 <= n + 1 /\ n2 \in Nat
      BY <3>1, <3>3
    <3> HIDE DEF n2
    <3>5. n2 <= w
      BY <2>1, <2>3, <2>4, <3>4
    <3>6. up'[f].queued = 0
      BY <1>6, <3>1
    <3> QED
      BY <1>1, <1>2, <1>5, <1>6, <2>2, <3>5, <3>6, OpenedUp DEF Orderly, w, u
  <2>6. CASE u.queued + 1 # Len(parts)
    <3>1. next.offset = u.offset /\ next.acked = u.acked
      BY <1>5, <2>6
    <3>2. n2 = n
      BY <3>1
    <3> HIDE DEF n, n2, w
    <3>3. n2 <= w /\ n2 < w
      BY <2>1, <2>3, <2>4, <3>2
    <3> QED
      BY <1>1, <1>2, <1>5, <1>6, <2>2, <3>3, OpenedUp DEF Orderly, w
  <2> QED
    BY <2>5, <2>6
<1>13. Loops'
  BY <1>2, LoopsSame DEF Orderly, receiving
<1> QED
  BY <1>2, <1>10, <1>11, <1>12, <1>13 DEF Orderly, Alive

LEMMA CloseStreamOrder ==
    ASSUME Inductive, Orderly, NEW f \in Files, CloseStream(f)
    PROVE  Orderly'
<1> DEFINE m == Msg("Close", f, 0, 0)
<1>1. /\ up[f].at = "fill" /\ up[f].offset = Size[f] /\ InFlight(f) = 0
      /\ up' = [up EXCEPT ![f].at = "closing"] /\ Enqueue(m)
  BY DEF CloseStream, At, Flushed, AfterClose
<1>2. UNCHANGED <<sender, known, acks, toSender, toReceiver, writing, receiving, fault>>
  BY <1>1 DEF Enqueue
<1>3. /\ up' \in [Files -> Uploads] /\ up'[f].at = "closing"
      /\ \A g \in Files : /\ up'[g].offset = up[g].offset /\ up'[g].acked = up[g].acked
                          /\ up'[g].queued = up[g].queued
      /\ \A g \in Files \ {f} : up'[g] = up[g]
  BY <1>1, UpMoves DEF Inductive
<1>4. m \in StreamMessages /\ m.file = f
  BY DEF Msg, StreamMessages, StreamKinds
<1>5. Enqueue(m)
  BY <1>1
<1>6. up[f].acked = Size[f]
  <2>1. up[f].acked \in Nat /\ up[f].acked <= up[f].offset /\ up[f].offset \in Nat
    BY UploadOf
  <2>2. CeilDiv(up[f].offset - up[f].acked, Block) = 0 /\ up[f].offset - up[f].acked \in Nat
    BY <1>1, <2>1 DEF InFlight
  <2>3. ~(up[f].offset - up[f].acked > 0)
    <3> DEFINE n == up[f].offset - up[f].acked
    <3> HIDE DEF n
    <3>1. n \in Nat /\ CeilDiv(n, Block) = 0
      BY <2>2 DEF n
    <3>2. n > 0 => CeilDiv(n, Block) >= 1
      BY <3>1, Constants, AtLeastOne
    <3>3. ~(n > 0)
      BY <3>1, <3>2
    <3> QED
      BY <3>3 DEF n
  <2> QED
    BY <1>1, <2>1, <2>3
<1>7. ASSUME NEW e, Queued(f, e) PROVE \E d : Moves(f, e, m, d) /\ Queued(f, d)'
  <2> DEFINE d == Place("closed", e.offset, 0)
  <2>1. e \in Places(f) /\ e.at = "fill" /\ e.offset = up[f].offset /\ e.queued = up[f].queued
    BY <1>1, <1>7 DEF Queued
  <2>2. Moves(f, e, m, d)
    BY <1>1, <2>1 DEF Moves
  <2>3. e.queued = 0
    BY <1>1, <2>1, PlaceIs
  <2>4. d.at = "closed" /\ d.offset = e.offset /\ d.queued = 0
    BY PlaceFields
  <2> HIDE DEF d, m
  <2>5. d \in Places(f)
    BY <2>1, <2>2, MovesIs
  <2>6. Queued(f, d)'
    BY <1>3, <1>6, <2>1, <2>3, <2>4, <2>5 DEF Queued
  <2> QED
    BY <2>2, <2>6
<1> HIDE DEF m
<1>8. Forward'
  BY <1>3, <1>4, <1>5, <1>7, EnqueuedForth DEF Orderly
<1>9. Backward'
  <2>1. \A g \in Files : Acked(g)' = Acked(g)
    BY <1>1, <1>3 DEF Acked
  <2> QED
    BY <1>2, <2>1, BackwardSame DEF Orderly, receiving
<1>10. Opened'
  <2>1. InFlight(f)' = InFlight(f) /\ up'[f].queued = up[f].queued
    BY <1>3 DEF InFlight
  <2>2. InFlight(f) <= Window \div Block /\ (up[f].queued > 0 => InFlight(f) < Window \div Block)
    BY DEF Orderly, Opened
  <2> QED
    BY <1>1, <1>2, <1>3, <2>1, <2>2, OpenedUp DEF Orderly
<1>11. Loops'
  BY <1>2, LoopsSame DEF Orderly, receiving
<1> QED
  BY <1>2, <1>8, <1>9, <1>10, <1>11 DEF Orderly, Alive
\* The oldest acknowledgement is the one the worker waits for.
LEMMA OldestAck ==
    ASSUME Inductive, Backward, NEW f \in Files, acks[f] # <<>>
    PROVE  \E k, c : /\ Reports(f) /\ Heard(f, k) /\ Replies(f, k) /\ Acked(f) \in Marks(f)
                     /\ Returns(f, Acked(f), Head(acks[f]), c) /\ c \in Marks(f)
                     /\ Path(Answers(f), Tail(acks[f]), c, k)
<1>1. PICK k : Reports(f) /\ Heard(f, k) /\ Replies(f, k)
  BY DEF Backward, Back
<1>2. /\ Acked(f) \in Marks(f) /\ Path(Answers(f), acks[f], Acked(f), k)
      /\ \A i \in 1..Len(acks[f]) : acks[f][i].file = f
  BY <1>1 DEF Heard
<1>3. acks[f] \in Seq(Messages)
  BY Channels
<1>4. PICK c : <<Acked(f), Head(acks[f]), c>> \in Answers(f) /\ Path(Answers(f), Tail(acks[f]), c, k)
  BY <1>2, <1>3, PathTail
<1>5. Head(acks[f]).file = f
  <2>1. 1 \in DOMAIN acks[f] /\ Head(acks[f]) = acks[f][1]
    BY <1>3, Tailed
  <2>2. DOMAIN acks[f] = 1..Len(acks[f])
    BY <1>3, LenProperties
  <2> QED
    BY <1>2, <2>1, <2>2
<1>6. Returns(f, Acked(f), Head(acks[f]), c) /\ c \in Marks(f)
  BY <1>4, <1>5, AnswersIs
<1> QED
  BY <1>1, <1>2, <1>4, <1>6

LEMMA AckTaken ==
    ASSUME Inductive, Backward, NEW f \in Files, acks[f] # <<>>,
           acks' = [acks EXCEPT ![f] = Tail(@)], UNCHANGED <<known, sender, toSender, receiving>>,
           \A g \in Files \ {f} : Acked(g)' = Acked(g),
           \A c : Returns(f, Acked(f), Head(acks[f]), c) => Acked(f)' = c
    PROVE  Backward'
<1>1. /\ acks'[f] = Tail(acks[f]) /\ \A g \in Files \ {f} : acks'[g] = acks[g]
  BY DEF Inductive, Typed
<1>2. \A g \in Files : Reported(g)' = Reported(g) /\ (Reports(g) => Reports(g)')
  <2>1. UNCHANGED <<receiver, events, reported, down, closed>>
    BY DEF receiving
  <2> QED
    BY <2>1, ReportsSame DEF Reported
<1>3. UNCHANGED <<replying, known, sender, toSender>>
  BY DEF receiving
<1>4. Back(f)'
  <2>1. PICK k, c : /\ Reports(f) /\ Heard(f, k) /\ Replies(f, k) /\ Acked(f) \in Marks(f)
                    /\ Returns(f, Acked(f), Head(acks[f]), c) /\ c \in Marks(f)
                    /\ Path(Answers(f), Tail(acks[f]), c, k)
    BY OldestAck
  <2>2. Acked(f)' = c
    BY <2>1
  <2>3. \A i \in 1..Len(Tail(acks[f])) : Tail(acks[f])[i].file = f
    <3>1. acks[f] \in Seq(Messages)
      BY Channels
    <3>2. /\ \A i \in DOMAIN Tail(acks[f]) :
               i + 1 \in DOMAIN acks[f] /\ Tail(acks[f])[i] = acks[f][i + 1]
          /\ Tail(acks[f]) \in Seq(Messages)
      BY <3>1, Tailed
    <3>3. DOMAIN acks[f] = 1..Len(acks[f]) /\ DOMAIN Tail(acks[f]) = 1..Len(Tail(acks[f]))
      BY <3>1, <3>2, LenProperties
    <3>4. \A i \in 1..Len(acks[f]) : acks[f][i].file = f
      BY <2>1 DEF Heard
    <3> QED
      BY <3>2, <3>3, <3>4
  <2>4. Heard(f, k)'
    <3>1. k \in Marks(f) /\ known[f] = Least(k, Size[f]) /\ k <= Reported(f)
      BY <2>1 DEF Heard
    <3> QED
      BY <1>1, <1>2, <1>3, <2>1, <2>2, <2>3, <3>1 DEF Heard
  <2>5. Replies(f, k)'
    BY <1>2, <1>3, <2>1, RepliesSame
  <2> QED
    BY <1>2, <2>1, <2>4, <2>5 DEF Back
<1>5. ASSUME NEW g \in Files, g # f PROVE Back(g)'
  <2>1. PICK k : Reports(g) /\ Heard(g, k) /\ Replies(g, k)
    BY DEF Backward, Back
  <2>2. Heard(g, k)'
    <3>1. known'[g] = known[g] /\ acks'[g] = acks[g] /\ Acked(g)' = Acked(g)
      BY <1>1, <1>3, <1>5
    <3> QED
      BY <1>2, <2>1, <3>1, HeardSame
  <2>3. Replies(g, k)'
    BY <1>2, <1>3, <2>1, RepliesSame
  <2> QED
    BY <1>2, <2>1, <2>2, <2>3 DEF Back
<1> QED
  BY <1>4, <1>5 DEF Backward

LEMMA TakeAckOrder ==
    ASSUME Inductive, Orderly, NEW f \in Files, TakeAck(f)
    PROVE  Orderly'
<1> DEFINE ack == Head(acks[f])
           end == BlockEnd(f, up[f].acked)
           ok == ack = Msg("Checkpoint", f, end, end - up[f].acked)
<1>1. /\ up[f].at = "fill" /\ InFlight(f) > 0 /\ acks[f] # <<>>
      /\ Ensure(ok, "protocol",
              /\ up' = [up EXCEPT ![f].acked = end]
              /\ acks' = [acks EXCEPT ![f] = Tail(@)]
              /\ UNCHANGED <<sender, pressed, waiting, packets, writing, known,
                             completed, toReceiver, toSender, receiving>>)
  BY DEF TakeAck, At
<1>2. /\ up[f].offset \in Nat /\ up[f].acked \in Nat /\ up[f].acked <= up[f].offset
      /\ up[f].offset <= Size[f] /\ Size[f] \in Nat /\ up \in [Files -> Uploads]
      /\ Aligned(f, up[f].acked) /\ Aligned(f, up[f].offset)
  BY UploadOf, Sizes DEF Inductive, Typed, Windowed
<1>3. up[f].acked < up[f].offset
  <2>1. up[f].acked # up[f].offset
    <3> SUFFICES ASSUME up[f].acked = up[f].offset PROVE FALSE
      OBVIOUS
    <3>1. up[f].offset - up[f].acked = 0
      BY <1>2
    <3>2. InFlight(f) = 0
      BY <3>1, Constants, AtLeastOne DEF InFlight
    <3> QED
      BY <1>1, <3>2
  <2> QED
    BY <1>2, <2>1
<1>4. Acked(f) = up[f].acked
  BY <1>1 DEF Acked
<1>5. ASSUME NEW c, Returns(f, Acked(f), ack, c) PROVE ok /\ c = end
  <2>1. up[f].acked # Size[f]
    BY <1>2, <1>3
  <2> QED
    BY <1>4, <1>5, <2>1 DEF Returns
<1>6. ok
  BY <1>1, <1>5, OldestAck DEF Orderly
<1>7. /\ up' = [up EXCEPT ![f].acked = end]
      /\ acks' = [acks EXCEPT ![f] = Tail(@)]
      /\ UNCHANGED <<sender, packets, writing, known, toReceiver, toSender, receiving, fault>>
  BY <1>1, <1>6 DEF Ensure
<1> HIDE DEF ok, ack
<1>8. /\ up'[f].acked = end /\ up'[f].at = "fill" /\ up'[f].offset = up[f].offset
      /\ up'[f].queued = up[f].queued
      /\ \A g \in Files \ {f} : up'[g] = up[g]
  BY <1>1, <1>2, <1>7 DEF Uploads
<1>9. end \in Nat /\ up[f].acked < end /\ end <= up[f].offset
  BY <1>2, <1>3, NextBlock
<1> HIDE DEF end
<1>10. Forward'
  <2>1. ASSUME NEW g \in Files, NEW e, Queued(g, e) PROVE Queued(g, e)'
    <3>1. CASE g = f
      <4>1. e.at = "fill"
        BY <1>1, <2>1, <3>1 DEF Queued
      <4> QED
        BY <1>8, <2>1, <3>1, <4>1 DEF Queued
    <3>2. CASE g # f
      BY <1>8, <2>1, <3>2 DEF Queued
    <3> QED
      BY <3>1, <3>2
  <2> QED
    BY <1>7, <2>1, UpForth DEF Orderly
<1>11. Backward'
  <2>1. Acked(f)' = end
    BY <1>8 DEF Acked
  <2>2. \A g \in Files \ {f} : Acked(g)' = Acked(g)
    BY <1>8 DEF Acked
  <2>3. \A c : Returns(f, Acked(f), Head(acks[f]), c) => Acked(f)' = c
    BY <1>5, <2>1 DEF ack
  <2> QED
    BY <1>1, <1>7, <2>2, <2>3, AckTaken DEF Orderly
<1>12. Opened'
  <2>1. InFlight(f)' = CeilDiv(up[f].offset - end, Block)
    BY <1>8 DEF InFlight
  <2>2. InFlight(f)' <= InFlight(f) /\ InFlight(f)' \in Nat /\ InFlight(f) \in Nat
    <3> DEFINE n == up[f].offset - end
               m == up[f].offset - up[f].acked
    <3>1. n \in Nat /\ m \in Nat /\ n <= m
      BY <1>2, <1>9
    <3>2. InFlight(f) = CeilDiv(m, Block) /\ InFlight(f)' = CeilDiv(n, Block)
      BY <2>1 DEF InFlight
    <3> HIDE DEF n, m
    <3>3. /\ CeilDiv(n, Block) <= CeilDiv(m, Block)
          /\ CeilDiv(n, Block) \in Nat /\ CeilDiv(m, Block) \in Nat
      BY <3>1, Constants, RoundedOrder, AtLeastOne
    <3> QED
      BY <3>2, <3>3
  <2>3. InFlight(f) <= Window \div Block /\ (up[f].queued > 0 => InFlight(f) < Window \div Block)
    BY DEF Orderly, Opened
  <2>4. Window \div Block \in Nat
    BY WindowFits
  <2> DEFINE n == InFlight(f)'
             m == InFlight(f)
             w == Window \div Block
  <2>5. n <= w /\ (up[f].queued > 0 => n < w)
    <3> HIDE DEF n, m, w
    <3>1. n <= m /\ n \in Nat /\ m \in Nat /\ w \in Nat
      BY <2>2, <2>4 DEF n, m, w
    <3>2. m <= w /\ (up[f].queued > 0 => m < w)
      BY <2>3 DEF m, w
    <3> QED
      BY <3>1, <3>2
  <2> HIDE DEF m
  <2> QED
    BY <1>1, <1>7, <1>8, <2>5, OpenedUp DEF Orderly
<1>13. Loops'
  BY <1>7, LoopsSame DEF Orderly, receiving
<1> QED
  BY <1>7, <1>10, <1>11, <1>12, <1>13 DEF Orderly, Alive

LEMMA TakeClosedOrder ==
    ASSUME Inductive, Orderly, NEW f \in Files, TakeClosed(f)
    PROVE  Orderly'
<1>1. /\ up[f].at = "closing" /\ acks[f] # <<>>
      /\ Ensure(Head(acks[f]).kind = "Closed", "protocol",
              /\ up' = [up EXCEPT ![f].at = "ended"]
              /\ acks' = [acks EXCEPT ![f] = Tail(@)]
              /\ UNCHANGED <<sender, pressed, waiting, packets, writing, known,
                             completed, toReceiver, toSender, receiving>>)
  BY DEF TakeClosed, At
<1>2. up[f].acked = Size[f] /\ Size[f] \in Nat
  BY <1>1, Sizes DEF Inductive, Windowed
<1>3. Acked(f) = Size[f]
  BY <1>1, <1>2 DEF Acked
<1>4. ASSUME NEW c, Returns(f, Acked(f), Head(acks[f]), c)
      PROVE  Head(acks[f]).kind = "Closed" /\ c = Size[f] + 1
  BY <1>2, <1>3, <1>4 DEF Returns, Msg
<1>5. Head(acks[f]).kind = "Closed"
  BY <1>1, <1>4, OldestAck DEF Orderly
<1>6. /\ up' = [up EXCEPT ![f].at = "ended"]
      /\ acks' = [acks EXCEPT ![f] = Tail(@)]
      /\ UNCHANGED <<sender, packets, writing, known, toReceiver, toSender, receiving, fault>>
  BY <1>1, <1>5 DEF Ensure
<1>7. /\ up' \in [Files -> Uploads] /\ up'[f].at = "ended"
      /\ \A g \in Files : /\ up'[g].offset = up[g].offset /\ up'[g].acked = up[g].acked
                          /\ up'[g].queued = up[g].queued
      /\ \A g \in Files \ {f} : up'[g] = up[g]
  BY <1>6, UpMoves DEF Inductive
<1>8. Forward'
  <2>1. ASSUME NEW g \in Files, NEW e, Queued(g, e) PROVE Queued(g, e)'
    <3>1. CASE g = f
      BY <1>1, <1>7, <2>1, <3>1 DEF Queued
    <3>2. CASE g # f
      BY <1>7, <2>1, <3>2 DEF Queued
    <3> QED
      BY <3>1, <3>2
  <2> QED
    BY <1>6, <2>1, UpForth DEF Orderly
<1>9. Backward'
  <2>1. Acked(f)' = Size[f] + 1
    BY <1>7 DEF Acked
  <2>2. \A g \in Files \ {f} : Acked(g)' = Acked(g)
    BY <1>7 DEF Acked
  <2>3. \A c : Returns(f, Acked(f), Head(acks[f]), c) => Acked(f)' = c
    BY <1>4, <2>1
  <2> QED
    BY <1>1, <1>6, <2>2, <2>3, AckTaken DEF Orderly
<1>10. Opened'
  <2>1. InFlight(f)' = InFlight(f) /\ up'[f].queued = up[f].queued
    BY <1>7 DEF InFlight
  <2>2. InFlight(f) <= Window \div Block /\ (up[f].queued > 0 => InFlight(f) < Window \div Block)
    BY DEF Orderly, Opened
  <2> QED
    BY <1>1, <1>6, <1>7, <2>1, <2>2, OpenedUp DEF Orderly
<1>11. Loops'
  BY <1>6, LoopsSame DEF Orderly, receiving
<1> QED
  BY <1>6, <1>8, <1>9, <1>10, <1>11 DEF Orderly, Alive
-----------------------------------------------------------------------------
(* Order: the loop of the sender.                                          *)

\* What the sender's loop moves on keeps its order.
LEMMA AheadForth ==
    ASSUME Forward, UNCHANGED receiving,
           \A f \in Files : \A a \in Places(f) : Ahead(f, a) => Ahead(f, a)'
    PROVE  Forward'
<1>1. UNCHANGED <<receiver, queue, down>>
  BY DEF receiving
<1>2. ASSUME NEW f \in Files PROVE Forth(f)'
  BY <1>1, SenderForth DEF Forward
<1> QED
  BY <1>2 DEF Forward

LEMMA PressOrder ==
    ASSUME Inductive, Orderly, Press
    PROVE  Orderly'
<1>1. UNCHANGED <<sending, toReceiver, toSender, receiving, fault>>
  BY DEF Press
<1>2. UNCHANGED <<sender, up, packets, writing, acks, known>>
  BY <1>1 DEF sending
<1>3. /\ UNCHANGED <<receiver, queue, down, closing, events, replying, reported, closed>>
      /\ UNCHANGED <<toReceiver, toSender, fault>>
  BY <1>1 DEF receiving
<1>4. Forward'
  BY <1>2, <1>3, ForwardSame DEF Orderly
<1>5. Backward'
  <2>1. \A g \in Files : Acked(g)' = Acked(g)
    BY <1>2 DEF Acked
  <2> QED
    BY <1>2, <1>3, <2>1, BackwardSame DEF Orderly
<1>6. Opened'
  BY <1>2, OpenedSame DEF Orderly
<1>7. Loops'
  BY <1>2, <1>3, LoopsSame DEF Orderly
<1> QED
  BY <1>3, <1>4, <1>5, <1>6, <1>7 DEF Orderly, Alive

LEMMA FilesFinite ==
    IsFiniteSet(Files)
  BY Sizes, FS_Interval

\* While the sender runs no worker is aborted.
LEMMA OccupiedIsBusy ==
    ASSUME Opened, sender = "run"
    PROVE  Occupied = Busy
  BY DEF Opened, Occupied, Busy

LEMMA SpawnOrder ==
    ASSUME Inductive, Orderly, Spawn
    PROVE  Orderly'
<1> DEFINE w == waiting
<1>1. /\ w <= Len(Size) /\ Cardinality(Busy) < Streams /\ sender = "run"
      /\ up' = [up EXCEPT ![w].at = "open"]
      /\ UNCHANGED <<sender, packets, writing, acks, known, toReceiver, toSender, receiving, fault>>
  BY DEF Spawn, CanSpawn, AtTop
<1>2. w \in Files
  BY <1>1, Sizes DEF Inductive, TypeOK
<1>3. up[w].at = "none"
  BY <1>2, Sizes DEF Inductive, Counted
<1> HIDE DEF w
<1>4. /\ up' \in [Files -> Uploads] /\ up'[w].at = "open"
      /\ \A g \in Files : /\ up'[g].offset = up[g].offset /\ up'[g].acked = up[g].acked
                          /\ up'[g].queued = up[g].queued
      /\ \A g \in Files \ {w} : up'[g] = up[g]
  BY <1>1, <1>2, UpMoves DEF Inductive
<1>5. Forward'
  <2>1. ASSUME NEW g \in Files, NEW e, Queued(g, e) PROVE Queued(g, e)'
    <3>1. CASE g = w
      BY <1>3, <1>4, <2>1, <3>1 DEF Queued
    <3>2. CASE g # w
      BY <1>4, <2>1, <3>2 DEF Queued
    <3> QED
      BY <3>1, <3>2
  <2> QED
    BY <1>1, <2>1, UpForth DEF Orderly
<1>6. Backward'
  <2>1. \A g \in Files : Acked(g)' = Acked(g)
    BY <1>3, <1>4 DEF Acked
  <2> QED
    BY <1>1, <2>1, BackwardSame DEF Orderly, receiving
<1>7. Opened'
  <2>1. Occupied = Busy
    BY <1>1, OccupiedIsBusy DEF Orderly
  <2>2. Occupied' = Occupied \cup {w} /\ w \notin Occupied
    BY <1>2, <1>3, <1>4 DEF Occupied
  <2>3. IsFiniteSet(Occupied)
    BY FilesFinite, FS_Subset DEF Occupied
  <2>4. Cardinality(Occupied') = Cardinality(Occupied) + 1 /\ Cardinality(Occupied) \in Nat
    BY <2>2, <2>3, FS_AddElement, FS_CardinalityType
  <2>5. Cardinality(Occupied') <= Streams
    BY <1>1, <2>1, <2>4, QueueSizes
  <2>6. \A g \in Files : /\ up'[g].at = "aborted" => up[g].at = "aborted"
                         /\ InFlight(g)' = InFlight(g) /\ up'[g].queued = up[g].queued
    BY <1>4 DEF InFlight
  <2> QED
    BY <1>1, <2>5, <2>6 DEF Orderly, Opened
<1>8. Loops'
  BY <1>1, LoopsSame DEF Orderly, receiving
<1> QED
  BY <1>1, <1>5, <1>6, <1>7, <1>8 DEF Orderly, Alive

\* A loop's own message is written.
LEMMA PassedForth ==
    ASSUME Inductive, Forward, UNCHANGED <<toReceiver, packets, receiving>>, writing = <<>>,
           NEW kind \in LoopKinds, writing' = <<Msg(kind, none, 0, 0)>>,
           \A f \in Files : \A e : Queued(f, e) => Queued(f, e)'
    PROVE  Forward'
<1> DEFINE m == Msg(kind, none, 0, 0)
<1>1. m \in Messages /\ \A f \in Files : m.file # f
  BY OwnMessage
<1>2. writing' = <<m>>
  OBVIOUS
<1> HIDE DEF m
<1>3. Close \in Seq(Messages) /\ toReceiver \in Seq(Messages)
  BY Channels
<1>4. Close' = Close
  BY DEF Close, receiving
<1>5. ASSUME NEW f \in Files, NEW a \in Places(f), Ahead(f, a) PROVE Ahead(f, a)'
  <2>1. PICK e : Queued(f, e) /\ Route(Sends(f), Close, toReceiver, writing, packets, a, e)
    BY <1>5 DEF Ahead
  <2>2. Route(Sends(f), Close, toReceiver, <<>>, packets, a, e)
    BY <2>1
  <2>3. Route(Sends(f), Close, toReceiver, <<m>>, packets, a, e)
    BY <1>1, <1>3, <2>2, RoutePassed
  <2>4. Queued(f, e)'
    BY <2>1
  <2> QED
    BY <1>2, <1>4, <2>3, <2>4 DEF Ahead
<1> QED
  BY <1>5, AheadForth

LEMMA StopOrder ==
    ASSUME Inductive, Orderly, Stop
    PROVE  Orderly'
<1>1. /\ up' = [f \in Files |-> IF f \in Busy THEN [up[f] EXCEPT !.at = "aborted"]
                                              ELSE up[f]]
      /\ writing' = <<Msg("Pause", none, 0, 0)>> /\ sender' = "stopping"
      /\ sender = "run" /\ writing = <<>>
      /\ UNCHANGED <<packets, acks, known, toReceiver, toSender, receiving, fault>>
  BY DEF Stop, AtTop
<1>2. \A g \in Files : /\ up'[g].offset = up[g].offset /\ up'[g].acked = up[g].acked
                       /\ up'[g].queued = up[g].queued
                       /\ g \in Busy => up'[g].at = "aborted"
                       /\ g \notin Busy => up'[g] = up[g]
  BY <1>1 DEF Inductive, Typed, Uploads
<1>3. Forward'
  <2>1. ASSUME NEW g \in Files, NEW e, Queued(g, e) PROVE Queued(g, e)'
    <3>1. CASE g \in Busy
      BY <1>2, <2>1, <3>1 DEF Queued
    <3>2. CASE g \notin Busy
      BY <1>2, <2>1, <3>2 DEF Queued
    <3> QED
      BY <3>1, <3>2
  <2>2. "Pause" \in LoopKinds
    BY DEF LoopKinds
  <2> QED
    BY <1>1, <2>1, <2>2, PassedForth DEF Orderly
<1>4. Backward'
  <2> SUFFICES ASSUME NEW f \in Files PROVE Back(f)'
    BY DEF Backward
  <2>1. PICK k : Reports(f) /\ Heard(f, k)
    BY DEF Orderly, Backward, Back
  <2>2. Reports(f)' /\ Reported(f)' = Reported(f)
    BY <1>1, <2>1, ReportsSame DEF receiving, Reported
  <2>3. \A j : Replies(f, j)'
    BY <1>1 DEF Replies
  <2>4. CASE Acked(f)' = Acked(f)
    <3>1. Heard(f, k)'
      BY <1>1, <2>1, <2>2, <2>4, HeardSame
    <3> QED
      BY <2>2, <2>3, <3>1 DEF Back
  <2>5. CASE Acked(f)' # Acked(f)
    <3>1. up[f].at = "ended" /\ up'[f].at = "aborted"
      BY <1>2, <2>5 DEF Acked, Busy
    <3>2. up[f].acked = Size[f]
      BY <3>1 DEF Inductive, Windowed
    <3>3. Acked(f) = Size[f] + 1 /\ Acked(f)' = Size[f]
      BY <1>2, <3>1, <3>2 DEF Acked
    <3>4. /\ known[f] = Least(k, Size[f]) /\ k <= Reported(f) /\ k \in Marks(f)
          /\ Path(Answers(f), acks[f], Size[f] + 1, k)
          /\ \A i \in 1..Len(acks[f]) : acks[f][i].file = f
      BY <2>1, <3>3 DEF Heard
    <3>5. Size[f] \in Nat /\ Size[f] \in Marks(f) /\ Size[f] + 1 \in Marks(f) /\ k \in Nat
          /\ k <= Size[f] + 1
      BY <3>4, MarkIs
    <3>6. acks[f] \in Seq(Messages) /\ Len(acks[f]) \in Nat
      BY Channels, LenProperties
    <3>7. Size[f] + 1 <= k /\ Blocks(f, Size[f] + 1) + Len(acks[f]) <= Blocks(f, k)
      BY <3>4, <3>5, <3>6, AnswersRise
    <3>8. k = Size[f] + 1
      BY <3>5, <3>7
    <3>9. Len(acks[f]) = 0
      BY <3>5, <3>6, <3>7, <3>8, BlocksIs
    <3>10. acks[f] = <<>>
      BY <3>6, <3>9, EmptySeq
    <3>11. Path(Answers(f), acks[f], Size[f], Size[f])
      BY <3>10, PathEmpty
    <3>12. known[f] = Least(Size[f], Size[f])
      BY <3>4, <3>5, <3>8 DEF Least
    <3>13. Size[f] <= Reported(f)
      <4>1. Size[f] + 1 <= Reported(f)
        BY <3>4, <3>8
      <4>2. Reported(f) \in Int
        BY <2>1, <3>5, MarkIs DEF Reported, Reports
      <4> QED
        BY <3>5, <4>1, <4>2
    <3>14. acks' = acks /\ known' = known
      BY <1>1
    <3>15. Heard(f, Size[f])'
      BY <2>2, <3>3, <3>4, <3>5, <3>11, <3>12, <3>13, <3>14 DEF Heard
    <3> QED
      BY <2>2, <2>3, <3>15 DEF Back
  <2> QED
    BY <2>4, <2>5
<1>5. Opened'
  <2>1. Occupied' = Occupied
    BY <1>2 DEF Occupied, Busy
  <2>2. \A g \in Files : InFlight(g)' = InFlight(g) /\ up'[g].queued = up[g].queued
    BY <1>2 DEF InFlight
  <2> QED
    BY <1>1, <2>1, <2>2 DEF Orderly, Opened
<1>6. Loops'
  <2>1. sender' \in {"stopping", "stopped"} /\ receiver # "complete"
    BY <1>1 DEF Orderly, Loops
  <2> QED
    BY <1>1, <2>1 DEF Orderly, Loops, Final, receiving
<1> QED
  BY <1>1, <1>3, <1>4, <1>5, <1>6 DEF Orderly, Alive

LEMMA CommitOrder ==
    ASSUME Inductive, Orderly, Commit
    PROVE  Orderly'
<1>1. /\ writing' = <<Msg("Commit", none, 0, 0)>> /\ sender' = "committing"
      /\ sender = "run" /\ writing = <<>>
      /\ UNCHANGED <<up, packets, acks, known, toReceiver, toSender, receiving, fault>>
  BY DEF Commit, AtTop
<1>2. Forward'
  <2>1. \A g \in Files : \A e : Queued(g, e) => Queued(g, e)'
    BY <1>1 DEF Queued
  <2>2. "Commit" \in LoopKinds
    BY DEF LoopKinds
  <2> QED
    BY <1>1, <2>1, <2>2, PassedForth DEF Orderly
<1>3. Backward'
  <2> SUFFICES ASSUME NEW f \in Files PROVE Back(f)'
    BY DEF Backward
  <2>1. PICK k : Reports(f) /\ Heard(f, k) /\ Replies(f, k)
    BY DEF Orderly, Backward, Back
  <2>2. Reports(f)' /\ Reported(f)' = Reported(f)
    BY <1>1, <2>1, ReportsSame DEF receiving, Reported
  <2>3. Heard(f, k)'
    BY <1>1, <2>1, <2>2, HeardSame DEF Acked
  <2>4. Replies(f, k)'
    BY <1>1, <2>1, <2>2 DEF Replies, receiving
  <2> QED
    BY <2>2, <2>3, <2>4 DEF Back
<1>4. Opened'
  <2>1. \A g \in Files : up[g].at # "aborted"
    BY <1>1 DEF Orderly, Opened
  <2> QED
    BY <1>1, <2>1 DEF Orderly, Opened, Occupied, InFlight
<1>5. Loops'
  <2>1. writing'[1].kind = "Commit" /\ Len(writing') = 1
    BY <1>1 DEF Msg
  <2>2. \A i \in 1..Len(writing') : writing'[i].kind # "Pause"
    BY <2>1
  <2> QED
    BY <1>1, <2>2 DEF Orderly, Loops, Final, receiving
<1> QED
  BY <1>1, <1>2, <1>3, <1>4, <1>5 DEF Orderly, Alive

\* A step of the loop that only moves packets on.
LEMMA MovedOnOrder ==
    ASSUME Orderly, Forward', Loops',
           UNCHANGED <<sender, up, acks, known, toSender, receiving, fault>>
    PROVE  Orderly'
<1>1. Backward'
  <2>1. \A g \in Files : Acked(g)' = Acked(g)
    BY DEF Acked
  <2> QED
    BY <2>1, BackwardSame DEF Orderly, receiving
<1>2. Opened'
  BY OpenedSame DEF Orderly
<1> QED
  BY <1>1, <1>2 DEF Orderly, Alive

LEMMA TakePacketOrder ==
    ASSUME Inductive, Orderly, TakePacket
    PROVE  Orderly'
<1>1. /\ packets # <<>> /\ writing = <<>>
      /\ writing' = <<Head(packets)>> /\ packets' = Tail(packets)
      /\ UNCHANGED <<sender, up, acks, known, toReceiver, toSender, receiving, fault>>
  BY DEF TakePacket, Selecting, AtTop
<1>2. packets \in Seq(Messages) /\ Head(packets).kind # "Pause"
  <2>1. packets \in Seq(StreamMessages) /\ packets \in Seq(Messages)
    BY Channels
  <2>2. Head(packets) \in StreamMessages
    BY <1>1, <2>1, Tailed
  <2> QED
    BY <2>1, <2>2 DEF StreamMessages, StreamKinds
<1>3. Forward'
  <2>1. Close' = Close
    BY <1>1 DEF Close, receiving
  <2>2. ASSUME NEW f \in Files, NEW a \in Places(f), Ahead(f, a) PROVE Ahead(f, a)'
    <3>1. PICK e : Queued(f, e) /\ Route(Sends(f), Close, toReceiver, writing, packets, a, e)
      BY <2>2 DEF Ahead
    <3>2. Route(Sends(f), Close, toReceiver, <<>>, packets, a, e)
      BY <1>1, <3>1
    <3>3. Route(Sends(f), Close, toReceiver, <<Head(packets)>>, Tail(packets), a, e)
      BY <1>1, <1>2, <3>2, RouteTaken
    <3>4. Queued(f, e)'
      BY <1>1, <3>1 DEF Queued
    <3> QED
      BY <1>1, <2>1, <3>3, <3>4 DEF Ahead
  <2> QED
    BY <1>1, <2>2, AheadForth DEF Orderly
<1>4. Loops'
  <2>1. writing'[1] = Head(packets) /\ Len(writing') = 1
    BY <1>1
  <2>2. \A i \in 1..Len(writing') : writing'[i].kind # "Pause"
    BY <1>2, <2>1
  <2> QED
    BY <1>1, <2>2 DEF Orderly, Loops, Final, receiving
<1> QED
  BY <1>1, <1>3, <1>4, MovedOnOrder

LEMMA WritePacketOrder ==
    ASSUME Inductive, Orderly, WritePacket
    PROVE  Orderly'
<1> DEFINE m == Head(writing)
<1>1. /\ writing # <<>> /\ toReceiver' = toReceiver \o writing /\ writing' = <<>>
      /\ UNCHANGED <<sender, up, packets, acks, known, toSender, receiving, fault>>
  BY DEF WritePacket
<1>2. writing \in Seq(Messages) /\ toReceiver \in Seq(Messages) /\ Len(writing) <= 1
  BY Channels, ChannelBounds
<1>3. writing = <<m>> /\ m \in Messages
  BY <1>1, <1>2, Single
<1> HIDE DEF m
<1>4. Forward'
  <2>1. Close' = Close
    BY <1>1 DEF Close, receiving
  <2>2. ASSUME NEW f \in Files, NEW a \in Places(f), Ahead(f, a) PROVE Ahead(f, a)'
    <3>1. PICK e : Queued(f, e) /\ Route(Sends(f), Close, toReceiver, writing, packets, a, e)
      BY <2>2 DEF Ahead
    <3>2. Route(Sends(f), Close, toReceiver, <<m>>, packets, a, e)
      BY <1>3, <3>1
    <3>3. Route(Sends(f), Close, toReceiver \o <<m>>, <<>>, packets, a, e)
      BY <1>2, <1>3, <3>2, RouteWritten
    <3>4. Queued(f, e)'
      BY <1>1, <3>1 DEF Queued
    <3>5. toReceiver' = toReceiver \o <<m>>
      BY <1>1, <1>3
    <3> QED
      BY <1>1, <2>1, <3>3, <3>4, <3>5 DEF Ahead
  <2> QED
    BY <1>1, <2>2, AheadForth DEF Orderly
<1>5. Loops'
  <2>1. \A i \in DOMAIN toReceiver' :
           \/ i \in DOMAIN toReceiver /\ toReceiver'[i] = toReceiver[i]
           \/ \E j \in DOMAIN writing : toReceiver'[i] = writing[j]
    BY <1>1, <1>2, Concatenated
  <2>2. toReceiver' \in Seq(Messages)
    BY <1>1, <1>2, ConcatProperties
  <2>3. /\ DOMAIN toReceiver' = 1..Len(toReceiver') /\ DOMAIN toReceiver = 1..Len(toReceiver)
        /\ DOMAIN writing = 1..Len(writing)
    BY <1>2, <2>2, LenProperties
  <2>4. ASSUME NEW i \in 1..Len(toReceiver'), toReceiver'[i].kind = "Pause"
        PROVE  sender \in {"stopping", "stopped"}
    <3>1. /\ \A j \in 1..Len(writing) : writing[j].kind = "Pause" => sender \in {"stopping", "stopped"}
          /\ \A j \in 1..Len(toReceiver) :
                toReceiver[j].kind = "Pause" => sender \in {"stopping", "stopped"}
      BY DEF Orderly, Loops
    <3> QED
      BY <2>1, <2>3, <2>4, <3>1
  <2>5. \A i \in 1..Len(writing') : FALSE
    BY <1>1
  <2> QED
    BY <1>1, <2>4, <2>5 DEF Orderly, Loops, Final, receiving
<1> QED
  BY <1>1, <1>4, <1>5, MovedOnOrder

LEMMA JoinSenderOrder ==
    ASSUME Inductive, Orderly, NEW f \in Files, JoinSender(f)
    PROVE  Orderly'
<1>1. /\ up[f].at = "ended" /\ up' = [up EXCEPT ![f].at = "joined"]
      /\ UNCHANGED <<sender, packets, writing, acks, known, toReceiver, toSender, receiving, fault>>
  BY DEF JoinSender, At
<1>2. /\ up' \in [Files -> Uploads] /\ up'[f].at = "joined"
      /\ \A g \in Files : /\ up'[g].offset = up[g].offset /\ up'[g].acked = up[g].acked
                          /\ up'[g].queued = up[g].queued
      /\ \A g \in Files \ {f} : up'[g] = up[g]
  BY <1>1, UpMoves DEF Inductive
<1>3. Forward'
  <2>1. ASSUME NEW g \in Files, NEW e, Queued(g, e) PROVE Queued(g, e)'
    <3>1. CASE g = f
      BY <1>1, <1>2, <2>1, <3>1 DEF Queued
    <3>2. CASE g # f
      BY <1>2, <2>1, <3>2 DEF Queued
    <3> QED
      BY <3>1, <3>2
  <2> QED
    BY <1>1, <2>1, UpForth DEF Orderly
<1>4. Backward'
  <2>1. \A g \in Files : Acked(g)' = Acked(g)
    BY <1>1, <1>2 DEF Acked
  <2> QED
    BY <1>1, <2>1, BackwardSame DEF Orderly, receiving
<1>5. Opened'
  <2>1. Occupied' \subseteq Occupied
    BY <1>2 DEF Occupied
  <2>2. IsFiniteSet(Occupied)
    BY FilesFinite, FS_Subset DEF Occupied
  <2>3. IsFiniteSet(Occupied') /\ Cardinality(Occupied') <= Cardinality(Occupied)
    BY <2>1, <2>2, FS_Subset
  <2>4. Cardinality(Occupied') \in Nat /\ Cardinality(Occupied) \in Nat
    BY <2>2, <2>3, FS_CardinalityType
  <2>5. Cardinality(Occupied') <= Streams
    BY <2>3, <2>4, QueueSizes DEF Orderly, Opened
  <2>6. \A g \in Files : /\ up'[g].at = "aborted" => up[g].at = "aborted"
                         /\ InFlight(g)' = InFlight(g) /\ up'[g].queued = up[g].queued
    BY <1>2 DEF InFlight
  <2> QED
    BY <1>1, <2>5, <2>6 DEF Orderly, Opened
<1>6. Loops'
  BY <1>1, LoopsSame DEF Orderly, receiving
<1> QED
  BY <1>1, <1>3, <1>4, <1>5, <1>6 DEF Orderly, Alive

-----------------------------------------------------------------------------
(* What the order of both directions says together.                        *)

\* What has been acknowledged has been reported, and what has been reported has
\* been received.
LEMMA Acknowledged ==
    ASSUME Inductive, NEW f \in Files, Reports(f), NEW k, Heard(f, k)
    PROVE  /\ Acked(f) \in Nat /\ k \in Nat /\ Reported(f) \in Nat /\ Reported(f) \in Marks(f)
           /\ up[f].acked <= Acked(f) /\ Acked(f) <= k /\ k <= Reported(f)
           /\ receiver = "run" => Reported(f) <= Done(f) /\ Done(f) \in Nat
           /\ f \notin closed => /\ Reported(f) = reported[f]
                                 /\ Done(f) = down[f].offset - down[f].credit
           /\ down[f].credit \in Nat
<1>1. /\ Acked(f) \in Marks(f) /\ k \in Marks(f) /\ Path(Answers(f), acks[f], Acked(f), k)
      /\ k <= Reported(f)
  BY DEF Heard
<1>2. acks[f] \in Seq(Messages) /\ events \in Seq(Messages)
  BY Channels
<1>3. Acked(f) <= k
  BY <1>1, <1>2, AnswersRise
<1>4. up[f].acked <= Acked(f)
  <2>1. up[f].acked \in Nat /\ Size[f] \in Nat /\ up[f].acked <= up[f].offset
        /\ up[f].offset <= Size[f] /\ up[f].offset \in Nat
    BY UploadOf, Sizes
  <2>2. up[f].acked <= Size[f] + 1
    BY <2>1
  <2> QED
    BY <2>1, <2>2 DEF Acked
<1>5. Reported(f) \in Marks(f)
  BY MarkIs DEF Reports, Reported
<1>6. receiver = "run" => Reported(f) <= Done(f) /\ Done(f) \in Marks(f)
  BY <1>2, <1>5, AnswersRise DEF Reports
<1>7. down[f].credit \in Nat
  <2>1. CASE down[f].at # "reporting"
    BY <2>1 DEF Inductive, Fresh
  <2>2. CASE down[f].at = "reporting"
    <3>1. PICK o \in 0..Size[f] - 1 : /\ Aligned(f, o) /\ down[f].offset = BlockEnd(f, o)
                                      /\ down[f].credit = down[f].offset - o
      BY <2>2 DEF Reports
    <3>2. Size[f] \in Nat /\ o \in Nat /\ o <= Size[f]
      BY <3>1, Sizes
    <3>3. o <= BlockEnd(f, o) /\ BlockEnd(f, o) \in Nat
      BY <3>1, <3>2, NextBlock
    <3> QED
      BY <3>1, <3>2, <3>3
  <2> QED
    BY <2>1, <2>2
<1> QED
  BY <1>1, <1>3, <1>4, <1>5, <1>6, <1>7, MarkIs DEF Reported, Done

\* A stream from its worker at the receiver to its worker at the sender.
Stream(f, r, a, e) ==
    /\ Reached(f, r) /\ Path(Sends(f), queue[f], r, a)
    /\ Total(f, queue[f]) = Bytes(a) - Bytes(r)
    /\ Queued(f, e) /\ Route(Sends(f), Close, toReceiver, writing, packets, a, e)

LEMMA StreamOf ==
    ASSUME Forward, receiver = "run", NEW f \in Files
    PROVE  \E r, a, e : Stream(f, r, a, e)
<1>1. PICK a : Behind(f, a) /\ Ahead(f, a)
  BY DEF Forward, Forth
<1>2. PICK r : /\ Reached(f, r) /\ Path(Sends(f), queue[f], r, a)
               /\ Total(f, queue[f]) = Bytes(a) - Bytes(r)
  BY <1>1 DEF Behind
<1>3. PICK e : Queued(f, e) /\ Route(Sends(f), Close, toReceiver, writing, packets, a, e)
  BY <1>1 DEF Ahead
<1> QED
  BY <1>2, <1>3 DEF Stream

LEMMA StreamRises ==
    ASSUME Inductive, NEW f \in Files, NEW r, NEW a, NEW e, Stream(f, r, a, e)
    PROVE  /\ r \in Places(f) /\ a \in Places(f) /\ e \in Places(f)
           /\ Rank(f, r) <= Rank(f, a) /\ Rank(f, a) <= Rank(f, e)
           /\ Bytes(r) <= Bytes(a) /\ Bytes(a) <= Bytes(e)
           /\ r.offset <= a.offset /\ a.offset <= e.offset
           /\ Rank(f, r) + Len(queue[f]) <= Rank(f, a)
<1>1. /\ Close \in Seq(Messages) /\ toReceiver \in Seq(Messages) /\ writing \in Seq(Messages)
      /\ packets \in Seq(Messages) /\ queue[f] \in Seq(Messages)
  BY Channels
<1>2. r \in Places(f) /\ Path(Sends(f), queue[f], r, a)
  BY DEF Stream, Reached
<1>3. \A i \in 1..Len(queue[f]) : queue[f][i].file = f
  <2>1. DOMAIN queue[f] = 1..Len(queue[f])
    BY <1>1, LenProperties
  <2> QED
    BY <2>1 DEF Inductive, Fresh
<1>4. /\ a \in Places(f) /\ Rank(f, r) <= Rank(f, a) /\ Bytes(r) <= Bytes(a)
      /\ r.offset <= a.offset /\ Rank(f, r) + Len(queue[f]) <= Rank(f, a)
  BY <1>1, <1>2, <1>3, SendsRise
<1>5. Route(Sends(f), Close, toReceiver, writing, packets, a, e)
  BY DEF Stream
<1>6. e \in Places(f) /\ Rank(f, a) <= Rank(f, e) /\ Bytes(a) <= Bytes(e) /\ a.offset <= e.offset
  BY <1>1, <1>4, <1>5, RouteRises
<1> QED
  BY <1>2, <1>4, <1>6

\* What is reported was sent: the acknowledgements under way fit the window.
LEMMA ReportedWasSent ==
    ASSUME Inductive, Orderly, receiver = "run", NEW f \in Files, Reports(f), NEW k, Heard(f, k)
    PROVE  /\ Least(Reported(f), Size[f]) <= up[f].offset
           /\ up[f].at = "none" => Reported(f) <= up[f].acked
<1>1. PICK r, a, e : Stream(f, r, a, e)
  BY StreamOf DEF Orderly
<1>2. /\ r \in Places(f) /\ e \in Places(f) /\ Rank(f, r) <= Rank(f, e)
      /\ r.offset <= a.offset /\ a.offset <= e.offset /\ a \in Places(f)
      /\ Rank(f, r) <= Rank(f, a) /\ Rank(f, a) <= Rank(f, e)
  <2>1. /\ r \in Places(f) /\ a \in Places(f) /\ e \in Places(f)
        /\ Rank(f, r) <= Rank(f, a) /\ Rank(f, a) <= Rank(f, e)
        /\ r.offset <= a.offset /\ a.offset <= e.offset
    BY <1>1, StreamRises
  <2>2. Rank(f, r) \in Int /\ Rank(f, a) \in Int /\ Rank(f, e) \in Int
    BY <2>1, PlaceNumbers
  <2> QED
    BY <2>1, <2>2
<1>3. /\ Reached(f, r) /\ Queued(f, e)
  BY <1>1 DEF Stream
<1>4. down[f].offset <= up[f].offset /\ down[f].offset \in Int /\ up[f].offset \in Nat
  <2>1. r.offset \in Int /\ a.offset \in Int /\ e.offset \in Int
    BY <1>2, PlaceNumbers
  <2>2. r.offset <= e.offset
    BY <1>2, <2>1
  <2>3. down[f].offset = r.offset
    BY <1>3 DEF Reached
  <2>4. up[f].offset = e.offset /\ up[f].offset \in Nat
    BY <1>3, UploadOf DEF Queued
  <2> QED
    BY <2>1, <2>2, <2>3, <2>4
<1>5. /\ Reported(f) \in Nat /\ Reported(f) <= Done(f) /\ Done(f) \in Nat /\ down[f].credit \in Nat
      /\ f \notin closed => /\ Reported(f) = reported[f]
                            /\ Done(f) = down[f].offset - down[f].credit
  BY Acknowledged
<1>6. ASSUME f \notin closed PROVE Reported(f) <= down[f].offset
  BY <1>4, <1>5, <1>6
<1>7. Size[f] \in Nat
  BY Sizes
<1>8. Least(Reported(f), Size[f]) <= up[f].offset
  <2>1. CASE f \notin closed
    BY <1>4, <1>5, <1>6, <1>7, <2>1 DEF Least
  <2>2. CASE f \in closed
    <3>1. down[f].offset = Size[f]
      BY <2>2 DEF Inductive, Told
    <3> QED
      BY <1>4, <1>5, <1>7, <3>1 DEF Least
  <2> QED
    BY <2>1, <2>2
<1>9. ASSUME up[f].at = "none" PROVE Reported(f) <= up[f].acked
  <2>1. e.at = "open" /\ up[f].acked = up[f].offset
    BY <1>3, <1>9 DEF Queued
  <2>2. Rank(f, e) = 0 /\ Rank(f, r) \in Nat
    BY <1>2, <2>1, RankIs
  <2>3. Rank(f, r) = 0
    BY <1>2, <2>2
  <2>4. r.at = "open"
    BY <1>2, <2>3, RankIs
  <2>5. down[f].at = "none"
    BY <1>3, <2>4 DEF Reached
  <2>6. f \notin closed
    BY <2>5 DEF Inductive, Told
  <2> QED
    BY <1>4, <1>5, <1>6, <2>1, <2>6
<1> QED
  BY <1>8, <1>9

-----------------------------------------------------------------------------
(* The replies the sender's loop takes.                                    *)

LEMMA ReplyTaken ==
    ASSUME Inductive, Orderly, sender \notin {"stopping", "stopped"}, toSender # <<>>, NEW f \in Files
    PROVE  \E k, c, j : /\ Reports(f) /\ Heard(f, k) /\ <<k, Head(toSender), c>> \in Answers(f)
                        /\ Path(Answers(f), Tail(toSender), c, j)
                        /\ Path(Answers(f), replying, j, Reported(f))
                        /\ c \in Marks(f) /\ c <= Reported(f)
<1>1. PICK k : Reports(f) /\ Heard(f, k) /\ Replies(f, k)
  BY DEF Orderly, Backward, Back
<1>2. PICK j : Path(Answers(f), toSender, k, j) /\ Path(Answers(f), replying, j, Reported(f))
  BY <1>1 DEF Replies
<1>3. toSender \in Seq(Messages) /\ replying \in Seq(Messages) /\ Tail(toSender) \in Seq(Messages)
  BY Channels, Tailed
<1>4. PICK c : <<k, Head(toSender), c>> \in Answers(f) /\ Path(Answers(f), Tail(toSender), c, j)
  BY <1>2, <1>3, PathTail
<1>5. c \in Marks(f)
  BY <1>4, AnswersIs
<1>6. j \in Marks(f) /\ c <= j
  BY <1>3, <1>4, <1>5, AnswersRise
<1>7. Reported(f) \in Marks(f) /\ j <= Reported(f)
  BY <1>2, <1>3, <1>6, AnswersRise
<1>8. c <= Reported(f)
  BY <1>5, <1>6, <1>7, MarkIs
<1> QED
  BY <1>1, <1>2, <1>4, <1>5, <1>8

\* A reply is of the loop or of a stream.
LEMMA ReplyIs ==
    ASSUME Inductive, Orderly, toSender # <<>>
    PROVE  /\ Head(toSender) \in Messages /\ Head(toSender).file \in Files \cup {none}
           /\ Head(toSender).kind = "Stopped" => sender \in {"stopping", "stopped"}
           /\ Head(toSender).kind = "Complete" => sender \in {"committing", "sent"}
           /\ Head(toSender).file = none => Head(toSender).kind \in {"Stopped", "Complete"}
<1>1. toSender \in Seq(Messages)
  BY Channels
<1>2. 1 \in DOMAIN toSender /\ Head(toSender) = toSender[1] /\ Head(toSender) \in Messages
  BY <1>1, Tailed
<1>3. DOMAIN toSender = 1..Len(toSender)
  BY <1>1, LenProperties
<1>4. Final(Head(toSender))
  BY <1>2, <1>3 DEF Orderly, Loops
<1>5. Head(toSender).kind = "Complete" => sender \in {"committing", "sent"}
  BY <1>2 DEF Inductive, Concluding
<1>6. Head(toSender).file \in Files \cup {none}
  BY <1>2 DEF Messages, StreamMessages, LoopMessages
<1> QED
  BY <1>2, <1>4, <1>5, <1>6 DEF Final

LEMMA LoopsTail ==
    ASSUME Inductive, Loops, toSender # <<>>, toSender' = Tail(toSender),
           UNCHANGED <<receiver, closing, writing, toReceiver, replying>>,
           sender \in {"stopping", "stopped"} => sender' \in {"stopping", "stopped"},
           sender \in {"committing", "sent"} => sender' \in {"committing", "sent"}
    PROVE  Loops'
<1>1. toSender \in Seq(Messages) /\ toSender' \in Seq(Messages)
  BY Channels, Tailed
<1>2. \A i \in DOMAIN toSender' : i + 1 \in DOMAIN toSender /\ toSender'[i] = toSender[i + 1]
  BY <1>1, Tailed
<1>3. DOMAIN toSender = 1..Len(toSender) /\ DOMAIN toSender' = 1..Len(toSender')
  BY <1>1, LenProperties
<1>4. \A i \in 1..Len(toSender') : Final(toSender'[i])
  BY <1>2, <1>3 DEF Loops
<1> QED
  BY <1>4 DEF Loops, Final

\* The reply has room in the worker's channel, and the loop accepts it.
LEMMA ReplyAccepted ==
    ASSUME Inductive, Orderly, sender = "run", NEW f \in Files, NEW k, Reports(f), Heard(f, k),
           NEW m, NEW c, Returns(f, k, m, c), c <= Reported(f)
    PROVE  /\ Len(acks[f]) < AckQueue
           /\ m.kind \in {"Checkpoint", "Closed"}
           /\ up[f].at \in {"open", "fill", "closing"}
           /\ m.kind = "Checkpoint" => /\ m.offset \in known[f]..Size[f] /\ m.length <= Block
                                       /\ m.offset = c /\ c <= Size[f]
           /\ m.kind = "Closed" => known[f] = Size[f] /\ c = Size[f] + 1
<1>1. receiver = "run"
  BY DEF Orderly, Loops, Inductive, TypeOK
<1>2. /\ Acked(f) \in Nat /\ k \in Nat /\ Reported(f) \in Nat /\ up[f].acked <= Acked(f)
      /\ Acked(f) <= k /\ k <= Reported(f)
  BY Acknowledged
<1>3. k \in Marks(f) /\ Acked(f) \in Marks(f) /\ known[f] = Least(k, Size[f])
  BY DEF Heard
<1>4. /\ c \in Marks(f) /\ k < c /\ Blocks(f, k) \in Nat
      /\ \/ /\ m.kind = "Checkpoint" /\ m.offset = c /\ m.length = c - k
            /\ k < Size[f] /\ c <= Size[f] /\ c - k <= Block
         \/ /\ m.kind = "Closed" /\ k = Size[f] /\ c = Size[f] + 1
  BY <1>3, ReturnsIs
<1>5. Size[f] \in Nat /\ c \in Nat /\ k <= Size[f] /\ Block \in Nat
  <2>1. Size[f] \in Nat /\ c \in Nat /\ Block \in Nat
    BY <1>4, MarkIs, Constants
  <2> QED
    BY <1>2, <1>4, <2>1
<1>6. /\ Least(Reported(f), Size[f]) <= up[f].offset
      /\ up[f].at = "none" => Reported(f) <= up[f].acked
  BY <1>1, ReportedWasSent
<1>7. /\ up[f].acked \in Nat /\ up[f].offset \in Nat /\ up[f].offset <= Size[f]
      /\ up[f].at \in {"none", "open", "fill", "closing", "ended", "joined", "aborted"}
  BY UploadOf
<1>8. up[f].at \notin {"ended", "joined"} /\ Acked(f) = up[f].acked
  BY <1>2, <1>5 DEF Acked
<1>9. up[f].at # "none"
  BY <1>2, <1>4, <1>5, <1>6, <1>7
<1>10. up[f].at # "aborted"
  BY DEF Orderly, Opened
<1>11. CeilDiv(up[f].offset, Block) <= CeilDiv(up[f].acked, Block) + Window \div Block
  <2>1. PICK r, a, e : Stream(f, r, a, e)
    BY <1>1, StreamOf DEF Orderly
  <2>2. Queued(f, e)
    BY <2>1 DEF Stream
  <2> QED
    BY <2>2, Limits DEF Orderly
<1>12. k <= up[f].offset
  BY <1>2, <1>4, <1>5, <1>6, <1>7 DEF Least
<1>13. Blocks(f, k) = CeilDiv(k, Block) /\ Blocks(f, Acked(f)) = CeilDiv(up[f].acked, Block)
  <2>1. Acked(f) <= Size[f]
    BY <1>2, <1>5
  <2> QED
    BY <1>3, <1>5, <1>8, <2>1, BlocksIs
<1>14. Blocks(f, Acked(f)) + Len(acks[f]) <= Blocks(f, k)
  <2>1. acks[f] \in Seq(Messages)
    BY Channels
  <2> QED
    BY <1>3, <2>1, AnswersRise DEF Heard
<1>15. Len(acks[f]) < AckQueue
  <2> DEFINE l == Len(acks[f])
             x == CeilDiv(up[f].acked, Block)
             y == CeilDiv(k, Block)
             z == CeilDiv(up[f].offset, Block)
             w == Window \div Block
  <2>1. x \in Nat /\ y \in Nat /\ z \in Nat
    BY <1>2, <1>7, Constants, RoundedUp
  <2>2. y <= z
    BY <1>2, <1>7, <1>12, Constants, RoundedOrder
  <2>3. l \in Nat
    BY Channels, LenProperties
  <2>4. AckQueue = w + 1 /\ w \in Nat
    BY WindowFits
  <2>5. z <= x + w
    BY <1>11
  <2>6. x + l <= y
    BY <1>13, <1>14
  <2> HIDE DEF l, x, y, z, w
  <2>7. l < w + 1
    BY <2>1, <2>2, <2>3, <2>4, <2>5, <2>6
  <2> QED
    BY <2>4, <2>7 DEF l
<1>16. known[f] = k
  BY <1>2, <1>3, <1>5 DEF Least
<1>17. up[f].at \in {"open", "fill", "closing"}
  BY <1>7, <1>8, <1>9, <1>10
<1>18. m.kind = "Checkpoint" => /\ m.offset \in known[f]..Size[f] /\ m.length <= Block
                                /\ m.offset = c /\ c <= Size[f]
  <2> HAVE m.kind = "Checkpoint"
  <2>1. m.offset = c /\ m.length = c - k /\ c <= Size[f] /\ c - k <= Block
    BY <1>4
  <2> QED
    BY <1>2, <1>4, <1>5, <1>16, <2>1
<1> QED
  BY <1>4, <1>5, <1>15, <1>16, <1>17, <1>18

LEMMA TakeReplyOrder ==
    ASSUME Inductive, Orderly, TakeReply
    PROVE  Orderly'
<1> DEFINE reply == Head(toSender)
<1>1. sender = "run" /\ toSender # <<>>
  BY DEF TakeReply, Selecting, AtTop
<1>2. PICK f \in Files : f = reply.file /\ reply \in Messages
  <2>1. reply.file \in Files \cup {none} /\ reply.file # none /\ reply \in Messages
    BY <1>1, ReplyIs
  <2> QED
    BY <2>1
<1>3. toSender \in Seq(Messages) /\ Tail(toSender) \in Seq(Messages)
  BY <1>1, Channels, Tailed
<1>4. PICK k, c, j : /\ Reports(f) /\ Heard(f, k) /\ <<k, reply, c>> \in Answers(f)
                     /\ Path(Answers(f), Tail(toSender), c, j)
                     /\ Path(Answers(f), replying, j, Reported(f))
                     /\ c \in Marks(f) /\ c <= Reported(f)
  BY <1>1, <1>2, ReplyTaken
<1>5. Returns(f, k, reply, c)
  BY <1>2, <1>4, AnswersIs
<1>6. /\ Len(acks[f]) < AckQueue
      /\ reply.kind \in {"Checkpoint", "Closed"}
      /\ up[f].at \in {"open", "fill", "closing"}
      /\ reply.kind = "Checkpoint" => /\ reply.offset \in known[f]..Size[f] /\ reply.length <= Block
                                      /\ reply.offset = c /\ c <= Size[f]
      /\ reply.kind = "Closed" => known[f] = Size[f] /\ c = Size[f] + 1
  BY <1>1, <1>2, <1>4, <1>5, ReplyAccepted
<1>7. ~(Len(acks[f]) >= AckQueue)
  <2>1. Len(acks[f]) \in Nat
    BY <1>2, Channels, LenProperties
  <2> QED
    BY <1>6, <2>1, QueueSizes
<1>8. /\ known' = IF reply.kind = "Checkpoint"
                  THEN [known EXCEPT ![f] = reply.offset] ELSE known
      /\ acks' = [acks EXCEPT ![f] = Append(@, reply)]
      /\ toSender' = Tail(toSender)
      /\ UNCHANGED <<sender, up, packets, writing, toReceiver, receiving, fault>>
  <2> HIDE DEF reply
  <2> QED
    BY <1>2, <1>6, <1>7 DEF TakeReply, Ensure, reply
<1> HIDE DEF reply
<1>9. /\ acks'[f] = Append(acks[f], reply) /\ known'[f] = Least(c, Size[f])
      /\ \A g \in Files \ {f} : acks'[g] = acks[g] /\ known'[g] = known[g]
  <2>1. acks \in [Files -> Seq(Messages)] /\ known \in [Files -> Int]
    BY DEF Inductive, Typed
  <2>2. /\ acks'[f] = Append(acks[f], reply)
        /\ \A g \in Files \ {f} : acks'[g] = acks[g]
    BY <1>2, <1>8, <2>1
  <2>3. Size[f] \in Nat /\ c \in Nat
    BY <1>2, <1>4, MarkIs
  <2>4. CASE reply.kind = "Checkpoint"
    <3>1. known' = [known EXCEPT ![f] = reply.offset] /\ reply.offset = c /\ c <= Size[f]
      BY <1>6, <1>8, <2>4
    <3>2. c = Least(c, Size[f])
      BY <2>3, <3>1 DEF Least
    <3>3. known'[f] = c /\ \A g \in Files \ {f} : known'[g] = known[g]
      BY <1>2, <2>1, <3>1
    <3> QED
      BY <2>2, <3>2, <3>3
  <2>5. CASE reply.kind = "Closed"
    <3>1. known' = known /\ known[f] = Size[f] /\ c = Size[f] + 1
      BY <1>6, <1>8, <2>5
    <3>2. Size[f] = Least(c, Size[f])
      BY <2>3, <3>1 DEF Least
    <3> QED
      BY <2>2, <3>1, <3>2
  <2> QED
    BY <1>6, <2>4, <2>5
<1>10. \A g \in Files : /\ Acked(g)' = Acked(g) /\ Reported(g)' = Reported(g)
                        /\ Reports(g) => Reports(g)'
  <2>1. UNCHANGED <<receiver, events, reported, down, closed>>
    BY <1>8 DEF receiving
  <2> QED
    BY <1>8, <2>1, ReportsSame DEF Acked, Reported
<1>11. UNCHANGED replying
  BY <1>8 DEF receiving
<1>12. Back(f)'
  <2>1. /\ k \in Marks(f) /\ Acked(f) \in Marks(f) /\ Path(Answers(f), acks[f], Acked(f), k)
        /\ \A i \in 1..Len(acks[f]) : acks[f][i].file = f
    BY <1>4 DEF Heard
  <2>2. acks[f] \in Seq(Messages)
    BY <1>2, Channels
  <2>3. Path(Answers(f), acks'[f], Acked(f), c)
    BY <1>2, <1>4, <1>9, <2>1, <2>2, PathAppend
  <2>4. \A i \in 1..Len(acks'[f]) : acks'[f][i].file = f
    <3> DEFINE s == acks[f]
               t == Append(s, reply)
    <3>1. /\ t \in Seq(Messages)
          /\ \A i \in DOMAIN t : t[i] = reply \/ (i \in DOMAIN s /\ t[i] = s[i])
      BY <1>2, <2>2, Appended
    <3>2. DOMAIN t = 1..Len(t) /\ DOMAIN s = 1..Len(s)
      BY <2>2, <3>1, LenProperties
    <3>3. reply.file = f
      BY <1>2
    <3>4. acks'[f] = t
      BY <1>9
    <3> HIDE DEF s, t
    <3>5. \A i \in 1..Len(s) : s[i].file = f
      BY <2>1 DEF s
    <3> QED
      BY <3>1, <3>2, <3>3, <3>4, <3>5
  <2>5. Heard(f, c)'
    BY <1>2, <1>4, <1>9, <1>10, <2>1, <2>3, <2>4 DEF Heard
  <2>6. Replies(f, c)'
    BY <1>2, <1>4, <1>8, <1>10, <1>11 DEF Replies
  <2> QED
    BY <1>2, <1>4, <1>10, <2>5, <2>6 DEF Back
<1>13. ASSUME NEW g \in Files \ {f} PROVE Back(g)'
  <2>1. PICK h, b, i : /\ Reports(g) /\ Heard(g, h) /\ <<h, reply, b>> \in Answers(g)
                       /\ Path(Answers(g), Tail(toSender), b, i)
                       /\ Path(Answers(g), replying, i, Reported(g))
    BY <1>1, ReplyTaken DEF reply
  <2>2. reply.file # g
    BY <1>2
  <2>3. b = h
    BY <2>1, <2>2, AnswersIs
  <2>4. Heard(g, h)'
    BY <1>9, <1>10, <2>1, HeardSame
  <2>5. Replies(g, h)'
    BY <1>8, <1>10, <1>11, <2>1, <2>3 DEF Replies
  <2> QED
    BY <1>10, <2>1, <2>4, <2>5 DEF Back
<1>14. Backward'
  BY <1>2, <1>12, <1>13 DEF Backward
<1>15. Forward'
  BY <1>8, ForwardSame DEF Orderly, receiving
<1>16. Opened'
  BY <1>8, OpenedSame DEF Orderly
<1>17. Loops'
  BY <1>1, <1>8, LoopsTail DEF Orderly, receiving
<1> QED
  BY <1>8, <1>14, <1>15, <1>16, <1>17 DEF Orderly, Alive

LEMMA ConcludeOrder ==
    ASSUME Inductive, Orderly, Conclude
    PROVE  Orderly'
<1> DEFINE reply == Head(toSender)
<1>1. sender \in {"stopping", "committing"} /\ toSender # <<>>
  BY DEF Conclude
<1>2. ASSUME sender = "committing", NEW f \in Files PROVE reply.file # f
  <2>1. PICK k, c : Heard(f, k) /\ <<k, reply, c>> \in Answers(f) /\ Reports(f)
    BY <1>2, <1>1, ReplyTaken
  <2>2. completed = Len(Size)
    BY <1>2 DEF Inductive, Counted
  <2>3. up[f].at = "joined"
    BY <2>2, AllJoined
  <2>4. Acked(f) = Size[f] + 1 /\ Acked(f) <= k /\ k \in Nat
    BY <2>1, <2>3, Acknowledged DEF Acked
  <2>5. k \in Marks(f) /\ Size[f] \in Nat
    BY <2>1, Sizes DEF Heard
  <2>6. ASSUME reply.file = f PROVE FALSE
    <3>1. Returns(f, k, reply, c)
      BY <2>1, <2>6, AnswersIs
    <3>2. k < Size[f] \/ k = Size[f]
      BY <3>1 DEF Returns
    <3> QED
      BY <2>4, <2>5, <3>2
  <2> QED
    BY <2>6
<1>3. sender = "committing" => reply.kind = "Complete"
  <2> HAVE sender = "committing"
  <2>1. reply.file = none
    BY <1>1, <1>2, ReplyIs
  <2> QED
    BY <1>1, <2>1, ReplyIs
<1>4. /\ toSender' = Tail(toSender)
      /\ sender' = CASE reply.kind = "Stopped"  -> "stopped"
                     [] reply.kind = "Complete" -> "sent"
                     [] OTHER                   -> sender
      /\ UNCHANGED <<up, packets, writing, acks, known, toReceiver, receiving, fault>>
  BY <1>3 DEF Conclude, Ensure
<1>5. /\ sender = "stopping" => sender' \in {"stopping", "stopped"}
      /\ sender = "committing" => sender' = "sent"
  <2>1. CASE sender = "stopping"
    <3>1. reply.kind # "Complete"
      BY <1>1, <2>1, ReplyIs
    <3> QED
      BY <1>4, <2>1, <3>1
  <2>2. CASE sender = "committing"
    BY <1>3, <1>4, <2>2
  <2> QED
    BY <2>1, <2>2
<1>6. Forward'
  BY <1>4, ForwardSame DEF Orderly, receiving
<1>7. Backward'
  <2> SUFFICES ASSUME NEW f \in Files PROVE Back(f)'
    BY DEF Backward
  <2>1. \A k : Heard(f, k) /\ Reports(f) => Heard(f, k)' /\ Reports(f)' /\ Reported(f)' = Reported(f)
    <3>1. Reported(f)' = Reported(f) /\ Acked(f)' = Acked(f)
      BY <1>4 DEF Reported, Acked, receiving
    <3>2. Reports(f) => Reports(f)'
      BY <1>4, ReportsSame DEF receiving
    <3>3. \A k : Heard(f, k) => Heard(f, k)'
      BY <1>4, <3>1, HeardSame
    <3> QED
      BY <3>1, <3>2, <3>3
  <2>2. CASE sender = "stopping"
    <3>1. PICK k : Reports(f) /\ Heard(f, k)
      BY DEF Orderly, Backward, Back
    <3>2. Replies(f, k)'
      BY <1>5, <2>2 DEF Replies
    <3> QED
      BY <2>1, <3>1, <3>2 DEF Back
  <2>3. CASE sender = "committing"
    <3>1. PICK k, c, j : /\ Reports(f) /\ Heard(f, k) /\ <<k, reply, c>> \in Answers(f)
                         /\ Path(Answers(f), Tail(toSender), c, j)
                         /\ Path(Answers(f), replying, j, Reported(f))
      BY <1>1, <2>3, ReplyTaken
    <3>2. c = k
      BY <1>2, <2>3, <3>1, AnswersIs
    <3>3. Replies(f, k)'
      BY <1>4, <2>1, <3>1, <3>2 DEF Replies, receiving
    <3> QED
      BY <2>1, <3>1, <3>3 DEF Back
  <2> QED
    BY <1>1, <2>2, <2>3
<1>8. Opened'
  <2>1. sender \in {"stopping", "stopped"} => sender' \in {"stopping", "stopped"}
    BY <1>1, <1>5
  <2> QED
    BY <1>4, <2>1 DEF Orderly, Opened, Occupied, InFlight
<1>9. Loops'
  <2>1. /\ sender \in {"stopping", "stopped"} => sender' \in {"stopping", "stopped"}
        /\ sender \in {"committing", "sent"} => sender' \in {"committing", "sent"}
    BY <1>1, <1>5
  <2> QED
    BY <1>1, <1>4, <2>1, LoopsTail DEF Orderly, receiving
<1> QED
  BY <1>4, <1>6, <1>7, <1>8, <1>9 DEF Orderly, Alive

-----------------------------------------------------------------------------
(* What a step of the receiver leaves in order.                            *)

LEMMA ReachedSame ==
    ASSUME NEW f \in Files, NEW r, Reached(f, r), down'[f] = down[f]
    PROVE  Reached(f, r)'
  BY DEF Reached

LEMMA BehindSame ==
    ASSUME NEW f \in Files, NEW a, Behind(f, a), down'[f] = down[f], queue'[f] = queue[f]
    PROVE  Behind(f, a)'
<1>1. PICK r : /\ Reached(f, r) /\ Path(Sends(f), queue[f], r, a) /\ a \in Places(f)
               /\ Total(f, queue[f]) = Bytes(a) - Bytes(r)
  BY DEF Behind
<1>2. Reached(f, r)'
  BY <1>1, ReachedSame
<1> QED
  BY <1>1, <1>2 DEF Behind

\* A worker of the receiver disturbs only what is up to its channel.
LEMMA ReceiverForth ==
    ASSUME NEW f \in Files, Forth(f), UNCHANGED <<closing, toReceiver, writing, packets, up>>,
           receiver' = "run" => receiver = "run",
           down'[f].at \in {"ready", "reporting"} =>
               down[f].at \in {"ready", "reporting"} \/ receiver = "run",
           \A a : Behind(f, a) => Behind(f, a)'
    PROVE  Forth(f)'
<1>1. ASSUME receiver' = "run" \/ down'[f].at \in {"ready", "reporting"}
      PROVE  \E a : Behind(f, a)' /\ (receiver' = "run" => Ahead(f, a)')
  <2>1. PICK a : Behind(f, a) /\ (receiver = "run" => Ahead(f, a))
    BY <1>1 DEF Forth
  <2>2. Behind(f, a)'
    BY <2>1
  <2>3. Ahead(f, a) => Ahead(f, a)'
    BY AheadSame
  <2> QED
    BY <2>1, <2>2, <2>3
<1> QED
  BY <1>1 DEF Forth

\* No acknowledgement moves.
LEMMA BackKept ==
    ASSUME NEW f \in Files, Back(f), UNCHANGED <<sender, up, known, acks, toSender, replying>>,
           Reported(f)' = Reported(f), Reports(f) => Reports(f)'
    PROVE  Back(f)'
<1>1. PICK k : Reports(f) /\ Heard(f, k) /\ Replies(f, k)
  BY DEF Back
<1>2. Acked(f)' = Acked(f)
  BY DEF Acked
<1>3. Heard(f, k)'
  BY <1>1, <1>2, HeardSame
<1>4. Replies(f, k)'
  BY <1>1, RepliesSame
<1> QED
  BY <1>1, <1>3, <1>4 DEF Back

\* A worker's state says nothing of its reports, unless it is reporting.
LEMMA ReportsMoved ==
    ASSUME NEW f \in Files, Reports(f), UNCHANGED <<events, closed, reported>>,
           receiver' = "run" => receiver = "run",
           down'[f].offset = down[f].offset, down'[f].credit = down[f].credit,
           down'[f].at = "reporting" => down[f].at = "reporting"
    PROVE  Reports(f)'
<1>1. Reported(f)' = Reported(f) /\ Done(f)' = Done(f)
  BY DEF Reported, Done
<1> QED
  BY <1>1 DEF Reports

\* The loop replies.
LEMMA ReplyMade ==
    ASSUME Inductive, NEW f \in Files, NEW k, Replies(f, k), UNCHANGED <<sender, toSender>>,
           replying = <<>>, NEW m, Reply(m), <<Reported(f), m, Reported(f)'>> \in Answers(f)
    PROVE  Replies(f, k)'
<1>1. ASSUME sender \notin {"stopping", "stopped"}
      PROVE  \E j : Path(Answers(f), toSender', k, j) /\ Path(Answers(f), replying', j, Reported(f)')
  <2>1. PICK j : Path(Answers(f), toSender, k, j) /\ Path(Answers(f), replying, j, Reported(f))
    BY <1>1 DEF Replies
  <2>2. j = Reported(f)
    BY <2>1, PathEmpty
  <2>3. Path(Answers(f), <<m>>, Reported(f), Reported(f)')
    BY PathOne
  <2> QED
    BY <2>1, <2>2, <2>3 DEF Reply
<1> QED
  BY <1>1 DEF Replies

LEMMA LoopsReply ==
    ASSUME Loops, NEW m, Reply(m), Final(m),
           UNCHANGED <<receiver, sender, closing, writing, toReceiver, toSender>>
    PROVE  Loops'
<1>1. Len(replying') = 1 /\ replying'[1] = m
  BY DEF Reply
<1>2. \A i \in 1..Len(replying') : Final(replying'[i])
  BY <1>1
<1> QED
  BY <1>2 DEF Loops, Final

\* A packet is read.
LEMMA PacketRead ==
    ASSUME Inductive, NEW f \in Files, NEW a, Ahead(f, a), closing = none, toReceiver # <<>>
    PROVE  \E b, e : /\ <<a, Packet, b>> \in Sends(f) /\ Queued(f, e)
                     /\ Route(Sends(f), <<>>, Tail(toReceiver), writing, packets, b, e)
<1>1. PICK e : Queued(f, e) /\ Route(Sends(f), Close, toReceiver, writing, packets, a, e)
  BY DEF Ahead
<1>2. Close = <<>> /\ toReceiver \in Seq(Messages)
  BY Channels, CloseIs
<1>3. PICK b : /\ <<a, Packet, b>> \in Sends(f)
               /\ Route(Sends(f), <<>>, Tail(toReceiver), writing, packets, b, e)
  BY <1>1, <1>2, RouteRead DEF Packet
<1> QED
  BY <1>1, <1>3

LEMMA LoopsRead ==
    ASSUME Inductive, Loops, toReceiver # <<>>, Consume,
           UNCHANGED <<sender, writing, toSender, replying>>,
           receiver' # "run" => closing' = none,
           receiver' \in {"draining", "stopped"} => sender \in {"stopping", "stopped"},
           receiver' = "complete" => sender \in {"committing", "sent"}
    PROVE  Loops'
<1>1. /\ toReceiver' \in Seq(Messages)
      /\ \A i \in DOMAIN toReceiver' :
            i + 1 \in DOMAIN toReceiver /\ toReceiver'[i] = toReceiver[i + 1]
  BY Consumed
<1>2. DOMAIN toReceiver = 1..Len(toReceiver) /\ DOMAIN toReceiver' = 1..Len(toReceiver')
  BY <1>1, Channels, LenProperties
<1>3. \A i \in 1..Len(toReceiver') :
          toReceiver'[i].kind = "Pause" => sender \in {"stopping", "stopped"}
  BY <1>1, <1>2 DEF Loops
<1> QED
  BY <1>3 DEF Loops, Final

\* What the receiver leaves of the sender in order.
LEMMA OpenedKept ==
    ASSUME Opened, UNCHANGED sending
    PROVE  Opened'
  BY OpenedSame DEF sending

-----------------------------------------------------------------------------
(* Order: the loop of the receiver.                                        *)

LEMMA WriteReplyOrder ==
    ASSUME Inductive, Orderly, WriteReply
    PROVE  Orderly'
<1> DEFINE m == Head(replying)
<1>1. /\ replying # <<>> /\ toSender' = toSender \o replying /\ replying' = <<>>
      /\ UNCHANGED <<sending, toReceiver, receiver, active, closed, queue, closing, down, events,
                     reported, fault>>
  BY DEF WriteReply
<1>2. replying \in Seq(Messages) /\ toSender \in Seq(Messages) /\ Len(replying) <= 1
  BY Channels, ChannelBounds
<1>3. replying = <<m>> /\ m \in Messages
  BY <1>1, <1>2, Single
<1>4. Forward'
  BY <1>1, ForwardSame DEF Orderly, sending
<1>5. Backward'
  <2> SUFFICES ASSUME NEW f \in Files PROVE Back(f)'
    BY DEF Backward
  <2>1. PICK k : Reports(f) /\ Heard(f, k) /\ Replies(f, k)
    BY DEF Orderly, Backward, Back
  <2>2. Reports(f)' /\ Reported(f)' = Reported(f) /\ Acked(f)' = Acked(f)
    BY <1>1, <2>1, ReportsSame DEF Reported, Acked, sending
  <2>3. Heard(f, k)'
    BY <1>1, <2>1, <2>2, HeardSame DEF sending
  <2>4. ASSUME sender \notin {"stopping", "stopped"}
        PROVE  Path(Answers(f), toSender', k, Reported(f))
    <3>1. PICK j : Path(Answers(f), toSender, k, j) /\ Path(Answers(f), replying, j, Reported(f))
      BY <2>1, <2>4 DEF Replies
    <3> HIDE DEF m
    <3>2. Path(Answers(f), <<m>>, j, Reported(f)) /\ toSender' = toSender \o <<m>>
      BY <1>1, <1>3, <3>1
    <3>3. Path(Answers(f), toSender \o <<m>>, k, Reported(f))
      BY <1>2, <1>3, <3>1, <3>2, PathConcat
    <3> QED
      BY <3>2, <3>3
  <2>5. Path(Answers(f), replying', Reported(f), Reported(f))
    BY <1>1, PathEmpty
  <2>6. Replies(f, k)'
    BY <1>1, <2>2, <2>4, <2>5 DEF Replies, sending
  <2> QED
    BY <2>2, <2>3, <2>6 DEF Back
<1>6. Opened'
  BY <1>1, OpenedKept DEF Orderly
<1>7. Loops'
  <2>1. \A i \in DOMAIN toSender' :
           \/ i \in DOMAIN toSender /\ toSender'[i] = toSender[i]
           \/ \E j \in DOMAIN replying : toSender'[i] = replying[j]
    BY <1>1, <1>2, Concatenated
  <2>2. toSender' \in Seq(Messages)
    BY <1>1, <1>2, ConcatProperties
  <2>3. /\ DOMAIN toSender' = 1..Len(toSender') /\ DOMAIN toSender = 1..Len(toSender)
        /\ DOMAIN replying = 1..Len(replying)
    BY <1>2, <2>2, LenProperties
  <2>4. ASSUME NEW i \in 1..Len(toSender') PROVE Final(toSender'[i])
    <3>1. /\ \A j \in 1..Len(replying) : Final(replying[j])
          /\ \A j \in 1..Len(toSender) : Final(toSender[j])
      BY DEF Orderly, Loops
    <3> QED
      BY <2>1, <2>3, <2>4, <3>1
  <2>5. \A i \in 1..Len(replying') : FALSE
    BY <1>1
  <2> QED
    BY <1>1, <2>4, <2>5 DEF Orderly, Loops, Final, sending
<1> QED
  BY <1>1, <1>4, <1>5, <1>6, <1>7 DEF Orderly, Alive

LEMMA TakeEventOrder ==
    ASSUME Inductive, Orderly, TakeEvent
    PROVE  Orderly'
<1> DEFINE event == Head(events)
<1>1. events # <<>> /\ receiver = "run" /\ replying = <<>>
  BY DEF TakeEvent, Handling
<1>2. events \in Seq(StreamMessages) /\ events \in Seq(Messages)
  BY Channels
<1>3. PICK f \in Files : /\ f = event.file /\ event.kind = "Checkpoint" /\ down[f].at # "none"
                         /\ event \in Messages /\ event.length \in Int
  <2>1. event \in StreamMessages /\ 1 \in DOMAIN events /\ event = events[1]
    BY <1>1, <1>2, Tailed
  <2>2. event.kind = "Checkpoint" /\ down[event.file].at # "none"
    BY <2>1 DEF Inductive, Fresh
  <2> QED
    BY <2>1, <2>2 DEF StreamMessages, Messages
<1>4. PICK k : Reports(f) /\ Heard(f, k) /\ Replies(f, k)
  BY DEF Orderly, Backward, Back
<1>5. PICK c : <<Reported(f), event, c>> \in Answers(f) /\ Path(Answers(f), Tail(events), c, Done(f))
  BY <1>1, <1>2, <1>4, PathTail DEF Reports
<1>6. Returns(f, Reported(f), event, c) /\ Reported(f) \in Marks(f)
  BY <1>3, <1>5, AnswersIs
<1>7. /\ c \in Marks(f) /\ Reported(f) < c /\ Reported(f) < Size[f] /\ c <= Size[f]
      /\ event.offset = c /\ event.length = c - Reported(f)
  BY <1>3, <1>6, ReturnsIs
<1>8. f \notin closed
  BY <1>7, Sizes DEF Reported
<1>9. f \in active
  BY <1>1, <1>3, <1>8 DEF Inductive, Fresh
<1>10. Reported(f) = reported[f]
  BY <1>8 DEF Reported
<1>11. /\ events' = Tail(events)
       /\ reported' = [reported EXCEPT ![f] = event.offset]
       /\ Reply(event)
       /\ UNCHANGED <<sending, toReceiver, toSender, receiver, closed, queue, closing, down, fault>>
  <2> HIDE DEF event
  <2> QED
    BY <1>3, <1>9 DEF TakeEvent, Ensure, event
<1> HIDE DEF event
<1>12. \A g \in Files \ {f} : reported'[g] = reported[g]
  BY <1>11
<1>13. \A g : Total(g, events') = Total(g, events) - Weight(g, event)
  BY <1>1, <1>2, <1>11, TotalTail DEF event
<1>14. UNCHANGED <<sender, known, acks, up>>
  BY <1>11 DEF sending
<1>15. \A g \in Files : Acked(g)' = Acked(g)
  BY <1>14 DEF Acked
<1>16. Back(f)'
  <2>1. reported'[f] = c
    <3>1. f \in DOMAIN reported
      BY DEF Inductive, Typed
    <3> QED
      BY <1>7, <1>11, <3>1
  <2>2. Reported(f)' = c /\ Done(f)' = Done(f)
    BY <1>8, <1>11, <2>1 DEF Reported, Done
  <2>3. Total(f, events') + down[f].credit + c = down[f].offset
    <3> DEFINE t == Total(f, events)
               t2 == Total(f, events')
               d == down[f].credit
               o == down[f].offset
               p == reported[f]
    <3>1. t2 = t - (c - p)
      BY <1>3, <1>7, <1>10, <1>13 DEF Weight
    <3>2. t + d + p = o
      BY <1>1, <1>4 DEF Reports
    <3>3. t \in Int /\ d \in Int /\ o \in Int /\ p \in Int /\ c \in Int
      BY <1>4, <1>6, <1>7, <1>10, MarkIs, DownloadOf
    <3> HIDE DEF t, t2, d, o, p
    <3>4. t2 + d + c = o
      BY <3>1, <3>2, <3>3
    <3> QED
      BY <3>4 DEF t2, d, o
  <2>4. Reports(f)'
    BY <1>1, <1>4, <1>5, <1>7, <1>11, <2>1, <2>2, <2>3 DEF Reports
  <2>5. Heard(f, k)'
    <3>1. k <= Reported(f) /\ k \in Marks(f)
      BY <1>4 DEF Heard
    <3>2. k <= c
      BY <1>6, <1>7, <3>1, MarkIs
    <3> QED
      BY <1>4, <1>14, <1>15, <2>2, <3>2 DEF Heard
  <2>6. Replies(f, k)'
    BY <1>1, <1>4, <1>5, <1>11, <1>14, <2>2, ReplyMade
  <2> QED
    BY <2>4, <2>5, <2>6 DEF Back
<1>17. ASSUME NEW g \in Files \ {f} PROVE Back(g)'
  <2>1. PICK h : Reports(g) /\ Heard(g, h) /\ Replies(g, h)
    BY DEF Orderly, Backward, Back
  <2>2. event.file # g
    BY <1>3
  <2>3. PICK b : /\ <<Reported(g), event, b>> \in Answers(g)
                 /\ Path(Answers(g), Tail(events), b, Done(g))
    BY <1>1, <1>2, <2>1, PathTail DEF Reports, event
  <2>4. b = Reported(g)
    BY <2>2, <2>3, AnswersIs
  <2>5. Reported(g)' = Reported(g) /\ Done(g)' = Done(g)
    BY <1>11, <1>12 DEF Reported, Done
  <2>6. Total(g, events') = Total(g, events)
    <3>1. Total(g, events) \in Int
      BY DownloadOf
    <3> QED
      BY <1>13, <2>2, <3>1 DEF Weight
  <2>7. Reports(g)'
    BY <1>11, <1>12, <2>1, <2>3, <2>4, <2>5, <2>6 DEF Reports
  <2>8. Heard(g, h)'
    BY <1>14, <1>15, <2>1, <2>5, HeardSame
  <2>9. Replies(g, h)'
    BY <1>1, <1>11, <1>14, <2>1, <2>3, <2>4, <2>5, ReplyMade
  <2> QED
    BY <2>7, <2>8, <2>9 DEF Back
<1>18. Backward'
  BY <1>16, <1>17 DEF Backward
<1>19. Forward'
  BY <1>11, ForwardSame DEF Orderly, sending
<1>20. Opened'
  BY <1>11, OpenedKept DEF Orderly
<1>21. Loops'
  <2>1. Final(event)
    BY <1>3, Sizes DEF Final
  <2> QED
    BY <1>11, <1>14, <2>1, LoopsReply DEF Orderly, sending
<1> QED
  BY <1>11, <1>18, <1>19, <1>20, <1>21 DEF Orderly, Alive

LEMMA JoinReceiverOrder ==
    ASSUME Inductive, Orderly, NEW f \in Files, JoinReceiver(f)
    PROVE  Orderly'
<1> DEFINE m == Msg("Closed", f, 0, 0)
<1>1. /\ down[f].at = "ended" /\ receiver = "run" /\ replying = <<>>
      /\ down' = [down EXCEPT ![f].at = "joined"] /\ closed' = closed \cup {f} /\ Reply(m)
      /\ UNCHANGED <<sending, toReceiver, toSender, receiver, queue, closing, events, reported,
                     fault>>
  BY DEF JoinReceiver, Handling
<1>2. /\ down' \in [Files -> Downloads] /\ down'[f].at = "joined"
      /\ \A g \in Files : /\ down'[g].offset = down[g].offset
                          /\ down'[g].buffer = down[g].buffer
                          /\ down'[g].credit = down[g].credit
      /\ \A g \in Files \ {f} : down'[g] = down[g]
  BY <1>1, DownMoves DEF Inductive
<1>3. down'[f].hash = down[f].hash
  BY <1>1 DEF Inductive, Typed, Downloads
<1>4. UNCHANGED <<sender, known, acks, up, packets, writing>>
  BY <1>1 DEF sending
<1>5. m \in Messages /\ m.file = f
  BY DEF Msg, Messages, StreamMessages, StreamKinds
<1>6. f \notin closed /\ down[f].credit = 0 /\ down[f].offset = Size[f] /\ Size[f] \in Nat
  BY <1>1, Sizes DEF Inductive, Told, Fresh
<1>7. PICK k : Reports(f) /\ Heard(f, k) /\ Replies(f, k)
  BY DEF Orderly, Backward, Back
<1>8. up[f].acked = Size[f]
  <2>1. PICK r, a, e : Stream(f, r, a, e)
    BY <1>1, StreamOf DEF Orderly
  <2>2. /\ r \in Places(f) /\ a \in Places(f) /\ e \in Places(f)
        /\ Rank(f, r) <= Rank(f, a) /\ Rank(f, a) <= Rank(f, e)
        /\ r.offset <= a.offset /\ a.offset <= e.offset
    BY <2>1, StreamRises
  <2>3. Rank(f, r) \in Nat /\ Rank(f, a) \in Nat /\ Rank(f, e) \in Nat
    BY <2>2, RankIs
  <2>4. r.at = "closed" /\ r.offset = Size[f] /\ r.queued = 0
    <3>1. r.at \notin {"open", "fill"}
      BY <1>1, <2>1 DEF Stream, Reached
    <3> QED
      BY <2>2, <3>1, PlaceIs
  <2>5. e.at = "closed"
    <3> DEFINE x == CeilDiv(Size[f], Block) * PacketsPerBlock
    <3>1. Rank(f, r) = x + 2 /\ x \in Nat
      BY <2>2, <2>4, RankIs
    <3>2. CASE e.at = "open"
      <4>1. Rank(f, e) = 0
        BY <2>2, <3>2, RankIs
      <4> HIDE DEF x
      <4> QED
        BY <2>2, <2>3, <3>1, <4>1
    <3>3. CASE e.at = "fill"
      <4>1. e.offset = Size[f]
        <5>1. e.offset <= Size[f] /\ e.offset \in Nat /\ a.offset \in Nat
          BY <2>2, PlaceIs
        <5> QED
          BY <1>6, <2>2, <2>4, <5>1
      <4>2. e.queued = 0
        BY <2>2, <4>1, PlaceIs
      <4>3. Rank(f, e) = x + 1
        BY <2>2, <3>1, <3>3, <4>1, <4>2, RankIs
      <4> HIDE DEF x
      <4> QED
        BY <2>2, <2>3, <3>1, <4>3
    <3> QED
      BY <2>2, <3>2, <3>3, PlaceIs
  <2>6. Queued(f, e)
    BY <2>1 DEF Stream
  <2> QED
    BY <2>5, <2>6 DEF Queued
<1>9. reported[f] = Size[f] /\ Reported(f) = Size[f] /\ Done(f) = Size[f] /\ k = Size[f]
  <2>1. /\ Acked(f) \in Nat /\ k \in Nat /\ Reported(f) \in Nat
        /\ up[f].acked <= Acked(f) /\ Acked(f) <= k /\ k <= Reported(f)
        /\ Reported(f) = reported[f] /\ Done(f) = down[f].offset - down[f].credit
    BY <1>6, <1>7, Acknowledged
  <2>2. reported[f] <= Size[f]
    BY <1>7 DEF Reports
  <2> QED
    BY <1>6, <1>8, <2>1, <2>2
<1>10. events \in Seq(Messages) /\ DOMAIN events = 1..Len(events)
  BY Channels, LenProperties
<1>11. \A i \in 1..Len(events) : events[i].file # f
  <2> SUFFICES ASSUME NEW i \in 1..Len(events), events[i].file = f PROVE FALSE
    OBVIOUS
  <2>1. Path(Answers(f), events, Size[f], Size[f]) /\ Size[f] \in Marks(f)
    BY <1>1, <1>7, <1>9, MarkIs DEF Reports
  <2>2. PICK c \in Marks(f), d \in Marks(f) : Returns(f, c, events[i], d) /\ Size[f] <= c
    BY <1>10, <2>1, AnswersRise
  <2>3. events[i].kind = "Checkpoint"
    BY <1>10 DEF Inductive, Fresh
  <2>4. c < Size[f]
    BY <2>2, <2>3, ReturnsIs
  <2> QED
    BY <1>6, <2>2, <2>4, MarkIs
<1>12. Back(f)'
  <2>1. Reported(f)' = Size[f] + 1 /\ Done(f)' = Size[f] + 1 /\ Size[f] + 1 \in Marks(f)
    BY <1>1, MarkIs DEF Reported, Done
  <2>2. Path(Answers(f), events, Size[f] + 1, Size[f] + 1)
    BY <1>10, <1>11, <2>1, AnswersStill
  <2>3. Reports(f)'
    BY <1>1, <1>2, <1>7, <2>1, <2>2 DEF Reports
  <2>4. Heard(f, k)'
    <3>1. k <= Size[f] + 1 /\ Acked(f)' = Acked(f)
      BY <1>4, <1>6, <1>9 DEF Acked
    <3> QED
      BY <1>4, <1>7, <2>1, <3>1 DEF Heard
  <2>5. Replies(f, k)'
    <3>1. Returns(f, Size[f], m, Size[f] + 1)
      BY DEF Returns
    <3>2. <<Size[f], m, Size[f] + 1>> \in Answers(f)
      BY <1>5, <2>1, <3>1, AnswersIs, MarkIs
    <3>3. <<Reported(f), m, Reported(f)'>> \in Answers(f)
      BY <1>9, <2>1, <3>2
    <3> QED
      BY <1>1, <1>4, <1>7, <3>3, ReplyMade
  <2> QED
    BY <2>3, <2>4, <2>5 DEF Back
<1> HIDE DEF m
<1>13. ASSUME NEW g \in Files \ {f} PROVE Back(g)'
  <2>1. PICK h : Reports(g) /\ Heard(g, h) /\ Replies(g, h)
    BY DEF Orderly, Backward, Back
  <2>2. Reported(g)' = Reported(g) /\ Acked(g)' = Acked(g)
    BY <1>1, <1>4 DEF Reported, Acked
  <2>3. Reports(g)'
    BY <1>1, <1>2, <2>1, ReportsSame
  <2>4. Heard(g, h)'
    BY <1>4, <2>1, <2>2, HeardSame
  <2>5. <<Reported(g), m, Reported(g)'>> \in Answers(g)
    <3>1. Reported(g) \in Marks(g)
      BY <2>1, Acknowledged
    <3> QED
      BY <1>5, <2>2, <3>1, AnswersIs
  <2>6. Replies(g, h)'
    BY <1>1, <1>4, <2>1, <2>5, ReplyMade
  <2> QED
    BY <2>3, <2>4, <2>6 DEF Back
<1>14. Backward'
  BY <1>12, <1>13 DEF Backward
<1>15. Forward'
  <2>1. ASSUME NEW g \in Files, NEW a, Behind(g, a) PROVE Behind(g, a)'
    <3>1. CASE g = f
      <4>1. PICK r : /\ Reached(f, r) /\ Path(Sends(f), queue[f], r, a) /\ a \in Places(f)
                     /\ Total(f, queue[f]) = Bytes(a) - Bytes(r)
        BY <2>1, <3>1 DEF Behind
      <4>2. r.at \notin {"open", "fill"} /\ r \in Places(f)
        BY <1>1, <4>1 DEF Reached
      <4>3. r.queued = 0
        BY <4>2, PlaceIs
      <4>4. Reached(f, r)'
        BY <1>1, <1>2, <1>3, <4>1, <4>2, <4>3 DEF Reached
      <4> QED
        BY <1>1, <3>1, <4>1, <4>4 DEF Behind
    <3>2. CASE g # f
      BY <1>1, <1>2, <2>1, <3>2, BehindSame
    <3> QED
      BY <3>1, <3>2
  <2>2. ASSUME NEW g \in Files PROVE Forth(g)'
    BY <1>1, <1>4, <2>1, ReceiverForth DEF Orderly, Forward
  <2> QED
    BY <2>2 DEF Forward
<1>16. Opened'
  BY <1>1, OpenedKept DEF Orderly
<1>17. Loops'
  <2>1. Final(m)
    BY <1>5, Sizes DEF Final, m, Msg
  <2> QED
    BY <1>1, <1>4, <2>1, LoopsReply DEF Orderly
<1> QED
  BY <1>1, <1>14, <1>15, <1>16, <1>17 DEF Orderly, Alive

\* The streams the receiver has are among those the sender has.
LEMMA ActiveIsOccupied ==
    ASSUME Inductive, Orderly, receiver = "run", NEW f \in active
    PROVE  f \in Occupied /\ f \in Files
<1>1. f \in Files /\ f \notin closed /\ down[f].at # "none"
  BY DEF Inductive, TypeOK, Told, Fresh
<1>2. PICK r, a, e : Stream(f, r, a, e)
  BY <1>1, StreamOf DEF Orderly
<1>3. /\ r \in Places(f) /\ a \in Places(f) /\ e \in Places(f)
      /\ Rank(f, r) <= Rank(f, a) /\ Rank(f, a) <= Rank(f, e)
  BY <1>1, <1>2, StreamRises
<1>4. Rank(f, r) \in Nat /\ Rank(f, a) \in Nat /\ Rank(f, e) \in Nat
  BY <1>1, <1>3, RankIs
<1>5. r.at # "open"
  BY <1>1, <1>2 DEF Stream, Reached
<1>6. Rank(f, r) # 0
  BY <1>1, <1>3, <1>5, RankIs
<1>7. Rank(f, e) # 0
  BY <1>3, <1>4, <1>6
<1>8. e.at # "open"
  BY <1>1, <1>3, <1>7, RankIs
<1>9. up[f].at \notin {"none", "open"}
  BY <1>2, <1>8 DEF Stream, Queued
<1>10. up[f].at # "joined"
  BY <1>1 DEF Inductive, Told
<1>11. up[f].at \in {"none", "open", "fill", "closing", "ended", "joined", "aborted"}
  BY <1>1, UploadOf
<1> QED
  BY <1>1, <1>9, <1>10, <1>11 DEF Occupied

\* What arrives for a stream is what the stream goes on with.
LEMMA PacketMoves ==
    ASSUME Inductive, Orderly, receiver = "run", closing = none, toReceiver # <<>>,
           NEW f \in Files, Packet.file = f
    PROVE  \E r, a, e, b :
              /\ Stream(f, r, a, e) /\ Moves(f, a, Packet, b) /\ b \in Places(f)
              /\ Queued(f, e) /\ Route(Sends(f), <<>>, Tail(toReceiver), writing, packets, b, e)
              /\ <<a, Packet, b>> \in Sends(f)
              /\ Rank(f, b) <= Rank(f, e) /\ Bytes(b) <= Bytes(e)
<1>1. PICK a : Behind(f, a) /\ Ahead(f, a)
  BY DEF Orderly, Forward, Forth
<1>2. PICK r : /\ Reached(f, r) /\ Path(Sends(f), queue[f], r, a)
               /\ Total(f, queue[f]) = Bytes(a) - Bytes(r)
  BY <1>1 DEF Behind
<1>3. PICK e : Queued(f, e) /\ Route(Sends(f), Close, toReceiver, writing, packets, a, e)
  BY <1>1 DEF Ahead
<1>4. Close = <<>> /\ toReceiver \in Seq(Messages) /\ Tail(toReceiver) \in Seq(Messages)
  BY Channels, CloseIs, Tailed
<1>5. PICK b : /\ <<a, Packet, b>> \in Sends(f)
               /\ Route(Sends(f), <<>>, Tail(toReceiver), writing, packets, b, e)
  BY <1>3, <1>4, RouteRead DEF Packet
<1>6. Moves(f, a, Packet, b) /\ b \in Places(f)
  BY <1>5, SendsIs
<1>7. Rank(f, b) <= Rank(f, e) /\ Bytes(b) <= Bytes(e)
  <2>1. <<>> \in Seq(Messages) /\ writing \in Seq(Messages) /\ packets \in Seq(Messages)
    BY Channels
  <2> QED
    BY <1>4, <1>5, <1>6, <2>1, RouteRises
<1>8. Stream(f, r, a, e)
  BY <1>2, <1>3 DEF Stream
<1> QED
  BY <1>3, <1>5, <1>6, <1>7, <1>8

LEMMA OpenFits ==
    ASSUME Inductive, Orderly, receiver = "run", closing = none, toReceiver # <<>>,
           Packet.kind = "Open", NEW f \in Files, Packet.file = f
    PROVE  /\ f \notin active \cup closed /\ Cardinality(active) < Streams
           /\ down[f].at = "none"
           /\ \E b, e : /\ Queued(f, e) /\ b \in Places(f)
                        /\ Route(Sends(f), <<>>, Tail(toReceiver), writing, packets, b, e)
                        /\ b.at = "fill" /\ b.queued = 0 /\ b.offset = down[f].offset
                        /\ down[f].buffer = 0 /\ ~down[f].hash
<1>1. PICK r, a, e, b :
         /\ Stream(f, r, a, e) /\ Moves(f, a, Packet, b) /\ b \in Places(f)
         /\ Queued(f, e) /\ Route(Sends(f), <<>>, Tail(toReceiver), writing, packets, b, e)
         /\ <<a, Packet, b>> \in Sends(f)
         /\ Rank(f, b) <= Rank(f, e) /\ Bytes(b) <= Bytes(e)
  BY PacketMoves
<1>2. /\ r \in Places(f) /\ a \in Places(f) /\ e \in Places(f)
      /\ Rank(f, r) <= Rank(f, a) /\ Rank(f, a) <= Rank(f, e)
  BY <1>1, StreamRises
<1>3. Rank(f, r) \in Nat /\ Rank(f, a) \in Nat /\ Rank(f, b) \in Nat /\ Rank(f, e) \in Nat
  BY <1>1, <1>2, RankIs
<1>4. /\ Advance(f, a, Packet, b) /\ Rank(f, a) + 1 <= Rank(f, b)
  BY <1>1, <1>2, MovesIs
<1>5. a.at = "open" /\ b = Place("fill", a.offset, 0)
  <2>1. Msg("Close", f, 0, 0).kind = "Close"
    BY DEF Msg
  <2> QED
    BY <1>4, <2>1 DEF Advance
<1>6. Rank(f, a) = 0
  BY <1>2, <1>5, RankIs
<1>7. Rank(f, r) = 0
  BY <1>2, <1>3, <1>6
<1>8. r.at = "open"
  BY <1>2, <1>7, RankIs
<1>9. down[f].at = "none"
  BY <1>1, <1>8 DEF Stream, Reached
<1>10. queue[f] = <<>> /\ down[f].buffer = 0 /\ f \notin active /\ f \notin closed
  BY <1>9 DEF Inductive, Fresh, Told
<1>11. r = a
  <2>1. Path(Sends(f), queue[f], r, a)
    BY <1>1 DEF Stream
  <2>2. Path(Sends(f), <<>>, r, a)
    BY <1>10, <2>1
  <2> QED
    BY <2>2, PathEmpty
<1>12. r.queued = 0 /\ r.offset = down[f].offset /\ ~down[f].hash
  BY <1>1, <1>2, <1>8, PlaceIs DEF Stream, Reached
<1>13. b.at = "fill" /\ b.queued = 0 /\ b.offset = down[f].offset
  BY <1>5, <1>11, <1>12, PlaceFields
<1>14. Cardinality(active) < Streams
  <2>1. f \in Occupied
    <3>1. Rank(f, e) # 0
      BY <1>1, <1>3, <1>4, <1>6
    <3>2. e.at # "open"
      BY <1>2, <3>1, RankIs
    <3>3. up[f].at \notin {"none", "open"}
      BY <1>1, <3>2 DEF Queued
    <3>4. up[f].at # "joined"
      BY <1>10 DEF Inductive, Told
    <3> QED
      BY <3>3, <3>4, UploadOf DEF Occupied
  <2>2. active \cup {f} \subseteq Occupied
    BY <2>1, ActiveIsOccupied
  <2>3. IsFiniteSet(Occupied)
    BY FilesFinite, FS_Subset DEF Occupied
  <2>4. IsFiniteSet(active) /\ Cardinality(active \cup {f}) <= Cardinality(Occupied)
    BY <2>2, <2>3, FS_Subset
  <2>5. Cardinality(active \cup {f}) = Cardinality(active) + 1
    BY <1>10, <2>4, FS_AddElement
  <2>6. Cardinality(active) \in Nat /\ Cardinality(Occupied) \in Nat
    BY <2>3, <2>4, FS_CardinalityType
  <2>7. Cardinality(Occupied) <= Streams /\ Streams \in Nat
    BY QueueSizes DEF Orderly, Opened
  <2> QED
    BY <2>4, <2>5, <2>6, <2>7
<1> QED
  BY <1>1, <1>9, <1>10, <1>12, <1>13, <1>14

\* For the other streams nothing is read.
LEMMA OtherRead ==
    ASSUME Inductive, NEW g \in Files, NEW a, Ahead(g, a), closing = none, toReceiver # <<>>,
           Packet.file # g, closing' = none, Consume, UNCHANGED <<writing, packets, up>>
    PROVE  Ahead(g, a)'
<1>1. PICK b, e : /\ <<a, Packet, b>> \in Sends(g) /\ Queued(g, e)
                  /\ Route(Sends(g), <<>>, Tail(toReceiver), writing, packets, b, e)
  BY PacketRead
<1>2. b = a
  BY <1>1, SendsIs
<1>3. Queued(g, e)'
  BY <1>1 DEF Queued
<1>4. Close' = <<>> /\ toReceiver' = Tail(toReceiver)
  BY DEF Close, Consume
<1> QED
  BY <1>1, <1>2, <1>3, <1>4 DEF Ahead

LEMMA TakeOpenOrder ==
    ASSUME Inductive, Orderly, TakeOpen
    PROVE  Orderly'
<1>1. /\ receiver = "run" /\ closing = none /\ toReceiver # <<>> /\ Packet.kind = "Open"
  BY DEF TakeOpen, Arrives, Handling, Packet
<1>2. PICK f \in Files : Packet.file = f
  <2>1. Packet \in Messages
    BY <1>1, Channels, Tailed DEF Packet
  <2> QED
    BY <1>1, <2>1 DEF Messages, StreamMessages, LoopMessages, LoopKinds
<1>3. /\ f \notin active \cup closed /\ Cardinality(active) < Streams /\ down[f].at = "none"
      /\ \E b, e : /\ Queued(f, e) /\ b \in Places(f)
                   /\ Route(Sends(f), <<>>, Tail(toReceiver), writing, packets, b, e)
                   /\ b.at = "fill" /\ b.queued = 0 /\ b.offset = down[f].offset
                   /\ down[f].buffer = 0 /\ ~down[f].hash
  BY <1>1, <1>2, OpenFits
<1>4. PICK b, e : /\ Queued(f, e) /\ b \in Places(f)
                  /\ Route(Sends(f), <<>>, Tail(toReceiver), writing, packets, b, e)
                  /\ b.at = "fill" /\ b.queued = 0 /\ b.offset = down[f].offset
                  /\ down[f].buffer = 0 /\ ~down[f].hash
  BY <1>3
<1>5. /\ Consume /\ down' = [down EXCEPT ![f].at = "ready"]
      /\ UNCHANGED <<sending, toSender, receiver, closed, queue, closing, events, replying,
                     reported, fault>>
  BY <1>2, <1>3 DEF TakeOpen, Ensure
<1>6. /\ down' \in [Files -> Downloads] /\ down'[f].at = "ready"
      /\ \A g \in Files : /\ down'[g].offset = down[g].offset
                          /\ down'[g].buffer = down[g].buffer
                          /\ down'[g].credit = down[g].credit
      /\ \A g \in Files \ {f} : down'[g] = down[g]
  BY <1>5, DownMoves DEF Inductive
<1>7. down'[f].hash = down[f].hash
  BY <1>5 DEF Inductive, Typed, Downloads
<1>8. UNCHANGED <<sender, known, acks, up, packets, writing>>
  BY <1>5 DEF sending
<1>9. Forth(f)'
  <2>1. Reached(f, b)'
    BY <1>4, <1>6, <1>7 DEF Reached
  <2>2. queue'[f] = <<>>
    BY <1>3, <1>5 DEF Inductive, Fresh
  <2>3. Behind(f, b)'
    <3>1. Bytes(b) \in Int
      BY <1>4, PlaceNumbers
    <3>2. Total(f, queue'[f]) = Bytes(b) - Bytes(b)
      BY <2>2, <3>1, TotalEmpty
    <3>3. Path(Sends(f), queue'[f], b, b)
      BY <2>2, PathEmpty
    <3> QED
      BY <1>4, <2>1, <3>2, <3>3 DEF Behind
  <2>4. Ahead(f, b)'
    <3>1. Queued(f, e)'
      BY <1>4, <1>8 DEF Queued
    <3>2. Close' = <<>> /\ toReceiver' = Tail(toReceiver)
      BY <1>1, <1>5 DEF Close, Consume
    <3> QED
      BY <1>4, <1>8, <3>1, <3>2 DEF Ahead
  <2> QED
    BY <2>3, <2>4 DEF Forth
<1>10. ASSUME NEW g \in Files \ {f} PROVE Forth(g)'
  <2>1. PICK a : Behind(g, a) /\ Ahead(g, a)
    BY <1>1 DEF Orderly, Forward, Forth
  <2>2. Behind(g, a)'
    BY <1>5, <1>6, <2>1, BehindSame
  <2>3. Ahead(g, a)'
    BY <1>1, <1>2, <1>5, <1>8, <2>1, OtherRead
  <2> QED
    BY <2>2, <2>3 DEF Forth
<1>11. Forward'
  BY <1>9, <1>10 DEF Forward
<1>12. Backward'
  <2>1. ASSUME NEW g \in Files PROVE Back(g)'
    <3>1. Reported(g)' = Reported(g)
      BY <1>5 DEF Reported
    <3>2. down'[g].at = "reporting" => down[g].at = "reporting"
      BY <1>6
    <3>3. Reports(g) => Reports(g)'
      BY <1>5, <1>6, <3>2, ReportsMoved
    <3> QED
      BY <1>5, <1>8, <3>1, <3>3, BackKept DEF Orderly, Backward
  <2> QED
    BY <2>1 DEF Backward
<1>13. Opened'
  BY <1>5, OpenedKept DEF Orderly
<1>14. Loops'
  BY <1>1, <1>5, <1>8, LoopsRead DEF Orderly
<1> QED
  BY <1>5, <1>11, <1>12, <1>13, <1>14 DEF Orderly, Alive

LEMMA ProductOrder ==
    ASSUME NEW p \in Nat, NEW x \in Nat, NEW y \in Nat, x <= y
    PROVE  x * p <= y * p
<1>1. PICK d \in Nat : y = x + d
  <2>1. y - x \in Nat /\ y = x + (y - x)
    OBVIOUS
  <2> QED
    BY <2>1
<1>2. y * p = x * p + d * p
  BY <1>1
<1>3. d * p \in Nat /\ x * p \in Nat
  OBVIOUS
<1> QED
  BY <1>2, <1>3

\* A part that arrives is for a worker that fills, whose channel has room for it, and
\* fits the stream's credit.
LEMMA PartIsForWorker ==
    ASSUME Inductive, receiver = "run", NEW f \in Files, NEW r, NEW a, NEW e, NEW m, NEW b,
           Stream(f, r, a, e), Moves(f, a, m, b), a.at = "fill"
    PROVE  /\ r \in Places(f) /\ a \in Places(f) /\ r.at = "fill"
           /\ f \in active /\ down[f].at \in {"ready", "reporting"}
<1>1. /\ r \in Places(f) /\ a \in Places(f)
      /\ Rank(f, r) <= Rank(f, a) /\ r.offset <= a.offset
  BY StreamRises
<1>2. /\ Rank(f, r) \in Nat /\ Rank(f, a) \in Nat
      /\ Rank(f, a) = CeilDiv(a.offset, Block) * PacketsPerBlock + a.queued + 1
      /\ CeilDiv(a.offset, Block) * PacketsPerBlock \in Nat
  BY <1>1, RankIs
<1>3. r.at # "open"
  <2> SUFFICES ASSUME r.at = "open" PROVE FALSE
    OBVIOUS
  <2>1. queue[f] = <<>>
    BY DEF Stream, Reached, Inductive, Fresh
  <2>2. Path(Sends(f), queue[f], r, a)
    BY DEF Stream
  <2>3. Path(Sends(f), <<>>, r, a)
    BY <2>1, <2>2
  <2>4. r = a
    BY <2>3, PathEmpty
  <2> QED
    BY <2>4
<1>4. r.at # "closed"
  <2> SUFFICES ASSUME r.at = "closed" PROVE FALSE
    OBVIOUS
  <2>1. /\ r.offset = Size[f] /\ r.queued = 0 /\ a.offset <= Size[f] /\ a.offset \in Nat
        /\ Size[f] \in Nat
    BY <1>1, PlaceIs
  <2>2. a.offset = Size[f]
    BY <1>1, <2>1
  <2>3. a.queued = 0
    BY <1>1, <2>2, PlaceIs
  <2>4. Rank(f, r) = CeilDiv(Size[f], Block) * PacketsPerBlock + 2
    BY <1>1, <2>1, RankIs
  <2> DEFINE x == CeilDiv(Size[f], Block) * PacketsPerBlock
  <2>5. Rank(f, r) = x + 2 /\ Rank(f, a) = x + 1 /\ x \in Nat
    BY <1>2, <2>2, <2>3, <2>4
  <2> HIDE DEF x
  <2> QED
    BY <1>1, <2>5
<1>5. r.at = "fill"
  BY <1>1, <1>3, <1>4, PlaceIs
<1>6. down[f].at \in {"ready", "reporting"}
  BY <1>5 DEF Stream, Reached
<1>7. f \in active
  BY <1>6 DEF Inductive, Fresh, Told
<1> QED
  BY <1>1, <1>5, <1>6, <1>7

\* What the receiver has acknowledged bounds what the sender has under way.
LEMMA ReachIsBounded ==
    ASSUME Inductive, Orderly, receiver = "run", NEW f \in Files, f \notin closed,
           NEW r, NEW a, NEW e, Stream(f, r, a, e)
    PROVE  /\ reported[f] \in Nat /\ reported[f] <= down[f].offset
           /\ Total(f, events) + down[f].credit + reported[f] = down[f].offset
           /\ Bytes(e) <= reported[f] + WINDOW
           /\ CeilDiv(down[f].offset, Block) \in Nat
           /\ Rank(f, e) <= CeilDiv(down[f].offset, Block) * PacketsPerBlock + 2 * PacketsPerBlock + 2
<1>1. PICK k : Reports(f) /\ Heard(f, k)
  BY DEF Orderly, Backward, Back
<1>2. /\ up[f].acked <= Acked(f) /\ Acked(f) <= k /\ k <= Reported(f) /\ Reported(f) <= Done(f)
      /\ Acked(f) \in Nat /\ k \in Nat /\ Reported(f) \in Nat /\ Done(f) \in Nat
      /\ Reported(f) = reported[f] /\ Done(f) = down[f].offset - down[f].credit
      /\ down[f].credit \in Nat
  BY <1>1, Acknowledged
<1>3. up[f].acked \in Nat /\ down[f].offset \in Int
  BY UploadOf, DownloadOf
<1>4. up[f].acked <= reported[f] /\ reported[f] <= down[f].offset /\ reported[f] \in Nat
  BY <1>2, <1>3
<1>5. Queued(f, e) /\ e \in Places(f)
  BY StreamRises DEF Stream
<1>6. /\ CeilDiv(up[f].acked, Block) \in Nat
      /\ Bytes(e) <= up[f].acked + Window
      /\ Rank(f, e) <= CeilDiv(up[f].acked, Block) * PacketsPerBlock + 2 * PacketsPerBlock + 2
  BY <1>5, Limits DEF Orderly
<1>7. Window \in Nat /\ Window <= WINDOW /\ WINDOW \in Nat /\ PacketsPerBlock \in Nat
  BY WindowFits
<1>8. Bytes(e) \in Int /\ Rank(f, e) \in Nat
  BY <1>5, PlaceNumbers
<1>9. Bytes(e) <= reported[f] + WINDOW
  BY <1>3, <1>4, <1>6, <1>7, <1>8
<1>10. down[f].offset \in Nat /\ up[f].acked <= down[f].offset
  BY <1>3, <1>4
<1>11. Block \in Nat /\ Block > 0
  BY Constants
<1>12. /\ CeilDiv(up[f].acked, Block) <= CeilDiv(down[f].offset, Block)
       /\ CeilDiv(down[f].offset, Block) \in Nat
  BY <1>3, <1>10, <1>11, RoundedOrder, RoundedUp
<1>13. CeilDiv(up[f].acked, Block) * PacketsPerBlock
           <= CeilDiv(down[f].offset, Block) * PacketsPerBlock
  <2> DEFINE x == CeilDiv(up[f].acked, Block)
             y == CeilDiv(down[f].offset, Block)
  <2>1. x \in Nat /\ y \in Nat /\ x <= y
    BY <1>6, <1>12
  <2> HIDE DEF x, y
  <2>2. x * PacketsPerBlock <= y * PacketsPerBlock
    BY ONLY <1>7, <2>1, ProductOrder
  <2> QED
    BY <2>2 DEF x, y
<1>14. Rank(f, e) <= CeilDiv(down[f].offset, Block) * PacketsPerBlock + 2 * PacketsPerBlock + 2
  <2> DEFINE x == CeilDiv(up[f].acked, Block) * PacketsPerBlock
             y == CeilDiv(down[f].offset, Block) * PacketsPerBlock
             z == 2 * PacketsPerBlock
  <2>1. x \in Nat /\ y \in Nat /\ z \in Nat
    BY <1>6, <1>7, <1>12
  <2>2. x <= y /\ Rank(f, e) <= x + z + 2
    BY <1>6, <1>13
  <2> HIDE DEF x, y, z
  <2>3. Rank(f, e) <= y + z + 2
    BY <1>8, <2>1, <2>2
  <2> QED
    BY <2>3 DEF y, z
<1>15. Total(f, events) + down[f].credit + reported[f] = down[f].offset
  BY <1>1 DEF Reports
<1> QED
  BY <1>4, <1>9, <1>12, <1>14, <1>15

\* A worker of the receiver has taken what is before where it stands.
LEMMA BytesReached ==
    ASSUME Inductive, NEW f \in Files, NEW r \in Places(f), Reached(f, r)
    PROVE  Bytes(r) = down[f].offset + down[f].buffer
<1>1. r.offset = down[f].offset /\ r.queued \in Nat /\ down[f].offset \in Int
  BY PlaceIs, DownloadOf DEF Reached
<1>2. CASE r.queued = 0
  <2>1. down[f].buffer = 0
    BY <1>2 DEF Reached
  <2>2. Bytes(r) = r.offset
    BY <1>2 DEF Bytes
  <2> QED
    BY <1>1, <2>1, <2>2
<1>3. CASE r.queued # 0
  <2>1. r.queued > 0
    BY <1>1, <1>3
  <2>2. down[f].buffer = (r.queued - Hashes) * Frame
    BY <2>1 DEF Reached
  <2>3. Bytes(r) = r.offset + (r.queued - Hashes) * Frame
    BY <1>3 DEF Bytes
  <2> QED
    BY <1>1, <2>2, <2>3
<1> QED
  BY <1>2, <1>3

LEMMA PartFits ==
    ASSUME Inductive, Orderly, receiver = "run", closing = none, toReceiver # <<>>,
           Packet.kind \in {"Data", "Hash"}, NEW f \in Files, Packet.file = f
    PROVE  /\ f \in active /\ down[f].at \in {"ready", "reporting"}
           /\ Len(queue[f]) < FileQueue
           /\ Packet.length <= credit[f] /\ (Packet.kind = "Hash" => Streaming)
           /\ \E r, a, e, b :
                 /\ Stream(f, r, a, e) /\ Moves(f, a, Packet, b) /\ b \in Places(f)
                 /\ Route(Sends(f), <<>>, Tail(toReceiver), writing, packets, b, e)
                 /\ <<a, Packet, b>> \in Sends(f)
<1>1. PICK r, a, e, b :
         /\ Stream(f, r, a, e) /\ Moves(f, a, Packet, b) /\ b \in Places(f)
         /\ Queued(f, e) /\ Route(Sends(f), <<>>, Tail(toReceiver), writing, packets, b, e)
         /\ <<a, Packet, b>> \in Sends(f)
         /\ Rank(f, b) <= Rank(f, e) /\ Bytes(b) <= Bytes(e)
  BY PacketMoves
<1>2. /\ r \in Places(f) /\ a \in Places(f) /\ e \in Places(f)
      /\ Rank(f, r) + Len(queue[f]) <= Rank(f, a)
  BY <1>1, StreamRises
<1>3. /\ Advance(f, a, Packet, b) /\ Rank(f, a) + 1 <= Rank(f, b)
      /\ Bytes(b) = Bytes(a) + Packet.length /\ Packet.length \in Nat
  BY <1>1, <1>2, MovesIs
<1>4. a.at = "fill" /\ (Packet.kind = "Hash" => Streaming)
  <2>1. Msg("Close", f, 0, 0).kind = "Close"
    BY DEF Msg
  <2> QED
    BY <1>3, <2>1 DEF Advance
<1>5. r.at = "fill" /\ f \in active /\ down[f].at \in {"ready", "reporting"}
  BY <1>1, <1>4, PartIsForWorker
<1>6. f \notin closed
  BY <1>5 DEF Inductive, Told
<1>7. /\ reported[f] \in Nat /\ reported[f] <= down[f].offset
      /\ Total(f, events) + down[f].credit + reported[f] = down[f].offset
      /\ Bytes(e) <= reported[f] + WINDOW
      /\ CeilDiv(down[f].offset, Block) \in Nat
      /\ Rank(f, e) <= CeilDiv(down[f].offset, Block) * PacketsPerBlock + 2 * PacketsPerBlock + 2
  BY <1>1, <1>6, ReachIsBounded
<1>8. /\ Rank(f, r) \in Nat /\ Rank(f, a) \in Nat /\ Rank(f, b) \in Nat /\ Rank(f, e) \in Nat
      /\ Bytes(a) \in Int /\ Bytes(b) \in Int /\ Bytes(e) \in Int /\ Bytes(r) \in Int
  BY <1>1, <1>2, PlaceNumbers
<1>9. Reached(f, r) /\ Total(f, queue[f]) = Bytes(a) - Bytes(r)
  BY <1>1 DEF Stream
<1>10. r.offset = down[f].offset /\ r.queued \in Nat
  BY <1>2, <1>9, PlaceIs DEF Reached
<1>11. Len(queue[f]) < FileQueue
  <2> DEFINE n == Len(queue[f])
             x == CeilDiv(down[f].offset, Block) * PacketsPerBlock
             z == 2 * PacketsPerBlock
             q == r.queued
             kr == Rank(f, r)
             ka == Rank(f, a)
             kb == Rank(f, b)
             ke == Rank(f, e)
  <2>1. kr = x + q + 1 /\ x \in Nat
    BY <1>2, <1>5, <1>10, RankIs
  <2>2. queue[f] \in Seq(Messages)
    BY Channels
  <2>3. n \in Nat
    BY <2>2, LenProperties
  <2>4. z + 1 <= FileQueue /\ z \in Nat
    BY WindowFits
  <2>5. kr + n <= ka /\ ka + 1 <= kb /\ kb <= ke /\ ke <= x + z + 2
    BY <1>1, <1>2, <1>3, <1>7
  <2>6. kr \in Nat /\ ka \in Nat /\ kb \in Nat /\ ke \in Nat /\ q \in Nat
    BY <1>8, <1>10
  <2> HIDE DEF n, x, z, q, kr, ka, kb, ke
  <2>7. n < FileQueue
    BY <2>1, <2>3, <2>4, <2>5, <2>6, QueueSizes
  <2> QED
    BY <2>7 DEF n
<1>12. Bytes(r) = down[f].offset + down[f].buffer
  BY <1>2, <1>9, BytesReached
<1>13. Packet.length <= credit[f]
  <2> DEFINE c == credit[f]
             q == Total(f, queue[f])
             u == down[f].buffer
             d == down[f].credit
             t == Total(f, events)
             o == down[f].offset
             p == reported[f]
             w == Packet.length
             ba == Bytes(a)
             bb == Bytes(b)
             be == Bytes(e)
             br == Bytes(r)
  <2>1. c + q + u + d + t = WINDOW
    BY <1>5 DEF Inductive, CreditIsConserved
  <2>2. t + d + p = o /\ be <= p + WINDOW /\ bb = ba + w /\ bb <= be
    BY <1>1, <1>3, <1>7
  <2>3. q = ba - br /\ br = o + u
    BY <1>9, <1>12
  <2>4. /\ c \in Int /\ q \in Int /\ u \in Int /\ d \in Int /\ t \in Int /\ o \in Int /\ p \in Int
        /\ w \in Int /\ ba \in Int /\ bb \in Int /\ be \in Int /\ br \in Int
    <3>1. c \in Int /\ q \in Int /\ u \in Int /\ d \in Int /\ t \in Int /\ o \in Int
      BY DownloadOf
    <3>2. w \in Int /\ p \in Int
      BY <1>3, <1>7
    <3> QED
      BY <1>8, <3>1, <3>2
  <2> HIDE DEF c, q, u, d, t, o, p, w, ba, bb, be, br
  <2>5. w <= c
    <3>1. (t + d) = o - p
      BY ONLY <2>2, <2>4
    <3>2. (q + u) = ba - o
      BY ONLY <2>3, <2>4
    <3>3. c + (q + u) + (t + d) = WINDOW
      BY ONLY <2>1, <2>4
    <3>4. c = WINDOW + p - ba
      BY ONLY <2>4, <3>1, <3>2, <3>3, QueueSizes
    <3> QED
      BY ONLY <2>2, <2>4, <3>4, QueueSizes
  <2> QED
    BY <2>5 DEF w, c
<1> QED
  BY <1>1, <1>4, <1>5, <1>11, <1>13

LEMMA TakePartOrder ==
    ASSUME Inductive, Orderly, TakePart
    PROVE  Orderly'
<1>1. /\ receiver = "run" /\ closing = none /\ toReceiver # <<>> /\ Packet.kind \in {"Data", "Hash"}
  BY DEF TakePart, Arrives, Handling, Packet
<1>2. Packet \in Messages
  BY <1>1, Channels, Tailed DEF Packet
<1>3. PICK f \in Files : Packet.file = f
  BY <1>1, <1>2 DEF Messages, StreamMessages, LoopMessages, LoopKinds
<1>4. /\ f \in active /\ down[f].at \in {"ready", "reporting"}
      /\ Len(queue[f]) < FileQueue
      /\ Packet.length <= credit[f] /\ (Packet.kind = "Hash" => Streaming)
      /\ \E r, a, e, b :
            /\ Stream(f, r, a, e) /\ Moves(f, a, Packet, b) /\ b \in Places(f)
            /\ Route(Sends(f), <<>>, Tail(toReceiver), writing, packets, b, e)
            /\ <<a, Packet, b>> \in Sends(f)
  BY <1>1, <1>3, PartFits
<1>5. PICK r, a, e, b :
         /\ Stream(f, r, a, e) /\ Moves(f, a, Packet, b) /\ b \in Places(f)
         /\ Route(Sends(f), <<>>, Tail(toReceiver), writing, packets, b, e)
         /\ <<a, Packet, b>> \in Sends(f)
  BY <1>4
<1>6. queue[f] \in Seq(Messages) /\ Typed
  BY Channels DEF Inductive
<1>7. ~(Len(queue[f]) >= FileQueue)
  <2>1. Len(queue[f]) \in Nat
    BY <1>6, LenProperties
  <2> QED
    BY <1>4, <2>1, QueueSizes
<1>8. /\ Consume /\ queue' = [queue EXCEPT ![f] = Append(@, Packet)]
      /\ UNCHANGED <<sending, toSender, receiver, active, closed, closing, down, events,
                     replying, reported, fault>>
  BY <1>3, <1>4, <1>7 DEF TakePart, Ensure
<1>9. /\ queue'[f] = Append(queue[f], Packet)
      /\ Total(f, queue'[f]) = Total(f, queue[f]) + Weight(f, Packet)
      /\ \A g \in Files \ {f} : queue'[g] = queue[g]
  <2>1. queue'[f] = Append(queue[f], Packet)
    BY <1>6, <1>8 DEF Typed
  <2>2. queue' = [queue EXCEPT ![f] = Append(@, Packet)]
    BY <1>8
  <2> QED
    BY ONLY <1>2, <1>6, <2>1, <2>2, QueueGrows
<1>10. UNCHANGED <<sender, known, acks, up, packets, writing>>
  BY <1>8 DEF sending
<1>11. /\ Reached(f, r) /\ Path(Sends(f), queue[f], r, a) /\ Queued(f, e)
       /\ Total(f, queue[f]) = Bytes(a) - Bytes(r)
  BY <1>5 DEF Stream
<1>12. /\ r \in Places(f) /\ a \in Places(f)
  BY <1>5, StreamRises
<1>13. Forth(f)'
  <2>1. Reached(f, r)'
    BY <1>8, <1>11, ReachedSame
  <2>2. Path(Sends(f), queue'[f], r, b)
    BY <1>2, <1>5, <1>6, <1>9, <1>11, PathAppend
  <2>3. Total(f, queue'[f]) = Bytes(b) - Bytes(r)
    <3> DEFINE q == Total(f, queue[f])
               q2 == Total(f, queue'[f])
               w == Packet.length
               ba == Bytes(a)
               bb == Bytes(b)
               br == Bytes(r)
    <3>1. bb = ba + w /\ w \in Nat /\ ba \in Int /\ br \in Int
      BY <1>5, <1>12, MovesIs, PlaceNumbers
    <3>2. q2 = q + w
      BY <1>3, <1>9 DEF Weight
    <3>3. q = ba - br
      BY <1>11
    <3> HIDE DEF q, q2, w, ba, bb, br
    <3>4. q2 = bb - br
      BY <3>1, <3>2, <3>3
    <3> QED
      BY <3>4 DEF q2, bb, br
  <2>4. Behind(f, b)'
    BY <1>5, <2>1, <2>2, <2>3 DEF Behind
  <2>5. Ahead(f, b)'
    <3>1. Queued(f, e)'
      BY <1>10, <1>11 DEF Queued
    <3>2. Close' = <<>> /\ toReceiver' = Tail(toReceiver)
      BY <1>1, <1>8 DEF Close, Consume
    <3> QED
      BY <1>5, <1>10, <3>1, <3>2 DEF Ahead
  <2> QED
    BY <2>4, <2>5 DEF Forth
<1>14. ASSUME NEW g \in Files \ {f} PROVE Forth(g)'
  <2>1. PICK c : Behind(g, c) /\ Ahead(g, c)
    BY <1>1 DEF Orderly, Forward, Forth
  <2>2. Behind(g, c)'
    BY <1>8, <1>9, <2>1, BehindSame
  <2>3. Ahead(g, c)'
    BY <1>1, <1>3, <1>8, <1>10, <2>1, OtherRead
  <2> QED
    BY <2>2, <2>3 DEF Forth
<1>15. Forward'
  BY <1>13, <1>14 DEF Forward
<1>16. Backward'
  <2>1. ASSUME NEW g \in Files PROVE Back(g)'
    <3>1. Reported(g)' = Reported(g)
      BY <1>8 DEF Reported
    <3>2. Reports(g) => Reports(g)'
      BY <1>8, ReportsMoved
    <3> QED
      BY <1>8, <1>10, <3>1, <3>2, BackKept DEF Orderly, Backward
  <2> QED
    BY <2>1 DEF Backward
<1>17. Opened'
  BY <1>8, OpenedKept DEF Orderly
<1>18. Loops'
  BY <1>1, <1>8, <1>10, LoopsRead DEF Orderly
<1> QED
  BY <1>8, <1>15, <1>16, <1>17, <1>18 DEF Orderly, Alive

\* A Close that was read is still ahead of what was read before it.
LEMMA CloseHeld ==
    ASSUME Inductive, NEW g \in Files, NEW a, Ahead(g, a), closing = none, toReceiver # <<>>,
           Packet = Msg("Close", closing', 0, 0), closing' # none,
           Consume, UNCHANGED <<writing, packets, up>>
    PROVE  Ahead(g, a)'
<1>1. PICK b, e : /\ <<a, Packet, b>> \in Sends(g) /\ Queued(g, e)
                  /\ Route(Sends(g), <<>>, Tail(toReceiver), writing, packets, b, e)
  BY PacketRead
<1>2. Route(Sends(g), <<Packet>>, Tail(toReceiver), writing, packets, a, e)
  BY <1>1, RouteKept
<1>3. Queued(g, e)'
  BY <1>1 DEF Queued
<1>4. Close' = <<Packet>> /\ toReceiver' = Tail(toReceiver)
  BY DEF Close, Consume
<1> QED
  BY <1>2, <1>3, <1>4 DEF Ahead

LEMMA TakeCloseOrder ==
    ASSUME Inductive, Orderly, TakeClose
    PROVE  Orderly'
<1>1. /\ receiver = "run" /\ closing = none /\ toReceiver # <<>> /\ Packet.kind = "Close"
  BY DEF TakeClose, Arrives, Handling, Packet
<1>2. PICK f \in Files : Packet.file = f
  <2>1. Packet \in Messages
    BY <1>1, Channels, Tailed DEF Packet
  <2> QED
    BY <1>1, <2>1 DEF Messages, StreamMessages, LoopMessages, LoopKinds
<1>3. PICK r, a, e, b :
         /\ Stream(f, r, a, e) /\ Moves(f, a, Packet, b) /\ b \in Places(f)
  BY <1>1, <1>2, PacketMoves
<1>4. a \in Places(f)
  BY <1>3, StreamRises
<1>5. Packet = Msg("Close", f, 0, 0) /\ a.at = "fill"
  BY <1>1, <1>3, <1>4, MovesIs DEF Advance
<1>6. f \in active
  BY <1>1, <1>3, <1>5, PartIsForWorker
<1>7. /\ Consume /\ closing' = f
      /\ UNCHANGED <<sending, toSender, receiver, active, closed, queue, down, events, replying,
                     reported, fault>>
  BY <1>2, <1>6 DEF TakeClose, Ensure
<1>8. UNCHANGED <<sender, known, acks, up, packets, writing>>
  BY <1>7 DEF sending
<1>9. Forward'
  <2>1. ASSUME NEW g \in Files PROVE Forth(g)'
    <3>1. PICK c : Behind(g, c) /\ Ahead(g, c)
      BY <1>1 DEF Orderly, Forward, Forth
    <3>2. Behind(g, c)'
      BY <1>7, <3>1, BehindSame
    <3>3. closing' # none
      BY <1>7, Sizes
    <3>4. Ahead(g, c)'
      BY <1>1, <1>5, <1>7, <1>8, <3>1, <3>3, CloseHeld
    <3> QED
      BY <3>2, <3>4 DEF Forth
  <2> QED
    BY <2>1 DEF Forward
<1>10. Backward'
  <2>1. ASSUME NEW g \in Files PROVE Back(g)'
    <3>1. Reported(g)' = Reported(g)
      BY <1>7 DEF Reported
    <3>2. Reports(g) => Reports(g)'
      BY <1>7, ReportsMoved
    <3> QED
      BY <1>7, <1>8, <3>1, <3>2, BackKept DEF Orderly, Backward
  <2> QED
    BY <2>1 DEF Backward
<1>11. Opened'
  BY <1>7, OpenedKept DEF Orderly
<1>12. Loops'
  BY <1>1, <1>7, <1>8, LoopsRead DEF Orderly
<1> QED
  BY <1>7, <1>9, <1>10, <1>11, <1>12 DEF Orderly, Alive

LEMMA EnqueueCloseOrder ==
    ASSUME Inductive, Orderly, EnqueueClose
    PROVE  Orderly'
<1>1. closing # none /\ receiver = "run"
  BY DEF EnqueueClose, Orderly, Loops, Inductive, TypeOK
<1>2. PICK f \in Files : closing = f
  BY <1>1 DEF Inductive, TypeOK
<1> DEFINE m == Msg("Close", f, 0, 0)
<1>3. m \in Messages /\ m.file = f /\ m.length = 0
  BY DEF Msg, Messages, StreamMessages, StreamKinds
<1>4. /\ queue' = [queue EXCEPT ![f] = Append(@, m)] /\ closing' = none
      /\ UNCHANGED <<sending, toReceiver, toSender, receiver, closed, down, events, replying,
                     reported, fault>>
  BY <1>2 DEF EnqueueClose
<1>5. Close = <<m>> /\ Close' = <<>>
  BY <1>1, <1>2, <1>4 DEF Close
<1> HIDE DEF m
<1>6. queue[f] \in Seq(Messages) /\ Typed
  BY Channels DEF Inductive
<1>7. /\ queue'[f] = Append(queue[f], m)
      /\ Total(f, queue'[f]) = Total(f, queue[f]) + Weight(f, m)
      /\ \A g \in Files \ {f} : queue'[g] = queue[g]
  <2>1. queue'[f] = Append(queue[f], m)
    BY <1>4, <1>6 DEF Typed
  <2>2. queue' = [queue EXCEPT ![f] = Append(@, m)]
    BY <1>4
  <2> QED
    BY ONLY <1>3, <1>6, <2>1, <2>2, QueueGrows
<1>8. UNCHANGED <<sender, known, acks, up, packets, writing>>
  BY <1>4 DEF sending
<1>9. ASSUME NEW g \in Files, NEW a, Ahead(g, a)
      PROVE  \E b : <<a, m, b>> \in Sends(g) /\ Ahead(g, b)'
  <2>1. PICK e : Queued(g, e) /\ Route(Sends(g), Close, toReceiver, writing, packets, a, e)
    BY <1>9 DEF Ahead
  <2>2. PICK b : <<a, m, b>> \in Sends(g)
                 /\ Route(Sends(g), <<>>, toReceiver, writing, packets, b, e)
    BY <1>5, <2>1, RouteLeft
  <2>3. Queued(g, e)'
    BY <1>8, <2>1 DEF Queued
  <2>4. Ahead(g, b)'
    BY <1>4, <1>5, <1>8, <2>2, <2>3 DEF Ahead
  <2> QED
    BY <2>2, <2>4
<1>10. Forth(f)'
  <2>1. PICK a : Behind(f, a) /\ Ahead(f, a)
    BY <1>1 DEF Orderly, Forward, Forth
  <2>2. PICK b : <<a, m, b>> \in Sends(f) /\ Ahead(f, b)'
    BY <1>9, <2>1
  <2>3. PICK r : /\ Reached(f, r) /\ Path(Sends(f), queue[f], r, a) /\ a \in Places(f)
                 /\ Total(f, queue[f]) = Bytes(a) - Bytes(r)
    BY <2>1 DEF Behind
  <2>4. Moves(f, a, m, b) /\ b \in Places(f)
    BY <1>3, <2>2, SendsIs
  <2>5. Bytes(b) = Bytes(a)
    <3>1. Bytes(b) = Bytes(a) + m.length /\ Bytes(a) \in Nat
      BY <2>3, <2>4, MovesIs
    <3> QED
      BY <1>3, <3>1
  <2>6. Total(f, queue'[f]) = Total(f, queue[f])
    <3>1. Total(f, queue[f]) \in Int
      BY DownloadOf
    <3> QED
      BY <1>3, <1>7, <3>1 DEF Weight
  <2>7. Path(Sends(f), queue'[f], r, b)
    BY <1>3, <1>6, <1>7, <2>2, <2>3, PathAppend
  <2>8. Reached(f, r)'
    BY <1>4, <2>3, ReachedSame
  <2>9. Behind(f, b)'
    BY <2>3, <2>4, <2>5, <2>6, <2>7, <2>8 DEF Behind
  <2> QED
    BY <2>2, <2>9 DEF Forth
<1>11. ASSUME NEW g \in Files \ {f} PROVE Forth(g)'
  <2>1. PICK a : Behind(g, a) /\ Ahead(g, a)
    BY <1>1 DEF Orderly, Forward, Forth
  <2>2. PICK b : <<a, m, b>> \in Sends(g) /\ Ahead(g, b)'
    BY <1>9, <2>1
  <2>3. b = a
    BY <1>3, <2>2, SendsIs
  <2>4. Behind(g, a)'
    BY <1>4, <1>7, <2>1, BehindSame
  <2> QED
    BY <2>2, <2>3, <2>4 DEF Forth
<1>12. Forward'
  BY <1>10, <1>11 DEF Forward
<1>13. Backward'
  <2>1. ASSUME NEW g \in Files PROVE Back(g)'
    <3>1. Reported(g)' = Reported(g)
      BY <1>4 DEF Reported
    <3>2. Reports(g) => Reports(g)'
      BY <1>4, ReportsMoved
    <3> QED
      BY <1>4, <1>8, <3>1, <3>2, BackKept DEF Orderly, Backward
  <2> QED
    BY <2>1 DEF Backward
<1>14. Opened'
  BY <1>4, OpenedKept DEF Orderly
<1>15. Loops'
  BY <1>1, <1>4, <1>8 DEF Orderly, Loops, Final
<1> QED
  BY <1>4, <1>12, <1>13, <1>14, <1>15 DEF Orderly, Alive

LEMMA TakePauseOrder ==
    ASSUME Inductive, Orderly, TakePause
    PROVE  Orderly'
<1>1. /\ receiver = "run" /\ closing = none /\ toReceiver # <<>> /\ Head(toReceiver).kind = "Pause"
      /\ Consume /\ receiver' = "draining"
      /\ UNCHANGED <<sending, toSender, closed, queue, closing, down, events, replying,
                     reported, fault>>
  BY DEF TakePause, Arrives, Handling
<1>2. UNCHANGED <<sender, known, acks, up, packets, writing>>
  BY <1>1 DEF sending
<1>3. sender \in {"stopping", "stopped"}
  <2>1. 1 \in DOMAIN toReceiver /\ Head(toReceiver) = toReceiver[1]
    BY <1>1, Channels, Tailed
  <2>2. DOMAIN toReceiver = 1..Len(toReceiver)
    BY Channels, LenProperties
  <2> QED
    BY <1>1, <2>1, <2>2 DEF Orderly, Loops
<1>4. Forward'
  <2>1. ASSUME NEW f \in Files PROVE Forth(f)'
    <3>1. PICK a : Behind(f, a)
      BY <1>1 DEF Orderly, Forward, Forth
    <3>2. Behind(f, a)'
      BY <1>1, <3>1, BehindSame
    <3> QED
      BY <1>1, <3>2 DEF Forth
  <2> QED
    BY <2>1 DEF Forward
<1>5. Backward'
  <2>1. ASSUME NEW f \in Files PROVE Back(f)'
    <3>1. Reported(f)' = Reported(f)
      BY <1>1 DEF Reported
    <3>2. Reports(f) => Reports(f)'
      BY <1>1, ReportsMoved
    <3> QED
      BY <1>1, <1>2, <3>1, <3>2, BackKept DEF Orderly, Backward
  <2> QED
    BY <2>1 DEF Backward
<1>6. Opened'
  BY <1>1, OpenedKept DEF Orderly
<1>7. Loops'
  BY <1>1, <1>2, <1>3, LoopsRead DEF Orderly
<1> QED
  BY <1>1, <1>4, <1>5, <1>6, <1>7 DEF Orderly, Alive

LEMMA DrainEventOrder ==
    ASSUME Inductive, Orderly, DrainEvent
    PROVE  Orderly'
<1>1. /\ receiver = "draining"
      /\ UNCHANGED <<sending, toReceiver, toSender, receiver, closed, queue, closing, down, replying,
                     reported, fault>>
  BY DEF DrainEvent
<1>2. UNCHANGED <<sender, known, acks, up, packets, writing>>
  BY <1>1 DEF sending
<1>3. Forward'
  BY <1>1, <1>2, ForwardSame DEF Orderly
<1>4. Backward'
  <2>1. ASSUME NEW f \in Files PROVE Back(f)'
    <3>1. Reported(f)' = Reported(f)
      BY <1>1 DEF Reported
    <3>2. Reports(f) => Reports(f)'
      BY <1>1 DEF Reports
    <3> QED
      BY <1>1, <1>2, <3>1, <3>2, BackKept DEF Orderly, Backward
  <2> QED
    BY <2>1 DEF Backward
<1>5. Opened'
  BY <1>1, OpenedKept DEF Orderly
<1>6. Loops'
  BY <1>1, <1>2, LoopsSame DEF Orderly
<1> QED
  BY <1>1, <1>3, <1>4, <1>5, <1>6 DEF Orderly, Alive

\* A worker that ends while the receiver's loop drains takes its channel with it.
LEMMA WorkerGone ==
    ASSUME Inductive, Orderly, NEW f \in Files, receiver # "run",
           NEW state \in {"failed", "joined"}, down' = [down EXCEPT ![f].at = state],
           UNCHANGED <<sending, toReceiver, toSender, receiver, closed, queue, closing, events,
                       replying, reported, fault>>
    PROVE  Orderly'
<1>1. /\ down' \in [Files -> Downloads] /\ down'[f].at = state
      /\ \A g \in Files : /\ down'[g].offset = down[g].offset
                          /\ down'[g].buffer = down[g].buffer
                          /\ down'[g].credit = down[g].credit
      /\ \A g \in Files \ {f} : down'[g] = down[g]
  BY DownMoves DEF Inductive
<1>2. UNCHANGED <<sender, known, acks, up, packets, writing>>
  BY DEF sending
<1>3. Forth(f)'
  BY <1>1 DEF Forth
<1>4. ASSUME NEW g \in Files \ {f} PROVE Forth(g)'
  <2>1. ASSUME NEW a, Behind(g, a) PROVE Behind(g, a)'
    BY <1>1, <2>1, BehindSame
  <2>2. Forth(g)
    BY DEF Orderly, Forward
  <2>3. down'[g].at = down[g].at
    BY <1>1
  <2> QED
    BY <1>2, <2>1, <2>2, <2>3, ReceiverForth
<1>5. Forward'
  BY <1>3, <1>4 DEF Forward
<1>6. Backward'
  <2>1. ASSUME NEW g \in Files PROVE Back(g)'
    <3>1. Reported(g)' = Reported(g)
      BY DEF Reported
    <3>2. down'[g].at = "reporting" => down[g].at = "reporting"
      BY <1>1
    <3>3. Reports(g) => Reports(g)'
      BY <1>1, <3>2, ReportsMoved
    <3> QED
      BY <1>2, <3>1, <3>3, BackKept DEF Orderly, Backward
  <2> QED
    BY <2>1 DEF Backward
<1>7. Opened'
  BY OpenedKept DEF Orderly
<1>8. Loops'
  BY <1>2, LoopsSame DEF Orderly
<1> QED
  BY <1>5, <1>6, <1>7, <1>8 DEF Orderly, Alive

LEMMA DrainWorkerOrder ==
    ASSUME Inductive, Orderly, NEW f \in Files, DrainWorker(f)
    PROVE  Orderly'
<1>1. /\ receiver = "draining" /\ down' = [down EXCEPT ![f].at = "joined"]
      /\ UNCHANGED <<sending, toReceiver, toSender, receiver, closed, queue, closing, events,
                     replying, reported, fault>>
  BY DEF DrainWorker
<1> QED
  BY <1>1, WorkerGone

LEMMA InterruptedOrder ==
    ASSUME Inductive, Orderly, NEW f \in Files, Interrupted(f)
    PROVE  Orderly'
<1>1. /\ down[f].at = "ready" /\ f \notin active /\ down' = [down EXCEPT ![f].at = "failed"]
      /\ UNCHANGED <<sending, toReceiver, toSender, receiver, closed, queue, closing, events,
                     replying, reported, fault>>
  BY DEF Interrupted
<1>2. receiver # "run"
  BY <1>1 DEF Inductive, Fresh, Told
<1> QED
  BY <1>1, <1>2, WorkerGone

LEMMA DrainedOrder ==
    ASSUME Inductive, Orderly, Drained
    PROVE  Orderly'
<1> DEFINE m == Msg("Stopped", none, 0, 0)
<1>1. /\ receiver = "draining" /\ receiver' = "stopped" /\ Reply(m)
      /\ UNCHANGED <<sending, toReceiver, toSender, closed, queue, closing, down, events,
                     reported, fault>>
  BY DEF Drained
<1>2. UNCHANGED <<sender, known, acks, up, packets, writing>>
  BY <1>1 DEF sending
<1>3. sender \in {"stopping", "stopped"} /\ closing = none
  BY <1>1 DEF Orderly, Loops
<1>4. Forward'
  <2>1. ASSUME NEW f \in Files PROVE Forth(f)'
    <3>1. ASSUME NEW a, Behind(f, a) PROVE Behind(f, a)'
      BY <1>1, <3>1, BehindSame
    <3>2. Forth(f)
      BY DEF Orderly, Forward
    <3> QED
      BY <1>1, <1>2, <3>1, <3>2, ReceiverForth
  <2> QED
    BY <2>1 DEF Forward
<1>5. Backward'
  <2>1. ASSUME NEW f \in Files PROVE Back(f)'
    <3>1. Reported(f)' = Reported(f) /\ Acked(f)' = Acked(f)
      BY <1>1, <1>2 DEF Reported, Acked
    <3>2. PICK k : Reports(f) /\ Heard(f, k)
      BY DEF Orderly, Backward, Back
    <3>3. Reports(f)'
      BY <1>1, <3>2, ReportsMoved
    <3>4. Heard(f, k)'
      BY <1>2, <3>1, <3>2, HeardSame
    <3>5. Replies(f, k)'
      BY <1>2, <1>3 DEF Replies
    <3> QED
      BY <3>3, <3>4, <3>5 DEF Back
  <2> QED
    BY <2>1 DEF Backward
<1>6. Opened'
  BY <1>1, OpenedKept DEF Orderly
<1>7. Loops'
  <2>1. Len(replying') = 1 /\ replying'[1] = m
    BY <1>1 DEF Reply
  <2>2. m.kind = "Stopped"
    BY DEF Msg
  <2> HIDE DEF m
  <2>3. \A i \in 1..Len(replying') : Final(replying'[i])
    BY <1>2, <1>3, <2>1, <2>2 DEF Final
  <2> QED
    BY <1>1, <1>2, <1>3, <2>3 DEF Orderly, Loops, Final
<1> QED
  BY <1>1, <1>4, <1>5, <1>6, <1>7 DEF Orderly, Alive

LEMMA TakeCommitOrder ==
    ASSUME Inductive, Orderly, TakeCommit
    PROVE  Orderly'
<1> DEFINE m == Msg("Complete", none, 0, 0)
<1>1. /\ receiver = "run" /\ closing = none /\ replying = <<>> /\ toReceiver # <<>>
      /\ Head(toReceiver).kind = "Commit"
  BY DEF TakeCommit, Arrives, Handling
<1>2. sender \in {"committing", "sent"}
  <2>1. 1 \in DOMAIN toReceiver /\ Head(toReceiver) = toReceiver[1]
    BY <1>1, Channels, Tailed
  <2> QED
    BY <1>1, <2>1 DEF Inductive, Concluding
<1>3. \A f \in Files : up[f].at = "joined"
  BY <1>2, AllJoined DEF Inductive, Counted
<1>4. closed = Files /\ active = {}
  BY <1>3 DEF Inductive, Told, TypeOK
<1>5. /\ Consume /\ receiver' = "complete" /\ Reply(m)
      /\ UNCHANGED <<sending, toSender, closed, queue, closing, down, events, reported, fault>>
  BY <1>4 DEF TakeCommit, Ensure
<1>6. UNCHANGED <<sender, known, acks, up, packets, writing>>
  BY <1>5 DEF sending
<1>7. m \in Messages /\ m.file = none /\ m.kind = "Complete" /\ \A f \in Files : m.file # f
  BY OwnMessage DEF LoopKinds
<1> HIDE DEF m
<1>8. Forward'
  <2>1. \A f \in Files : down'[f].at = "joined"
    BY <1>4, <1>5 DEF Inductive, Told
  <2> QED
    BY <1>5, <2>1 DEF Forward, Forth
<1>9. Backward'
  <2>1. ASSUME NEW f \in Files PROVE Back(f)'
    <3>1. Reported(f)' = Reported(f) /\ Acked(f)' = Acked(f)
      BY <1>5, <1>6 DEF Reported, Acked
    <3>2. PICK k : Reports(f) /\ Heard(f, k) /\ Replies(f, k)
      BY DEF Orderly, Backward, Back
    <3>3. Reports(f)'
      BY <1>1, <1>5, <3>2, ReportsMoved
    <3>4. Heard(f, k)'
      BY <1>6, <3>1, <3>2, HeardSame
    <3>5. <<Reported(f), m, Reported(f)'>> \in Answers(f)
      <4>1. Reported(f) \in Marks(f)
        BY <3>2, Acknowledged
      <4> QED
        BY <1>7, <3>1, <4>1, AnswersIs
    <3>6. Replies(f, k)'
      BY <1>1, <1>5, <1>6, <3>2, <3>5, ReplyMade
    <3> QED
      BY <3>3, <3>4, <3>6 DEF Back
  <2> QED
    BY <2>1 DEF Backward
<1>10. Opened'
  BY <1>5, OpenedKept DEF Orderly
<1>11. Loops'
  <2>1. Len(replying') = 1 /\ replying'[1] = m
    BY <1>5 DEF Reply
  <2>2. \A i \in 1..Len(replying') : Final(replying'[i])
    BY <1>7, <2>1 DEF Final
  <2>3. /\ toReceiver' \in Seq(Messages)
        /\ \A i \in DOMAIN toReceiver' :
              i + 1 \in DOMAIN toReceiver /\ toReceiver'[i] = toReceiver[i + 1]
    BY <1>1, <1>5, Consumed
  <2>4. DOMAIN toReceiver = 1..Len(toReceiver) /\ DOMAIN toReceiver' = 1..Len(toReceiver')
    BY <2>3, Channels, LenProperties
  <2>5. \A i \in 1..Len(toReceiver') :
            toReceiver'[i].kind = "Pause" => sender \in {"stopping", "stopped"}
    BY <2>3, <2>4 DEF Orderly, Loops
  <2> QED
    BY <1>1, <1>2, <1>5, <1>6, <2>2, <2>5 DEF Orderly, Loops, Final
<1> QED
  BY <1>5, <1>8, <1>9, <1>10, <1>11 DEF Orderly, Alive

\* What the record of a worker becomes when its stream goes on to c.
Placed(f, c, n) ==
    /\ n \in Downloads /\ n.at \in {"ready", "reporting", "ended"} /\ n.offset = c.offset
    /\ c.at # "open" /\ (c.at = "fill" <=> n.at \in {"ready", "reporting"})
    /\ c.queued = 0 => n.buffer = 0 /\ ~n.hash
    /\ c.queued > 0 => /\ n.hash = Streaming /\ n.at = "ready"
                       /\ n.buffer = (c.queued - Hashes) * Frame
    /\ n.credit = n.offset - down[f].offset
    /\ n.at = "reporting" =>
          n.offset = BlockEnd(f, down[f].offset) /\ down[f].offset < Size[f]

LEMMA HashTaken ==
    ASSUME Inductive, NEW f \in Files, ReceivePart(f), NEW r \in Places(f), Reached(f, r),
           NEW c, Advance(f, r, Head(queue[f]), c), Head(queue[f]).kind = "Hash"
    PROVE  UNCHANGED fault /\ \E n : down' = [down EXCEPT ![f] = n] /\ Placed(f, c, n)
<1> DEFINE p == Head(queue[f])
           d == down[f]
<1>1. /\ Streaming /\ r.at = "fill" /\ r.offset < Size[f] /\ r.queued = 0 /\ p.offset = r.offset
      /\ c = Place("fill", r.offset, 1)
  <2>1. Msg("Close", f, 0, 0).kind = "Close"
    BY DEF Msg
  <2> QED
    BY <2>1 DEF Advance
<1>2. d.at = "ready" /\ d.offset = r.offset /\ d.buffer = 0 /\ ~d.hash /\ d.credit = 0
  <2>1. d.at = "ready"
    BY DEF ReceivePart
  <2> QED
    BY <1>1, <2>1 DEF Reached, Inductive, Fresh
<1>3. UNCHANGED fault /\ down' = [down EXCEPT ![f] = [down[f] EXCEPT !.hash = TRUE]]
  BY <1>1, <1>2 DEF ReceivePart, Ensure
<1> DEFINE n == [down[f] EXCEPT !.hash = TRUE]
<1>4. /\ n \in Downloads /\ n.at = d.at /\ n.offset = d.offset /\ n.hash
      /\ n.buffer = d.buffer /\ n.credit = d.credit
  BY DownloadOf DEF Downloads
<1>5. c.at = "fill" /\ c.offset = r.offset /\ c.queued = 1
  BY <1>1, PlaceFields
<1>6. Hashes = 1 /\ (1 - Hashes) * Frame = 0 /\ Streaming \in BOOLEAN
  BY <1>1, FlowControlAssumption, Constants DEF Hashes
<1>7. d.offset \in Int
  BY DownloadOf
<1> HIDE DEF n
<1>8. n.credit = n.offset - d.offset
  BY <1>2, <1>4, <1>7
<1>9. n.hash = TRUE /\ Streaming = TRUE
  BY <1>1, <1>4, <1>6 DEF Downloads
<1>10. Placed(f, c, n)
  BY <1>2, <1>4, <1>5, <1>6, <1>8, <1>9 DEF Placed
<1> QED
  BY <1>3, <1>10 DEF n

LEMMA CloseTaken ==
    ASSUME Inductive, NEW f \in Files, ReceivePart(f), NEW r \in Places(f), Reached(f, r),
           NEW c, Advance(f, r, Head(queue[f]), c), Head(queue[f]).kind = "Close"
    PROVE  UNCHANGED fault /\ \E n : down' = [down EXCEPT ![f] = n] /\ Placed(f, c, n)
<1> DEFINE d == down[f]
           n == [down[f] EXCEPT !.at = "ended"]
<1>1. r.at = "fill" /\ r.offset = Size[f] /\ c = Place("closed", r.offset, 0)
  BY DEF Advance
<1>2. d.at = "ready" /\ d.offset = r.offset /\ d.buffer = 0 /\ ~d.hash /\ d.credit = 0
  <2>1. d.at = "ready"
    BY DEF ReceivePart
  <2>2. r.queued = 0
    BY <1>1, PlaceIs
  <2> QED
    BY <1>1, <2>1, <2>2 DEF Reached, Inductive, Fresh
<1>3. UNCHANGED fault /\ down' = [down EXCEPT ![f] = n]
  BY <1>1, <1>2 DEF ReceivePart, Ensure
<1>4. /\ n \in Downloads /\ n.at = "ended" /\ n.offset = d.offset /\ n.hash = d.hash
      /\ n.buffer = d.buffer /\ n.credit = d.credit
  BY DownloadOf DEF Downloads
<1>5. c.at = "closed" /\ c.offset = r.offset /\ c.queued = 0
  BY <1>1, PlaceFields
<1>6. d.offset \in Int
  BY DownloadOf
<1> HIDE DEF n
<1>7. n.credit = n.offset - d.offset
  BY <1>2, <1>4, <1>6
<1>8. Placed(f, c, n)
  BY <1>2, <1>4, <1>5, <1>7 DEF Placed
<1> QED
  BY <1>3, <1>8

LEMMA DataTaken ==
    ASSUME Inductive, NEW f \in Files, ReceivePart(f), NEW r \in Places(f), Reached(f, r),
           NEW c, Moves(f, r, Head(queue[f]), c), Head(queue[f]).kind = "Data"
    PROVE  UNCHANGED fault /\ \E n : down' = [down EXCEPT ![f] = n] /\ Placed(f, c, n)
<1> DEFINE p == Head(queue[f])
           d == down[f]
           filled == d.buffer + p.length
<1>1. /\ Advance(f, r, p, c) /\ Bytes(c) = Bytes(r) + p.length /\ p.length \in Nat
      /\ Bytes(r) \in Nat /\ c \in Places(f)
  BY MovesIs
<1>2. /\ r.at = "fill" /\ r.offset < Size[f] /\ (Streaming => r.queued > 0)
      /\ p.offset = Bytes(r) /\ p.length <= Frame
      /\ \/ c = Place("fill", BlockEnd(f, r.offset), 0)
         \/ c = Place("fill", r.offset, r.queued + 1) /\ Bytes(c) < BlockEnd(f, r.offset)
  <2>1. Msg("Close", f, 0, 0).kind = "Close"
    BY DEF Msg
  <2> QED
    BY <1>1, <2>1 DEF Advance
<1>3. /\ d.at = "ready" /\ d.offset = r.offset /\ d.credit = 0 /\ d \in Downloads
      /\ d.offset \in Nat /\ d.buffer \in Int /\ Size[f] \in Nat /\ r.queued \in Nat
      /\ d.offset < Size[f]
  <2>1. d.at = "ready"
    BY DEF ReceivePart, Whole
  <2>2. d.credit = 0
    BY <2>1 DEF Inductive, Fresh
  <2>3. d.offset = r.offset
    BY DEF Reached
  <2> QED
    BY <1>2, <2>1, <2>2, <2>3, DownloadOf, PlaceIs
<1>4. Bytes(r) = d.offset + d.buffer
  BY BytesReached
<1>5. /\ filled \in Int /\ Bytes(c) = d.offset + filled /\ p.offset = d.offset + d.buffer
  BY <1>1, <1>2, <1>3, <1>4
<1>6. d.hash = Streaming
  <2>1. Streaming \in BOOLEAN /\ d.hash \in BOOLEAN
    BY <1>3, FlowControlAssumption DEF Downloads
  <2>2. CASE Streaming
    <3>1. r.queued > 0
      BY <1>2, <2>2
    <3> QED
      BY <3>1 DEF Reached
  <2>3. CASE ~Streaming
    <3>1. r.queued = 0 \/ r.queued > 0
      BY <1>3
    <3>2. r.queued = 0 => ~d.hash
      BY DEF Reached
    <3>3. r.queued > 0 => d.hash = Streaming
      BY DEF Reached
    <3> QED
      BY <2>1, <2>3, <3>1, <3>2, <3>3
  <2> QED
    BY <2>2, <2>3
<1> DEFINE end == BlockEnd(f, d.offset)
<1>7. /\ end \in Nat /\ end <= Size[f] /\ end <= d.offset + Block
      /\ (end = Size[f] \/ end = d.offset + Block)
  BY <1>3, Constants DEF BlockEnd, Least
<1> DEFINE whole == filled = Block \/ d.offset + filled = Size[f]
<1>8. CASE c = Place("fill", BlockEnd(f, r.offset), 0)
  <2> DEFINE n == [at |-> "reporting", offset |-> d.offset + filled, buffer |-> 0,
                   hash |-> FALSE, credit |-> filled]
  <2>1. c.at = "fill" /\ c.offset = end /\ c.queued = 0
    BY <1>3, <1>8, PlaceFields
  <2>2. Bytes(c) = end
    BY <2>1 DEF Bytes
  <2>3. d.offset + filled = end
    BY <1>5, <2>2
  <2>4. filled <= Block /\ d.offset + filled <= Size[f] /\ whole
    <3> HIDE DEF filled, end, d
    <3> QED
      BY <1>3, <1>5, <1>7, <2>3, Constants
  <2>5. UNCHANGED fault /\ down' = [down EXCEPT ![f] = n]
    BY <1>2, <1>5, <1>6, <2>4 DEF ReceivePart, Whole, Ensure
  <2>6. /\ n \in Downloads /\ n.at = "reporting" /\ n.offset = end /\ n.buffer = 0 /\ ~n.hash
        /\ n.credit = filled
    <3> HIDE DEF filled, end
    <3> QED
      BY <1>5, <1>7, <2>3 DEF Downloads
  <2> HIDE DEF n
  <2>7. n.credit = n.offset - d.offset
    <3> HIDE DEF filled, end, d
    <3> QED
      BY <1>3, <1>5, <2>3, <2>6
  <2>8. Placed(f, c, n)
    BY <1>3, <2>1, <2>6, <2>7 DEF Placed
  <2> QED
    BY <2>5, <2>8
<1>9. CASE c = Place("fill", r.offset, r.queued + 1) /\ Bytes(c) < BlockEnd(f, r.offset)
  <2> DEFINE n == [down[f] EXCEPT !.buffer = filled]
  <2>1. c.at = "fill" /\ c.offset = d.offset /\ c.queued = r.queued + 1 /\ c.queued > 0
    BY <1>3, <1>9, PlaceFields
  <2>2. Bytes(c) = c.offset + (c.queued - Hashes) * Frame
    BY <2>1 DEF Bytes
  <2>3. filled = (c.queued - Hashes) * Frame
    <3> DEFINE x == (c.queued - Hashes) * Frame
    <3>1. x \in Int
      BY <1>3, <2>1, PacketsFit, Constants
    <3> HIDE DEF x, filled, d
    <3>2. d.offset + x = d.offset + filled
      BY <1>5, <2>1, <2>2 DEF x
    <3>3. x = filled
      BY <1>3, <1>5, <3>1, <3>2
    <3> QED
      BY <3>3 DEF x
  <2>4. filled <= Block /\ d.offset + filled <= Size[f] /\ ~whole
    <3>1. Bytes(c) < end
      BY <1>3, <1>9
    <3> HIDE DEF filled, end, d
    <3> QED
      BY <1>3, <1>5, <1>7, <3>1, Constants
  <2>5. UNCHANGED fault /\ down' = [down EXCEPT ![f] = n]
    BY <1>2, <1>5, <1>6, <2>4 DEF ReceivePart, Whole, Ensure
  <2>6. /\ n \in Downloads /\ n.at = "ready" /\ n.offset = d.offset /\ n.buffer = filled
        /\ n.hash = d.hash /\ n.credit = 0
    <3> HIDE DEF filled
    <3> QED
      BY <1>3, <1>5 DEF Downloads
  <2> HIDE DEF n
  <2>7. n.credit = n.offset - d.offset
    BY <1>3, <2>6
  <2>8. Placed(f, c, n)
    BY <1>6, <2>1, <2>3, <2>6, <2>7 DEF Placed
  <2> QED
    BY <2>5, <2>8
<1> QED
  BY <1>2, <1>8, <1>9

\* What is at the head of a worker's channel is what its stream goes on with.
LEMMA HeadMoves ==
    ASSUME Inductive, NEW f \in Files, queue[f] # <<>>, NEW r \in Places(f), NEW a,
           Path(Sends(f), queue[f], r, a)
    PROVE  \E c : /\ Moves(f, r, Head(queue[f]), c) /\ c \in Places(f)
                  /\ Path(Sends(f), Tail(queue[f]), c, a)
                  /\ Head(queue[f]).kind \in {"Hash", "Data", "Close"}
                  /\ Head(queue[f]).file = f
<1>1. queue[f] \in Seq(Messages)
  BY Channels
<1>2. PICK c : <<r, Head(queue[f]), c>> \in Sends(f) /\ Path(Sends(f), Tail(queue[f]), c, a)
  BY <1>1, PathTail
<1>3. 1 \in DOMAIN queue[f] /\ Head(queue[f]) = queue[f][1]
  BY <1>1, Tailed
<1>4. Head(queue[f]).kind \in {"Hash", "Data", "Close"} /\ Head(queue[f]).file = f
  BY <1>3 DEF Inductive, Fresh
<1>5. Moves(f, r, Head(queue[f]), c) /\ c \in Places(f)
  BY <1>2, <1>4, SendsIs
<1> QED
  BY <1>2, <1>4, <1>5

LEMMA ReceivePartOrder ==
    ASSUME Inductive, Orderly, NEW f \in Files, ReceivePart(f)
    PROVE  Orderly'
<1>1. down[f].at = "ready" /\ queue[f] # <<>>
  BY DEF ReceivePart
<1>2. PICK a : Behind(f, a) /\ (receiver = "run" => Ahead(f, a))
  BY <1>1 DEF Orderly, Forward, Forth
<1>3. PICK r : /\ Reached(f, r) /\ Path(Sends(f), queue[f], r, a) /\ a \in Places(f)
               /\ Total(f, queue[f]) = Bytes(a) - Bytes(r)
  BY <1>2 DEF Behind
<1>4. r \in Places(f)
  BY <1>3 DEF Reached
<1>5. PICK c : /\ Moves(f, r, Head(queue[f]), c) /\ c \in Places(f)
               /\ Path(Sends(f), Tail(queue[f]), c, a)
               /\ Head(queue[f]).kind \in {"Hash", "Data", "Close"}
               /\ Head(queue[f]).file = f
  BY <1>1, <1>3, <1>4, HeadMoves
<1>6. /\ Advance(f, r, Head(queue[f]), c) /\ Bytes(c) = Bytes(r) + Head(queue[f]).length
      /\ Head(queue[f]).length \in Nat
  BY <1>4, <1>5, MovesIs
<1>7. UNCHANGED fault /\ \E n : down' = [down EXCEPT ![f] = n] /\ Placed(f, c, n)
  <2>1. CASE Head(queue[f]).kind = "Hash"
    BY <1>3, <1>4, <1>6, <2>1, HashTaken
  <2>2. CASE Head(queue[f]).kind = "Close"
    BY <1>3, <1>4, <1>6, <2>2, CloseTaken
  <2>3. CASE Head(queue[f]).kind = "Data"
    BY <1>3, <1>4, <1>5, <2>3, DataTaken
  <2> QED
    BY <1>5, <2>1, <2>2, <2>3
<1>8. PICK n : down' = [down EXCEPT ![f] = n] /\ Placed(f, c, n)
  BY <1>7
<1>9. /\ queue' = [queue EXCEPT ![f] = Tail(@)]
      /\ UNCHANGED <<sending, toReceiver, toSender, receiver, closed, closing, events, replying,
                     reported, fault>>
  BY <1>7, PartReceived
<1>10. UNCHANGED <<sender, known, acks, up, packets, writing>>
  BY <1>9 DEF sending
<1>11. /\ queue'[f] = Tail(queue[f])
       /\ Total(f, queue'[f]) = Total(f, queue[f]) - Weight(f, Head(queue[f]))
       /\ \A g \in Files \ {f} : queue'[g] = queue[g]
  <2>1. queue'[f] = Tail(queue[f]) /\ Typed
    BY <1>9 DEF Inductive, Typed
  <2>2. queue' = [queue EXCEPT ![f] = Tail(@)]
    BY <1>9
  <2> QED
    BY ONLY <1>1, <2>1, <2>2, f \in Files, QueueShrinks
<1>12. down'[f] = n /\ \A g \in Files \ {f} : down'[g] = down[g]
  BY <1>8 DEF Inductive, Typed
<1>13. Forth(f)'
  <2>1. Reached(f, c)'
    BY <1>5, <1>8, <1>12 DEF Placed, Reached
  <2>2. Total(f, queue'[f]) = Bytes(a) - Bytes(c)
    <3> DEFINE q == Total(f, queue[f])
               q2 == Total(f, queue'[f])
               w == Head(queue[f]).length
               ba == Bytes(a)
               bc == Bytes(c)
               br == Bytes(r)
    <3>1. bc = br + w /\ w \in Nat /\ ba \in Int /\ br \in Int
      BY <1>3, <1>4, <1>6, PlaceNumbers
    <3>2. q2 = q - w
      BY <1>5, <1>11 DEF Weight
    <3>3. q = ba - br
      BY <1>3
    <3> HIDE DEF q, q2, w, ba, bc, br
    <3>4. q2 = ba - bc
      BY <3>1, <3>2, <3>3
    <3> QED
      BY <3>4 DEF q2, ba, bc
  <2>3. Behind(f, a)'
    BY <1>3, <1>5, <1>11, <2>1, <2>2 DEF Behind
  <2>4. Ahead(f, a) => Ahead(f, a)'
    BY <1>9, <1>10, AheadSame
  <2> QED
    BY <1>2, <1>9, <2>3, <2>4 DEF Forth
<1>14. ASSUME NEW g \in Files \ {f} PROVE Forth(g)'
  <2>1. ASSUME NEW b, Behind(g, b) PROVE Behind(g, b)'
    BY <1>11, <1>12, <2>1, BehindSame
  <2>2. Forth(g)
    BY DEF Orderly, Forward
  <2>3. down'[g].at = down[g].at
    BY <1>12
  <2> QED
    BY <1>9, <1>10, <2>1, <2>2, <2>3, ReceiverForth
<1>15. Forward'
  BY <1>13, <1>14 DEF Forward
<1>16. Back(f)'
  <2>1. f \notin closed /\ down[f].credit = 0
    BY <1>1 DEF Inductive, Told, Fresh
  <2>2. down[f].offset \in Nat /\ down[f].offset <= Size[f] /\ Aligned(f, down[f].offset)
    BY <1>3, <1>4, PlaceIs DEF Reached
  <2>3. n.offset \in Nat /\ n.credit = n.offset - down[f].offset
    BY <1>5, <1>8, PlaceIs DEF Placed
  <2>4. Reported(f)' = Reported(f)
    BY <1>9 DEF Reported
  <2>5. Done(f)' = down[f].offset /\ Done(f) = down[f].offset
    <3>1. Done(f)' = n.offset - n.credit
      BY <1>9, <1>12, <2>1 DEF Done
    <3>2. Done(f) = down[f].offset - down[f].credit
      BY <2>1 DEF Done
    <3> QED
      BY <2>1, <2>2, <2>3, <3>1, <3>2
  <2>6. ASSUME Reports(f), receiver = "run"
        PROVE  Total(f, events) + n.credit + reported[f] = n.offset
    <3> DEFINE t == Total(f, events)
               o == down[f].offset
    <3>1. t + down[f].credit + reported[f] = o
      BY <2>6 DEF Reports
    <3>2. t \in Int /\ o \in Nat /\ reported[f] \in Nat
      BY <2>2, <2>6, DownloadOf, MarkIs DEF Reports
    <3> HIDE DEF t
    <3>3. t + n.credit + reported[f] = n.offset
      BY <2>1, <2>3, <3>1, <3>2
    <3> QED
      BY <3>3 DEF t
  <2>7. ASSUME n.at = "reporting"
        PROVE  \E o \in 0..Size[f] - 1 :
                  /\ Aligned(f, o) /\ n.offset = BlockEnd(f, o) /\ n.credit = n.offset - o
    <3>1. down[f].offset < Size[f] /\ n.offset = BlockEnd(f, down[f].offset)
      BY <1>8, <2>7 DEF Placed
    <3>2. down[f].offset \in 0..Size[f] - 1
      BY <2>2, <3>1, Sizes
    <3> QED
      BY <2>2, <2>3, <3>1, <3>2
  <2>8. Reports(f) => Reports(f)'
    BY <1>9, <1>12, <2>4, <2>5, <2>6, <2>7 DEF Reports
  <2> QED
    BY <1>9, <1>10, <2>4, <2>8, BackKept DEF Orderly, Backward
<1>17. ASSUME NEW g \in Files \ {f} PROVE Back(g)'
  <2>1. Reported(g)' = Reported(g)
    BY <1>9 DEF Reported
  <2>2. Reports(g) => Reports(g)'
    BY <1>9, <1>12, ReportsMoved
  <2> QED
    BY <1>9, <1>10, <2>1, <2>2, BackKept DEF Orderly, Backward
<1>18. Backward'
  BY <1>16, <1>17 DEF Backward
<1>19. Opened'
  BY <1>9, OpenedKept DEF Orderly
<1>20. Loops'
  BY <1>9, <1>10, LoopsSame DEF Orderly
<1> QED
  BY <1>9, <1>15, <1>18, <1>19, <1>20 DEF Orderly, Alive

LEMMA ReportBlockOrder ==
    ASSUME Inductive, Orderly, NEW f \in Files, ReportBlock(f)
    PROVE  Orderly'
<1> DEFINE m == Msg("Checkpoint", f, down[f].offset, down[f].credit)
           h == [down[f] EXCEPT !.at = "ready"]
           n == [h EXCEPT !.credit = 0]
<1>1. /\ down[f].at = "reporting" /\ events' = Append(events, m)
      /\ down' = [down EXCEPT ![f] = [down[f] EXCEPT !.at = "ready", !.credit = 0]]
      /\ UNCHANGED <<sending, toReceiver, toSender, receiver, closed, queue, closing, replying,
                     reported, fault>>
  BY DEF ReportBlock
<1>2. h \in Downloads /\ h.at = "ready" /\ h.offset = down[f].offset
      /\ h.buffer = down[f].buffer /\ h.hash = down[f].hash
  BY DownloadOf DEF Downloads
<1>3. n = [down[f] EXCEPT !.at = "ready", !.credit = 0]
  BY DownloadOf DEF Downloads
<1> HIDE DEF h
<1>4. /\ n \in Downloads /\ n.at = "ready" /\ n.credit = 0 /\ n.offset = down[f].offset
      /\ n.buffer = down[f].buffer /\ n.hash = down[f].hash
  BY <1>2 DEF Downloads
<1>5. down'[f] = n /\ \A g \in Files \ {f} : down'[g] = down[g]
  BY <1>1, <1>3 DEF Inductive, Typed
<1> HIDE DEF n
<1>6. UNCHANGED <<sender, known, acks, up, packets, writing>>
  BY <1>1 DEF sending
<1>7. Reports(f)
  BY DEF Orderly, Backward, Back
<1>8. PICK o \in 0..Size[f] - 1 :
         /\ Aligned(f, o) /\ down[f].offset = BlockEnd(f, o)
         /\ down[f].credit = down[f].offset - o
  BY <1>1, <1>7 DEF Reports
<1> DEFINE b == down[f].offset
<1>9. o \in Nat /\ o < Size[f] /\ o \in Marks(f) /\ b \in Int /\ Size[f] \in Nat
  <2>1. o \in Nat /\ o < Size[f]
    BY Sizes
  <2> QED
    BY <1>8, <2>1, MarkIs, DownloadOf
<1>10. Returns(f, o, m, b)
  BY <1>8, <1>9 DEF Returns
<1>11. b \in Marks(f) /\ m \in StreamMessages /\ m.file = f /\ m.length = down[f].credit
  BY <1>9, <1>10, ReturnsIs DEF Msg
<1>12. m \in Messages /\ <<o, m, b>> \in Answers(f)
  <2>1. m \in Messages
    BY <1>11 DEF Messages
  <2> HIDE DEF m, b
  <2> QED
    BY <1>9, <1>10, <1>11, <2>1, AnswersIs
<1> HIDE DEF m
<1>13. events \in Seq(Messages)
  BY Channels
<1>14. \A g : Total(g, events') = Total(g, events) + Weight(g, m)
  BY <1>1, <1>12, <1>13, TotalAppend
<1>15. \A g \in Files : Reported(g)' = Reported(g)
  BY <1>1 DEF Reported
<1>16. Back(f)'
  <2>1. f \notin closed
    BY <1>1 DEF Inductive, Told
  <2>2. Done(f) = o /\ Done(f)' = b
    <3>1. Done(f) = b - down[f].credit
      BY <2>1 DEF Done
    <3>2. Done(f)' = n.offset - n.credit
      BY <1>1, <1>5, <2>1 DEF Done
    <3> HIDE DEF b
    <3>3. n.offset = b /\ n.credit = 0
      BY <1>4 DEF b
    <3>4. down[f].credit = b - o
      BY <1>8 DEF b
    <3> QED
      BY <1>9, <3>1, <3>2, <3>3, <3>4
  <2>3. ASSUME receiver = "run"
        PROVE  /\ Path(Answers(f), events', Reported(f), b)
               /\ Total(f, events') + n.credit + reported[f] = n.offset
    <3>1. /\ Path(Answers(f), events, Reported(f), o)
          /\ Total(f, events) + down[f].credit + reported[f] = down[f].offset
      BY <1>7, <2>2, <2>3 DEF Reports
    <3>2. Path(Answers(f), Append(events, m), Reported(f), b)
      BY <1>12, <1>13, <3>1, PathAppend
    <3> DEFINE t == Total(f, events)
               t2 == Total(f, events')
               d == down[f].credit
               p == reported[f]
    <3>3. t2 = t + d
      BY <1>11, <1>14 DEF Weight
    <3>4. t + d + p = b
      BY <3>1
    <3>5. t \in Int /\ d \in Int /\ p \in Nat /\ n.credit = 0 /\ n.offset = b
      BY <1>4, <1>7, DownloadOf, MarkIs DEF Reports
    <3> HIDE DEF t, t2, d, p, b
    <3>6. t2 + n.credit + p = n.offset
      BY <1>9, <3>3, <3>4, <3>5
    <3> QED
      BY <1>1, <3>2, <3>6 DEF t2, p
  <2>4. Reports(f)'
    BY <1>1, <1>4, <1>5, <1>7, <1>11, <1>15, <2>2, <2>3 DEF Reports
  <2> QED
    BY <1>1, <1>6, <1>15, <2>4, BackKept DEF Orderly, Backward
<1>17. ASSUME NEW g \in Files \ {f} PROVE Back(g)'
  <2>1. Done(g)' = Done(g)
    BY <1>1, <1>5 DEF Done
  <2>2. Total(g, events') = Total(g, events)
    <3>1. Total(g, events) \in Int
      BY DownloadOf
    <3> QED
      BY <1>11, <1>14, <3>1 DEF Weight
  <2>3. ASSUME Reports(g), receiver = "run"
        PROVE  Path(Answers(g), events', Reported(g), Done(g))
    <3>1. Done(g) \in Marks(g) /\ Path(Answers(g), events, Reported(g), Done(g))
      BY <2>3 DEF Reports
    <3>2. <<Done(g), m, Done(g)>> \in Answers(g)
      BY <1>11, <1>12, <3>1, AnswersIs
    <3> QED
      BY <1>1, <1>12, <1>13, <3>1, <3>2, PathAppend
  <2>4. Reports(g) => Reports(g)'
    BY <1>1, <1>5, <1>15, <2>1, <2>2, <2>3 DEF Reports
  <2> QED
    BY <1>1, <1>6, <1>15, <2>4, BackKept DEF Orderly, Backward
<1>18. Backward'
  BY <1>16, <1>17 DEF Backward
<1>19. Forth(f)'
  <2>1. ASSUME NEW a, Behind(f, a) PROVE Behind(f, a)'
    <3>1. PICK r : /\ Reached(f, r) /\ Path(Sends(f), queue[f], r, a) /\ a \in Places(f)
                   /\ Total(f, queue[f]) = Bytes(a) - Bytes(r)
      BY <2>1 DEF Behind
    <3>2. r.queued = 0
      <4>1. r.queued \in Nat
        BY <3>1, PlaceIs DEF Reached
      <4> QED
        BY <1>1, <3>1, <4>1 DEF Reached
    <3>3. Reached(f, r)'
      BY <1>1, <1>4, <1>5, <3>1, <3>2 DEF Reached
    <3> QED
      BY <1>1, <3>1, <3>3 DEF Behind
  <2>2. Forth(f)
    BY DEF Orderly, Forward
  <2> QED
    BY <1>1, <1>6, <2>1, <2>2, ReceiverForth
<1>20. ASSUME NEW g \in Files \ {f} PROVE Forth(g)'
  <2>1. ASSUME NEW a, Behind(g, a) PROVE Behind(g, a)'
    BY <1>1, <1>5, <2>1, BehindSame
  <2>2. Forth(g)
    BY DEF Orderly, Forward
  <2>3. down'[g].at = down[g].at
    BY <1>5
  <2> QED
    BY <1>1, <1>6, <2>1, <2>2, <2>3, ReceiverForth
<1>21. Forward'
  BY <1>19, <1>20 DEF Forward
<1>22. Opened'
  BY <1>1, OpenedKept DEF Orderly
<1>23. Loops'
  BY <1>1, <1>6, LoopsSame DEF Orderly
<1> QED
  BY <1>1, <1>18, <1>21, <1>22, <1>23 DEF Orderly, Alive

-----------------------------------------------------------------------------
(* Every step keeps every stream in order.                                 *)

LEMMA OrderlyInit ==
    ASSUME Init
    PROVE  Orderly
<1>1. /\ up = [f \in Files |-> [at |-> "none", offset |-> Start[f],
                                acked |-> Start[f], queued |-> 0]]
      /\ down = [f \in Files |-> [at |-> "none", offset |-> Start[f],
                                  buffer |-> 0, hash |-> FALSE, credit |-> 0]]
      /\ acks = [f \in Files |-> <<>>] /\ queue = [f \in Files |-> <<>>]
      /\ known = Start /\ reported = Start /\ closed = {}
      /\ packets = <<>> /\ writing = <<>> /\ toReceiver = <<>> /\ toSender = <<>>
      /\ events = <<>> /\ replying = <<>> /\ closing = none /\ receiver = "run"
      /\ fault = "none"
  BY DEF Init
<1>2. ASSUME NEW f \in Files
      PROVE  /\ Start[f] \in Nat /\ Size[f] \in Nat /\ Start[f] <= Size[f] /\ Aligned(f, Start[f])
             /\ Start[f] \in Marks(f)
  <2>1. Start[f] \in Nat /\ Size[f] \in Nat /\ Start[f] <= Size[f] /\ Aligned(f, Start[f])
    BY Sizes, FlowControlAssumption DEF Aligned
  <2> QED
    BY <2>1, MarkIs
<1>3. Forward
  <2>1. ASSUME NEW f \in Files PROVE Forth(f)
    <3> DEFINE e == Place("open", Start[f], 0)
    <3>1. e \in Places(f)
      BY <1>2, PlaceAtBlock
    <3>2. e.at = "open" /\ e.offset = Start[f] /\ e.queued = 0
      BY PlaceFields
    <3> HIDE DEF e
    <3>3. Reached(f, e)
      BY <1>1, <3>1, <3>2 DEF Reached
    <3>4. Queued(f, e)
      BY <1>1, <3>1, <3>2 DEF Queued
    <3>5. Path(Sends(f), <<>>, e, e)
      BY PathEmpty
    <3>6. Total(f, queue[f]) = Bytes(e) - Bytes(e)
      BY <1>1, <3>1, PlaceNumbers, TotalEmpty
    <3>7. Behind(f, e)
      BY <1>1, <3>1, <3>3, <3>5, <3>6 DEF Behind
    <3>8. Ahead(f, e)
      BY <1>1, <3>4, <3>5 DEF Ahead, Route, Close
    <3> QED
      BY <3>7, <3>8 DEF Forth
  <2> QED
    BY <2>1 DEF Forward
<1>4. Backward
  <2>1. ASSUME NEW f \in Files PROVE Back(f)
    <3>1. Start[f] \in Nat /\ Size[f] \in Nat /\ Start[f] <= Size[f] /\ Start[f] \in Marks(f)
      BY <1>2
    <3>2. reported[f] = Start[f] /\ Reported(f) = Start[f] /\ Acked(f) = Start[f]
      BY <1>1 DEF Reported, Acked
    <3>3. Done(f) = Start[f]
      BY <1>1, <3>1 DEF Done
    <3>4. \A M : Path(M, <<>>, Start[f], Start[f])
      BY PathEmpty
    <3>5. Total(f, events) = 0
      BY <1>1, TotalEmpty
    <3>6. Reports(f)
      BY <1>1, <3>1, <3>2, <3>3, <3>4, <3>5 DEF Reports
    <3>7. Heard(f, Start[f])
      BY <1>1, <3>1, <3>2, <3>4 DEF Heard, Least
    <3>8. Replies(f, Start[f])
      BY <1>1, <3>2, <3>4 DEF Replies
    <3> QED
      BY <3>6, <3>7, <3>8 DEF Back
  <2> QED
    BY <2>1 DEF Backward
<1>5. Opened
  <2>1. Occupied = {}
    BY <1>1 DEF Occupied
  <2>2. Cardinality(Occupied) <= Streams
    BY <2>1, QueueSizes, FS_EmptySet
  <2>3. ASSUME NEW f \in Files PROVE InFlight(f) = 0
    <3>1. up[f].offset - up[f].acked = 0
      BY <1>1, <1>2
    <3>2. CeilDiv(0, Block) = 0
      <4>1. 0 = CeilDiv(0, Block)
        BY Constants, RoundedUp
      <4> QED
        BY <4>1
    <3> QED
      BY <3>1, <3>2 DEF InFlight
  <2> QED
    BY <1>1, <2>2, <2>3, WindowFits DEF Opened
<1>6. Loops
  BY <1>1 DEF Loops
<1> QED
  BY <1>1, <1>3, <1>4, <1>5, <1>6 DEF Orderly, Alive

LEMMA OrderlyStep ==
    ASSUME Inductive, Orderly, [Next]_vars
    PROVE  Orderly'
<1>1. CASE SendLoop
  <2>1. CASE Spawn \/ Stop \/ Commit
    BY <2>1, SpawnOrder, StopOrder, CommitOrder
  <2>2. CASE TakePacket \/ WritePacket \/ TakeReply \/ Conclude
    BY <2>2, TakePacketOrder, WritePacketOrder, TakeReplyOrder, ConcludeOrder
  <2>3. CASE \E f \in Files : JoinSender(f)
    BY <2>3, JoinSenderOrder
  <2> QED
    BY <1>1, <2>1, <2>2, <2>3 DEF SendLoop
<1>2. CASE ReceiveLoop
  <2>1. CASE WriteReply \/ TakeEvent \/ TakeOpen \/ TakePart \/ TakeClose
    BY <2>1, WriteReplyOrder, TakeEventOrder, TakeOpenOrder, TakePartOrder, TakeCloseOrder
  <2>2. CASE EnqueueClose \/ TakePause \/ DrainEvent \/ Drained \/ TakeCommit
    BY <2>2, EnqueueCloseOrder, TakePauseOrder, DrainEventOrder, DrainedOrder, TakeCommitOrder
  <2>3. CASE \E f \in Files : JoinReceiver(f) \/ DrainWorker(f)
    BY <2>3, JoinReceiverOrder, DrainWorkerOrder
  <2> QED
    BY <1>2, <2>1, <2>2, <2>3 DEF ReceiveLoop
<1>3. ASSUME NEW f \in Files, SendWorker(f) PROVE Orderly'
  BY <1>3, OpenStreamOrder, QueuePacketOrder, TakeAckOrder, CloseStreamOrder, TakeClosedOrder
     DEF SendWorker
<1>4. ASSUME NEW f \in Files, ReceiveWorker(f) PROVE Orderly'
  BY <1>4, ReceivePartOrder, ReportBlockOrder, InterruptedOrder DEF ReceiveWorker
<1>5. CASE UNCHANGED vars
  <2>1. UNCHANGED <<sending, toReceiver, toSender, receiving, fault>>
    BY <1>5 DEF vars
  <2>2. UNCHANGED <<sender, up, known, acks, writing, packets, receiver, queue, down, closing,
                    closed, events, reported, replying>>
    BY <2>1 DEF sending, receiving
  <2>3. Forward' /\ Backward'
    <3>1. \A f \in Files : Acked(f)' = Acked(f)
      BY <2>2 DEF Acked
    <3> QED
      BY <2>1, <2>2, <3>1, ForwardSame, BackwardSame DEF Orderly
  <2>4. Opened' /\ Loops'
    BY <2>1, <2>2, OpenedSame, LoopsSame DEF Orderly
  <2> QED
    BY <2>1, <2>3, <2>4 DEF Orderly, Alive
<1> QED
  BY <1>1, <1>2, <1>3, <1>4, <1>5, PressOrder DEF Next, Work

\* In every reachable state every packet and every acknowledgement of every stream is on
\* its way exactly once and in order, and no end has given up.
THEOREM OrderlyHolds == Spec => []Orderly
<1>1. Init => Orderly
  BY OrderlyInit
<1>2. Inductive /\ Orderly /\ [Next]_vars => Orderly'
  BY OrderlyStep
<1> QED
  BY <1>1, <1>2, InductiveHolds, PTL DEF Spec

\* transport.rs, send_inner, send_file, receive_inner and receive_file: no ensure! of
\* an end ever refuses what the other end sends, whatever the files, the sizes of
\* blocks and channels and the moment of a pause.
THEOREM NothingEverRefused == Spec => []NothingRefused
<1>1. Orderly => NothingRefused
  BY DEF Orderly, Alive, NothingRefused
<1> QED
  BY <1>1, OrderlyHolds, PTL

\* transport.rs, acknowledgements and the receiver's channels: no try_send ever meets
\* a full channel.
THEOREM NothingEverOverflows == Spec => []NothingOverflows
<1>1. Orderly => NothingOverflows
  BY DEF Orderly, Alive, NothingOverflows
<1> QED
  BY <1>1, OrderlyHolds, PTL

=============================================================================
