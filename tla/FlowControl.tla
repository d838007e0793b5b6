----------------------------- MODULE FlowControl -----------------------------
(***************************************************************************)
(* One connection of a task after Resume: the select loops of send_inner   *)
(* and receive_inner, the workers send_file and receive_file, and the      *)
(* bounded channels between them (transfer/transport.rs).                  *)
(*                                                                         *)
(* Sizes and offsets are bytes.  A channel is the sequence of what it      *)
(* holds; a send that has to wait is a guard on its length, a try_send is  *)
(* a check.  A socket direction is one channel too: it stands for the      *)
(* kernel's buffers, the reader task and its channel of one packet.        *)
(***************************************************************************)
EXTENDS Naturals, Sequences, FiniteSets

CONSTANTS Size,       \* Size[i]: length of the i-th file
          Start,      \* Start[i]: the offset Resume answered for it
          Block, Frame, Streams,
          Window,     \* the window the receiver announced in Ready
          Streaming,  \* manifest.streaming
          Pipe,       \* packets the socket holds towards the receiver
          ReplyPipe   \* and towards the sender

Files == DOMAIN Size

\* What send_inner demands of Ready and Resume; WINDOW is the receiver's own.
WINDOW == 2 * Block
ASSUME FlowControlAssumption ==
    /\ Size \in Seq(Nat) /\ Start \in Seq(Nat) /\ Len(Start) = Len(Size)
    /\ {Block, Frame, Streams, Pipe, ReplyPipe} \subseteq Nat \ {0}
    /\ Block % Frame = 0
    /\ Window \in Block..WINDOW /\ Window % Block = 0
    /\ Streaming \in BOOLEAN
    /\ \A f \in Files : Start[f] <= Size[f]
                     /\ (Start[f] = Size[f] \/ Start[f] % Block = 0)

VARIABLES
    sender,     \* where send_inner is
    pressed,    \* the command is no longer Run
    waiting,    \* first file without a worker
    up,         \* send_file: state, blocks queued and acknowledged, packets
                \* of the current block already queued
    packets,    \* the channel from the workers to the socket writer
    writing,    \* what the sender's loop is writing to the socket
    acks,       \* per file, the channel of acknowledgements
    known,      \* offsets of send_inner
    completed,
    toReceiver, toSender,
    receiver,   \* where receive_inner is
    active, closed, credit, \* its streams and their credits
    queue,      \* per file, the channel to its worker
    closing,    \* the file (or none) whose Close the loop waits to enqueue
    down,       \* receive_file: state, offset, bytes buffered, hash received,
                \* credit to report
    events,     \* the channel from the workers
    replying,   \* what the receiver's loop is writing to the socket
    reported,   \* offsets of receive_inner
    fault       \* why an end gave up: "none", "overflow" or "protocol"

sending   == <<sender, waiting, up, packets, writing, acks, known, completed>>
receiving == <<receiver, active, closed, credit, queue, closing, down, events,
               replying, reported>>
vars == <<sending, pressed, toReceiver, toSender, receiving, fault>>

none == 0
Least(a, b) == IF a < b THEN a ELSE b
CeilDiv(a, b) == (a + b - 1) \div b

SEND_QUEUE == Streams * (Block \div Frame + 2)
\* The mutant leaves no room for hashes.
FileQueueOfData == WINDOW \div Frame
FileQueue  == WINDOW \div Frame + WINDOW \div Block + 1
AckQueue   == Window \div Block + 1

Msg(kind, f, offset, length) ==
    [kind |-> kind, file |-> f, offset |-> offset, length |-> length]

\* The mutant takes every block for a full one.
BlockEndPast(f, offset) == offset + Block
BlockEnd(f, offset) == Least(offset + Block, Size[f])

\* The packets of the block of f at offset, in the order send_file queues them.
BlockPackets(f, offset) ==
    LET n == BlockEnd(f, offset) - offset IN
    (IF Streaming THEN <<Msg("Hash", f, offset, 0)>> ELSE <<>>)
    \o [i \in 1..CeilDiv(n, Frame) |->
          LET start == (i - 1) * Frame IN
          Msg("Data", f, offset + start, Least(n - start, Frame))]

\* An ensure!, a `?` or a failed try_send: the end gives up.
Ensure(ok, reason, action) ==
    IF ok THEN action /\ UNCHANGED fault
    ELSE /\ fault' = reason
         /\ UNCHANGED <<sending, pressed, toReceiver, toSender, receiving>>

TypeOK ==
    /\ sender \in {"run", "stopping", "committing", "stopped", "sent"}
    /\ pressed \in BOOLEAN
    /\ waiting \in 1..(Len(Size) + 1)
    /\ \A f \in Files :
          /\ up[f].at \in {"none", "open", "fill", "closing", "ended",
                           "joined", "aborted"}
          /\ up[f].acked <= up[f].offset /\ up[f].offset <= Size[f]
          /\ down[f].at \in {"none", "ready", "reporting", "ended", "failed",
                             "joined"}
          /\ down[f].offset + down[f].buffer <= Size[f]
          /\ Len(acks[f]) <= AckQueue /\ Len(queue[f]) <= FileQueue
    /\ Len(packets) <= SEND_QUEUE /\ Len(events) <= Streams
    /\ Len(writing) <= 1 /\ Len(replying) <= 1
    /\ Len(toReceiver) <= Pipe /\ Len(toSender) <= ReplyPipe
    /\ receiver \in {"run", "draining", "stopped", "complete"}
    /\ active \subseteq Files /\ closed \subseteq Files
    /\ closing \in Files \cup {none}
    /\ fault \in {"none", "overflow", "protocol"}

Init ==
    /\ sender = "run"
    /\ pressed = FALSE
    /\ waiting = 1
    /\ up = [f \in Files |-> [at |-> "none", offset |-> Start[f],
                              acked |-> Start[f], queued |-> 0]]
    /\ packets = <<>> /\ writing = <<>>
    /\ acks = [f \in Files |-> <<>>]
    /\ known = Start
    /\ completed = 0
    /\ toReceiver = <<>> /\ toSender = <<>>
    /\ receiver = "run"
    /\ active = {} /\ closed = {}
    /\ credit = [f \in Files |-> 0]
    /\ queue = [f \in Files |-> <<>>]
    /\ closing = none
    /\ down = [f \in Files |-> [at |-> "none", offset |-> Start[f],
                                buffer |-> 0, hash |-> FALSE, credit |-> 0]]
    /\ events = <<>> /\ replying = <<>>
    /\ reported = Start
    /\ fault = "none"

\* An end that gives up takes the connection, and so the other end, with it.
Alive == fault = "none"

-----------------------------------------------------------------------------
(* send_file, one worker per file.                                          *)

At(f, state) == Alive /\ up[f].at = state

Enqueue(packet) ==
    /\ Len(packets) < SEND_QUEUE
    /\ packets' = Append(packets, packet)
    /\ UNCHANGED <<sender, pressed, waiting, writing, acks, known, completed,
                   toReceiver, toSender, receiving, fault>>

\* Blocks queued and not acknowledged: pending.len().
InFlight(f) == CeilDiv(up[f].offset - up[f].acked, Block)

OpenStream(f) ==
    /\ At(f, "open")
    /\ up' = [up EXCEPT ![f].at = "fill"]
    /\ Enqueue(Msg("Open", f, 0, 0))

\* The inner loop is left when the window is full.
HasWindow(f) == up[f].offset < Size[f] /\ InFlight(f) < Window \div Block

\* The next packet of the current block; after its last one the block counts.
QueuePacket(f) ==
    LET parts == BlockPackets(f, up[f].offset) IN
    /\ At(f, "fill")
    /\ HasWindow(f)
    /\ up' = [up EXCEPT ![f] =
          IF @.queued + 1 = Len(parts)
            THEN [up[f] EXCEPT !.queued = 0, !.offset = BlockEnd(f, @)]
            ELSE [up[f] EXCEPT !.queued = @ + 1]]
    /\ Enqueue(parts[up[f].queued + 1])

\* The oldest block in flight must be the one acknowledged.
TakeAck(f) ==
    LET ack == Head(acks[f])
        end == BlockEnd(f, up[f].acked) IN
    /\ At(f, "fill") /\ ~HasWindow(f) /\ InFlight(f) > 0
    /\ acks[f] # <<>>
    /\ Ensure(ack = Msg("Checkpoint", f, end, end - up[f].acked), "protocol",
              /\ up' = [up EXCEPT ![f].acked = end]
              /\ acks' = [acks EXCEPT ![f] = Tail(@)]
              /\ UNCHANGED <<sender, pressed, waiting, packets, writing, known,
                             completed, toReceiver, toSender, receiving>>)

Flushed(f) == up[f].offset = Size[f] /\ InFlight(f) = 0

\* The mutant does not wait for Closed.
AfterCloseEnded == "ended"
AfterClose == "closing"

CloseStream(f) ==
    /\ At(f, "fill")
    /\ Flushed(f)
    /\ up' = [up EXCEPT ![f].at = AfterClose]
    /\ Enqueue(Msg("Close", f, 0, 0))

TakeClosed(f) ==
    /\ At(f, "closing")
    /\ acks[f] # <<>>
    /\ Ensure(Head(acks[f]).kind = "Closed", "protocol",
              /\ up' = [up EXCEPT ![f].at = "ended"]
              /\ acks' = [acks EXCEPT ![f] = Tail(@)]
              /\ UNCHANGED <<sender, pressed, waiting, packets, writing, known,
                             completed, toReceiver, toSender, receiving>>)

-----------------------------------------------------------------------------
(* The loop of send_inner.                                                  *)

Busy == {f \in Files : up[f].at \in {"open", "fill", "closing", "ended"}}
AtTop == Alive /\ sender = "run" /\ writing = <<>>
\* The mutant opens one stream too many.
CanSpawnMore == ~pressed /\ waiting <= Len(Size) /\ Cardinality(Busy) <= Streams
CanSpawn == ~pressed /\ waiting <= Len(Size) /\ Cardinality(Busy) < Streams
\* The top of the loop has nothing to do; the branches of select! may run.
Selecting == AtTop /\ ~pressed /\ ~CanSpawn /\ completed < Len(Size)

Press ==
    /\ Alive /\ sender = "run"
    /\ ~pressed
    /\ pressed' = TRUE
    /\ UNCHANGED <<sending, toReceiver, toSender, receiving, fault>>

Spawn ==
    /\ AtTop /\ CanSpawn
    /\ up' = [up EXCEPT ![waiting].at = "open"]
    /\ waiting' = waiting + 1
    /\ UNCHANGED <<sender, pressed, packets, writing, acks, known, completed,
                   toReceiver, toSender, receiving, fault>>

\* Workers are aborted and joined; what they queued is never written.
Stop ==
    /\ AtTop /\ pressed
    /\ up' = [f \in Files |-> IF f \in Busy THEN [up[f] EXCEPT !.at = "aborted"]
                                            ELSE up[f]]
    /\ writing' = <<Msg("Pause", none, 0, 0)>>
    /\ sender' = "stopping"
    /\ UNCHANGED <<pressed, waiting, packets, acks, known, completed,
                   toReceiver, toSender, receiving, fault>>

Commit ==
    /\ AtTop /\ ~pressed /\ completed = Len(Size)
    /\ writing' = <<Msg("Commit", none, 0, 0)>>
    /\ sender' = "committing"
    /\ UNCHANGED <<pressed, waiting, up, packets, acks, known, completed,
                   toReceiver, toSender, receiving, fault>>

\* The branch of the packet channel is chosen: until the packet is in the
\* socket the loop does nothing else.
TakePacket ==
    /\ Selecting
    /\ packets # <<>>
    /\ writing' = <<Head(packets)>>
    /\ packets' = Tail(packets)
    /\ UNCHANGED <<sender, pressed, waiting, up, acks, known, completed,
                   toReceiver, toSender, receiving, fault>>

WritePacket ==
    /\ Alive /\ writing # <<>>
    /\ Len(toReceiver) < Pipe
    /\ toReceiver' = toReceiver \o writing
    /\ writing' = <<>>
    /\ UNCHANGED <<sender, pressed, waiting, up, packets, acks, known, completed,
                   toSender, receiving, fault>>

\* A Checkpoint or Closed goes to the worker with try_send.
TakeReply ==
    LET reply == Head(toSender)
        f     == reply.file IN
    /\ Selecting
    /\ toSender # <<>>
    /\ IF Len(acks[f]) >= AckQueue
         THEN Ensure(FALSE, "overflow", TRUE)
         ELSE Ensure(/\ reply.kind \in {"Checkpoint", "Closed"}
                     /\ up[f].at \in {"open", "fill", "closing"}
                     /\ reply.kind = "Checkpoint" =>
                           reply.offset \in known[f]..Size[f] /\ reply.length <= Block,
                     "protocol",
                     /\ known' = IF reply.kind = "Checkpoint"
                                   THEN [known EXCEPT ![f] = reply.offset] ELSE known
                     /\ acks' = [acks EXCEPT ![f] = Append(@, reply)]
                     /\ toSender' = Tail(toSender)
                     /\ UNCHANGED <<sender, pressed, waiting, up, packets, writing,
                                    completed, toReceiver, receiving>>)

JoinSender(f) ==
    /\ Selecting
    /\ At(f, "ended")
    /\ up' = [up EXCEPT ![f].at = "joined"]
    /\ completed' = completed + 1
    /\ UNCHANGED <<sender, pressed, waiting, packets, writing, acks, known,
                   toReceiver, toSender, receiving, fault>>

\* After Pause every other reply is skipped; after Commit none may come.
Conclude ==
    LET reply == Head(toSender) IN
    /\ Alive /\ sender \in {"stopping", "committing"} /\ writing = <<>>
    /\ toSender # <<>>
    /\ Ensure(sender = "committing" => reply.kind = "Complete", "protocol",
              /\ toSender' = Tail(toSender)
              /\ sender' = CASE reply.kind = "Stopped"  -> "stopped"
                             [] reply.kind = "Complete" -> "sent"
                             [] OTHER                   -> sender
              /\ UNCHANGED <<pressed, waiting, up, packets, writing, acks, known,
                             completed, toReceiver, receiving>>)

-----------------------------------------------------------------------------
(* The loop of receive_inner.                                               *)

Handling == Alive /\ receiver = "run" /\ replying = <<>> /\ closing = none

\* The packet at the head of the socket is of this kind.
Arrives(kind) == Handling /\ toReceiver # <<>> /\ Head(toReceiver).kind = kind
Packet == Head(toReceiver)
Consume == toReceiver' = Tail(toReceiver)

Reply(message) == replying' = <<message>>

WriteReply ==
    /\ Alive /\ replying # <<>>
    /\ Len(toSender) < ReplyPipe
    /\ toSender' = toSender \o replying
    /\ replying' = <<>>
    /\ UNCHANGED <<sending, pressed, toReceiver, receiver, active, closed, credit,
                   queue, closing, down, events, reported, fault>>

\* Credit returns to a stream.  The mutant returns a whole block's.
ReturnedBlock(event) == Block
Returned(event) == event.length

TakeEvent ==
    LET event == Head(events) IN
    /\ Handling
    /\ events # <<>>
    /\ Ensure(event.file \in active, "protocol",
              /\ events' = Tail(events)
              /\ reported' = [reported EXCEPT ![event.file] = event.offset]
              /\ credit' = [credit EXCEPT ![event.file] = @ + Returned(event)]
              /\ Reply(event)
              /\ UNCHANGED <<sending, pressed, toReceiver, toSender, receiver,
                             active, closed, queue, closing, down>>)

JoinReceiver(f) ==
    /\ Handling
    /\ down[f].at = "ended"
    /\ down' = [down EXCEPT ![f].at = "joined"]
    /\ active' = active \ {f}
    /\ closed' = closed \cup {f}
    /\ Reply(Msg("Closed", f, 0, 0))
    /\ UNCHANGED <<sending, pressed, toReceiver, toSender, receiver, credit, queue,
                   closing, events, reported, fault>>

TakeOpen ==
    LET f == Packet.file IN
    /\ Arrives("Open")
    /\ Ensure(f \notin active \cup closed /\ Cardinality(active) < Streams, "protocol",
              /\ Consume
              /\ active' = active \cup {f}
              /\ credit' = [credit EXCEPT ![f] = WINDOW]
              /\ down' = [down EXCEPT ![f].at = "ready"]
              /\ UNCHANGED <<sending, pressed, toSender, receiver, closed, queue,
                             closing, events, replying, reported>>)

\* Data must fit the credit and, like a hash, the worker's channel.
TakePart ==
    LET f == Packet.file IN
    /\ Arrives("Data") \/ Arrives("Hash")
    /\ IF f \in active /\ Len(queue[f]) >= FileQueue
         THEN Ensure(FALSE, "overflow", TRUE)
         ELSE Ensure(/\ f \in active /\ down[f].at \in {"ready", "reporting"}
                     /\ Packet.length <= credit[f]
                     /\ Packet.kind = "Hash" => Streaming,
                     "protocol",
                     /\ Consume
                     /\ credit' = [credit EXCEPT ![f] = @ - Packet.length]
                     /\ queue' = [queue EXCEPT ![f] = Append(@, Packet)]
                     /\ UNCHANGED <<sending, pressed, toSender, receiver, active,
                                    closed, closing, down, events, replying,
                                    reported>>)

TakeClose ==
    /\ Arrives("Close")
    /\ Ensure(Packet.file \in active, "protocol",
              /\ Consume
              /\ closing' = Packet.file
              /\ UNCHANGED <<sending, pressed, toSender, receiver, active, closed,
                             credit, queue, down, events, replying, reported>>)

\* The awaited send of Close.
EnqueueClose ==
    /\ Alive /\ closing # none
    /\ Len(queue[closing]) < FileQueue
    /\ queue' = [queue EXCEPT ![closing] = Append(@, Msg("Close", closing, 0, 0))]
    /\ closing' = none
    /\ UNCHANGED <<sending, pressed, toReceiver, toSender, receiver, active, closed,
                   credit, down, events, replying, reported, fault>>

TakePause ==
    /\ Arrives("Pause")
    /\ Consume
    /\ active' = {}
    /\ receiver' = "draining"
    /\ UNCHANGED <<sending, pressed, toSender, closed, credit, queue, closing,
                   down, events, replying, reported, fault>>

\* Workers that have not been joined: workers.is_empty().
Working == {f \in Files : down[f].at \notin {"none", "joined"}}

\* While draining, a checkpoint is thrown away or an ended worker is joined.
DrainEvent ==
    /\ Alive /\ receiver = "draining" /\ Working # {}
    /\ events # <<>>
    /\ events' = Tail(events)
    /\ UNCHANGED <<sending, pressed, toReceiver, toSender, receiver, active, closed,
                   credit, queue, closing, down, replying, reported, fault>>

DrainWorker(f) ==
    /\ Alive /\ receiver = "draining"
    /\ down[f].at \in {"ended", "failed"}
    /\ down' = [down EXCEPT ![f].at = "joined"]
    /\ UNCHANGED <<sending, pressed, toReceiver, toSender, receiver, active, closed,
                   credit, queue, closing, events, replying, reported, fault>>

Drained ==
    /\ Alive /\ receiver = "draining" /\ Working = {}
    /\ receiver' = "stopped"
    /\ Reply(Msg("Stopped", none, 0, 0))
    /\ UNCHANGED <<sending, pressed, toReceiver, toSender, active, closed, credit,
                   queue, closing, down, events, reported, fault>>

TakeCommit ==
    /\ Arrives("Commit")
    /\ Ensure(active = {} /\ closed = Files, "protocol",
              /\ Consume
              /\ receiver' = "complete"
              /\ Reply(Msg("Complete", none, 0, 0))
              /\ UNCHANGED <<sending, pressed, toSender, active, closed, credit,
                             queue, closing, down, events, reported>>)

-----------------------------------------------------------------------------
(* receive_file, one worker per stream.                                     *)

\* The block in the buffer is complete when it is full or the file ends.  The
\* mutant forgets the short last block.
WholeFull(f, filled) == filled = Block
Whole(f, filled) == filled = Block \/ down[f].offset + filled = Size[f]

ReceivePart(f) ==
    LET packet == Head(queue[f])
        d      == down[f]
        filled == d.buffer + packet.length
        valid  == CASE packet.kind = "Hash" ->
                         /\ packet.offset = d.offset /\ d.offset < Size[f]
                         /\ ~d.hash /\ d.buffer = 0
                    [] packet.kind = "Data" ->
                         /\ Streaming => d.hash
                         /\ packet.offset = d.offset + d.buffer
                         /\ packet.length <= Frame /\ filled <= Block
                         /\ d.offset + filled <= Size[f]
                    [] packet.kind = "Close" ->
                         d.buffer = 0 /\ d.offset = Size[f] /\ ~d.hash
    IN
    /\ Alive /\ d.at = "ready"
    /\ queue[f] # <<>>
    /\ Ensure(valid, "protocol",
          /\ queue' = [queue EXCEPT ![f] = Tail(@)]
          /\ down' = [down EXCEPT ![f] =
                CASE packet.kind = "Hash"  -> [@ EXCEPT !.hash = TRUE]
                  [] packet.kind = "Close" -> [@ EXCEPT !.at = "ended"]
                  [] packet.kind = "Data"  ->
                       IF Whole(f, filled)
                         THEN [at |-> "reporting", offset |-> @.offset + filled,
                               buffer |-> 0, hash |-> FALSE, credit |-> filled]
                         ELSE [@ EXCEPT !.buffer = filled]]
          /\ UNCHANGED <<sending, pressed, toReceiver, toSender, receiver, active,
                         closed, credit, closing, events, replying, reported>>)

ReportBlock(f) ==
    /\ Alive /\ down[f].at = "reporting"
    /\ Len(events) < Streams
    /\ events' = Append(events,
                        Msg("Checkpoint", f, down[f].offset, down[f].credit))
    /\ down' = [down EXCEPT ![f] = [@ EXCEPT !.at = "ready", !.credit = 0]]
    /\ UNCHANGED <<sending, pressed, toReceiver, toSender, receiver, active, closed,
                   credit, queue, closing, replying, reported, fault>>

\* The loop has dropped the worker's channel and it is empty.
Interrupted(f) ==
    /\ Alive /\ down[f].at = "ready"
    /\ f \notin active
    /\ queue[f] = <<>>
    /\ down' = [down EXCEPT ![f].at = "failed"]
    /\ UNCHANGED <<sending, pressed, toReceiver, toSender, receiver, active, closed,
                   credit, queue, closing, events, replying, reported, fault>>

-----------------------------------------------------------------------------
SendWorker(f) ==
    \/ OpenStream(f) \/ QueuePacket(f) \/ TakeAck(f) \/ CloseStream(f)
    \/ TakeClosed(f)

SendLoop ==
    \/ Spawn \/ Stop \/ Commit \/ TakePacket \/ WritePacket \/ TakeReply \/ Conclude
    \/ \E f \in Files : JoinSender(f)

ReceiveLoop ==
    \/ WriteReply \/ TakeEvent \/ TakeOpen \/ TakePart \/ TakeClose \/ EnqueueClose
    \/ TakePause \/ DrainEvent \/ Drained \/ TakeCommit
    \/ \E f \in Files : JoinReceiver(f) \/ DrainWorker(f)

ReceiveWorker(f) == ReceivePart(f) \/ ReportBlock(f) \/ Interrupted(f)

\* What the two ends do by themselves; only the user presses Pause.
Work ==
    \/ SendLoop \/ ReceiveLoop
    \/ \E f \in Files : SendWorker(f) \/ ReceiveWorker(f)

Next == Press \/ Work

Spec == Init /\ [][Next]_vars

\* A connection has finitely much to do, so it is enough that one of the ends does
\* something while one of them can.  Nothing makes the user press Pause: a stalled
\* connection stays so.
FairSpec == Spec /\ WF_vars(Work)

-----------------------------------------------------------------------------
(* Properties.                                                              *)

\* The bytes of f in a channel.
Weight(f, message) == IF message.file = f THEN message.length ELSE 0
Total(f, messages) ==
    LET sum[i \in 0..Len(messages)] ==
            IF i = 0 THEN 0 ELSE sum[i - 1] + Weight(f, messages[i])
    IN  sum[Len(messages)]

\* The channels that are filled with try_send (transport.rs: acknowledgements,
\* and the receiver's channel per stream) are large enough for every order in
\* which workers, loops and socket advance.
NothingOverflows == fault # "overflow"

\* Two ends that follow the code never refuse each other's packets: every
\* ensure! of send_inner, send_file, receive_inner and receive_file holds on
\* every schedule, with full channels and with a Pause at any moment.
NothingRefused == fault # "protocol"

\* transport.rs, credits: what a stream may still send and what it has sent and
\* not been given back add up to the window.
CreditIsConserved ==
    \A f \in active :
        credit[f] + Total(f, queue[f]) + down[f].buffer + down[f].credit
            + Total(f, events) = WINDOW

\* The sender shows a task as waiting for confirmation only when every file has
\* arrived whole and every stream is closed on both ends.
CommitIsDue ==
    sender \in {"committing", "sent"} =>
        /\ active = {}
        /\ \A f \in Files : down[f].offset = Size[f] /\ known[f] = Size[f]

\* Every connection on which nothing fails ends: everything arrives, or Stopped
\* answers Pause.  A transfer that nobody pauses does so by itself.
ConnectionEnds == <>(sender \in {"sent", "stopped"})
=============================================================================
