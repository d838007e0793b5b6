----------------------------- MODULE NativeSend -----------------------------
(***************************************************************************)
(* How the payload of Data frames gets from a captured file to the socket: *)
(* kernel_copy.rs (sendfile, Linux and Android), windows_io.rs             *)
(* (TransmitFile) and the writer of transfer/transport.rs that calls them. *)
(*                                                                         *)
(* A frame is a length prefix and Length units of a file from an offset.   *)
(* The prefix is written by the handler, the payload by a worker on the    *)
(* blocking pool; the handler may be dropped at any time and the worker    *)
(* then runs on until it sees the flag its guard has set.  The kernel      *)
(* sends as much as the socket has room for, and may find at any call that *)
(* it cannot send files at all.  The peer may stop reading for good.       *)
(***************************************************************************)
EXTENDS Naturals, Sequences, FiniteSetsExt

CONSTANTS
    Frames,  \* the frames of a connection: <<[file |-> f, offset |-> n], ...>>
    Length,  \* units of payload in a frame
    Chunk,   \* the most one sendfile call is asked for
    Buffer,  \* the copy buffer
    Room     \* bound: units the socket takes before the peer has to read

ASSUME NativeSendAssumption ==
    /\ Frames \in Seq([file : Nat, offset : Nat])
    /\ {Length, Chunk, Buffer, Room} \subseteq Nat \ {0}

VARIABLES
    platform,   \* "unix" or "windows"
    native,     \* Windows: TransmitFile is there and was not refused yet
    frame,      \* the frame being written
    handler,    \* "header", "copy", "append" (write_all), "ended", "gone"
    worker,     \* the blocking worker of this frame
    cancelled,  \* the flag the handler's guard sets when it is dropped
    late,       \* the idle limit, or the deadline on Windows, has passed
    sent,       \* units of this frame's payload that are on the socket
    position,   \* of each open file; the worker's duplicate shares it
    buffer,     \* read and not yet written
    op,         \* TransmitFile: "none", "pending", "whole", "broken"
    owned,      \* the worker's Operation (handles, OVERLAPPED) exists
    wire,       \* everything put on the socket
    room        \* what the socket takes now

conn == <<platform, native, frame, handler>>
copy == <<worker, sent, position, buffer>>
kernel == <<op, owned>>
vars == <<conn, copy, kernel, cancelled, late, wire, room>>

Files == {Frames[k].file : k \in DOMAIN Frames}
Prefix(k) == <<"length", k>>
Unit(k, n) == <<Frames[k].file, n>>
Payload(k) == [n \in 1..Length |-> Unit(k, Frames[k].offset + n - 1)]

\* Whether the socket's provider has TransmitFile at all.
Found == BOOLEAN

Init ==
    /\ platform \in {"unix", "windows"}
    /\ native \in Found
    /\ frame = 1
    /\ handler = "header"
    /\ worker = "none"
    /\ cancelled = FALSE /\ late = FALSE
    /\ sent = 0
    /\ position = [f \in Files |-> 0]
    /\ buffer = <<>>
    /\ op = "none" /\ owned = FALSE
    /\ wire = <<>>
    /\ room = Room

Put(items) ==
    /\ Len(items) <= room
    /\ wire' = wire \o items
    /\ room' = room - Len(items)

\* Any number of units one call may take of the ones it is offered.
Some(limit) == 1..Min({limit, room})

Left == Length - sent

-----------------------------------------------------------------------------
(* The handler: transport.rs, one packet after the other.                  *)

\* Seek the file, write the prefix, start the worker; without native sending
\* the payload follows from the handler's own block.
Header ==
    /\ handler = "header"
    /\ frame <= Len(Frames)
    /\ Put(<<Prefix(frame)>>)
    /\ sent' = 0
    /\ cancelled' = FALSE /\ late' = FALSE
    /\ position' = [position EXCEPT ![Frames[frame].file] = Frames[frame].offset]
    /\ IF platform = "unix"
          THEN handler' = "copy" /\ worker' \in {"fast", "slow"}
          ELSE IF native THEN handler' = "copy" /\ worker' = "submit"
                         ELSE handler' = "append" /\ worker' = "none"
    /\ UNCHANGED <<platform, native, frame, buffer, kernel>>

\* write_all of the block from memory.
WriteAll ==
    /\ handler = "append"
    /\ Left > 0
    /\ \E n \in Some(Left) :
          /\ Put(SubSeq(Payload(frame), sent + 1, sent + n))
          /\ sent' = sent + n
    /\ UNCHANGED <<conn, worker, position, buffer, kernel, cancelled, late>>

\* The worker's answer; the last of the frames ends the connection.
Following(k) == IF k < Len(Frames) THEN "header" ELSE "ended"

Written ==
    /\ \/ handler = "copy" /\ worker = "done"
       \/ handler = "append" /\ Left = 0
    /\ frame' = frame + 1
    /\ handler' = Following(frame)
    /\ worker' = "none"
    /\ UNCHANGED <<platform, native, sent, position, buffer, kernel,
                   cancelled, late, wire, room>>

\* Ok(false): the prefix is out already.
Refused ==
    /\ handler = "copy" /\ worker = "refused"
    /\ native' = FALSE
    /\ handler' = "append" /\ worker' = "none"
    /\ UNCHANGED <<platform, frame, sent, position, buffer, kernel,
                   cancelled, late, wire, room>>

\* The worker's error, a timeout of the handler's own writes, a stop or an
\* abort: the connection ends and the guard is dropped.
Gone ==
    /\ handler \in {"header", "copy", "append"}
    /\ handler' = "gone"
    /\ cancelled' = TRUE
    /\ UNCHANGED <<platform, native, frame, copy, kernel, late, wire, room>>

-----------------------------------------------------------------------------
(* The worker on Linux and Android: kernel_copy::send.                     *)

\* Control::check.  The mutant forgets the idle limit.
AbortsWhenCancelled == cancelled
Aborts == cancelled \/ late

WorkerGoto(w) ==
    /\ worker' = w
    /\ UNCHANGED <<conn, sent, position, buffer, kernel, cancelled, late, wire, room>>

\* The head of each loop, and every slice of wait().
Check ==
    \/ worker = "fast" /\ Left > 0 /\ WorkerGoto(IF Aborts THEN "failed" ELSE "sendfile")
    \/ worker = "slow" /\ Left > 0 /\ WorkerGoto(IF Aborts THEN "failed" ELSE
                                                 IF buffer = <<>> THEN "read" ELSE "write")
    \/ worker \in {"fast", "slow"} /\ Left = 0 /\ WorkerGoto("done")

\* EAGAIN, then poll until there is room.
Blocked ==
    \/ worker = "sendfile" /\ room = 0 /\ WorkerGoto("fast_wait")
    \/ worker = "write" /\ room = 0 /\ WorkerGoto("slow_wait")

Wait ==
    \/ worker \in {"fast_wait", "slow_wait"} /\ Aborts /\ WorkerGoto("failed")
    \/ worker = "fast_wait" /\ ~Aborts /\ room > 0 /\ WorkerGoto("fast")
    \/ worker = "slow_wait" /\ ~Aborts /\ room > 0 /\ WorkerGoto("slow")

\* sendfile moves the file's position by what it sent; advance() restarts the
\* idle clock.
Sendfile ==
    LET file == Frames[frame].file IN
    /\ worker = "sendfile"
    /\ \E n \in Some(Min({Left, Chunk})) :
          /\ Put([i \in 1..n |-> Unit(frame, position[file] + i - 1)])
          /\ position' = [position EXCEPT ![file] = @ + n]
          /\ sent' = sent + n
    /\ late' = FALSE
    /\ worker' = "fast"
    /\ UNCHANGED <<conn, buffer, kernel, cancelled>>

\* Not for this file, socket or kernel: go on with the buffer where the file
\* stands.  The mutant goes back to the start of the region.
UnsupportedRewinds ==
    /\ worker = "sendfile"
    /\ worker' = "slow"
    /\ position' = [position EXCEPT ![Frames[frame].file] = Frames[frame].offset]
    /\ UNCHANGED <<conn, sent, buffer, kernel, cancelled, late, wire, room>>

Unsupported == worker = "sendfile" /\ WorkerGoto("slow")

Read ==
    LET file == Frames[frame].file IN
    /\ worker = "read"
    /\ \E n \in 1..Min({Left, Buffer}) :
          /\ buffer' = [i \in 1..n |-> Unit(frame, position[file] + i - 1)]
          /\ position' = [position EXCEPT ![file] = @ + n]
    /\ worker' = "slow"
    /\ UNCHANGED <<conn, sent, kernel, cancelled, late, wire, room>>

Write ==
    /\ worker = "write"
    /\ \E n \in Some(Len(buffer)) :
          /\ Put(SubSeq(buffer, 1, n))
          /\ buffer' = SubSeq(buffer, n + 1, Len(buffer))
          /\ sent' = sent + n
    /\ late' = FALSE
    /\ worker' = "slow"
    /\ UNCHANGED <<conn, position, kernel, cancelled>>

\* Any other error of a call, a file that is too short, a write of nothing.
CallFails == worker \in {"sendfile", "read", "write"} /\ WorkerGoto("failed")

-----------------------------------------------------------------------------
(* The worker on Windows: windows_io::transmit.                            *)

\* Cancelled or too late.
SubmitAborts == worker = "submit" /\ Aborts /\ WorkerGoto("failed")

\* The region is missing, or there is no event to be had.
SubmitFails == worker = "submit" /\ ~Aborts /\ WorkerGoto("failed")

\* The call fails with anything but IO_PENDING: nothing was started.
SubmitRefused == worker = "submit" /\ ~Aborts /\ WorkerGoto("refused")

Submit ==
    /\ worker = "submit" /\ ~Aborts
    /\ worker' = "await"
    /\ op' = "pending" /\ owned' = TRUE
    /\ UNCHANGED <<conn, sent, position, buffer, cancelled, late, wire, room>>

\* Every 50 ms.
LeaveLoop == worker = "await" /\ op = "pending" /\ Aborts /\ WorkerGoto("drain")

\* An error of the wait itself leaves the loop the same way.
WaitFails == worker = "await" /\ WorkerGoto("drain")

\* WSAGetOverlappedResult with the request terminal.
Result ==
    /\ worker = "await"
    /\ op # "pending"
    /\ worker' = IF op = "whole" THEN "done" ELSE "failed"
    /\ owned' = FALSE
    /\ UNCHANGED <<conn, sent, position, buffer, op, cancelled, late, wire, room>>

\* Operation::drop: CancelIoEx, then wait until the request is terminal.  The
\* mutant takes the cancellation for its end.
DrainAtOnce ==
    /\ worker = "drain"
    /\ worker' = "failed"
    /\ owned' = FALSE
    /\ UNCHANGED <<conn, sent, position, buffer, op, cancelled, late, wire, room>>

Drain ==
    /\ worker = "drain"
    /\ op # "pending"
    /\ worker' = "failed"
    /\ owned' = FALSE
    /\ UNCHANGED <<conn, sent, position, buffer, op, cancelled, late, wire, room>>

\* The kernel, on its own; it may also end a request early, and does when the
\* request was cancelled.
KernelSends ==
    /\ op = "pending"
    /\ \E n \in Some(Left) :
          /\ Put(SubSeq(Payload(frame), sent + 1, sent + n))
          /\ sent' = sent + n
          /\ op' = IF n = Left THEN "whole" ELSE "pending"
    /\ UNCHANGED <<conn, worker, position, buffer, owned, cancelled, late>>

KernelEnds ==
    /\ op = "pending"
    /\ op' = "broken"
    /\ UNCHANGED <<conn, copy, owned, cancelled, late, wire, room>>

-----------------------------------------------------------------------------
(* The peer and the clock.                                                 *)

Running == worker \notin {"none", "done", "refused", "failed"}

PeerReads ==
    /\ room < Room
    /\ room' = Room
    /\ UNCHANGED <<conn, copy, kernel, cancelled, late, wire>>

\* The limit passes; on Linux only while nothing is sent.
TimePasses ==
    /\ Running
    /\ late' = TRUE
    /\ UNCHANGED <<conn, copy, kernel, cancelled, wire, room>>

\* What the worker does by itself, and what the system may answer it instead.
Worker ==
    \/ Check \/ Blocked \/ Wait \/ Sendfile \/ Read \/ Write
    \/ SubmitAborts \/ Submit \/ LeaveLoop \/ Result \/ Drain

CallBreaks ==
    \/ Unsupported \/ CallFails \/ SubmitFails \/ SubmitRefused \/ WaitFails

Next ==
    \/ Header \/ WriteAll \/ Written \/ Refused \/ Gone
    \/ Worker \/ CallBreaks
    \/ KernelSends \/ KernelEnds
    \/ PeerReads \/ TimePasses

Spec == Init /\ [][Next]_vars

\* The pool runs the worker, time passes, and the kernel ends what CancelIoEx
\* has cancelled.  Nobody makes the peer read, and no call has to fail: a wait
\* ends by its flag or its limit.
FairSpec ==
    /\ Spec
    /\ WF_vars(Worker)
    /\ WF_vars(TimePasses)
    /\ WF_vars(worker = "drain" /\ KernelEnds)

-----------------------------------------------------------------------------
\* Where the units of frame k have to be: behind its prefix, behind the frames
\* before it.
Start(k) == (k - 1) * (Length + 1)

\* What is on the wire is in its place.
Exact(w) ==
    \A k \in DOMAIN Frames :
        /\ Len(w) > Start(k) => w[Start(k) + 1] = Prefix(k)
        /\ \A n \in 1..Length :
              Len(w) > Start(k) + n => w[Start(k) + 1 + n] = Payload(k)[n]

\* kernel_copy.rs: "Sending falls back at the exact offset"; windows_io.rs:
\* "append payload, not a new frame".  Whatever the kernel accepts, refuses or
\* breaks off, and whoever is dropped when, the socket carries the frames in
\* order, without a gap or a unit twice, up to some point; a frame the handler
\* has left is whole.
WireIsExact ==
    /\ Exact(wire)
    /\ Len(wire) <= Start(Len(Frames) + 1)
    /\ handler = "ended" => Len(wire) = Start(Len(Frames) + 1)

\* INTERNALS.md, windows_io.rs: "Submitted I/O owns its handles and OVERLAPPED
\* until completion, even if the awaiting Rust future is dropped".
KernelOwnsWhatItUses == op = "pending" => owned

\* A worker ends although the peer never reads again and nobody waits for it.
CopyEnds == Running ~> ~Running
=============================================================================
