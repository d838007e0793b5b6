---------------------------- MODULE StopProtocol ----------------------------
(***************************************************************************)
(* One task between its sender and its receiver, over the connections of   *)
(* successive attempts: transfer/transport.rs (send, send_inner, receive,  *)
(* receive_inner) driven by the buttons of ui/transfers.rs.  The streams   *)
(* inside a connection are abstracted to one message per file and its      *)
(* answer Closed; the handshake before Begin has no lasting state.         *)
(*                                                                         *)
(* Every connection is a pair of FIFO channels.  It may break, losing what *)
(* is in flight; when the sender leaves, what it has sent still arrives.   *)
(***************************************************************************)
EXTENDS Naturals, Sequences

CONSTANTS FileCount,   \* files of the task
          MaxAttempts  \* bound: connections the user makes for the task

ASSUME StopAssumption == FileCount \in Nat /\ MaxAttempts \in Nat \ {0}

VARIABLES
    \* sender
    task,       \* outgoing/<id>: "saved", "sent" (result recorded), "discarded"
    control,    \* the watch channel of TransferControl
    sender,     \* where send() is
    attempt,    \* the current connection, 0 before the first
    queued,     \* files handed to the connection
    completed,  \* files whose worker has returned
    outcome,    \* what send_inner returned: "saved", "stopped" or "failed"
    shown,      \* the status the user sees
    \* network
    link,       \* per connection: "new", "up", "left" (by the sender), "cut"
    toReceiver, toSender,
    \* receiver
    handler,    \* per connection, where receive_inner is
    closed,     \* per connection, files closed on it
    part,       \* files complete in the staging directory, as recorded
    staging,    \* the staging directory exists
    result,     \* a result is recorded: the task is published
    \* history
    cleaned,    \* connections on which cancel() has completed
    switched    \* control changed after Pause or Cancel was sent

senderVars   == <<task, control, sender, attempt, queued, completed, outcome, shown>>
receiverVars == <<handler, closed, part, staging, result>>
vars == <<senderVars, link, toReceiver, toSender, receiverVars, cleaned, switched>>

Connections == 1..MaxAttempts
Commands == {"Run", "Pause", "Cancel"}
Requests == {"Begin", "File", "Pause", "Cancel", "Commit"}
Replies == {"Resume", "ResumeSaved", "Closed", "Stopped", "Complete", "Error"}
Talking == {"opening", "sending", "stopping", "awaiting"}
Holding == {"receiving", "pausing", "cancelling", "committing"}

TypeOK ==
    /\ task \in {"saved", "sent", "discarded"}
    /\ control \in Commands
    /\ sender \in {"idle", "ended", "decided"} \cup Talking
    /\ attempt \in 0..MaxAttempts
    /\ queued \in 0..FileCount /\ completed \in 0..FileCount
    /\ outcome \in {"none", "saved", "stopped", "failed"}
    /\ shown \in {"none", "active", "Complete", "Cancelled", "Paused", "Failed"}
    /\ link \in [Connections -> {"new", "up", "left", "cut"}]
    /\ toReceiver \in [Connections -> Seq(Requests)]
    /\ toSender \in [Connections -> Seq(Replies)]
    /\ handler \in [Connections -> {"none", "accepted", "ended"} \cup Holding]
    /\ closed \in [Connections -> 0..FileCount]
    /\ part \in 0..FileCount
    /\ staging \in BOOLEAN /\ result \in BOOLEAN
    /\ cleaned \in SUBSET Connections
    /\ switched \in BOOLEAN

Init ==
    /\ task = "saved"
    /\ control = "Run"
    /\ sender = "idle"
    /\ attempt = 0
    /\ queued = 0 /\ completed = 0
    /\ outcome = "none"
    /\ shown = "none"
    /\ link = [c \in Connections |-> "new"]
    /\ toReceiver = [c \in Connections |-> <<>>]
    /\ toSender = [c \in Connections |-> <<>>]
    /\ handler = [c \in Connections |-> "none"]
    /\ closed = [c \in Connections |-> 0]
    /\ part = 0
    /\ staging = FALSE /\ result = FALSE
    /\ cleaned = {}
    /\ switched = FALSE

-----------------------------------------------------------------------------
(* The user: Continue, Discard, and the buttons of a running transfer.     *)

\* "Continue" runs the task, "cancel and clean both ends" starts it with the
\* command Cancel already given.
Start(command) ==
    /\ sender = "idle"
    /\ task = "saved"
    /\ attempt < MaxAttempts
    /\ control' = command
    /\ sender' = "opening"
    /\ attempt' = attempt + 1
    /\ queued' = 0 /\ completed' = 0
    /\ outcome' = "none"
    /\ shown' = "active"
    /\ link' = [link EXCEPT ![attempt'] = "up"]
    /\ toReceiver' = [toReceiver EXCEPT ![attempt'] = <<"Begin">>]
    /\ handler' = [handler EXCEPT ![attempt'] = "accepted"]
    /\ switched' = FALSE
    /\ UNCHANGED <<task, toSender, closed, part, staging, result, cleaned>>

\* The buttons work as long as the last status shown is an active one.
Press(command) ==
    /\ sender # "idle"
    /\ control' = command
    /\ switched' = (switched \/ (sender \in {"stopping", "ended", "decided"}
                                 /\ command # control))
    /\ UNCHANGED <<task, sender, attempt, queued, completed, outcome, shown, link,
                   toReceiver, toSender, receiverVars, cleaned>>

-----------------------------------------------------------------------------
(* send_inner.                                                             *)

Post(message) == toReceiver' = [toReceiver EXCEPT ![attempt] =
                    IF link[attempt] = "up" THEN Append(@, message) ELSE @]

\* The next reply on the current connection is one of `kinds`.
Got(kinds) ==
    /\ attempt > 0
    /\ toSender[attempt] # <<>>
    /\ Head(toSender[attempt]) \in kinds

Take == toSender' = [toSender EXCEPT ![attempt] = Tail(@)]

\* send_inner returns: its end of the connection is closed.
End(how) ==
    /\ sender' = "ended"
    /\ outcome' = how
    /\ link' = [link EXCEPT ![attempt] = IF @ = "up" THEN "left" ELSE @]
    /\ toSender' = [toSender EXCEPT ![attempt] = <<>>]
    /\ UNCHANGED <<task, control, attempt, queued, completed, shown, toReceiver,
                   receiverVars, cleaned, switched>>

Resumed ==
    /\ sender = "opening"
    /\ Got({"Resume"})
    /\ Take
    /\ sender' = "sending"
    /\ UNCHANGED <<task, control, attempt, queued, completed, outcome, shown, link,
                   toReceiver, receiverVars, cleaned, switched>>

\* The result of an earlier attempt, or the confirmation of this one.
Confirmed ==
    /\ \/ sender = "opening" /\ Got({"ResumeSaved"})
       \/ sender = "awaiting" /\ Got({"Complete"})
    /\ End("saved")

\* A free stream takes the next file.  The mutant counts one too many.
MoreFilesInclusive == queued <= FileCount
MoreFiles == queued < FileCount

SendFile ==
    /\ sender = "sending"
    /\ control = "Run"
    /\ MoreFiles
    /\ queued' = queued + 1
    /\ Post("File")
    /\ UNCHANGED <<task, control, sender, attempt, completed, outcome, shown, link,
                   toSender, receiverVars, cleaned, switched>>

FileDone ==
    /\ sender = "sending"
    /\ Got({"Closed"})
    /\ Take
    /\ completed' = completed + 1
    /\ UNCHANGED <<task, control, sender, attempt, queued, outcome, shown, link,
                   toReceiver, receiverVars, cleaned, switched>>

\* A command is looked at before completion: the workers are aborted and the
\* command as it is now goes out.
SendStop ==
    /\ sender = "sending"
    /\ control # "Run"
    /\ Post(control)
    /\ sender' = "stopping"
    /\ UNCHANGED <<task, control, attempt, queued, completed, outcome, shown, link,
                   toSender, receiverVars, cleaned, switched>>

\* The answer to Pause and Cancel.  The mutant takes a late Closed for it.
ConfirmationsLate == {"Stopped", "Closed"}
Confirmations == {"Stopped"}

\* Everything else but Error is skipped.
SkipReply ==
    /\ sender = "stopping"
    /\ Got(Replies \ (Confirmations \cup {"Error"}))
    /\ Take
    /\ UNCHANGED <<senderVars, link, toReceiver, receiverVars, cleaned, switched>>

StopConfirmed ==
    /\ sender = "stopping"
    /\ Got(Confirmations)
    /\ End("stopped")

\* Every file's worker has returned.
AllCompleted == completed = FileCount

SendCommit ==
    /\ sender = "sending"
    /\ control = "Run"
    /\ AllCompleted
    /\ Post("Commit")
    /\ sender' = "awaiting"
    /\ UNCHANGED <<task, control, attempt, queued, completed, outcome, shown, link,
                   toSender, receiverVars, cleaned, switched>>

\* Nothing more can arrive: end of file, or nothing for IDLE.  The mutant
\* reads without a timeout.
SilentForever == FALSE
Silent == /\ toSender[attempt] = <<>>
          /\ link[attempt] = "cut" \/ handler[attempt] = "ended"

\* An Error reply, or silence.
AttemptFails ==
    /\ sender \in Talking
    /\ Got({"Error"}) \/ Silent
    /\ End("failed")

-----------------------------------------------------------------------------
(* send(), after send_inner and the captures have ended.                   *)

\* The status is chosen from the command as it is now ...  The mutant calls
\* every end of a cancelled attempt Cancelled.
FinalStatusHopeful ==
    IF outcome = "saved" THEN "Complete"
    ELSE IF control = "Cancel" THEN "Cancelled"
    ELSE IF outcome = "failed" THEN "Failed" ELSE "Paused"

FinalStatus ==
    CASE outcome = "saved" -> "Complete"
      [] outcome = "failed" -> "Failed"
      [] outcome = "stopped" -> IF control = "Cancel" THEN "Cancelled" ELSE "Paused"

Decide ==
    /\ sender = "ended"
    /\ shown' = FinalStatus
    /\ sender' = "decided"
    /\ UNCHANGED <<task, control, attempt, queued, completed, outcome, link,
                   toReceiver, toSender, receiverVars, cleaned, switched>>

\* ... and what becomes of the saved task from the command a moment later.
Recorded == CASE outcome = "saved" -> "sent"
              [] outcome = "stopped" /\ control = "Cancel" -> "discarded"
              [] OTHER -> task

Persist ==
    /\ sender = "decided"
    /\ task' = Recorded
    /\ sender' = "idle"
    /\ UNCHANGED <<control, attempt, queued, completed, outcome, shown, link,
                   toReceiver, toSender, receiverVars, cleaned, switched>>

\* The record cannot be written or the task's directory not be removed: the
\* save may fail after its rename, the removal half-way.
PersistFails ==
    /\ sender = "decided"
    /\ Recorded # task
    /\ task' \in {task, Recorded}
    /\ shown' = "Failed"
    /\ sender' = "idle"
    /\ UNCHANGED <<control, attempt, queued, completed, outcome, link,
                   toReceiver, toSender, receiverVars, cleaned, switched>>

-----------------------------------------------------------------------------
(* receive_inner on connection c.                                          *)

Hears(c, request) ==
    /\ toReceiver[c] # <<>>
    /\ Head(toReceiver[c]) = request

Consume(c) == toReceiver' = [toReceiver EXCEPT ![c] = Tail(@)]

Reply(c, message) == toSender' = [toSender EXCEPT ![c] =
                        IF link[c] = "up" THEN Append(@, message) ELSE @]

Becomes(c, state) == handler' = [handler EXCEPT ![c] = state]

\* The task's lock is held until a session's blocking work has ended.  The
\* mutant opens the task without it.
LockedNever(c) == FALSE
Locked(c) == \E d \in Connections \ {c} : handler[d] \in Holding

\* The task is finished when its receipt has a result.  The mutant goes by the
\* offsets.
FinishedByParts == part = FileCount
Finished == result

OpenTask(c) ==
    /\ handler[c] = "accepted"
    /\ Hears(c, "Begin")
    /\ Consume(c)
    /\ IF Locked(c)
          THEN Becomes(c, "ended") /\ Reply(c, "Error") /\ UNCHANGED staging
          ELSE IF Finished
                  THEN Becomes(c, "ended") /\ Reply(c, "ResumeSaved") /\ UNCHANGED staging
                  ELSE Becomes(c, "receiving") /\ Reply(c, "Resume") /\ staging' = TRUE
    /\ UNCHANGED <<senderVars, link, closed, part, result, cleaned, switched>>

ReceiveFile(c) ==
    /\ handler[c] = "receiving"
    /\ Hears(c, "File")
    /\ Consume(c)
    /\ closed' = [closed EXCEPT ![c] = @ + 1]
    /\ part' = IF part < closed'[c] THEN closed'[c] ELSE part
    /\ Reply(c, "Closed")
    /\ UNCHANGED <<senderVars, link, handler, staging, result, cleaned, switched>>

ReceiveStop(c) ==
    /\ handler[c] = "receiving"
    /\ \/ Hears(c, "Pause") /\ Becomes(c, "pausing")
       \/ Hears(c, "Cancel") /\ Becomes(c, "cancelling")
    /\ Consume(c)
    /\ UNCHANGED <<senderVars, link, toSender, closed, part, staging, result,
                   cleaned, switched>>

\* The workers are drained and the last flush is done.
PauseDone(c) ==
    /\ handler[c] = "pausing"
    /\ Becomes(c, "ended")
    /\ Reply(c, "Stopped")
    /\ UNCHANGED <<senderVars, link, toReceiver, closed, part, staging, result,
                   cleaned, switched>>

CancelDone(c) ==
    /\ handler[c] = "cancelling"
    /\ Becomes(c, "ended")
    /\ Reply(c, "Stopped")
    /\ part' = 0
    /\ staging' = FALSE
    /\ cleaned' = cleaned \cup {c}
    /\ UNCHANGED <<senderVars, link, toReceiver, closed, result, switched>>

ReceiveCommit(c) ==
    /\ handler[c] = "receiving"
    /\ Hears(c, "Commit")
    /\ closed[c] = FileCount
    /\ Consume(c)
    /\ Becomes(c, "committing")
    /\ UNCHANGED <<senderVars, link, toSender, closed, part, staging, result,
                   cleaned, switched>>

\* finish_commit: publication ends whether or not the sender is still there.
CommitDone(c) ==
    /\ handler[c] = "committing"
    /\ Becomes(c, "ended")
    /\ Reply(c, "Complete")
    /\ result' = TRUE
    /\ staging' = FALSE
    /\ UNCHANGED <<senderVars, link, toReceiver, closed, part, cleaned, switched>>

\* Any step may fail; the sender is told if it still listens.
HandlerFails(c) ==
    /\ handler[c] \in Holding
    /\ Becomes(c, "ended")
    /\ Reply(c, "Error")
    /\ UNCHANGED <<senderVars, link, toReceiver, closed, part, staging, result,
                   cleaned, switched>>

\* End of file or an idle connection.  The mutant knows no idle timeout.
PeerClosed(c) == toReceiver[c] = <<>> /\ link[c] = "left"
PeerGone(c) == toReceiver[c] = <<>> /\ link[c] \in {"left", "cut"}

\* Only the select loop notices it.
HandlerLosesPeer(c) ==
    /\ handler[c] \in {"accepted", "receiving"}
    /\ PeerGone(c)
    /\ Becomes(c, "ended")
    /\ UNCHANGED <<senderVars, link, toReceiver, toSender, closed, part, staging,
                   result, cleaned, switched>>

-----------------------------------------------------------------------------
(* The network and the machines.                                           *)

Break(c) ==
    /\ link[c] \in {"up", "left"}
    /\ link' = [link EXCEPT ![c] = "cut"]
    /\ toReceiver' = [toReceiver EXCEPT ![c] = <<>>]
    /\ toSender' = [toSender EXCEPT ![c] = <<>>]
    /\ UNCHANGED <<senderVars, receiverVars, cleaned, switched>>

SenderRestarts ==
    /\ sender # "idle"
    /\ sender' = "idle"
    /\ control' = "Run"
    /\ outcome' = "none"
    /\ shown' = "none"
    /\ link' = [link EXCEPT ![attempt] = IF @ = "up" THEN "left" ELSE @]
    /\ toSender' = [toSender EXCEPT ![attempt] = <<>>]
    /\ switched' = FALSE
    /\ UNCHANGED <<task, attempt, queued, completed, toReceiver, receiverVars, cleaned>>

ReceiverRestarts ==
    /\ \E c \in Connections : handler[c] \notin {"none", "ended"}
    /\ handler' = [c \in Connections |-> IF handler[c] = "none" THEN "none" ELSE "ended"]
    /\ link' = [c \in Connections |-> IF link[c] = "new" THEN "new" ELSE "cut"]
    /\ toReceiver' = [c \in Connections |-> <<>>]
    /\ toSender' = [c \in Connections |-> <<>>]
    /\ UNCHANGED <<senderVars, closed, part, staging, result, cleaned, switched>>

SenderStep ==
    \/ Resumed \/ Confirmed \/ SendFile \/ FileDone \/ SendStop \/ SkipReply
    \/ StopConfirmed \/ SendCommit \/ AttemptFails \/ Decide \/ Persist
    \/ PersistFails

HandlerStep(c) ==
    \/ OpenTask(c) \/ ReceiveFile(c) \/ ReceiveStop(c) \/ PauseDone(c)
    \/ CancelDone(c) \/ ReceiveCommit(c) \/ CommitDone(c) \/ HandlerLosesPeer(c)

Next ==
    \/ \E command \in {"Run", "Cancel"} : Start(command)
    \/ \E command \in {"Pause", "Cancel"} : Press(command)
    \/ SenderStep
    \/ \E c \in Connections : HandlerStep(c) \/ HandlerFails(c) \/ Break(c)
    \/ SenderRestarts \/ ReceiverRestarts

Spec == Init /\ [][Next]_vars

\* Both ends are polled by tokio and every blocking job of the receiver ends;
\* a connection delivers or fails.  The user is free to do nothing.
Fairness == WF_vars(SenderStep) /\ \A c \in Connections : WF_vars(HandlerStep(c))

FairSpec == Spec /\ Fairness

-----------------------------------------------------------------------------
\* README.md, "cancel": the task is only forgotten once the receiver has
\* confirmed the cleanup.  Whatever was in flight on earlier connections, a
\* discarded task was cleaned on the connection that reported it stopped.
DiscardIsConfirmed == task = "discarded" => attempt \in cleaned

\* The same while the command stands after it was sent.
SteadyDiscardIsConfirmed == switched \/ DiscardIsConfirmed

\* The sender's record of success implies the receiver's, and no published
\* task is ever forgotten as cancelled: the late commit of an old connection
\* cannot overtake the cancel of a new one.
SentIsPublished == task = "sent" => result
DiscardedIsUnpublished == task = "discarded" => ~result

\* What the user is told agrees with what was kept: after an attempt that ended
\* as Complete, Cancelled, Paused or Failed the task can be continued exactly in
\* the last two cases, unless the error is one of writing that record.
ShownAgrees ==
    sender = "idle" /\ ~switched =>
        /\ shown = "Complete" => task = "sent"
        /\ shown = "Cancelled" => task = "discarded"
        /\ shown = "Paused" => task = "saved"
        /\ shown = "Failed" /\ outcome = "failed" => task = "saved"

\* Every attempt ends: neither side waits for ever for the other.
AttemptEnds == (sender # "idle") ~> (sender = "idle")

\* The receiver's session ends once the sender is gone, so the task's lock is
\* free for the next attempt.
LockIsFreed ==
    \A c \in Connections :
        (handler[c] \in Holding /\ link[c] \in {"left", "cut"})
            ~> (handler[c] = "ended")
=============================================================================
