---------------------------- MODULE ReceiveLedger ----------------------------
(***************************************************************************)
(* The receiver's front: senders that try the addresses of the device one  *)
(* after the other (connect.rs), the listener and its permits (lib.rs),    *)
(* the handlers' reports (receive_progress.rs), the ledger of receives     *)
(* (receive.rs) and the page that shows it (ui/receive.rs).                *)
(***************************************************************************)
EXTENDS Naturals, Sequences, FiniteSets, SequencesExt

CONSTANTS Senders,
          Addresses,    \* per sender: the addresses of this device it knows
          MaxActive,    \* MAX_ACTIVE_RECEIVES, the listener's permits as well
          MaxFinished,  \* MAX_FINISHED_RECEIVES
          MaxBytes      \* bound, per sender: blocks of one receive

ASSUME LedgerAssumption ==
    /\ Addresses \in [Senders -> Nat] /\ MaxBytes \in [Senders -> Nat]
    /\ MaxActive \in Nat \ {0} /\ MaxFinished \in Nat \ {0}

\* One attempt to connect: a sender and the index of an address.
Connections == UNION {{s} \X (1..Addresses[s]) : s \in Senders}

VARIABLES
    tried,     \* per sender: addresses tried
    sockets,   \* connections whose client end is open
    server,    \* per connection: what the receiver has made of it
    refusing,  \* the connections the accept loop is refusing, at most one
    open,      \* the accept loop runs
    permits,   \* free permits of the semaphore
    reporter,  \* per connection: the handler's own copy of its record
    ledger,    \* the records
    clock,     \* order of finished_at
    changed,   \* the revision is not the one the page has seen
    view       \* the records the page has

dialing  == <<tried, sockets>>
listener == <<refusing, open, permits>>
page     == <<changed, view>>
vars == <<dialing, server, listener, reporter, ledger, clock, page>>

Active   == {"Preparing", "Receiving", "Saving", "Confirming"}
Terminal == {"Completed", "SavedWithoutConfirmation", "Failed"}

IsActive(task) == task.phase \in Active
IsTerminal(task) == task.phase \in Terminal

Task(c) == [id |-> c, phase |-> "Preparing", received |-> 0, finished |-> 0]

Records == [id : Connections, phase : Active \cup Terminal, received : Nat,
            finished : Nat]

TypeOK ==
    /\ tried \in [Senders -> Nat] /\ \A s \in Senders : tried[s] <= Addresses[s]
    /\ sockets \subseteq Connections
    /\ server \in [Connections -> {"none", "backlog", "granted", "running",
                                   "refused", "ended", "gone"}]
    /\ refusing \subseteq Connections /\ permits \in 0..MaxActive
    /\ reporter \in [Connections -> Records] /\ ledger \in Seq(Records)
    /\ view \in Seq(Records) /\ clock \in Nat
    /\ changed \in BOOLEAN /\ open \in BOOLEAN

Init ==
    /\ tried = [s \in Senders |-> 0] /\ sockets = {}
    /\ server = [c \in Connections |-> "none"]
    /\ refusing = {} /\ open = TRUE /\ permits = MaxActive
    /\ reporter = [c \in Connections |-> Task(c)]
    /\ ledger = <<>> /\ clock = 0
    /\ changed = TRUE /\ view = <<>>

-----------------------------------------------------------------------------
(* connect.rs: sequential.                                                 *)

Own(s) == {c \in sockets : c[1] = s}

DialUnchanged == UNCHANGED <<listener, reporter, ledger, clock, page>>

\* The next address only when the last has answered or timed out.
MayDial(s) == Own(s) = {}

Dial(s) ==
    /\ tried[s] < Addresses[s] /\ MayDial(s)
    /\ tried' = [tried EXCEPT ![s] = @ + 1]
    /\ sockets' = sockets \cup {<<s, tried[s] + 1>>}
    /\ UNCHANGED server /\ DialUnchanged

\* The receiver's kernel completes the handshake; whether the sender learns of
\* it in time is open.
Handshake(c) ==
    /\ c \in sockets /\ server[c] = "none"
    /\ server' = [server EXCEPT ![c] = "backlog"]
    /\ UNCHANGED dialing /\ DialUnchanged

\* The deadline of the address, an error, or the end of the transfer: the socket
\* is dropped, which the receiver sees as the end of the stream.
Hangup(c) ==
    /\ c \in sockets
    /\ sockets' = sockets \ {c}
    /\ UNCHANGED <<tried, server>> /\ DialUnchanged

-----------------------------------------------------------------------------
(* lib.rs: setup_network_listener.                                         *)

ListenUnchanged == UNCHANGED <<dialing, reporter, ledger, clock, page>>

Accept(c) ==
    /\ open /\ refusing = {} /\ server[c] = "backlog"
    /\ IF permits > 0
       THEN /\ permits' = permits - 1
            /\ server' = [server EXCEPT ![c] = "granted"]
            /\ UNCHANGED refusing
       ELSE /\ refusing' = {c}
            /\ UNCHANGED <<permits, server>>
    /\ UNCHANGED open /\ ListenUnchanged

\* transfer::busy, at most 200 ms inside the accept loop.
Busy(c) ==
    /\ c \in refusing
    /\ refusing' = {}
    /\ server' = [server EXCEPT ![c] = "gone"]
    /\ UNCHANGED <<open, permits>> /\ ListenUnchanged

\* accept()? : the first error ends the loop.
AcceptFails ==
    /\ open /\ refusing = {}
    /\ open' = FALSE
    /\ UNCHANGED <<server, refusing, permits>> /\ ListenUnchanged

\* The handler's task returns, its permit last. The mutant gives it up before the
\* record is finished.
ReleaseEarly(c) ==
    /\ server[c] \in {"running", "ended"}
    /\ server' = [server EXCEPT ![c] = "gone"]
    /\ permits' = permits + 1
    /\ UNCHANGED <<refusing, open>> /\ ListenUnchanged

Release(c) ==
    /\ server[c] \in {"refused", "ended"}
    /\ server' = [server EXCEPT ![c] = "gone"]
    /\ permits' = permits + 1
    /\ UNCHANGED <<refusing, open>> /\ ListenUnchanged

-----------------------------------------------------------------------------
(* receive.rs: the ledger.                                                 *)

Ended(tasks) == {i \in DOMAIN tasks : IsTerminal(tasks[i])}

HandlerUnchanged == UNCHANGED <<dialing, listener, clock, view>>

Full == Cardinality({i \in DOMAIN ledger : IsActive(ledger[i])}) >= MaxActive

\* peer_addr()? : the connection is lost already, and no record is begun.
PeerLost(c) ==
    /\ server[c] = "granted"
    /\ server' = [server EXCEPT ![c] = "ended"]
    /\ UNCHANGED <<reporter, ledger, changed>> /\ HandlerUnchanged

Begin(c) ==
    /\ server[c] = "granted"
    /\ IF Full
       THEN /\ server' = [server EXCEPT ![c] = "refused"]
            /\ UNCHANGED <<ledger, changed>>
       ELSE /\ server' = [server EXCEPT ![c] = "running"]
            /\ ledger' = Append(ledger, Task(c))
            /\ changed' = TRUE
    /\ UNCHANGED reporter /\ HandlerUnchanged

\* The record finished first goes when there are too many. The mutant drops the
\* first of the list, whatever it is.
TrimmedHead(tasks) ==
    IF Cardinality(Ended(tasks)) <= MaxFinished THEN tasks ELSE Tail(tasks)
Trimmed(tasks) ==
    LET Earlier(i, j) == tasks[i].finished < tasks[j].finished
    IN IF Cardinality(Ended(tasks)) <= MaxFinished THEN tasks
       ELSE RemoveAt(tasks, CHOOSE i \in Ended(tasks) :
                                \A j \in Ended(tasks) \ {i} : Earlier(i, j))

\* update: only an active record is replaced.
Publish(task) ==
    LET Mine(i) == ledger[i].id = task.id /\ IsActive(ledger[i]) IN
    IF \E i \in DOMAIN ledger : Mine(i)
    THEN /\ ledger' = Trimmed([i \in DOMAIN ledger |->
                                 IF Mine(i) THEN task ELSE ledger[i]])
         /\ changed' = TRUE
    ELSE UNCHANGED <<ledger, changed>>

Dismiss ==
    \E i \in DOMAIN ledger :
        /\ IsTerminal(ledger[i])
        /\ \E j \in DOMAIN view : view[j].id = ledger[i].id /\ IsTerminal(view[j])
        /\ ledger' = RemoveAt(ledger, i)
        /\ changed' = TRUE
        /\ UNCHANGED <<dialing, server, listener, reporter, clock, view>>

-----------------------------------------------------------------------------
(* receive_progress.rs: the handler's reports.                             *)

Moves(c, from, to) ==
    /\ server[c] = "running" /\ reporter[c].phase = from
    /\ reporter' = [reporter EXCEPT ![c].phase = to]
    /\ Publish(reporter'[c])
    /\ UNCHANGED server /\ HandlerUnchanged

Receiving(c) == Moves(c, "Preparing", "Receiving")
Saving(c) == Moves(c, "Receiving", "Saving")
Saved(c) == Moves(c, "Saving", "Confirming")

\* advance and record_bytes: the revision only moves every 100 ms.
Advance(c) ==
    /\ server[c] = "running" /\ reporter[c].phase = "Receiving"
    /\ reporter[c].received < MaxBytes[c[1]]
    /\ reporter' = [reporter EXCEPT ![c].received = @ + 1]
    /\ \E i \in DOMAIN ledger :
          /\ ledger[i].id = c
          /\ ledger' = [ledger EXCEPT ![i].received = reporter'[c].received]
    /\ changed' \in {changed, TRUE}
    /\ UNCHANGED server /\ HandlerUnchanged

\* finish, or the drop of an aborted handler.
Finish(c) ==
    /\ server[c] = "running"
    /\ clock' = clock + 1
    /\ \E phase \in {"Completed", "SavedWithoutConfirmation", "Failed"} :
          /\ phase = "Failed" <=> reporter[c].phase # "Confirming"
          /\ Publish([reporter[c] EXCEPT !.phase = phase, !.finished = clock'])
    /\ reporter' = [reporter EXCEPT ![c] = Task(c)]
    /\ server' = [server EXCEPT ![c] = "ended"]
    /\ UNCHANGED <<dialing, listener, view>>

-----------------------------------------------------------------------------
(* ui/receive.rs: poll, once per frame.                                    *)

\* Half a second since the last sample, and something to measure. The mutant
\* leaves it to the revision.
SampleDueNever == FALSE
SampleDue == \E i \in DOMAIN view : view[i].phase = "Receiving"

Poll ==
    /\ changed \/ SampleDue
    /\ view' = ledger
    /\ changed' = FALSE
    /\ UNCHANGED <<dialing, server, listener, reporter, ledger, clock>>

Next ==
    \/ \E s \in Senders : Dial(s)
    \/ \E c \in Connections :
          \/ Handshake(c) \/ Hangup(c) \/ Accept(c) \/ Busy(c) \/ Release(c)
          \/ PeerLost(c) \/ Begin(c) \/ Receiving(c) \/ Saving(c) \/ Saved(c)
          \/ Advance(c) \/ Finish(c)
    \/ AcceptFails \/ Dismiss \/ Poll

Spec == Init /\ [][Next]_vars

-----------------------------------------------------------------------------

\* Two bounds count the active receives, the listener's permits and the ledger's
\* entries: a connection that was granted a permit is never refused by the
\* ledger, which would end it without BUSY (lib.rs:75), whatever connections hold
\* a permit that their sender has given up already.
GrantsSuffice == \A c \in Connections : server[c] # "refused"

\* An active receive is always listed, a page that has seen the revision shows
\* its phase, and the phase in which it ended for as long as the record stays.
ViewAgrees ==
    /\ \A c \in Connections : server[c] = "running" =>
          \E i \in DOMAIN ledger : ledger[i] = reporter[c]
    /\ ~changed =>
          /\ Len(view) = Len(ledger)
          /\ \A i \in DOMAIN view :
                view[i].id = ledger[i].id /\ view[i].phase = ledger[i].phase

\* "A paused stream never hides the bytes written since the last published
\* revision" (receive.rs:176): a page that lags behind the ledger, in bytes or in
\* anything else, reads it again although no revision tells it to.
NothingHidden == view # ledger => changed \/ SampleDue
=============================================================================
