------------------------------ MODULE Discovery ------------------------------
(***************************************************************************)
(* discovery/src/lib.rs: one device announces a service for each of its    *)
(* network interfaces and lists the devices it hears of, one entry per     *)
(* host with the addresses of all its services.                            *)
(*                                                                         *)
(* A service has a name, a host and an interface.  The mDNS daemon puts    *)
(* what it resolves and what it drops into one channel, late, with losses  *)
(* and with addresses that only its cache still has; it also hears the     *)
(* device itself.  Interfaces come, go and change their address here and   *)
(* on the other hosts until the network has settled.  Every address is an  *)
(* IPv4 address; port, system and protocol version of a peer are left out. *)
(***************************************************************************)
EXTENDS Naturals, Sequences, SequencesExt, Functions

CONSTANTS Here,       \* this device's host name
          Services,   \* [host, interface], of this device and of others
          Addresses,  \* what an interface can have: addresses, or None
          Batch,      \* events handled in a frame (64)
          Lifetime,   \* heartbeat periods after which a service expires (100 s)
          MaxEvents   \* bound: events in the channel

ASSUME DiscoveryAssumption ==
    /\ Services \subseteq [host : STRING, interface : Nat]
    /\ {Batch, Lifetime, MaxEvents} \subseteq Nat \ {0}
    /\ Addresses \in [Services -> SUBSET Nat]

VARIABLES
    up,          \* what every interface really has: an address or None
    settled,     \* interfaces do not change any more, every service can be made
    stale,       \* <<service, address>>: only the daemon's cache has it
    running,     \* the daemon browses and MdnsManager exists
    scan,        \* the interface scan: its state and what it has found
    interfaces,  \* the manager's interfaces
    registered,  \* names the manager has announced, by address
    events,      \* the daemon's channel
    instances,   \* services heard of, with addresses and periods since
    peers        \* the list everybody sees

network == <<up, settled, stale>>
manager == <<running, scan, interfaces, registered>>
vars == <<network, manager, events, instances, peers>>

None == 0
Own == {s \in Services : s.host = Here}
Empty == [s \in {} |-> None]

\* The addresses of a host, as its records have them, and as the cache does.
Records(host) == {up[s] : s \in {x \in Services : x.host = host}} \ {None}
Cached(host) == Records(host) \cup {r[2] : r \in {x \in stale : x[1].host = host}}

\* The interfaces this device has, with their addresses.
Has == Restrict(up, {s \in Own : up[s] # None})

Resolved(s, ips) == [kind |-> "resolved", service |-> s, ips |-> ips]
Removed(s) == [kind |-> "removed", service |-> s, ips |-> {}]

Scan(state, found) == [state |-> state, found |-> found]

Init ==
    /\ up \in [Services -> UNION Range(Addresses)]
    /\ \A s \in Services : up[s] \in Addresses[s]
    /\ settled = FALSE /\ stale = {}
    /\ running = FALSE
    /\ scan = Scan("none", Empty)
    /\ interfaces = Empty /\ registered = Empty
    /\ events = <<>>
    /\ instances = Empty
    /\ peers = Empty

\* What does not fit into the channel is lost.
HearAll(more) ==
    LET all == events \o more IN
    events' = SubSeq(all, 1, IF Len(all) < MaxEvents THEN Len(all) ELSE MaxEvents)
Hear(e) == HearAll(<<e>>)

-----------------------------------------------------------------------------
(* The network and the daemon.                                             *)

\* An interface comes, goes or changes its address, which the cache keeps.
Change(s) ==
    /\ ~settled
    /\ \E a \in Addresses[s] \ {up[s]} :
          /\ up' = [up EXCEPT ![s] = a]
          /\ stale' = IF s \in Own THEN stale
                      ELSE (stale \cup {<<s, up[s]>>}) \ {<<s, a>>, <<s, None>>}
    /\ UNCHANGED <<settled, manager, events, instances, peers>>

Settle ==
    /\ settled' = TRUE
    /\ UNCHANGED <<up, stale, manager, events, instances, peers>>

\* The records of what is no more run out.
Lapse ==
    /\ stale # {}
    /\ stale' = {}
    /\ UNCHANGED <<up, settled, manager, events, instances, peers>>

\* A service of another host is resolved, with some of the addresses the cache
\* has for the whole host.
Announced(s) ==
    /\ running /\ s \notin Own
    /\ up[s] # None \/ \E r \in stale : r[1] = s
    /\ Len(events) < MaxEvents
    /\ \E ips \in SUBSET Cached(s.host) \ {{}} : Hear(Resolved(s, ips))
    /\ UNCHANGED <<network, manager, instances, peers>>

\* A goodbye, or the record of the service ran out: it may have come too late.
Dropped(s) ==
    /\ running /\ s \notin Own
    /\ Len(events) < MaxEvents
    /\ Hear(Removed(s))
    /\ UNCHANGED <<network, manager, instances, peers>>

\* The daemon hears what this device announces.
Echo(s) ==
    /\ s \in DOMAIN registered
    /\ Len(events) < MaxEvents
    /\ Hear(Resolved(s, {registered[s]}))
    /\ UNCHANGED <<network, manager, instances, peers>>

-----------------------------------------------------------------------------
(* Announcing.                                                             *)

Initialize ==
    /\ ~running
    /\ running' = TRUE
    /\ scan' = Scan("running", Empty)
    /\ UNCHANGED <<network, interfaces, registered, events, instances, peers>>

\* The scan on the I/O pool reads the interfaces, or fails.
Scanned ==
    /\ scan.state = "running"
    /\ scan' \in {Scan("done", Has), Scan("failed", Empty)}
    /\ UNCHANGED <<network, running, interfaces, registered, events, instances, peers>>

\* publish(): announce every interface whose service can be made, withdraw the
\* names that are left, of which the daemon may say so.
Publish(found) ==
    \E made \in SUBSET DOMAIN found :
        /\ settled => made = DOMAIN found
        /\ registered' = Restrict(found, made)
        /\ \E heard \in SUBSET (DOMAIN registered \ made) :
           \E order \in SetToSeqs(heard) :
              HearAll([i \in DOMAIN order |-> Removed(order[i])])

Refresh ==
    /\ scan.state \in {"done", "failed"}
    /\ scan' = Scan("none", Empty)
    /\ IF scan.state = "done" /\ scan.found # interfaces
          THEN interfaces' = scan.found /\ Publish(scan.found)
          ELSE UNCHANGED <<interfaces, registered, events>>
    /\ UNCHANGED <<network, running, instances, peers>>

\* Every 30 seconds.
KeepAlive ==
    /\ running
    /\ Publish(interfaces)
    /\ scan' = IF scan.state = "none" THEN Scan("running", Empty) ELSE scan
    /\ UNCHANGED <<network, running, interfaces, instances, peers>>

-----------------------------------------------------------------------------
(* Listening.                                                              *)

\* rebuild: the services of a host are one peer.
Rebuilt(heard) ==
    [host \in {s.host : s \in DOMAIN heard} |->
        UNION {heard[s].ips : s \in {x \in DOMAIN heard : x.host = host}}]

\* The mutant takes a known service for an unchanged one.
DiffersNew(heard, s, ips) == s \notin DOMAIN heard
Differs(heard, s, ips) == s \notin DOMAIN heard \/ heard[s].ips # ips

Without(heard, s) == Restrict(heard, DOMAIN heard \ {s})

\* One event.  The services this device announces are not peers.
Handle(seen, e) ==
    LET heard == seen.heard  s == e.service IN
    IF e.kind = "removed"
    THEN [heard |-> Without(heard, s), changed |-> seen.changed \/ s \in DOMAIN heard]
    ELSE IF s \in DOMAIN registered THEN seen
    ELSE [heard |-> [x \in DOMAIN heard \cup {s} |->
                        IF x = s THEN [ips |-> e.ips, age |-> 0] ELSE heard[x]],
          changed |-> seen.changed \/ Differs(heard, s, e.ips)]

Listen ==
    LET taken == IF Len(events) <= Batch THEN Len(events) ELSE Batch IN
    /\ running
    /\ events # <<>>
    /\ events' = SubSeq(events, taken + 1, Len(events))
    /\ \E seen \in {FoldLeft(Handle, [heard |-> instances, changed |-> FALSE],
                              SubSeq(events, 1, taken))} :
          /\ instances' = seen.heard
          /\ peers' = IF seen.changed THEN Rebuilt(seen.heard) ELSE peers
    /\ UNCHANGED <<network, manager>>

\* A heartbeat period passes.
Tick ==
    /\ \E s \in DOMAIN instances : instances[s].age < Lifetime
    /\ instances' = [s \in DOMAIN instances |->
          [instances[s] EXCEPT !.age = IF @ < Lifetime THEN @ + 1 ELSE @]]
    /\ UNCHANGED <<network, manager, events, peers>>

\* The mutant trusts that a goodbye always comes.
ExpiredNever(s) == FALSE
Expired(s) == instances[s].age >= Lifetime

Cleanup ==
    LET kept == {s \in DOMAIN instances : ~Expired(s)} IN
    /\ kept # DOMAIN instances
    /\ instances' = Restrict(instances, kept)
    /\ peers' = Rebuilt(Restrict(instances, kept))
    /\ UNCHANGED <<network, manager, events>>

Next ==
    \/ \E s \in Services : Change(s) \/ Announced(s) \/ Dropped(s) \/ Echo(s)
    \/ Settle \/ Lapse
    \/ Initialize \/ Scanned \/ Refresh \/ KeepAlive
    \/ Listen \/ Tick \/ Cleanup

Spec == Init /\ [][Next]_vars

\* Frames are drawn, timers fire, time passes, the cache forgets, and a scan does
\* not fail for ever.
FairSpec ==
    /\ Spec
    /\ WF_vars(Lapse)
    /\ WF_vars(Refresh) /\ WF_vars(Listen) /\ WF_vars(Cleanup) /\ WF_vars(Tick)
    /\ SF_vars(KeepAlive /\ scan' # scan)
    /\ SF_vars(Scanned /\ scan'.state = "done")

-----------------------------------------------------------------------------
Listed == UNION {peers[host] : host \in DOMAIN peers}
Reachable == UNION {Records(s.host) : s \in Services \ Own}

\* INTERNALS.md, discovery: a host is one entry with the addresses of all its
\* services, and heartbeats do not rebuild the list.  Although it is rebuilt only
\* when a handler notices a change, it never differs from what has been heard.
PeersFollow == peers = Rebuilt(instances)

\* Once interfaces no longer change, the list loses every address that nobody
\* has, the device's own included, whatever was lost, late, heard of itself or
\* resolved from the cache; and the device announces exactly the interfaces it has.
Converges ==
    settled /\ running ~>
        [](/\ Listed \subseteq Reachable
           /\ registered = Has)
=============================================================================
