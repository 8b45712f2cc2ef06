------------------------------ MODULE DhcpNode ------------------------------
(***************************************************************************)
(* The DHCP server together with its clients (the VMs behind the bridge),  *)
(* the packets queued on lifecycleMu, and the control API's caller.        *)
(*                                                                         *)
(* The clients and the caller are not code of this repository; they are    *)
(* modelled from what the server relies on.  A client counts its lease     *)
(* from its REQUEST, moves to another address only after dropping the one  *)
(* it has, takes an ACK only for a REQUEST it is still waiting on, and     *)
(* retransmits at will.  The control API is called for a MAC whose VM has  *)
(* been destroyed, and again after every 500.                              *)
(*                                                                         *)
(* Packets and replies may be lost, and queued packets are served in any   *)
(* order.  Two packets of one client never carry the same arrival stamp    *)
(* (the server's clock reads nanoseconds).                                 *)
(***************************************************************************)
EXTENDS DhcpServer, FiniteSets

CONSTANT MaxQueue  \* bound on the packets waiting for the lock

ASSUME QueueAssumption == MaxQueue \in Nat

VARIABLES
  requests,  \* REQUEST packets read from the socket and not yet served
  releases,  \* RELEASE packets likewise
  held,      \* client -> the address it uses, and until when
  asking,    \* client -> the address it is asking for, and since when
  spoke,     \* clients that have sent a packet in this tick
  doomed     \* MACs of destroyed VMs whose DELETE has not returned 204

queue   == <<requests, releases>>
clients == <<held, asking, spoke, doomed>>
nodeVars == <<vars, queue, clients>>

Held   == [ip : IPs, until : Nat]
Asking == [ip : IPs, since : Nat]

ASSUME ClientAssumption == None \notin Held /\ None \notin Asking

NodeTypeOK ==
  /\ TypeOK
  /\ requests \subseteq Packet /\ releases \subseteq Packet
  /\ held \in [Macs -> Held \cup {None}]
  /\ asking \in [Macs -> Asking \cup {None}]
  /\ spoke \subseteq Macs
  /\ doomed \subseteq Macs

NodeInit ==
  /\ Init
  /\ requests = {} /\ releases = {}
  /\ held = Empty /\ asking = Empty
  /\ spoke = {} /\ doomed = {}

-----------------------------------------------------------------------------
(* The clients.                                                            *)

\* serve reads the packet, stamps it and starts its goroutine; or it is lost
\* on the way, or there is no daemon to read it.
Sent(q, p) ==
  {q} \cup {r \in {q \cup {p}} :
              phase = "up" /\ Cardinality(requests) + Cardinality(releases) < MaxQueue}

MaySpeak(m) == m \notin spoke /\ m \notin doomed

NewPacket(m, ip) == [mac |-> m, ip |-> ip, arrived |-> now]

\* A first REQUEST, a renewal, or one for another address than the held one.
SendRequest(m, ip) ==
  /\ MaySpeak(m)
  /\ requests' \in Sent(requests, NewPacket(m, ip))
  /\ asking' = [asking EXCEPT ![m] = [ip |-> ip, since |-> now]]
  /\ held' = IF held[m] # None /\ held[m].ip # ip
             THEN [held EXCEPT ![m] = None] ELSE held
  /\ spoke' = spoke \cup {m}
  /\ UNCHANGED <<vars, releases, doomed>>

Retransmit(m) ==
  /\ MaySpeak(m)
  /\ asking[m] # None
  /\ requests' \in Sent(requests, NewPacket(m, asking[m].ip))
  /\ spoke' = spoke \cup {m}
  /\ UNCHANGED <<vars, releases, held, asking, doomed>>

SendRelease(m) ==
  /\ MaySpeak(m)
  /\ held[m] # None
  /\ releases' \in Sent(releases, NewPacket(m, held[m].ip))
  /\ held' = [held EXCEPT ![m] = None]
  /\ asking' = [asking EXCEPT ![m] = None]
  /\ spoke' = spoke \cup {m}
  /\ UNCHANGED <<vars, requests, doomed>>

\* The VM is destroyed; its queued packets are not.
Destroy(m) ==
  /\ m \notin doomed
  /\ held' = [held EXCEPT ![m] = None]
  /\ asking' = [asking EXCEPT ![m] = None]
  /\ doomed' = doomed \cup {m}
  /\ UNCHANGED <<vars, queue, spoke>>

\* The reply to p is the one its client is waiting for.
Answers(p) ==
  /\ asking[p.mac] # None
  /\ asking[p.mac].ip = p.ip
  /\ asking[p.mac].since <= p.arrived

TakeNak(p) ==
  IF Answers(p)
  THEN /\ held' = [held EXCEPT ![p.mac] = None]
       /\ asking' = [asking EXCEPT ![p.mac] = None]
  ELSE UNCHANGED <<held, asking>>

TakeAck(p) ==
  IF Answers(p)
  THEN /\ held' = [held EXCEPT ![p.mac] =
                     [ip |-> p.ip, until |-> p.arrived + LeaseTime]]
       /\ asking' = [asking EXCEPT ![p.mac] = None]
  ELSE UNCHANGED <<held, asking>>

Lost == UNCHANGED <<held, asking>>

-----------------------------------------------------------------------------
(* The server's steps, with what each does to the queue and the clients.   *)

\* A client stops using its address when its time is up.
NodeTick ==
  /\ Tick
  /\ held' = [m \in Macs |->
               IF held[m] # None /\ held[m].until <= now' THEN None ELSE held[m]]
  /\ spoke' = {}
  /\ UNCHANGED <<queue, asking, doomed>>

\* Steps that neither read the queue nor answer a client.
Quiet ==
  /\ \/ Start \/ Restore \/ Discover \/ FreeIP
     \/ RouteRequest \/ CommitRequest \/ SaveRequest \/ SaveRequestFails
     \/ \E saved \in BOOLEAN : Cleanup(saved)
  /\ UNCHANGED <<queue, clients>>

\* The queued goroutines die with the process.
Die ==
  /\ Stop \/ Crash
  /\ requests' = {} /\ releases' = {}
  /\ UNCHANGED clients

ServeRequest(p) ==
  /\ p \in requests
  /\ requests' = requests \ {p}
  /\ \/ DropRequest(p) /\ Lost
     \/ ClaimRequest(p) /\ Lost
     \/ NakRequest(p) /\ (TakeNak(p) \/ Lost)
  /\ UNCHANGED <<releases, spoke, doomed>>

\* addRoute failed and a NAK goes out, or the ACK could not be built.
NodeAbort ==
  /\ AbortRequest
  /\ TakeNak(req) \/ Lost
  /\ UNCHANGED <<queue, spoke, doomed>>

NodeAck ==
  /\ SendAck
  /\ TakeAck(req) \/ Lost
  /\ UNCHANGED <<queue, spoke, doomed>>

ServeRelease(p) ==
  /\ p \in releases
  /\ releases' = releases \ {p}
  /\ \/ IgnoreRelease(p)
     \/ \E saved \in BOOLEAN : HandleRelease(p, saved)
  /\ UNCHANGED <<requests, clients>>

\* handleLeaseControl: 204 ends the caller's retries, 500 or a reply the
\* caller never sees does not.
Reclaimed(m) ==
  /\ m \in doomed
  /\ ControlRelease(m, TRUE)
  /\ doomed' = doomed \ {m}
  /\ UNCHANGED <<queue, held, asking, spoke>>

NotReclaimed(m) ==
  /\ m \in doomed
  /\ \E saved \in BOOLEAN : ControlRelease(m, saved)
  /\ UNCHANGED <<queue, clients>>

NodeNext ==
  \/ NodeTick \/ Quiet \/ Die \/ NodeAbort \/ NodeAck
  \/ \E m \in Macs :
       \/ \E ip \in IPs : SendRequest(m, ip)
       \/ Retransmit(m) \/ SendRelease(m) \/ Destroy(m)
       \/ Reclaimed(m) \/ NotReclaimed(m)
  \/ \E p \in requests : ServeRequest(p)
  \/ \E p \in releases : ServeRelease(p)

NodeSpec == NodeInit /\ [][NodeNext]_nodeVars

-----------------------------------------------------------------------------
(* Properties.                                                             *)

\* The addresses every pool.json lists that a daemon may find at its start.
\* A lease of any other address is dropped by a restart that does not find it.
Stable == {ip \in IPs : \A P \in Pools : ip \in P}

\* The client of m is using a stable address.  Its lease is taken to end with
\* the last whole second of its time, which is what the lease file remembers.
Using(m) ==
  /\ held[m] # None
  /\ now < Trunc(held[m].until)
  /\ held[m].ip \in Stable

\* Two clients never use one address at the same time, the fraction of a second
\* at the end of a lease apart, whatever order the queued packets are served
\* in, whichever saves fail, wherever the daemon dies and whatever other
\* addresses come to the pool and leave it: docs/dhcp.md has a restart not
\* "double-assign leases".
NoDoubleAssign ==
  \A m, n \in Macs : m # n /\ Using(m) /\ Using(n) => held[m].ip # held[n].ip

\* The same for the client's full time, to the fraction of a second.
NoDoubleAssignExact ==
  \A m, n \in Entries(held) :
    m # n /\ now < held[m].until /\ now < held[n].until => held[m].ip # held[n].ip

\* A lease a client has been told of is in the file, with the client's
\* address and at least the client's time, from the ACK until the client
\* gives it up: dying at any moment cannot lose it ("persist leases before
\* ACK").
AckedDurable ==
  \A m \in Macs : Using(m) =>
    /\ file[m] # None
    /\ file[m].ip = held[m].ip
    /\ file[m].expiry >= Trunc(held[m].until)

\* An address a client is using is never on offer to another, nor free to be
\* allocated, once the daemon has finished restoring.
HeldReserved ==
  phase = "up" =>
    \A m \in Macs : Using(m) =>
      /\ held[m].ip \in used
      /\ \A n \in Entries(offers) : offers[n].ip = held[m].ip => n = m

\* The node implements AddressService for the stable addresses, with grants
\* that end with the last whole second of the client's time.
Service == INSTANCE AddressService WITH
  Clients <- Macs, Addresses <- Stable, Nothing <- None, Term <- LeaseTime,
  clk <- now,
  grants <- [m \in Macs |->
               IF held[m] = None \/ held[m].ip \notin Stable THEN None
               ELSE [ip |-> held[m].ip, until |-> Trunc(held[m].until)]]

ImplementsService == Service!SvcSpec

-----------------------------------------------------------------------------
(* The inductive invariant behind these properties, for DhcpNodeProofs.    *)

\* Types, and the bounds on what the server may find in the queue.
NodeTypeInv ==
  /\ NodeTypeOK /\ TypeInv
  /\ now \in 1 .. MaxTime
  /\ requests \subseteq Packets /\ releases \subseteq Packets

\* The REQUESTs still to be answered: the queued ones and the one being served.
Pending ==
  requests \cup (IF pc \in {"claimed", "routed", "save", "ack"} THEN {req} ELSE {})

\* A packet is read once, not in the future; in one tick a client sends one.
QueueInv ==
  \A p \in Pending \cup releases :
    p.arrived <= now /\ (p.mac \notin spoke => p.arrived < now)

\* What a client is asking for is what its REQUESTs since then name, and it
\* asks only for the address it has or after having dropped that.
AskInv ==
  /\ \A m \in doomed : held[m] = None /\ asking[m] = None
  /\ \A m \in Macs : held[m] # None /\ asking[m] # None => held[m].ip = asking[m].ip
  /\ \A p \in Pending :
       asking[p.mac] # None /\ asking[p.mac].since <= p.arrived => p.ip = asking[p.mac].ip
  /\ \A p \in releases : asking[p.mac] # None => p.arrived < asking[p.mac].since

\* A packet that is out of step with the address its client holds is older
\* than the REQUEST that got the client that address.
HeldInv ==
  /\ \A m \in Macs : held[m] # None => held[m].until <= now + LeaseTime
  /\ \A p \in Pending :
       held[p.mac] # None /\ held[p.mac].until <= p.arrived + LeaseTime =>
         p.ip = held[p.mac].ip
  /\ \A p \in releases : held[p.mac] # None => p.arrived + LeaseTime < held[p.mac].until

\* What the handler that holds the lock has established.
HandlerInv ==
  /\ pc \in {"claimed", "routed"} /\ Using(req.mac) =>
       held[req.mac].until <= req.arrived + LeaseTime
  /\ pc \in {"save", "ack"} =>
       leases[req.mac] = [ip |-> req.ip, expiry |-> req.arrived + LeaseTime,
                          granted |-> req.arrived]
  /\ pc = "ack" => file = FileImage(leases)

\* The lease of an address in use is in memory whenever the daemon is there,
\* and a packet the Granted stamp lets pass is not older than the REQUEST the
\* client got the address with: the stamp is that REQUEST's or a later one's,
\* or the daemon has come up since.
MemoryInv ==
  phase # "down" =>
    /\ pool \in Pools
    /\ \A m \in Macs : Using(m) =>
         /\ leases[m] # None
         /\ leases[m].ip = held[m].ip
         /\ leases[m].expiry >= Trunc(held[m].until)
         /\ \/ held[m].until <= leases[m].granted + LeaseTime
            \/ held[m].until <= boot + LeaseTime

\* Clients hold addresses some pool.json has listed, and no others: where the
\* pool never changes, all they hold are stable.
HeldPooled == \A m \in Macs : held[m] # None => held[m].ip \in UNION Pools

ClientInv == QueueInv /\ AskInv /\ HeldInv
StoreInv  == HandlerInv /\ MemoryInv /\ AckedDurable

NodeInv == NodeTypeInv /\ OwnerInv /\ ClientInv /\ StoreInv /\ HeldPooled

=============================================================================
