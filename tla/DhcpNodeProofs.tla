--------------------------- MODULE DhcpNodeProofs ---------------------------
(***************************************************************************)
(* Proofs about DhcpNode: the server with its clients and its queue is     *)
(* the server of DhcpServer, no client loses or shares the address it      *)
(* uses, and the whole implements AddressService.                          *)
(***************************************************************************)
EXTENDS DhcpNode, DhcpServerProofs

-----------------------------------------------------------------------------
(* The node's steps are steps of the server.                               *)

\* Whatever the clients and the queue do, the server's variables take a step
\* of DhcpServer or stutter: the queue offers it no packet DhcpServer does not
\* allow.
LEMMA NodeStepIsServerStep ==
  ASSUME requests \subseteq Packets, releases \subseteq Packets,
         [NodeNext]_nodeVars
  PROVE  [Next]_vars
<1>1. CASE NodeTick \/ NodeAbort \/ NodeAck \/ Die
  BY <1>1 DEF NodeTick, NodeAbort, NodeAck, Die, Next, FinishRequest
<1>2. CASE Quiet
  BY <1>2 DEF Quiet, Next, FinishRequest, Reclaim
<1>3. ASSUME NEW m \in Macs,
             \/ \E ip \in IPs : SendRequest(m, ip)
             \/ Retransmit(m) \/ SendRelease(m) \/ Destroy(m)
      PROVE  UNCHANGED vars
  BY <1>3 DEF SendRequest, Retransmit, SendRelease, Destroy
<1>4. ASSUME NEW m \in Macs, Reclaimed(m) \/ NotReclaimed(m)
      PROVE  Reclaim
  BY <1>4 DEF Reclaimed, NotReclaimed, Reclaim
<1>5. ASSUME NEW p \in requests, ServeRequest(p)
      PROVE  HandleRequest
  BY <1>5 DEF ServeRequest, HandleRequest
<1>6. ASSUME NEW p \in releases, ServeRelease(p)
      PROVE  Reclaim \/ \E q \in Packets : IgnoreRelease(q)
  BY <1>6 DEF ServeRelease, Reclaim
<1>7. CASE UNCHANGED nodeVars
  BY <1>7 DEF nodeVars
<1> QED
  BY <1>1, <1>2, <1>3, <1>4, <1>5, <1>6, <1>7 DEF NodeNext, Next

\* Before the first packet everything has its type.
LEMMA NodeTypeInit == NodeInit => NodeTypeInv
<1> SUFFICES ASSUME NodeInit PROVE NodeTypeInv
  OBVIOUS
<1>1. TypeInv
  BY TypeInit DEF NodeInit
<1>2. held \in [Macs -> Held \cup {None}] /\ asking \in [Macs -> Asking \cup {None}]
  BY DEF NodeInit, Empty
<1>3. now \in 1 .. MaxTime
  BY ServerAssumption DEF NodeInit, Init
<1> QED
  BY <1>1, <1>2, <1>3 DEF NodeInit, NodeTypeInv, NodeTypeOK, TypeInv

\* A packet read now is one the server may be given.
LEMMA SentPackets ==
  ASSUME NodeTypeInv, NEW m \in Macs, NEW ip \in IPs, NEW q \in SUBSET Packets
  PROVE  \A r \in Sent(q, NewPacket(m, ip)) : r \subseteq Packets
BY DEF NodeTypeInv, Sent, NewPacket, Packets

\* Every step of the node keeps the types.
LEMMA NodeTypeStep == NodeTypeInv /\ [NodeNext]_nodeVars => NodeTypeInv'
<1> SUFFICES ASSUME NodeTypeInv, [NodeNext]_nodeVars
             PROVE  NodeTypeInv'
  OBVIOUS
<1>1. [Next]_vars
  BY NodeStepIsServerStep DEF NodeTypeInv
<1>2. TypeInv' /\ TypeOK'
  BY <1>1, TypeStep DEF NodeTypeInv, TypeInv
<1>3. now' \in 1 .. MaxTime
  <2>1. now' = now \/ Tick
    BY <1>1, ClockSteps
  <2> QED
    BY <2>1, ServerAssumption DEF Tick, NodeTypeInv
<1>4. Packets \subseteq Packet
  BY ServerAssumption DEF Packets, Packet
<1> DEFINE Side ==
             /\ requests' \subseteq Packets /\ releases' \subseteq Packets
             /\ held' \in [Macs -> Held \cup {None}]
             /\ asking' \in [Macs -> Asking \cup {None}]
             /\ spoke' \subseteq Macs /\ doomed' \subseteq Macs
<1> USE DEF NodeTypeInv, NodeTypeOK, queue, clients
<1>5. ASSUME NodeTick PROVE Side
  BY <1>5 DEF NodeTick
<1>6. ASSUME Quiet \/ Die PROVE Side
  BY <1>6 DEF Quiet, Die
<1>7. ASSUME NEW p \in Packet, TakeNak(p) \/ Lost
      PROVE  /\ held' \in [Macs -> Held \cup {None}]
             /\ asking' \in [Macs -> Asking \cup {None}]
  BY <1>7 DEF TakeNak, Lost
<1>8. ASSUME NodeAbort PROVE Side
  <2>1. req \in Packet
    BY <1>8 DEF NodeAbort, AbortRequest, TypeInv, Shape
  <2> QED
    BY <1>7, <1>8, <2>1 DEF NodeAbort
<1>9. ASSUME NodeAck PROVE Side
  <2>1. req \in Packet /\ req.ip \in IPs /\ req.arrived + LeaseTime \in Nat
    BY <1>9, TimeAssumption DEF NodeAck, SendAck, TypeInv, Shape, Packet
  <2>2. [ip |-> req.ip, until |-> req.arrived + LeaseTime] \in Held
    BY <2>1 DEF Held
  <2> QED
    BY <1>9, <2>2 DEF NodeAck, TakeAck, Lost
<1>10. ASSUME NEW m \in Macs, NEW ip \in IPs, SendRequest(m, ip)
       PROVE  Side
  <2>1. requests' \subseteq Packets
    BY <1>10, SentPackets DEF SendRequest
  <2>2. [ip |-> ip, since |-> now] \in Asking
    BY DEF Asking
  <2> QED
    BY <1>10, <2>1, <2>2 DEF SendRequest
<1>11. ASSUME NEW m \in Macs, Retransmit(m)
       PROVE  Side
  <2>1. asking[m].ip \in IPs
    BY <1>11 DEF Retransmit, Asking
  <2>2. requests' \subseteq Packets
    BY <1>11, <2>1, SentPackets DEF Retransmit
  <2> QED
    BY <1>11, <2>2 DEF Retransmit
<1>12. ASSUME NEW m \in Macs, SendRelease(m)
       PROVE  Side
  <2>1. held[m].ip \in IPs
    BY <1>12 DEF SendRelease, Held
  <2>2. releases' \subseteq Packets
    BY <1>12, <2>1, SentPackets DEF SendRelease
  <2> QED
    BY <1>12, <2>2 DEF SendRelease
<1>13. ASSUME NEW m \in Macs, Destroy(m) \/ Reclaimed(m) \/ NotReclaimed(m)
       PROVE  Side
  BY <1>13 DEF Destroy, Reclaimed, NotReclaimed
<1>14. ASSUME NEW p \in requests, ServeRequest(p)
       PROVE  Side
  BY <1>4, <1>7, <1>14 DEF ServeRequest, Lost
<1>15. ASSUME NEW p \in releases, ServeRelease(p)
       PROVE  Side
  BY <1>15 DEF ServeRelease
<1>16. ASSUME UNCHANGED nodeVars PROVE Side
  BY <1>16 DEF nodeVars
<1>17. Side
  BY <1>5, <1>6, <1>8, <1>9, <1>10, <1>11, <1>12, <1>13, <1>14, <1>15, <1>16
     DEF NodeNext
<1> QED
  BY <1>2, <1>3, <1>4, <1>17

\* Type correctness of the server together with its clients and its queue.
THEOREM NodeTypeCorrect == NodeSpec => []NodeTypeOK
<1>1. NodeTypeInv => NodeTypeOK
  BY DEF NodeTypeInv
<1> QED
  BY <1>1, NodeTypeInit, NodeTypeStep, PTL DEF NodeSpec

\* The node implements the server: every behaviour of the server among its
\* clients is a behaviour of DhcpServer, so what is proved of Spec (one owner
\* per slot, granted leases routed, files backed by leases) holds here too.
THEOREM NodeImplementsServer == NodeSpec => Spec
<1>1. NodeInit => Init
  BY DEF NodeInit
<1>2. NodeTypeInv /\ [NodeNext]_nodeVars => [Next]_vars
  BY NodeStepIsServerStep DEF NodeTypeInv
<1> QED
  BY <1>1, <1>2, NodeTypeInit, NodeTypeStep, PTL DEF NodeSpec, Spec

-----------------------------------------------------------------------------
(* The clients and their packets.                                          *)

\* A pending packet, and a queued RELEASE, names its client and has a time.
LEMMA PendingTypes ==
  ASSUME NodeTypeInv
  PROVE  /\ \A p \in Pending \cup releases :
              p \in Packet /\ p.mac \in Macs /\ p.arrived \in Nat
         /\ \A m \in Macs : held[m] # None => held[m].ip \in IPs /\ held[m].until \in Nat
         /\ \A m \in Macs : asking[m] # None => asking[m].ip \in IPs /\ asking[m].since \in Nat
         /\ now \in Nat /\ LeaseTime \in Nat
<1>1. Packets \subseteq Packet
  BY ServerAssumption DEF Packets, Packet
<1>2. \A p \in Pending \cup releases : p \in Packet
  BY <1>1 DEF NodeTypeInv, TypeInv, Shape, Pending
<1>3. \A p \in Packet : p.mac \in Macs /\ p.arrived \in Nat
  BY DEF Packet
<1> QED
  BY <1>2, <1>3, TimeAssumption DEF NodeTypeInv, NodeTypeOK, TypeOK, Held, Asking

\* Serving, losing or forgetting packets, and clients giving up an address or
\* a wait, cannot bring a client out of step with its packets.
LEMMA ClientsKeep ==
  ASSUME NodeTypeInv, ClientInv,
         now' = now, spoke' = spoke, doomed' \subseteq doomed,
         Pending' \subseteq Pending, releases' \subseteq releases,
         \A m \in Macs : held'[m] \in {held[m], None} /\ asking'[m] \in {asking[m], None}
  PROVE  ClientInv'
<1>0. /\ \A p \in Pending \cup releases : p.mac \in Macs
      /\ doomed \subseteq Macs
  BY PendingTypes DEF NodeTypeInv, NodeTypeOK
<1>1. QueueInv'
  BY DEF ClientInv, QueueInv
<1>2. AskInv'
  BY <1>0 DEF ClientInv, AskInv
<1>3. HeldInv'
  BY <1>0 DEF ClientInv, HeldInv
<1> QED
  BY <1>1, <1>2, <1>3 DEF ClientInv

\* Only taking a REQUEST off the queue starts serving one.
LEMMA ServingSteps ==
  ASSUME TypeInv,
         \/ Start \/ Restore \/ Discover \/ FreeIP
         \/ RouteRequest \/ CommitRequest \/ SaveRequest \/ SaveRequestFails
         \/ Reclaim \/ Stop \/ Crash \/ AbortRequest \/ SendAck
         \/ UNCHANGED vars
  PROVE  pc' \in {"claimed", "routed", "save", "ack"} =>
           pc \in {"claimed", "routed", "save", "ack"} /\ req' = req
<1> USE DEF lock
<1>1. CASE Start \/ Restore \/ Discover \/ FreeIP
  BY <1>1 DEF Start, Load, LoadFails, Restore, RestoreOne, Discover, DiscoverAgain,
     DiscoverFresh, FreeIP, FreeOne, TypeInv, Shape
<1>2. CASE RouteRequest \/ CommitRequest \/ SaveRequest \/ SaveRequestFails
  BY <1>2 DEF RouteRequest, CommitRequest, SaveRequest, SaveRequestFails, Unlock
<1>3. CASE Reclaim
  BY <1>3 DEF Reclaim, HandleRelease, ControlRelease, ReleaseLease, Cleanup, TakeAndSave,
     Locked, vars
<1>4. CASE Stop \/ Crash \/ AbortRequest \/ SendAck
  BY <1>4 DEF Stop, Crash, Gone, AbortRequest, SendAck, Unlock
<1>5. CASE UNCHANGED vars
  BY <1>5 DEF vars
<1> QED
  BY <1>1, <1>2, <1>3, <1>4, <1>5

\* Every step of the node keeps each client in step with its packets.
LEMMA ClientStep ==
  NodeTypeInv /\ ClientInv /\ [NodeNext]_nodeVars => ClientInv'
<1> SUFFICES ASSUME NodeTypeInv, ClientInv, [NodeNext]_nodeVars
             PROVE  ClientInv'
  OBVIOUS
<1> USE DEF queue, clients
<1>0. NodeTypeInv'
  BY NodeTypeStep
<1>1. /\ TypeInv /\ now \in Nat /\ LeaseTime \in Nat
      /\ requests \subseteq Packets /\ doomed \subseteq Macs
      /\ held \in [Macs -> Held \cup {None}] /\ asking \in [Macs -> Asking \cup {None}]
      /\ \A p \in Pending \cup releases : p.mac \in Macs /\ p.arrived \in Nat
      /\ \A m \in Macs : held[m] # None => held[m].until \in Nat
      /\ \A m \in Macs : asking[m] # None => asking[m].since \in Nat
  BY PendingTypes DEF NodeTypeInv, NodeTypeOK
\* The steps of the server that leave the clients or make them give up.
<1>2. ASSUME \/ Start \/ Restore \/ Discover \/ FreeIP
             \/ RouteRequest \/ CommitRequest \/ SaveRequest \/ SaveRequestFails
             \/ Reclaim \/ Stop \/ Crash \/ AbortRequest \/ SendAck
             \/ UNCHANGED vars,
             requests' \subseteq requests, releases' \subseteq releases,
             spoke' = spoke, doomed' \subseteq doomed,
             \A m \in Macs : held'[m] \in {held[m], None} /\ asking'[m] \in {asking[m], None}
      PROVE  ClientInv'
  <2>1. Pending' \subseteq Pending
    <3>1. pc' \in {"claimed", "routed", "save", "ack"} =>
            pc \in {"claimed", "routed", "save", "ack"} /\ req' = req
      BY <1>1, <1>2, ServingSteps
    <3> QED
      BY <1>2, <3>1 DEF Pending
  <2>2. now' = now
    BY <1>2 DEF Start, Load, LoadFails, Restore, RestoreOne, Discover, DiscoverAgain,
       DiscoverFresh, FreeIP, FreeOne, RouteRequest, CommitRequest, SaveRequest,
       SaveRequestFails, Reclaim, HandleRelease, ControlRelease, ReleaseLease, Cleanup,
       Stop, Crash, Gone, AbortRequest, SendAck, clock, vars
  <2> QED
    BY <1>2, <2>1, <2>2, ClientsKeep
<1>3. ASSUME NEW p \in Packet, TakeNak(p) \/ Lost
      PROVE  \A m \in Macs : held'[m] \in {held[m], None} /\ asking'[m] \in {asking[m], None}
  BY <1>1, <1>3 DEF TakeNak, Lost
<1>4. CASE NodeTick
  <2>1. /\ now' = now + 1 /\ requests' = requests /\ releases' = releases
        /\ pc' = pc /\ req' = req /\ asking' = asking /\ doomed' = doomed
        /\ \A m \in Macs : held'[m] \in {held[m], None}
    BY <1>1, <1>4 DEF NodeTick, Tick, lock
  <2>2. Pending' = Pending
    BY <2>1 DEF Pending
  <2>3. QueueInv'
    BY <1>1, <2>1, <2>2 DEF ClientInv, QueueInv
  <2>4. AskInv'
    BY <1>1, <2>1, <2>2 DEF ClientInv, AskInv
  <2>5. HeldInv'
    BY <1>1, <2>1, <2>2 DEF ClientInv, HeldInv
  <2> QED
    BY <2>3, <2>4, <2>5 DEF ClientInv
<1>5. CASE Quiet
  <2>1. UNCHANGED <<queue, clients>>
    BY <1>5 DEF Quiet
  <2> QED
    BY <1>2, <1>5, <2>1 DEF Quiet, Reclaim
<1>6. CASE Die
  BY <1>2, <1>6 DEF Die
<1>7. CASE NodeAbort
  <2>1. req \in Packet
    BY <1>1, <1>7 DEF NodeAbort, AbortRequest, TypeInv, Shape
  <2> QED
    BY <1>2, <1>3, <1>7, <2>1 DEF NodeAbort
<1>8. CASE NodeAck
  <2>1. CASE Lost \/ ~Answers(req)
    BY <1>2, <1>8, <2>1 DEF NodeAck, Lost, TakeAck
  <2>2. CASE TakeAck(req) /\ Answers(req)
    <3> DEFINE m == req.mac
    <3>1. /\ pc = "ack" /\ pc' = "idle" /\ now' = now
          /\ requests' = requests /\ releases' = releases
          /\ spoke' = spoke /\ doomed' = doomed
      BY <1>8 DEF NodeAck, SendAck, Unlock, clock
    <3>2. req \in Pending /\ m \in Macs /\ req.arrived \in Nat /\ Pending' \subseteq Pending
      BY <1>1, <3>1 DEF Pending
    <3>3. /\ asking[m] # None /\ asking[m].ip = req.ip /\ asking[m].since <= req.arrived
          /\ held' = [held EXCEPT ![m] =
                        [ip |-> req.ip, until |-> req.arrived + LeaseTime]]
          /\ asking' = [asking EXCEPT ![m] = None]
      BY <2>2 DEF TakeAck, Answers
    <3>4. /\ held'[m].ip = req.ip /\ held'[m].until = req.arrived + LeaseTime
          /\ asking'[m] = None
          /\ \A n \in Macs \ {m} : held'[n] = held[n] /\ asking'[n] = asking[n]
      BY <1>1, <3>2, <3>3
    <3>5. QueueInv'
      BY <3>1, <3>2 DEF ClientInv, QueueInv
    <3>6. AskInv'
      BY <1>1, <3>1, <3>2, <3>3, <3>4 DEF ClientInv, AskInv
    <3>7. HeldInv'
      <4>1. \A n \in Macs : held'[n] # None => held'[n].until <= now + LeaseTime
        BY <1>1, <3>2, <3>4 DEF ClientInv, HeldInv, QueueInv
      <4>2. ASSUME NEW p \in Pending', held'[p.mac] # None,
                   held'[p.mac].until <= p.arrived + LeaseTime
            PROVE  p.ip = held'[p.mac].ip
        <5>1. CASE p.mac = m
          <6>1. req.arrived <= p.arrived /\ p \in Pending /\ p.arrived \in Nat
            BY <1>1, <3>2, <3>4, <4>2, <5>1
          <6>2. asking[m].since <= p.arrived
            BY <1>1, <3>2, <3>3, <6>1
          <6> QED
            BY <3>3, <3>4, <5>1, <6>1, <6>2 DEF ClientInv, AskInv
        <5>2. CASE p.mac # m
          BY <1>1, <3>2, <3>4, <4>2, <5>2 DEF ClientInv, HeldInv
        <5> QED
          BY <5>1, <5>2
      <4>3. ASSUME NEW p \in releases', held'[p.mac] # None
            PROVE  p.arrived + LeaseTime < held'[p.mac].until
        <5>1. CASE p.mac = m
          <6>1. p.arrived < asking[m].since /\ p.arrived \in Nat
            BY <1>1, <3>1, <3>3, <5>1 DEF ClientInv, AskInv
          <6> QED
            BY <1>1, <3>2, <3>3, <3>4, <5>1, <6>1
        <5>2. CASE p.mac # m
          BY <1>1, <3>1, <3>4, <4>3, <5>2 DEF ClientInv, HeldInv
        <5> QED
          BY <5>1, <5>2
      <4> QED
        BY <3>1, <4>1, <4>2, <4>3 DEF HeldInv
    <3> QED
      BY <3>5, <3>6, <3>7 DEF ClientInv
  <2> QED
    BY <1>8, <2>1, <2>2 DEF NodeAck
<1>9. ASSUME NEW p \in requests, ServeRequest(p)
      PROVE  ClientInv'
  <2>1. /\ requests' = requests \ {p} /\ releases' = releases
        /\ spoke' = spoke /\ doomed' = doomed
    BY <1>9 DEF ServeRequest
  <2>2. p \in Packet
    BY <1>1, ServerAssumption DEF Packets, Packet
  <2>3. CASE UNCHANGED vars /\ (TakeNak(p) \/ Lost)
    BY <1>2, <1>3, <2>1, <2>2, <2>3
  <2>4. CASE ClaimRequest(p) /\ Lost
    <3>1. /\ now' = now /\ pc' = "claimed" /\ req' = p
          /\ held' = held /\ asking' = asking
      BY <2>4 DEF ClaimRequest, Lost, clock
    <3>2. Pending' \subseteq Pending
      BY <2>1, <3>1 DEF Pending
    <3> QED
      BY <2>1, <3>1, <3>2, ClientsKeep
  <2> QED
    BY <1>9, <2>3, <2>4 DEF ServeRequest, DropRequest, NakRequest
<1>10. ASSUME NEW p \in releases, ServeRelease(p)
       PROVE  ClientInv'
  <2>1. Reclaim \/ UNCHANGED vars
    <3>1. p \in Packets
      BY DEF NodeTypeInv
    <3> QED
      BY <1>10, <3>1 DEF ServeRelease, IgnoreRelease, Reclaim
  <2>2. releases' \subseteq releases /\ UNCHANGED <<requests, clients>>
    BY <1>10 DEF ServeRelease
  <2> QED
    BY <1>2, <2>1, <2>2
<1>11. ASSUME NEW m \in Macs, Reclaimed(m) \/ NotReclaimed(m)
       PROVE  ClientInv'
  <2>1. Reclaim
    BY <1>11 DEF Reclaimed, NotReclaimed, Reclaim
  <2>2. /\ doomed' \subseteq doomed
        /\ UNCHANGED <<queue, held, asking, spoke>>
    BY <1>11 DEF Reclaimed, NotReclaimed
  <2> QED
    BY <1>2, <2>1, <2>2
<1>12. ASSUME NEW m \in Macs, Destroy(m)
       PROVE  ClientInv'
  <2>1. /\ now' = now /\ Pending' = Pending /\ releases' = releases /\ spoke' = spoke
        /\ doomed' = doomed \cup {m} /\ held'[m] = None /\ asking'[m] = None
        /\ \A n \in Macs \ {m} : held'[n] = held[n] /\ asking'[n] = asking[n]
    BY <1>1, <1>12 DEF Destroy, Pending, vars, clock, lock
  <2>2. QueueInv'
    BY <2>1 DEF ClientInv, QueueInv
  <2>3. AskInv'
    BY <1>1, <2>1 DEF ClientInv, AskInv
  <2>4. HeldInv'
    BY <1>1, <2>1 DEF ClientInv, HeldInv
  <2> QED
    BY <2>2, <2>3, <2>4 DEF ClientInv
<1>13. ASSUME NEW m \in Macs, SendRelease(m)
       PROVE  ClientInv'
  <2> DEFINE p == NewPacket(m, held[m].ip)
  <2>1. /\ now' = now /\ Pending' = Pending /\ spoke' = spoke \cup {m}
        /\ doomed' = doomed /\ held'[m] = None /\ asking'[m] = None
        /\ \A n \in Macs \ {m} : held'[n] = held[n] /\ asking'[n] = asking[n]
        /\ releases' \subseteq releases \cup {p}
    BY <1>1, <1>13 DEF SendRelease, Sent, Pending, vars, clock, lock
  <2>2. p.mac = m /\ p.arrived = now
    BY DEF NewPacket
  <2> HIDE DEF p
  <2>3. QueueInv'
    BY <1>1, <2>1, <2>2 DEF ClientInv, QueueInv
  <2>4. AskInv'
    BY <1>1, <2>1, <2>2 DEF ClientInv, AskInv
  <2>5. HeldInv'
    BY <1>1, <2>1, <2>2 DEF ClientInv, HeldInv
  <2> QED
    BY <2>3, <2>4, <2>5 DEF ClientInv
<1>14. ASSUME NEW m \in Macs, Retransmit(m)
       PROVE  ClientInv'
  <2> DEFINE p == NewPacket(m, asking[m].ip)
  <2>1. /\ now' = now /\ releases' = releases /\ spoke' = spoke \cup {m}
        /\ doomed' = doomed /\ held' = held /\ asking' = asking
        /\ Pending' \subseteq Pending \cup {p}
    BY <1>1, <1>14 DEF Retransmit, Sent, Pending, vars, clock, lock
  <2>2. p.mac = m /\ p.arrived = now /\ p.ip = asking[m].ip /\ asking[m] # None
    BY <1>14 DEF NewPacket, Retransmit
  <2> HIDE DEF p
  <2>3. QueueInv'
    BY <1>1, <2>1, <2>2 DEF ClientInv, QueueInv
  <2>4. AskInv'
    BY <1>1, <2>1, <2>2 DEF ClientInv, AskInv
  <2>5. HeldInv'
    BY <1>1, <2>1, <2>2 DEF ClientInv, AskInv, HeldInv
  <2> QED
    BY <2>3, <2>4, <2>5 DEF ClientInv
<1>15. ASSUME NEW m \in Macs, NEW ip \in IPs, SendRequest(m, ip)
       PROVE  ClientInv'
  <2> DEFINE p == NewPacket(m, ip)
  <2>1. /\ now' = now /\ releases' = releases /\ spoke' = spoke \cup {m}
        /\ doomed' = doomed /\ m \notin doomed /\ m \notin spoke
        /\ Pending' \subseteq Pending \cup {p}
        /\ \A n \in Macs \ {m} : held'[n] = held[n] /\ asking'[n] = asking[n]
        /\ asking'[m].ip = ip /\ asking'[m].since = now
        /\ held'[m] \in {held[m], None} /\ (held'[m] # None => held'[m].ip = ip)
    BY <1>1, <1>15 DEF SendRequest, MaySpeak, Sent, Pending, vars, clock, lock
  <2>2. p.mac = m /\ p.arrived = now /\ p.ip = ip
    BY DEF NewPacket
  <2> HIDE DEF p
  <2>3. QueueInv'
    BY <1>1, <2>1, <2>2 DEF ClientInv, QueueInv
  \* Before this packet the client has not spoken in this tick.
  <2>4. \A q \in Pending \cup releases : q.mac = m => q.arrived < now
    BY <2>1 DEF ClientInv, QueueInv
  <2>5. AskInv'
    BY <1>1, <2>1, <2>2, <2>4 DEF ClientInv, AskInv
  <2>6. HeldInv'
    BY <1>1, <2>1, <2>2 DEF ClientInv, HeldInv
  <2> QED
    BY <2>3, <2>5, <2>6 DEF ClientInv
<1>16. CASE UNCHANGED nodeVars
  BY <1>2, <1>16 DEF nodeVars
<1> QED
  BY <1>4, <1>5, <1>6, <1>7, <1>8, <1>9, <1>10, <1>11, <1>12, <1>13, <1>14, <1>15, <1>16
     DEF NodeNext

-----------------------------------------------------------------------------
(* The address a client uses is kept: in the file, and in memory.          *)

\* What the file keeps of an expiry that outlasts a whole second of the client
\* still outlasts it.
LEMMA TruncKeeps ==
  ASSUME NEW x \in Nat, NEW u \in Nat, x >= Trunc(u)
  PROVE  Trunc(x) >= Trunc(u)
<1> DEFINE a == x \div Gran
           b == u \div Gran
<1>1. /\ a \in Nat /\ b \in Nat /\ Gran \in Nat /\ Gran > 0
      /\ x = Gran * a + (x % Gran) /\ x % Gran \in 0 .. Gran - 1
      /\ u = Gran * b + (u % Gran) /\ u % Gran \in 0 .. Gran - 1
  BY TimeAssumption
<1>2. Trunc(x) = Gran * a /\ Trunc(u) = Gran * b
  BY <1>1 DEF Trunc
<1> HIDE DEF a, b
<1>3. a >= b
  <2>1. SUFFICES ASSUME a + 1 <= b PROVE FALSE
    BY <1>1
  <2>2. Gran * (a + 1) <= Gran * b
    BY <1>1, <2>1
  <2>3. Gran * (a + 1) = Gran * a + Gran
    BY <1>1
  <2> QED
    BY <1>1, <1>2, <2>2, <2>3
<1> QED
  BY <1>1, <1>2, <1>3

\* A client that uses an address after a step that gave it none used it before.
LEMMA StillUsing ==
  ASSUME NodeTypeInv, now' \in Nat, now' >= now,
         \A n \in Macs : held'[n] \in {held[n], None},
         NEW m \in Macs, Using(m)'
  PROVE  Using(m) /\ held'[m] = held[m]
<1>1. held'[m] # None /\ now' < Trunc(held'[m].until)
  BY DEF Using
<1>2. held'[m] = held[m] /\ held[m] # None
  BY <1>1
<1>3. Trunc(held[m].until) \in Nat
  BY <1>2, TruncType, PendingTypes
<1> QED
  BY <1>1, <1>2, <1>3, PendingTypes DEF Using

\* What the clients do, and the clock, takes nothing from the tables.
LEMMA StoreKeeps ==
  ASSUME NodeTypeInv, StoreInv, now' \in Nat, now' >= now,
         UNCHANGED <<leases, file, phase, pool, boot, pc, req>>,
         \A n \in Macs : held'[n] \in {held[n], None}
  PROVE  StoreInv'
<1>1. ASSUME NEW m \in Macs, Using(m)'
      PROVE  Using(m) /\ held'[m] = held[m]
  BY <1>1, StillUsing
<1>2. pc \in {"claimed", "routed"} => req.mac \in Macs
  BY PendingTypes DEF Pending
<1>3. HandlerInv'
  BY <1>1, <1>2 DEF StoreInv, HandlerInv
<1>4. MemoryInv'
  BY <1>1 DEF StoreInv, MemoryInv
<1>5. AckedDurable'
  BY <1>1 DEF StoreInv, AckedDurable
<1> QED
  BY <1>3, <1>4, <1>5 DEF StoreInv

\* What the store promises of an address in use, one client at a time.
Kept(m) ==
  /\ file[m] # None /\ file[m].ip = held[m].ip
  /\ file[m].expiry >= Trunc(held[m].until)
  /\ phase # "down" =>
       /\ leases[m] # None
       /\ leases[m].ip = held[m].ip
       /\ leases[m].expiry >= Trunc(held[m].until)
       /\ \/ held[m].until <= leases[m].granted + LeaseTime
          \/ held[m].until <= boot + LeaseTime

Parts ==
  /\ HandlerInv
  /\ phase # "down" => pool \in Pools
  /\ \A m \in Macs : Using(m) => Kept(m)

\* The store's promises are those of the single clients, those of the handler
\* that holds the lock, and that the pool is one pool.json listed.
LEMMA StoreParts == (StoreInv <=> Parts) /\ (StoreInv' <=> Parts')
<1>1. StoreInv <=> Parts
  BY DEF StoreInv, Parts, MemoryInv, AckedDurable, Kept
<1>2. StoreInv' <=> Parts'
  BY DEF StoreInv, Parts, MemoryInv, AckedDurable, Kept
<1> QED
  BY <1>1, <1>2

\* A table that has the leases of the addresses in use is a file that has them.
LEMMA SaveKeeps ==
  ASSUME NodeTypeInv, NEW tab \in LeaseTable, NEW m \in Macs, Using(m),
         tab[m] # None, tab[m].expiry >= Trunc(held[m].until)
  PROVE  /\ FileImage(tab)[m] # None /\ FileImage(tab)[m].ip = tab[m].ip
         /\ FileImage(tab)[m].expiry >= Trunc(held[m].until)
<1>1. tab[m].expiry \in Nat /\ tab[m].ip \in IPs
  BY DEF LeaseTable, Lease
<1>2. held[m].until \in Nat
  BY PendingTypes DEF Using
<1>3. Trunc(tab[m].expiry) >= Trunc(held[m].until) /\ Trunc(tab[m].expiry) \in Nat
  BY <1>1, <1>2, TruncKeeps, TruncType
<1>4. FileImage(tab)[m] = [ip |-> tab[m].ip, expiry |-> Trunc(tab[m].expiry)]
  BY DEF FileImage
<1>5. FileImage(tab)[m] # None
  <2>1. FileImage(tab)[m] \in Offer
    BY <1>1, <1>3, <1>4 DEF Offer
  <2> QED
    BY <2>1, NoneAssumption
<1> QED
  BY <1>3, <1>4, <1>5

\* What the results below assume of the node: no lease expires between the
\* clock readings of load and restoreLeases, and the lease file stays
\* readable.  Stops, crashes, failing saves, failing netlink calls and another
\* pool.json at every start are all allowed.
Steady == \A E \in Envs : "straddle" \notin E /\ "read" \notin E

\* Taking leases nobody uses out of the table and saving keeps those in use.
LEMMA TakeAndSaveKeeps ==
  ASSUME NodeInv, Locked, NEW ms \in SUBSET Entries(leases), NEW saved,
         TakeAndSave(ms, saved), \A m \in ms : ~Using(m),
         UNCHANGED <<phase, pool, boot, held, now>>
  PROVE  StoreInv'
<1>0. /\ NodeTypeInv /\ TypeInv /\ leases \in LeaseTable
      /\ OneEntryPerIP(leases) /\ OneEntryPerIP(file)
      /\ HandlerInv /\ (phase # "down" => pool \in Pools)
      /\ \A m \in Macs : Using(m) => Kept(m)
  BY StoreParts DEF NodeInv, OwnerInv, ExclusiveSlots, TypeInv, TypeOK, Parts
<1>1. /\ phase = "up"
      /\ pc' \in {"idle", "free"}
      /\ \/ leases' = leases /\ file' = file
         \/ leases' = Without(leases, ms) /\ file' = FileImage(leases')
  BY <1>0, TakeAndSaveSplits DEF Locked
<1>2. HandlerInv'
  BY <1>1 DEF HandlerInv
<1>3. ASSUME NEW m \in Macs, Using(m)'
      PROVE  Kept(m)'
  <2>1. Using(m) /\ Kept(m) /\ leases'[m] = leases[m]
    BY <1>0, <1>1, <1>3 DEF Using, Without
  <2>2. CASE leases' = leases /\ file' = file
    BY <2>1, <2>2 DEF Kept
  <2>3. CASE leases' = Without(leases, ms) /\ file' = FileImage(leases')
    <3>1. leases' \in LeaseTable
      BY <1>0, <2>3, WithoutType
    <3>2. leases'[m] # None /\ leases'[m].expiry >= Trunc(held[m].until)
      BY <1>1, <2>1 DEF Kept
    <3>3. /\ file'[m] # None /\ file'[m].ip = leases'[m].ip
          /\ file'[m].expiry >= Trunc(held[m].until)
      BY <1>0, <2>1, <2>3, <3>1, <3>2, SaveKeeps
    <3> QED
      BY <1>1, <2>1, <3>3 DEF Kept
  <2> QED
    BY <1>1, <2>2, <2>3
<1> QED
  BY <1>0, <1>2, <1>3, StoreParts DEF Parts

\* Every step of the server keeps the addresses in use, however many clients
\* give theirs up in it: a restart loads them, a REQUEST that is older than a
\* client's address never replaces its lease, and neither an old RELEASE, nor a
\* sweep, nor the reclaim of a destroyed VM takes it.
LEMMA StoreServerStep ==
  ASSUME Steady, NodeInv, now' = now,
         \A n \in Macs : held'[n] \in {held[n], None},
         \/ Start \/ Restore \/ Stop \/ Crash \/ Discover \/ FreeIP
         \/ \E p \in requests : ClaimRequest(p)
         \/ FinishRequest
         \/ UNCHANGED vars
  PROVE  StoreInv'
<1> USE DEF clock, life, slots, tables, outer, lock
<1>0. /\ NodeTypeInv /\ TypeInv /\ OwnerInv /\ ClientInv
      /\ leases \in LeaseTable /\ file \in FileTable /\ now \in Nat /\ boot \in Nat
      /\ "read" \notin env /\ LeaseTime \in Nat
  BY TimeAssumption DEF NodeInv, NodeTypeInv, OwnerInv, TypeInv, TypeOK, Steady
<1>1. Parts
  BY StoreParts DEF NodeInv
<1>2. ASSUME NEW m \in Macs, Using(m)'
      PROVE  /\ Using(m) /\ Kept(m) /\ held'[m] = held[m] /\ held[m] # None
             /\ held[m].ip \in IPs /\ held[m].until \in Nat
             /\ Trunc(held[m].until) \in Nat /\ now < Trunc(held[m].until)
             /\ held[m].until <= now + LeaseTime
             /\ held[m].ip \in Stable
  <2>1. Using(m) /\ held'[m] = held[m]
    BY <1>0, <1>2, StillUsing
  <2>2. held[m] # None /\ now < Trunc(held[m].until) /\ held[m].ip \in Stable
    BY <2>1 DEF Using
  <2>3. held[m].ip \in IPs /\ held[m].until \in Nat
    BY <1>0, <2>2, PendingTypes
  <2> QED
    BY <1>0, <1>1, <2>1, <2>2, <2>3, TruncType DEF Parts, ClientInv, HeldInv
<1>3. ASSUME UNCHANGED <<leases, file, phase, pool, boot>>, HandlerInv'
      PROVE  StoreInv'
  <2>1. \A m \in Macs : Using(m)' => Kept(m)'
    BY <1>2, <1>3 DEF Kept
  <2> QED
    BY <1>1, <1>3, <2>1, StoreParts DEF Parts
<1>4. CASE Discover \/ UNCHANGED vars
  <2>1. UNCHANGED <<leases, file, phase, pool, boot, pc, req>>
    BY <1>4 DEF Discover, DiscoverAgain, DiscoverFresh, vars
  <2> QED
    BY <1>0, <2>1, StoreKeeps DEF NodeInv
<1>5. CASE FreeIP \/ AbortRequest \/ SaveRequestFails \/ SendAck
  <2>1. UNCHANGED <<leases, file, phase, pool, boot>> /\ pc' \in {"idle", "free"}
    BY <1>5 DEF FreeIP, FreeOne, AbortRequest, SaveRequestFails, SendAck, Unlock
  <2>2. HandlerInv'
    BY <2>1 DEF HandlerInv
  <2> QED
    BY <1>3, <2>1, <2>2
<1>6. CASE Stop \/ Crash
  <2>1. phase' = "down" /\ pc' = "idle" /\ file' = file
    BY <1>6 DEF Stop, Crash, Gone
  <2>2. HandlerInv'
    BY <2>1 DEF HandlerInv
  <2>3. \A m \in Macs : Using(m)' => Kept(m)'
    BY <1>2, <2>1 DEF Kept
  <2> QED
    BY <2>1, <2>2, <2>3, StoreParts DEF Parts
<1>7. CASE Start
  <2>1. PICK P \in Pools : Load(P)
    BY <1>0, <1>7 DEF Start, LoadFails
  <2>2. /\ leases' = Loaded(file, now) /\ file' = file /\ boot' = now /\ pool' = P
        /\ pc' = "idle"
    BY <1>0, <2>1 DEF Load, TypeInv, Shape
  <2>3. HandlerInv'
    BY <2>2 DEF HandlerInv
  <2>4. ASSUME NEW m \in Macs, Using(m)'
        PROVE  Kept(m)'
    <3>1. /\ file[m] # None /\ file[m].ip = held[m].ip /\ file[m].ip \in IPs
          /\ file[m].expiry >= Trunc(held[m].until) /\ file[m].expiry \in Nat
      BY <1>0, <1>2, <2>4 DEF Kept, FileTable, LeaseLine
    <3>2. ~Expired(file[m], now)
      BY <1>0, <1>2, <2>4, <3>1 DEF Expired
    <3>3. leases'[m] = [ip |-> file[m].ip, expiry |-> file[m].expiry, granted |-> 0]
      BY <2>2, <3>1, <3>2 DEF Loaded
    <3>4. leases'[m] # None
      BY <3>1, <3>3, NoneAssumption DEF Lease
    <3>5. /\ leases'[m].ip = held'[m].ip
          /\ leases'[m].expiry >= Trunc(held'[m].until)
          /\ held'[m].until <= boot' + LeaseTime
      BY <1>2, <2>2, <2>4, <3>1, <3>3
    <3> QED
      BY <1>2, <2>2, <2>4, <3>1, <3>4, <3>5 DEF Kept
  <2> QED
    BY <2>2, <2>3, <2>4, StoreParts DEF Parts
<1>8. CASE Restore
  <2>1. PICK n \in Macs : RestoreOne(n)
    BY <1>8 DEF Restore
  <2>2. /\ phase = "restoring" /\ file' = file /\ boot' = now /\ pool' = pool
        /\ pc' = "idle" /\ pool \in Pools /\ free \cup used = pool
    BY <1>0, <1>1, <2>1 DEF RestoreOne, TypeInv, Shape, OwnerInv, SlotsAccounted, Parts
  <2>3. HandlerInv'
    BY <2>2 DEF HandlerInv
  <2>4. ASSUME NEW m \in Macs, Using(m)'
        PROVE  Kept(m)'
    <3>1. leases[m] # None /\ leases[m].ip = held[m].ip /\ held[m].ip \in pool
      BY <1>2, <2>2, <2>4 DEF Kept, Stable
    <3>2. leases'[m] = leases[m]
      BY <2>1, <2>2, <3>1 DEF RestoreOne, Without
    <3>3. held'[m].until <= boot' + LeaseTime
      BY <1>2, <2>2, <2>4
    <3> QED
      BY <1>2, <2>2, <2>4, <3>1, <3>2, <3>3 DEF Kept
  <2> QED
    BY <2>2, <2>3, <2>4, StoreParts DEF Parts
<1>9. ASSUME NEW p \in requests, ClaimRequest(p)
      PROVE  StoreInv'
  <2>1. /\ UNCHANGED <<leases, file, phase, pool, boot>>
        /\ pc' = "claimed" /\ req' = p /\ phase = "up"
        /\ p.arrived \in boot .. now
        /\ ~Superseded(leases[p.mac], p.arrived, now)
    BY <1>9 DEF ClaimRequest, Served, Locked, RequestDropped
  <2>2. p.mac \in Macs /\ p.arrived \in Nat
    BY <1>0, PendingTypes DEF Pending
  <2>3. ASSUME Using(p.mac)'
        PROVE  held'[p.mac].until <= p.arrived + LeaseTime
    <3> DEFINE m == p.mac
    <3>1. /\ held'[m] = held[m] /\ held[m].until \in Nat
          /\ Trunc(held[m].until) \in Nat /\ now < Trunc(held[m].until)
          /\ leases[m] # None /\ leases[m].expiry >= Trunc(held[m].until)
          /\ \/ held[m].until <= leases[m].granted + LeaseTime
             \/ held[m].until <= boot + LeaseTime
      BY <1>2, <2>1, <2>2, <2>3 DEF Kept
    <3>2. leases[m].expiry \in Nat /\ leases[m].granted \in Nat
      BY <1>0, <2>2, <3>1 DEF LeaseTable, Lease
    <3>3. Live(leases[m], now)
      BY <1>0, <3>1, <3>2 DEF Live
    <3>4. leases[m].granted <= p.arrived
      BY <2>1, <2>2, <3>2, <3>3 DEF Superseded
    <3> QED
      BY <1>0, <2>1, <2>2, <3>1, <3>2, <3>4
  <2>4. HandlerInv'
    BY <2>1, <2>3 DEF HandlerInv
  <2> QED
    BY <1>3, <2>1, <2>4
<1>10. ASSUME pc \in {"claimed", "routed", "save", "ack"}
       PROVE  phase = "up" /\ req \in Pending /\ req.mac \in Macs /\ req.arrived \in Nat
  BY <1>0, <1>10, PendingTypes DEF TypeInv, Shape, Pending
<1>11. CASE RouteRequest
  <2>1. /\ UNCHANGED <<leases, file, phase, pool, boot>>
        /\ pc = "claimed" /\ pc' = "routed" /\ req' = req /\ req.mac \in Macs
    BY <1>10, <1>11 DEF RouteRequest
  <2>2. HandlerInv'
    BY <1>1, <1>2, <2>1 DEF HandlerInv, Parts
  <2> QED
    BY <1>3, <2>1, <2>2
<1>12. CASE CommitRequest
  <2> DEFINE r == req.mac
  <2>1. /\ UNCHANGED <<file, phase, pool, boot>>
        /\ pc = "routed" /\ pc' = "save" /\ req' = req
        /\ phase = "up" /\ req \in Pending /\ r \in Macs /\ req.arrived \in Nat
    BY <1>10, <1>12 DEF CommitRequest
  <2>2. /\ leases'[r] = [ip |-> req.ip, expiry |-> req.arrived + LeaseTime,
                         granted |-> req.arrived]
        /\ leases'[r] # None
        /\ \A n \in Macs \ {r} : leases'[n] = leases[n]
    BY <1>0, <1>12, CommitLeases
  <2>3. HandlerInv'
    BY <2>1, <2>2 DEF HandlerInv
  <2>4. ASSUME NEW m \in Macs, Using(m)'
        PROVE  Kept(m)'
    <3>1. CASE m # r
      BY <1>2, <2>1, <2>2, <2>4, <3>1 DEF Kept
    <3>2. CASE m = r
      <4>1. held[m].until <= req.arrived + LeaseTime
        BY <1>1, <1>2, <2>1, <2>4, <3>2 DEF Parts, HandlerInv
      <4>2. held[m].ip = req.ip
        BY <1>0, <1>2, <2>1, <2>4, <3>2, <4>1 DEF ClientInv, HeldInv
      <4>3. req.arrived + LeaseTime >= Trunc(held[m].until)
        BY <1>0, <1>2, <2>1, <2>4, <4>1, TruncType
      <4>4. /\ leases'[m].ip = held'[m].ip
            /\ leases'[m].expiry >= Trunc(held'[m].until)
            /\ held'[m].until <= leases'[m].granted + LeaseTime
        BY <1>2, <2>2, <2>4, <3>2, <4>1, <4>2, <4>3
      <4> QED
        BY <1>2, <2>1, <2>2, <2>4, <3>2, <4>4 DEF Kept
    <3> QED
      BY <3>1, <3>2
  <2> QED
    BY <1>1, <2>1, <2>3, <2>4, StoreParts DEF Parts
<1>13. CASE SaveRequest
  <2>1. /\ UNCHANGED <<leases, phase, pool, boot>> /\ file' = FileImage(leases)
        /\ pc = "save" /\ pc' = "ack" /\ req' = req /\ phase = "up"
    BY <1>10, <1>13 DEF SaveRequest
  <2>2. HandlerInv'
    BY <1>1, <2>1 DEF HandlerInv, Parts
  <2>3. ASSUME NEW m \in Macs, Using(m)'
        PROVE  Kept(m)'
    <3>1. leases[m] # None /\ leases[m].expiry >= Trunc(held[m].until)
      BY <1>2, <2>1, <2>3 DEF Kept
    <3>2. /\ file'[m] # None /\ file'[m].ip = leases[m].ip
          /\ file'[m].expiry >= Trunc(held[m].until)
      BY <1>0, <1>2, <2>1, <2>3, <3>1, SaveKeeps
    <3> QED
      BY <1>2, <2>1, <2>3, <3>2 DEF Kept
  <2> QED
    BY <1>1, <2>1, <2>2, <2>3, StoreParts DEF Parts
<1> QED
  BY <1>4, <1>5, <1>6, <1>7, <1>8, <1>9, <1>11, <1>12, <1>13 DEF FinishRequest

\* Giving leases back keeps the addresses in use: the client of a RELEASE that
\* is accepted, and of a VM that is gone, uses none, and what a sweep expires
\* has run out for its client too.
LEMMA StoreReclaimStep ==
  ASSUME NodeInv, UNCHANGED held,
         \/ \E p \in releases, saved \in BOOLEAN : HandleRelease(p, saved)
         \/ \E m \in doomed, saved \in BOOLEAN : ControlRelease(m, saved)
         \/ \E saved \in BOOLEAN : Cleanup(saved)
  PROVE  StoreInv'
<1> USE DEF clock, life, slots, tables, outer, lock
<1>0. /\ NodeTypeInv /\ TypeInv /\ OwnerInv /\ ClientInv /\ Parts
      /\ leases \in LeaseTable /\ now \in Nat /\ boot \in Nat /\ doomed \subseteq Macs
      /\ LeaseTime \in Nat
  BY StoreParts, TimeAssumption DEF NodeInv, NodeTypeInv, NodeTypeOK, OwnerInv, TypeInv, TypeOK
<1>1. ASSUME NEW m \in Macs, Using(m), phase = "up"
      PROVE  /\ Kept(m) /\ held[m] # None /\ held[m].until \in Nat
             /\ leases[m] # None /\ leases[m].expiry \in Nat /\ leases[m].granted \in Nat
             /\ now < leases[m].expiry
  <2>1. /\ held[m] # None /\ held[m].until \in Nat /\ now < Trunc(held[m].until)
        /\ Trunc(held[m].until) \in Nat
    BY <1>0, <1>1, PendingTypes, TruncType DEF Using
  <2>2. Kept(m) /\ leases[m] # None /\ leases[m].expiry >= Trunc(held[m].until)
    BY <1>0, <1>1 DEF Parts, Kept
  <2>3. leases[m].expiry \in Nat /\ leases[m].granted \in Nat
    BY <1>0, <2>2 DEF LeaseTable, Lease
  <2> QED
    BY <1>0, <2>1, <2>2, <2>3
<1>2. ASSUME NEW m \in Macs, NEW saved \in BOOLEAN, ReleaseLease(m, saved), ~Using(m)
      PROVE  StoreInv'
  <2>1. /\ Locked /\ {m} \in SUBSET Entries(leases) /\ TakeAndSave({m}, saved)
        /\ UNCHANGED <<phase, pool, boot, now>>
    BY <1>2 DEF ReleaseLease, Entries
  <2> QED
    BY <1>2, <2>1, TakeAndSaveKeeps
<1>3. ASSUME NEW p \in releases, NEW saved \in BOOLEAN, HandleRelease(p, saved)
      PROVE  StoreInv'
  <2> DEFINE m == p.mac
  <2>1. /\ phase = "up" /\ p.arrived \in boot .. now
        /\ ReleaseLease(m, saved)
        /\ Live(leases[m], now) /\ ~Superseded(leases[m], p.arrived, now)
    BY <1>3 DEF HandleRelease, Served, Locked, ReleaseAccepted
  <2>2. m \in Macs /\ p.arrived \in Nat
    BY <1>0, PendingTypes
  <2>3. ASSUME Using(m) PROVE FALSE
    <3>1. /\ Kept(m) /\ held[m] # None /\ held[m].until \in Nat
          /\ leases[m].granted \in Nat
      BY <1>1, <2>1, <2>2, <2>3
    <3>2. p.arrived + LeaseTime < held[m].until
      BY <1>0, <3>1 DEF ClientInv, HeldInv
    <3>3. leases[m].granted <= p.arrived
      BY <2>1, <2>2, <3>1 DEF Superseded
    <3> QED
      BY <1>0, <2>1, <2>2, <3>1, <3>2, <3>3 DEF Kept
  <2> QED
    BY <1>2, <2>1, <2>2, <2>3
<1>4. ASSUME NEW m \in doomed, NEW saved \in BOOLEAN, ControlRelease(m, saved)
      PROVE  StoreInv'
  <2>1. m \in Macs /\ ~Using(m)
    BY <1>0 DEF ClientInv, AskInv, Using
  <2>2. CASE ReleaseLease(m, saved)
    BY <1>2, <2>1, <2>2
  <2>3. CASE UNCHANGED vars
    <3>1. /\ UNCHANGED <<leases, file, phase, pool, boot, pc, req, now>>
          /\ \A n \in Macs : held'[n] \in {held[n], None}
      BY <2>3 DEF vars
    <3> QED
      BY <1>0, <3>1, StoreKeeps DEF NodeInv
  <2> QED
    BY <1>4, <2>2, <2>3 DEF ControlRelease
<1>5. ASSUME NEW saved \in BOOLEAN, Cleanup(saved)
      PROVE  StoreInv'
  <2>1. /\ Locked /\ phase = "up" /\ UNCHANGED <<phase, pool, boot, now, req>>
        /\ DeadLeases \in SUBSET Entries(leases)
    BY <1>5 DEF Cleanup, Locked, DeadLeases, Expired, Entries
  <2>2. ASSUME NEW m \in DeadLeases
        PROVE  ~Using(m)
    <3>1. m \in Macs /\ now > leases[m].expiry
      BY DEF DeadLeases, Expired
    <3>2. SUFFICES ASSUME Using(m) PROVE FALSE
      OBVIOUS
    <3>3. now < leases[m].expiry /\ leases[m].expiry \in Nat
      BY <1>1, <2>1, <3>1, <3>2
    <3> QED
      BY <1>0, <3>1, <3>3
  <2>3. CASE TakeAndSave(DeadLeases, saved)
    BY <2>1, <2>2, <2>3, TakeAndSaveKeeps
  <2>4. CASE UNCHANGED <<leases, file, pc, freeing>>
    BY <1>0, <2>1, <2>4, StoreKeeps DEF NodeInv
  <2> QED
    BY <1>5, <2>3, <2>4 DEF Cleanup
<1> QED
  BY <1>3, <1>4, <1>5

\* An ACK a client takes up is for an address that is in the table and in the
\* file under the client's name, inside the pool and of nobody else.
LEMMA AckedAddress ==
  ASSUME Steady, NodeInv, pc = "ack"
  PROVE  /\ req.mac \in Macs /\ req.ip \in IPs /\ req.arrived \in Nat
         /\ req.arrived <= now /\ phase = "up"
         /\ leases[req.mac] = [ip |-> req.ip, expiry |-> req.arrived + LeaseTime,
                               granted |-> req.arrived]
         /\ leases[req.mac] # None
         /\ file[req.mac] = [ip |-> req.ip, expiry |-> Trunc(req.arrived + LeaseTime)]
         /\ file[req.mac] # None
         /\ req.ip \in UNION Pools
<1> DEFINE m == req.mac
<1>0. NodeTypeInv /\ TypeInv /\ OwnerInv /\ ClientInv /\ Parts /\ LeaseTime \in Nat
  BY StoreParts, TimeAssumption DEF NodeInv, NodeTypeInv
<1>1. phase = "up" /\ req \in Packet /\ req.ip \in IPs /\ m \in Macs /\ req.arrived \in Nat
  BY <1>0 DEF TypeInv, Shape, Packet
<1>2. req.arrived <= now
  BY <1>0 DEF ClientInv, QueueInv, Pending
<1>3. /\ leases[m] = [ip |-> req.ip, expiry |-> req.arrived + LeaseTime,
                      granted |-> req.arrived]
      /\ file = FileImage(leases)
  BY <1>0 DEF Parts, HandlerInv
<1>4. leases[m] # None
  BY <1>0, <1>1, <1>3, NoneAssumption DEF Lease
<1>5. file[m] = [ip |-> req.ip, expiry |-> Trunc(req.arrived + LeaseTime)]
  BY <1>1, <1>3, <1>4 DEF FileImage
<1>6. file[m] # None
  BY <1>0, <1>1, <1>5, TruncType, NoneAssumption DEF Offer
<1>7. req.ip \in UNION Pools
  <2>1. req.ip \in IpsOf(leases)
    BY <1>1, <1>3, <1>4 DEF IpsOf, Entries
  <2>2. req.ip \in pool
    BY <1>0, <1>1, <2>1, UpOwned DEF OwnerInv, Owned
  <2> QED
    BY <1>0, <1>1, <2>2 DEF Parts
<1> QED
  BY <1>1, <1>2, <1>3, <1>4, <1>5, <1>6, <1>7

\* Every step of the node keeps the addresses in use.
LEMMA StoreStep ==
  ASSUME Steady
  PROVE  NodeInv /\ [NodeNext]_nodeVars => StoreInv'
<1> SUFFICES ASSUME NodeInv, [NodeNext]_nodeVars
             PROVE  StoreInv'
  OBVIOUS
<1> USE DEF queue, clients
<1>0. /\ NodeTypeInv /\ NodeTypeInv' /\ TypeInv /\ StoreInv /\ Parts
      /\ now \in Nat /\ now' \in Nat
      /\ held \in [Macs -> Held \cup {None}]
      /\ requests \subseteq Packets /\ releases \subseteq Packets
  BY NodeTypeStep, StoreParts DEF NodeInv, NodeTypeInv, NodeTypeOK, TypeInv, TypeOK
<1>1. ASSUME NEW p \in Packet, TakeNak(p) \/ Lost
      PROVE  \A m \in Macs : held'[m] \in {held[m], None}
  BY <1>0, <1>1 DEF TakeNak, Lost
<1>2. ASSUME UNCHANGED vars, \A m \in Macs : held'[m] \in {held[m], None}
      PROVE  StoreInv'
  BY <1>0, <1>2, StoreKeeps DEF vars, clock, life, tables, outer, lock
<1>3. CASE NodeTick
  <2>1. /\ now' = now + 1
        /\ UNCHANGED <<leases, file, phase, pool, boot, pc, req>>
        /\ \A m \in Macs : held'[m] \in {held[m], None}
    BY <1>3 DEF NodeTick, Tick, life, tables, outer, lock
  <2> QED
    BY <1>0, <2>1, StoreKeeps
<1>4. CASE Quiet
  <2>1. UNCHANGED held
    BY <1>4 DEF Quiet
  <2>2. CASE \E saved \in BOOLEAN : Cleanup(saved)
    BY <2>1, <2>2, StoreReclaimStep
  <2>3. CASE \/ Start \/ Restore \/ Discover \/ FreeIP
             \/ RouteRequest \/ CommitRequest \/ SaveRequest \/ SaveRequestFails
    <3>1. now' = now
      BY <2>3 DEF Start, Load, LoadFails, Restore, RestoreOne, Discover, DiscoverAgain,
         DiscoverFresh, FreeIP, FreeOne, RouteRequest, CommitRequest, SaveRequest,
         SaveRequestFails, clock
    <3> QED
      BY <2>1, <2>3, <3>1, StoreServerStep DEF FinishRequest
  <2> QED
    BY <1>4, <2>2, <2>3 DEF Quiet
<1>5. CASE Die
  <2>1. now' = now /\ UNCHANGED held
    BY <1>5 DEF Die, Stop, Crash, Gone, clock
  <2> QED
    BY <1>5, <2>1, StoreServerStep DEF Die
<1>6. CASE NodeAbort
  <2>1. req \in Packet /\ now' = now
    BY <1>0, <1>6 DEF NodeAbort, AbortRequest, TypeInv, Shape, clock
  <2> QED
    BY <1>1, <1>6, <2>1, StoreServerStep DEF NodeAbort, FinishRequest
<1>7. CASE NodeAck
  <2>1. /\ pc = "ack" /\ pc' = "idle" /\ now' = now
        /\ UNCHANGED <<leases, file, phase, pool, boot>>
    BY <1>7 DEF NodeAck, SendAck, Unlock, clock, life, tables, outer
  <2>2. CASE UNCHANGED held
    BY <1>7, <2>1, <2>2, StoreServerStep DEF NodeAck, FinishRequest
  <2>3. CASE held' = [held EXCEPT ![req.mac] =
                        [ip |-> req.ip, until |-> req.arrived + LeaseTime]]
    <3>0. PICK m \in Macs : m = req.mac
      BY <2>1, AckedAddress
    <3>1. /\ req.ip \in IPs /\ req.arrived + LeaseTime \in Nat
          /\ leases[m] = [ip |-> req.ip, expiry |-> req.arrived + LeaseTime,
                          granted |-> req.arrived]
          /\ leases[m] # None
          /\ file[m] = [ip |-> req.ip, expiry |-> Trunc(req.arrived + LeaseTime)]
          /\ file[m] # None
      BY <2>1, <3>0, AckedAddress, TimeAssumption
    <3>2. /\ held'[m].ip = req.ip /\ held'[m].until = req.arrived + LeaseTime
          /\ \A n \in Macs \ {m} : held'[n] = held[n]
      BY <1>0, <2>3, <3>0
    <3>3. HandlerInv'
      BY <2>1 DEF HandlerInv
    <3>4. Kept(m)'
      <4>1. Trunc(req.arrived + LeaseTime) <= req.arrived + LeaseTime
            /\ Trunc(req.arrived + LeaseTime) \in Nat
        BY <3>1, TruncType
      <4> QED
        BY <2>1, <3>1, <3>2, <4>1 DEF Kept
    <3>5. ASSUME NEW n \in Macs \ {m}, Using(n)'
          PROVE  Kept(n)'
      <4>1. Using(n)
        BY <2>1, <3>2, <3>5 DEF Using
      <4> QED
        BY <1>0, <2>1, <3>2, <4>1 DEF Parts, Kept
    <3> QED
      BY <1>0, <2>1, <3>3, <3>4, <3>5, StoreParts DEF Parts
  <2> QED
    BY <1>7, <2>2, <2>3 DEF NodeAck, TakeAck, Lost
<1>8. ASSUME NEW m \in Macs,
             \/ \E ip \in IPs : SendRequest(m, ip)
             \/ Retransmit(m) \/ SendRelease(m) \/ Destroy(m)
      PROVE  StoreInv'
  <2>1. UNCHANGED vars /\ \A n \in Macs : held'[n] \in {held[n], None}
    BY <1>0, <1>8 DEF SendRequest, Retransmit, SendRelease, Destroy
  <2> QED
    BY <1>2, <2>1
<1>9. ASSUME NEW m \in Macs, Reclaimed(m) \/ NotReclaimed(m)
      PROVE  StoreInv'
  <2>1. UNCHANGED held /\ \E n \in doomed, saved \in BOOLEAN : ControlRelease(n, saved)
    BY <1>9 DEF Reclaimed, NotReclaimed
  <2> QED
    BY <2>1, StoreReclaimStep
<1>10. ASSUME NEW p \in requests, ServeRequest(p)
       PROVE  StoreInv'
  <2>1. p \in Packet
    BY <1>0, ServerAssumption DEF Packets, Packet
  <2>2. CASE UNCHANGED vars /\ (TakeNak(p) \/ Lost)
    BY <1>1, <1>2, <2>1, <2>2
  <2>3. CASE ClaimRequest(p) /\ Lost
    <3>1. now' = now /\ UNCHANGED held
      BY <2>3 DEF ClaimRequest, Lost, clock
    <3> QED
      BY <2>3, <3>1, StoreServerStep
  <2> QED
    BY <1>10, <2>2, <2>3 DEF ServeRequest, DropRequest, NakRequest
<1>11. ASSUME NEW p \in releases, ServeRelease(p)
       PROVE  StoreInv'
  <2>1. UNCHANGED held
    BY <1>11 DEF ServeRelease
  <2>2. CASE IgnoreRelease(p)
    BY <1>2, <2>1, <2>2 DEF IgnoreRelease
  <2>3. CASE \E saved \in BOOLEAN : HandleRelease(p, saved)
    BY <2>1, <2>3, StoreReclaimStep
  <2> QED
    BY <1>11, <2>2, <2>3 DEF ServeRelease
<1>12. CASE UNCHANGED nodeVars
  BY <1>2, <1>12 DEF nodeVars
<1> QED
  BY <1>3, <1>4, <1>5, <1>6, <1>7, <1>8, <1>9, <1>10, <1>11, <1>12 DEF NodeNext

\* Before the first packet no address is in use.
LEMMA NodeInvInit == NodeInit => NodeInv
<1> SUFFICES ASSUME NodeInit PROVE NodeInv
  OBVIOUS
<1>1. NodeTypeInv
  BY NodeTypeInit
<1>2. OwnerInv
  BY OwnerInit DEF NodeInit
<1>3. Pending = {} /\ (\A m \in Macs : held[m] = None /\ asking[m] = None)
  BY DEF NodeInit, Init, Pending, Empty
<1>4. ClientInv
  BY <1>3 DEF NodeInit, ClientInv, QueueInv, AskInv, HeldInv
<1>5. StoreInv
  BY <1>3 DEF NodeInit, Init, StoreInv, HandlerInv, MemoryInv, AckedDurable, Using
<1>6. HeldPooled
  BY <1>3 DEF HeldPooled
<1> QED
  BY <1>1, <1>2, <1>4, <1>5, <1>6 DEF NodeInv

\* A client comes to an address by an ACK only, and the address of an ACK is in
\* the pool of the daemon that sends it.
LEMMA PooledStep ==
  ASSUME Steady
  PROVE  NodeInv /\ [NodeNext]_nodeVars => HeldPooled'
<1> SUFFICES ASSUME NodeInv, [NodeNext]_nodeVars
             PROVE  HeldPooled'
  OBVIOUS
<1> USE DEF queue, clients
<1>0. held \in [Macs -> Held \cup {None}] /\ requests \subseteq Packets /\ HeldPooled
  BY DEF NodeInv, NodeTypeInv, NodeTypeOK
<1>1. ASSUME \A m \in Macs : held'[m] \in {held[m], None}
      PROVE  HeldPooled'
  BY <1>0, <1>1 DEF HeldPooled
<1>2. ASSUME NEW p, TakeNak(p) \/ Lost
      PROVE  HeldPooled'
  BY <1>0, <1>1, <1>2 DEF TakeNak, Lost
<1>3. CASE NodeAck
  <2>1. CASE UNCHANGED held
    BY <1>1, <2>1
  <2>2. CASE held' = [held EXCEPT ![req.mac] =
                        [ip |-> req.ip, until |-> req.arrived + LeaseTime]]
    <3>1. pc = "ack"
      BY <1>3 DEF NodeAck, SendAck
    <3>2. req.ip \in UNION Pools
      BY <3>1, AckedAddress
    <3>3. ASSUME NEW m \in Macs, held'[m] # None
          PROVE  held'[m].ip \in UNION Pools
      <4>1. CASE m = req.mac
        <5>1. held'[m] = [ip |-> req.ip, until |-> req.arrived + LeaseTime]
          BY <1>0, <2>2, <4>1
        <5> QED
          BY <3>2, <5>1
      <4>2. CASE m # req.mac
        <5>1. held'[m] = held[m]
          BY <1>0, <2>2, <4>2
        <5> QED
          BY <1>0, <3>3, <5>1 DEF HeldPooled
      <4> QED
        BY <4>1, <4>2
    <3> QED
      BY <3>3 DEF HeldPooled
  <2> QED
    BY <1>3, <2>1, <2>2 DEF NodeAck, TakeAck, Lost
<1>4. CASE NodeAbort
  BY <1>2, <1>4 DEF NodeAbort
<1>5. CASE NodeTick
  BY <1>0, <1>1, <1>5 DEF NodeTick
<1>6. CASE Quiet \/ Die \/ UNCHANGED nodeVars
  BY <1>1, <1>6 DEF Quiet, Die, nodeVars
<1>7. ASSUME NEW m \in Macs,
             \/ \E ip \in IPs : SendRequest(m, ip)
             \/ Retransmit(m) \/ SendRelease(m) \/ Destroy(m)
             \/ Reclaimed(m) \/ NotReclaimed(m)
      PROVE  HeldPooled'
  BY <1>0, <1>1, <1>7 DEF SendRequest, Retransmit, SendRelease, Destroy, Reclaimed,
     NotReclaimed
<1>8. ASSUME NEW p \in requests, ServeRequest(p)
      PROVE  HeldPooled'
  BY <1>2, <1>8 DEF ServeRequest
<1>9. ASSUME NEW p \in releases, ServeRelease(p)
      PROVE  HeldPooled'
  BY <1>1, <1>9 DEF ServeRelease
<1> QED
  BY <1>3, <1>4, <1>5, <1>6, <1>7, <1>8, <1>9 DEF NodeNext

\* The inductive invariant of the node.
LEMMA NodeInvStep ==
  ASSUME Steady
  PROVE  NodeInv /\ [NodeNext]_nodeVars => NodeInv'
<1> SUFFICES ASSUME NodeInv, [NodeNext]_nodeVars
             PROVE  NodeInv'
  OBVIOUS
<1>1. NodeTypeInv'
  BY NodeTypeStep DEF NodeInv
<1>2. [Next]_vars
  BY NodeStepIsServerStep DEF NodeInv, NodeTypeInv
<1>3. OwnerInv'
  BY <1>2, OwnerStep DEF NodeInv, Steady
<1>4. ClientInv'
  BY ClientStep DEF NodeInv
<1>5. StoreInv'
  BY StoreStep
<1>6. HeldPooled'
  BY PooledStep
<1> QED
  BY <1>1, <1>3, <1>4, <1>5, <1>6 DEF NodeInv

\* Clients never hold an address that no pool.json has listed, so while
\* pool.json is not rewritten the stable addresses are all there are, and the
\* theorems below speak of every address a client uses.
THEOREM OnlyPooledHeld ==
  ASSUME Steady
  PROVE  /\ NodeSpec => []HeldPooled
         /\ (\A P, Q \in Pools : P = Q) => UNION Pools \subseteq Stable
<1>1. NodeInv => HeldPooled
  BY DEF NodeInv
<1>2. NodeInv /\ [NodeNext]_nodeVars => NodeInv'
  BY NodeInvStep
<1>3. NodeSpec => []HeldPooled
  BY <1>1, <1>2, NodeInvInit, PTL DEF NodeSpec
<1>4. ASSUME \A P, Q \in Pools : P = Q
      PROVE  UNION Pools \subseteq Stable
  BY <1>4, ServerAssumption DEF Stable
<1> QED
  BY <1>3, <1>4

\* A lease a client has been told of is in the lease file from the ACK until
\* the client gives it up: no crash, failed save, reordered packet or other
\* client takes it out.
THEOREM AcksAreDurable ==
  ASSUME Steady
  PROVE  NodeSpec => []AckedDurable
<1>1. NodeInv => AckedDurable
  BY DEF NodeInv, StoreInv
<1>2. NodeInv /\ [NodeNext]_nodeVars => NodeInv'
  BY NodeInvStep
<1> QED
  BY <1>1, <1>2, NodeInvInit, PTL DEF NodeSpec

\* An address in use is neither free nor offered to anybody else while the
\* daemon serves.
THEOREM HeldStaysReserved ==
  ASSUME Steady
  PROVE  NodeSpec => []HeldReserved
<1>1. NodeInv => HeldReserved
  <2> SUFFICES ASSUME NodeInv, phase = "up",
                      NEW m \in Macs, Using(m)
               PROVE  /\ held[m].ip \in used
                      /\ \A n \in Entries(offers) : offers[n].ip = held[m].ip => n = m
    BY DEF HeldReserved
  <2>1. m \in Macs /\ leases[m] # None /\ leases[m].ip = held[m].ip
    BY DEF NodeInv, StoreInv, MemoryInv
  <2>2. held[m].ip \in IpsOf(leases)
    BY <2>1 DEF IpsOf, Entries
  <2>3. Owned(IpsOf(leases), IpsOf(offers), Claim)
    BY UpOwned DEF NodeInv, OwnerInv
  <2>4. \A n \in Entries(offers) : offers[n].ip \in IpsOf(offers)
    BY DEF IpsOf
  <2> QED
    BY <2>2, <2>3, <2>4 DEF Owned
<1>2. NodeInv /\ [NodeNext]_nodeVars => NodeInv'
  BY NodeInvStep
<1> QED
  BY <1>1, <1>2, NodeInvInit, PTL DEF NodeSpec

\* No stable address is ever used by two clients at once, their times cut to
\* the whole second: both would have it in the lease file, which names each
\* address once.
THEOREM NeverDoublyAssigned ==
  ASSUME Steady
  PROVE  NodeSpec => []NoDoubleAssign
<1>1. NodeInv => NoDoubleAssign
  <2> SUFFICES ASSUME NodeInv, NEW m \in Macs, NEW n \in Macs, m # n,
                      Using(m), Using(n)
               PROVE  held[m].ip # held[n].ip
    BY DEF NoDoubleAssign
  <2>1. /\ m \in Entries(file) /\ file[m].ip = held[m].ip
        /\ n \in Entries(file) /\ file[n].ip = held[n].ip
    BY DEF NodeInv, StoreInv, AckedDurable, Entries
  <2>2. OneEntryPerIP(file)
    BY DEF NodeInv, OwnerInv
  <2> QED
    BY <2>1, <2>2 DEF OneEntryPerIP
<1>2. NodeInv /\ [NodeNext]_nodeVars => NodeInv'
  BY NodeInvStep
<1> QED
  BY <1>1, <1>2, NodeInvInit, PTL DEF NodeSpec

-----------------------------------------------------------------------------
(* The node implements AddressService.                                     *)

\* The mapped grant of a client.
GrantOf(h) ==
  IF h = None \/ h.ip \notin Stable THEN None ELSE [ip |-> h.ip, until |-> Trunc(h.until)]
Grants     == [m \in Macs |-> GrantOf(held[m])]

\* A client that drops its address gives up its grant.
LEMMA DropIsGiveUp ==
  ASSUME NodeTypeInv, now' = now, NEW m \in Macs, held' = [held EXCEPT ![m] = None]
  PROVE  Service!GiveUp(m)
<1>1. Grants' = [Grants EXCEPT ![m] = None]
  BY DEF NodeTypeInv, NodeTypeOK, Grants, GrantOf
<1> QED
  BY <1>1 DEF Grants, GrantOf, Service!GiveUp

\* A step that leaves the clients' addresses and the clock is a stuttering one.
LEMMA QuietIsStutter ==
  ASSUME UNCHANGED <<held, now>>
  PROVE  UNCHANGED Service!svcVars
BY DEF Service!svcVars

\* A tick lets exactly the grants lapse whose time is up.
LEMMA TickIsAdvance ==
  ASSUME NodeTypeInv, NodeTick
  PROVE  Service!Advance
<1> DEFINE over == {m \in Macs : held[m] # None /\ held[m].until <= now'}
           done == {m \in over : held[m].ip \in Stable}
<1>1. /\ now' = now + 1 /\ now \in Nat
      /\ held' = [m \in Macs |-> IF m \in over THEN None ELSE held[m]]
  BY DEF NodeTick, Tick, NodeTypeInv
<1>2. Grants' = [m \in Macs |-> IF m \in done THEN None ELSE Grants[m]]
  <2>1. ASSUME NEW m \in Macs
        PROVE  GrantOf(held[m])' = IF m \in done THEN None ELSE GrantOf(held[m])
    <3>1. CASE m \in over
      <4>1. held'[m] = None
        BY <1>1, <3>1
      <4>2. m \notin done => GrantOf(held[m]) = None
        BY <3>1 DEF GrantOf
      <4> QED
        BY <4>1, <4>2 DEF GrantOf
    <3>2. CASE m \notin over
      <4>1. held'[m] = held[m] /\ m \notin done
        BY <1>1, <3>2
      <4> QED
        BY <4>1 DEF GrantOf
    <3> QED
      BY <3>1, <3>2
  <2> QED
    BY <2>1 DEF Grants
<1>3. ASSUME NEW m \in done
      PROVE  Grants[m] # None /\ Grants[m].until <= now + 1
  <2>1. m \in Macs /\ held[m] # None /\ held[m].ip \in IPs /\ held[m].until \in Nat
    BY PendingTypes
  <2>2. Trunc(held[m].until) \in Nat /\ Trunc(held[m].until) <= held[m].until
    BY <2>1, TruncType
  <2>3. Grants[m] = [ip |-> held[m].ip, until |-> Trunc(held[m].until)]
    BY <2>1 DEF Grants, GrantOf
  <2>4. Grants[m] \in Held
    BY <2>1, <2>2, <2>3 DEF Held
  <2> QED
    BY <1>1, <2>1, <2>2, <2>3, <2>4, ClientAssumption
<1>4. done \in SUBSET {m \in Macs : Grants[m] # None /\ Grants[m].until <= now + 1}
  BY <1>3
<1> HIDE DEF done, over
<1> QED
  BY <1>1, <1>2, <1>4 DEF Grants, GrantOf, Service!Advance

\* An ACK the client takes up is a grant of an address nobody else's running
\* grant names: whoever uses a stable address has it in the lease file.
LEMMA AckIsGrant ==
  ASSUME Steady, NodeInv, pc = "ack", now' = now, NEW m \in Macs, m = req.mac,
         held' = [held EXCEPT ![m] =
                    [ip |-> req.ip, until |-> req.arrived + LeaseTime]],
         req.ip \in Stable
  PROVE  \E a \in Stable : \E until \in 0 .. now + LeaseTime : Service!Grant(m, a, until)
<1> DEFINE u == Trunc(req.arrived + LeaseTime)
<1>0. NodeTypeInv /\ now \in Nat /\ LeaseTime \in Nat /\ OneEntryPerIP(file)
  BY PendingTypes DEF NodeInv, OwnerInv
<1>1. /\ req.ip \in IPs /\ req.arrived \in Nat /\ req.arrived <= now
      /\ file[m] = [ip |-> req.ip, expiry |-> u] /\ file[m] # None
  BY AckedAddress
<1>2. u \in Nat /\ u <= now + LeaseTime
  <2>1. u \in Nat /\ u <= req.arrived + LeaseTime
    BY <1>0, <1>1, TruncType
  <2> QED
    BY <1>0, <1>1, <2>1
<1>3. Grants' = [Grants EXCEPT ![m] = [ip |-> req.ip, until |-> u]]
  <2>1. [ip |-> req.ip, until |-> req.arrived + LeaseTime] # None
    BY <1>0, <1>1, ClientAssumption DEF Held
  <2>2. /\ held'[m] = [ip |-> req.ip, until |-> req.arrived + LeaseTime]
        /\ \A n \in Macs \ {m} : held'[n] = held[n]
    BY <1>0 DEF NodeTypeInv, NodeTypeOK
  <2>3. GrantOf(held'[m]) = [ip |-> req.ip, until |-> u]
    BY <2>1, <2>2 DEF GrantOf
  <2>4. \A n \in Macs \ {m} : GrantOf(held'[n]) = GrantOf(held[n])
    BY <2>2
  <2> QED
    BY <2>3, <2>4 DEF Grants
<1>4. ASSUME NEW d \in Macs \ {m}, Grants[d] # None, Grants[d].ip = req.ip,
             now < Grants[d].until
      PROVE  FALSE
  <2>1. /\ held[d] # None /\ held[d].ip \in Stable
        /\ Grants[d] = [ip |-> held[d].ip, until |-> Trunc(held[d].until)]
    BY <1>4 DEF Grants, GrantOf
  <2>2. file[d] # None /\ file[d].ip = req.ip
    <3>1. Using(d)
      BY <1>4, <2>1 DEF Using
    <3> QED
      BY <1>4, <2>1, <3>1 DEF NodeInv, StoreInv, AckedDurable
  <2> QED
    BY <1>0, <1>1, <1>4, <2>2 DEF OneEntryPerIP, Entries
<1>5. PICK a \in Stable : a = req.ip
  OBVIOUS
<1>6. PICK until \in 0 .. now + LeaseTime : until = u
  BY <1>0, <1>2
<1>7. Service!Grant(m, a, until)
  BY <1>2, <1>3, <1>4, <1>5, <1>6 DEF Grants, GrantOf, Service!Grant, Service!Running
<1> QED
  BY <1>7

\* An ACK for another address ends the grant the client had.
LEMMA AckIsGiveUp ==
  ASSUME NodeTypeInv, now' = now, NEW m \in Macs,
         held' = [held EXCEPT ![m] =
                    [ip |-> req.ip, until |-> req.arrived + LeaseTime]],
         req.ip \notin Stable
  PROVE  Service!GiveUp(m)
<1>1. /\ held'[m] = [ip |-> req.ip, until |-> req.arrived + LeaseTime]
      /\ \A n \in Macs \ {m} : held'[n] = held[n]
  BY DEF NodeTypeInv, NodeTypeOK
<1>2. /\ GrantOf(held'[m]) = None
      /\ \A n \in Macs \ {m} : GrantOf(held'[n]) = GrantOf(held[n])
  BY <1>1 DEF GrantOf
<1>3. Grants' = [Grants EXCEPT ![m] = None]
  <2>1. Grants' = [n \in Macs |-> GrantOf(held'[n])]
    BY DEF Grants, GrantOf
  <2>2. \A n \in Macs : GrantOf(held'[n]) = IF n = m THEN None ELSE GrantOf(held[n])
    BY <1>2
  <2> QED
    BY <2>1, <2>2 DEF Grants
<1> QED
  BY <1>3 DEF Grants, GrantOf, Service!GiveUp

\* Every step of the node is a step of the address service, or stutters there.
LEMMA NodeStepIsServiceStep ==
  ASSUME Steady
  PROVE  NodeInv /\ [NodeNext]_nodeVars => [Service!SvcNext]_(Service!svcVars)
<1> SUFFICES ASSUME NodeInv, [NodeNext]_nodeVars
             PROVE  [Service!SvcNext]_(Service!svcVars)
  OBVIOUS
<1> USE DEF queue, clients
<1>0. NodeTypeInv /\ TypeInv /\ held \in [Macs -> Held \cup {None}]
  BY DEF NodeInv, NodeTypeInv, NodeTypeOK
<1>1. ASSUME UNCHANGED <<held, now>>
      PROVE  [Service!SvcNext]_(Service!svcVars)
  BY <1>1, QuietIsStutter
<1>2. ASSUME now' = now, NEW m \in Macs, held' = [held EXCEPT ![m] = None]
      PROVE  [Service!SvcNext]_(Service!svcVars)
  BY <1>0, <1>2, DropIsGiveUp DEF Service!SvcNext
<1>3. ASSUME now' = now, NEW p \in Packet, TakeNak(p) \/ Lost
      PROVE  [Service!SvcNext]_(Service!svcVars)
  <2>1. p.mac \in Macs
    BY DEF Packet
  <2> QED
    BY <1>1, <1>2, <1>3, <2>1 DEF TakeNak, Lost
<1>4. CASE NodeTick
  BY <1>0, <1>4, TickIsAdvance DEF Service!SvcNext
<1>5. CASE NodeAck
  <2>1. pc = "ack" /\ now' = now
    BY <1>5 DEF NodeAck, SendAck, clock
  <2>2. CASE UNCHANGED held
    BY <1>1, <2>1, <2>2
  <2>3. CASE held' = [held EXCEPT ![req.mac] =
                        [ip |-> req.ip, until |-> req.arrived + LeaseTime]]
    <3>1. PICK m \in Macs : m = req.mac
      BY <2>1, AckedAddress
    <3>2. held' = [held EXCEPT ![m] = [ip |-> req.ip, until |-> req.arrived + LeaseTime]]
      BY <2>3, <3>1
    <3>3. CASE req.ip \in Stable
      <4>1. \E a \in Stable : \E until \in 0 .. now + LeaseTime :
              Service!Grant(m, a, until)
        BY <2>1, <3>1, <3>2, <3>3, AckIsGrant
      <4> QED
        BY <4>1 DEF Service!SvcNext
    <3>4. CASE req.ip \notin Stable
      BY <1>0, <2>1, <3>2, <3>4, AckIsGiveUp DEF Service!SvcNext
    <3> QED
      BY <3>3, <3>4
  <2> QED
    BY <1>5, <2>2, <2>3 DEF NodeAck, TakeAck, Lost
<1>6. CASE NodeAbort
  <2>1. req \in Packet /\ now' = now
    BY <1>0, <1>6 DEF NodeAbort, AbortRequest, TypeInv, Shape, clock
  <2> QED
    BY <1>3, <1>6, <2>1 DEF NodeAbort
<1>7. ASSUME NEW p \in requests, ServeRequest(p)
      PROVE  [Service!SvcNext]_(Service!svcVars)
  <2>1. p \in Packet /\ now' = now
    BY <1>0, <1>7 DEF ServeRequest, DropRequest, NakRequest, ClaimRequest, NodeTypeInv,
       NodeTypeOK, vars, clock
  <2> QED
    BY <1>3, <1>7, <2>1 DEF ServeRequest
<1>8. ASSUME NEW m \in Macs,
             \/ \E ip \in IPs : SendRequest(m, ip)
             \/ Retransmit(m) \/ SendRelease(m) \/ Destroy(m)
      PROVE  [Service!SvcNext]_(Service!svcVars)
  <2>1. now' = now
    BY <1>8 DEF SendRequest, Retransmit, SendRelease, Destroy, vars, clock
  <2>2. held' = held \/ held' = [held EXCEPT ![m] = None]
    BY <1>8 DEF SendRequest, Retransmit, SendRelease, Destroy
  <2> QED
    BY <1>1, <1>2, <2>1, <2>2
<1>9. CASE \/ Quiet \/ Die
           \/ \E m \in Macs : Reclaimed(m) \/ NotReclaimed(m)
           \/ \E p \in releases : ServeRelease(p)
           \/ UNCHANGED nodeVars
  <2>1. UNCHANGED held
    BY <1>9 DEF Quiet, Die, Reclaimed, NotReclaimed, ServeRelease, nodeVars
  <2>2. now' = now
    <3>1. CASE Quiet
      BY <3>1 DEF Quiet, Start, Load, LoadFails, Restore, RestoreOne, Discover,
         DiscoverAgain, DiscoverFresh, FreeIP, FreeOne, RouteRequest, CommitRequest,
         SaveRequest, SaveRequestFails, Cleanup, clock
    <3>2. CASE Die
      BY <3>2 DEF Die, Stop, Crash, Gone, clock
    <3>3. CASE \E m \in Macs : Reclaimed(m) \/ NotReclaimed(m)
      BY <3>3 DEF Reclaimed, NotReclaimed, ControlRelease, ReleaseLease, vars, clock
    <3>4. CASE \E p \in releases : ServeRelease(p)
      BY <3>4 DEF ServeRelease, IgnoreRelease, HandleRelease, ReleaseLease, vars, clock
    <3> QED
      BY <1>9, <3>1, <3>2, <3>3, <3>4 DEF nodeVars, vars, clock
  <2> QED
    BY <1>1, <2>1, <2>2
<1> QED
  BY <1>4, <1>5, <1>6, <1>7, <1>8, <1>9 DEF NodeNext

\* The DHCP server, with its clients, its queue, its restarts and its failing
\* disk and netlink calls, implements AddressService: stable addresses are
\* granted for a bounded time, cut to the whole second, and never to two
\* clients at once.
THEOREM NodeImplementsService ==
  ASSUME Steady
  PROVE  NodeSpec => ImplementsService
<1>1. NodeInit => Service!SvcInit
  BY DEF NodeInit, Init, Empty, Service!SvcInit
<1>2. NodeInv /\ [NodeNext]_nodeVars => [Service!SvcNext]_(Service!svcVars)
  BY NodeStepIsServiceStep
<1>3. NodeInv /\ [NodeNext]_nodeVars => NodeInv'
  BY NodeInvStep
<1> QED
  BY <1>1, <1>2, <1>3, NodeInvInit, PTL DEF NodeSpec, ImplementsService, Service!SvcSpec

=============================================================================
