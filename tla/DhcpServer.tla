----------------------------- MODULE DhcpServer -----------------------------
(***************************************************************************)
(* The DHCP server of cocoon-net (package dhcp): its pool, leases and      *)
(* offers, the lease file and the kernel's /32 host routes, over any       *)
(* number of daemon lives.                                                 *)
(*                                                                         *)
(* Every handler runs under Server.lifecycleMu, so handlers never          *)
(* interleave with each other; what falls between their steps is the       *)
(* clock, and the death of the process.  A handler is therefore cut into   *)
(* steps exactly where it has changed something that outlives the process  *)
(* (a route, the file) or may fail, and pc is the step the holder of the   *)
(* lock has reached.  All clock readings of one step are one instant.      *)
(*                                                                         *)
(* A packet is stamped when it is read from the socket and then waits for  *)
(* the lock in a goroutine of its own.  Nothing is assumed of the clients  *)
(* here: whatever packet may have arrived since the daemon came up may be  *)
(* the next one served.  DhcpNode adds the clients and the queue.          *)
(***************************************************************************)
EXTENDS DhcpTables

CONSTANTS
  Pools,    \* the sets of addresses pool.json may list at a daemon start
  MaxTime,  \* bound on the clock
  Envs      \* the sets of failures an environment may have, see FaultKinds

FaultKinds ==
  { "stop",      \* the daemon is stopped gracefully and may be started again
    "crash",     \* the daemon dies between two steps
    "save",      \* writing the lease file fails
    "read",      \* the lease file cannot be read or parsed at start
    "route",     \* a netlink call fails, or an ACK cannot be built
    "straddle" } \* a lease expires between the clock readings of load and restoreLeases

ASSUME ServerAssumption ==
  /\ \A P \in Pools : P \subseteq IPs
  /\ Pools # {}
  /\ MaxTime \in Nat \ {0}
  /\ \A E \in Envs : E \subseteq FaultKinds

VARIABLES
  now,      \* the clock
  env,      \* the failures this environment has; never changes
  phase,    \* "down", "restoring" (inside restoreLeases) or "up"
  boot,     \* when this daemon came up
  pool,     \* the addresses the ipPool was created with
  free, used, \* ipPool.free and ipPool.used
  leases,   \* leaseStore.leases
  offers,   \* pendingOffers.offers
  routes,   \* kernel: addresses with a /32 route; survives the daemon
  file,     \* the lease file; survives the daemon
  pc,       \* step of the handler that holds lifecycleMu
  req,      \* the REQUEST being served
  fresh,    \* it claimed its slot from the pool (~alreadyHeld)
  freeing,  \* addresses the handler has still to pass to freeIP
  todo      \* the activeLeases() snapshot restoreLeases has still to visit

clock  == <<now, env>>
life   == <<phase, boot, pool, todo>>
slots  == <<free, used>>
tables == <<leases, offers>>
outer  == <<routes, file>>
lock   == <<pc, req, fresh, freeing>>
vars   == <<clock, life, slots, tables, outer, lock>>

Packet == [mac : Macs, ip : IPs \cup {None}, arrived : Nat]

TypeOK ==
  /\ now \in Nat /\ env \in Envs
  /\ phase \in {"down", "restoring", "up"}
  /\ boot \in Nat
  /\ pool \subseteq IPs /\ free \subseteq IPs /\ used \subseteq IPs
  /\ leases \in LeaseTable
  /\ offers \in OfferTable
  /\ routes \subseteq IPs
  /\ file \in FileTable
  /\ pc \in {"idle", "claimed", "routed", "save", "ack", "free"}
  /\ req \in Packet \cup {None}
  /\ fresh \in BOOLEAN
  /\ freeing \subseteq IPs
  /\ todo \subseteq Macs

Init ==
  /\ now = 1 /\ env \in Envs
  /\ phase = "down" /\ boot = 0 /\ pool = {} /\ todo = {}
  /\ free = {} /\ used = {}
  /\ leases = Empty /\ offers = Empty
  /\ routes = {} /\ file = Empty
  /\ pc = "idle" /\ req = None /\ fresh = FALSE /\ freeing = {}

-----------------------------------------------------------------------------
(* The clock, the life of the daemon, and the restore on start.            *)

Tick ==
  /\ now < MaxTime
  /\ now' = now + 1
  /\ UNCHANGED <<env, life, slots, tables, outer, lock>>

\* A new process: New builds the pool, load fills the lease table, and
\* restoreLeases takes its snapshot of the active ones.
Load(P) ==
  /\ phase = "down"
  /\ \/ "straddle" \in env
     \/ \A m \in Entries(file) : file[m].expiry # now
  /\ pool' = P /\ free' = P /\ used' = {}
  /\ leases' = Loaded(file, now)
  /\ todo' = {m \in Macs : Live(leases'[m], now)}
  /\ phase' = IF todo' = {} THEN "up" ELSE "restoring"
  /\ boot' = now
  /\ UNCHANGED <<clock, offers, outer, lock>>

\* The file is there but unreadable: an empty table, and nothing is restored.
LoadFails(P) ==
  /\ "read" \in env
  /\ phase = "down"
  /\ pool' = P /\ free' = P /\ used' = {}
  /\ phase' = "up" /\ boot' = now
  /\ UNCHANGED <<clock, todo, tables, outer, lock>>

\* addRoute and delRoute: what the kernel's table may be afterwards when the
\* caller only logs the error.
RouteAdded(ip)   == {routes \cup {ip}} \cup {r \in {routes} : "route" \in env}
RouteDeleted(ip) == {routes \ {ip}} \cup {r \in {routes} : "route" \in env}

\* One iteration of restoreLeases: mark the slot and re-add the route, or
\* drop a lease whose address left the pool.
RestoreOne(m) ==
  /\ phase = "restoring"
  /\ m \in todo
  /\ LET ip == leases[m].ip IN
       \/ /\ ip \in free \cup used
          /\ free' = free \ {ip} /\ used' = used \cup {ip}
          /\ routes' \in RouteAdded(ip)
          /\ UNCHANGED leases
       \/ /\ ip \notin free \cup used
          /\ leases' = Without(leases, {m})
          /\ routes' \in RouteDeleted(ip)
          /\ UNCHANGED slots
  /\ todo' = todo \ {m}
  /\ phase' = IF todo' = {} THEN "up" ELSE "restoring"
  /\ boot' = now
  /\ UNCHANGED <<clock, pool, offers, file, lock>>

\* The process is gone: everything but the routes and the file.
Gone ==
  /\ phase' = "down" /\ boot' = 0 /\ pool' = {} /\ todo' = {}
  /\ free' = {} /\ used' = {}
  /\ leases' = Empty /\ offers' = Empty
  /\ pc' = "idle" /\ req' = None /\ fresh' = FALSE /\ freeing' = {}
  /\ UNCHANGED <<clock, outer>>

\* Run's clean path ends by taking lifecycleMu for good, so no handler is cut.
Stop ==
  /\ "stop" \in env
  /\ phase = "up" /\ pc = "idle"
  /\ Gone

\* A kill, a panic, or one of Run's error returns, which do not take the lock.
Crash ==
  /\ "crash" \in env
  /\ phase # "down"
  /\ Gone

-----------------------------------------------------------------------------
(* Pool and offers.                                                        *)

Locked == phase = "up" /\ pc = "idle"

\* ipPool.release, for each address of S, whatever the state of its slot.
Release(S) ==
  /\ free' = free \cup S
  /\ used' = used \ S

\* ipPool.allocate and tryClaim of one free address, after releasing S.
ReleaseThenTake(S, ip) ==
  /\ free' = (free \cup S) \ {ip}
  /\ used' = (used \ S) \cup {ip}

AddOffer(m, ip) ==
  offers' = [offers EXCEPT ![m] = [ip |-> ip, expiry |-> now + OfferTime]]

\* pendingOffers.ipForMAC reports the address of an offer past its time.
StaleOffer(m) ==
  IF offers[m] # None /\ ~Live(offers[m], now) THEN {offers[m].ip} ELSE {}

\* handleDiscover when an active lease or a live offer names the address.
DiscoverAgain(m) ==
  /\ Locked
  /\ \/ Live(leases[m], now) /\ UNCHANGED offers
     \/ /\ ~Live(leases[m], now)
        /\ Live(offers[m], now)
        /\ AddOffer(m, offers[m].ip)
  /\ UNCHANGED <<clock, life, slots, leases, outer, lock>>

\* handleDiscover with nothing live: reclaim a stale offer, then allocate
\* any free address, the reclaimed one included; none at all is no reply.
DiscoverFresh(m) ==
  /\ Locked
  /\ ~Live(leases[m], now)
  /\ ~Live(offers[m], now)
  /\ LET stale == StaleOffer(m) IN
       \/ \E ip \in free \cup stale :
            ReleaseThenTake(stale, ip) /\ AddOffer(m, ip)
       \/ /\ free \cup stale = {}
          /\ UNCHANGED <<offers, slots>>
  /\ UNCHANGED <<clock, life, leases, outer, lock>>

-----------------------------------------------------------------------------
(* handleRequest.                                                          *)

\* p was read since this daemon came up, and its goroutine gets the lock.
Served(p) ==
  /\ Locked
  /\ p.arrived \in boot .. now

RequestDropped(p) ==
  p.ip = None \/ Superseded(leases[p.mac], p.arrived, now)

AlreadyHeld(p) ==
  \/ HasLive(offers, p.mac, p.ip, now)
  \/ HasLive(leases, p.mac, p.ip, now)

\* Mutant: the result of tryClaim is not looked at.
RefusedIfLeased(p) == LeasedToOther(leases, p.mac, p.ip, now)

RequestRefused(p) ==
  \/ LeasedToOther(leases, p.mac, p.ip, now)
  \/ ~AlreadyHeld(p) /\ p.ip \notin free

\* No address, or a later REQUEST holds the lease: no reply.
DropRequest(p) ==
  /\ Served(p)
  /\ RequestDropped(p)
  /\ UNCHANGED vars

NakRequest(p) ==
  /\ Served(p)
  /\ ~RequestDropped(p)
  /\ RequestRefused(p)
  /\ UNCHANGED vars

ClaimRequest(p) ==
  /\ Served(p)
  /\ ~RequestDropped(p)
  /\ ~RequestRefused(p)
  /\ req' = p /\ pc' = "claimed"
  /\ fresh' = ~AlreadyHeld(p)
  /\ IF AlreadyHeld(p) THEN UNCHANGED slots ELSE ReleaseThenTake({}, p.ip)
  /\ UNCHANGED <<clock, life, tables, outer, freeing>>

Unlock == pc' = "idle" /\ req' = None /\ fresh' = FALSE /\ freeing' = {}

\* Mutant: a claim is not undone.
AbortKeepingClaim ==
  /\ "route" \in env
  /\ pc = "claimed"
  /\ Unlock
  /\ UNCHANGED <<clock, life, slots, tables, outer>>

\* The reply cannot be built, or addRoute fails: undo a fresh claim.
AbortRequest ==
  /\ "route" \in env
  /\ pc = "claimed"
  /\ IF fresh THEN Release({req.ip}) ELSE UNCHANGED slots
  /\ Unlock
  /\ UNCHANGED <<clock, life, tables, outer>>

\* Mutant: an addRoute error is only logged.
RouteMaybe ==
  /\ pc = "claimed"
  /\ routes' \in RouteAdded(req.ip)
  /\ pc' = "routed"
  /\ UNCHANGED <<clock, life, slots, tables, file, req, fresh, freeing>>

RouteRequest ==
  /\ pc = "claimed"
  /\ routes' = routes \cup {req.ip}
  /\ pc' = "routed"
  /\ UNCHANGED <<clock, life, slots, tables, file, req, fresh, freeing>>

\* Mutant: the offered address goes back to the pool even when it is the one
\* requested.
OfferAlwaysLeft(m, ip) == IF offers[m] # None THEN {offers[m].ip} ELSE {}

\* Another address the client was offered, which its REQUEST leaves behind.
OfferLeft(m, ip) ==
  IF offers[m] # None /\ offers[m].ip # ip THEN {offers[m].ip} ELSE {}

\* offers.remove, leases.add and, for a rebind, freeIP of the old address.
CommitRequest ==
  /\ pc = "routed"
  /\ LET m   == req.mac
         old == Rebound(leases, m, req.ip)
     IN  /\ offers' = Without(offers, {m})
         /\ leases' = LeaseAdd(leases, m, req.ip, req.arrived)
         /\ Release(OfferLeft(m, req.ip) \cup old)
         /\ routes' \in IF old = {} THEN {routes}
                        ELSE RouteDeleted(leases[m].ip)
  /\ pc' = "save"
  /\ UNCHANGED <<clock, life, file, req, fresh, freeing>>

\* Mutant: only a client the file does not know yet is saved.
SaveNewClient ==
  /\ pc = "save"
  /\ file' = IF file[req.mac] = None THEN FileImage(leases) ELSE file
  /\ pc' = "ack"
  /\ UNCHANGED <<clock, life, slots, tables, routes, req, fresh, freeing>>

SaveRequest ==
  /\ pc = "save"
  /\ file' = FileImage(leases)
  /\ pc' = "ack"
  /\ UNCHANGED <<clock, life, slots, tables, routes, req, fresh, freeing>>

\* Mutant: the ACK goes out although the save failed.
AckUnsaved ==
  /\ "save" \in env
  /\ pc = "save"
  /\ pc' = "ack"
  /\ UNCHANGED <<clock, life, slots, tables, outer, req, fresh, freeing>>

\* The lease stays in memory, unsaved and unacknowledged.
SaveRequestFails ==
  /\ "save" \in env
  /\ pc = "save"
  /\ Unlock
  /\ UNCHANGED <<clock, life, slots, tables, outer>>

\* The ACK is written to the socket, or is lost: the same to the server.
SendAck ==
  /\ pc = "ack"
  /\ Unlock
  /\ UNCHANGED <<clock, life, slots, tables, outer>>

-----------------------------------------------------------------------------
(* Release, the control API, and the sweep.                                *)

\* The entries of ms are taken out of the table and the rest is saved; on
\* failure restoreAll undoes it.
TakeAndSave(ms, saved) ==
  /\ saved \/ "save" \in env
  /\ LET taken == Without(leases, ms) IN
       IF saved
       THEN /\ leases' = taken
            /\ file' = FileImage(taken)
            /\ pc' = "free"
            /\ freeing' = {leases[m].ip : m \in ms}
       ELSE /\ leases' = RestoreAll(taken, leases, ms)
            /\ UNCHANGED <<file, pc, freeing>>

\* releaseLeaseLocked up to its freeIP call.
ReleaseLease(m, saved) ==
  /\ Locked
  /\ leases[m] # None
  /\ TakeAndSave({m}, saved)
  /\ UNCHANGED <<clock, life, slots, offers, routes, req, fresh>>

\* handleRelease frees only the address it comes from, and only for its
\* holder; a packet older than the lease is ignored.
ReleaseAccepted(p) ==
  /\ Live(leases[p.mac], now)
  /\ p.ip = leases[p.mac].ip
  /\ ~Superseded(leases[p.mac], p.arrived, now)

IgnoreRelease(p) ==
  /\ Served(p)
  /\ ~ReleaseAccepted(p)
  /\ UNCHANGED vars

HandleRelease(p, saved) ==
  /\ Served(p)
  /\ ReleaseAccepted(p)
  /\ ReleaseLease(p.mac, saved)

\* DELETE /v1/leases/{mac}: it carries no time stamp, and releasing a MAC
\* without a lease succeeds.
ControlRelease(m, saved) ==
  \/ ReleaseLease(m, saved)
  \/ Locked /\ leases[m] = None /\ saved /\ UNCHANGED vars

\* freeIP: the route first, then the slot.
FreeOne(ip) ==
  /\ pc = "free"
  /\ ip \in freeing
  /\ routes' \in RouteDeleted(ip)
  /\ Release({ip})
  /\ freeing' = freeing \ {ip}
  /\ pc' = IF freeing' = {} THEN "idle" ELSE "free"
  /\ UNCHANGED <<clock, life, tables, file, req, fresh>>

\* Mutants: the sweep forgets one of the two tables.
NoStaleOffers == {}
NoDeadLeases  == {}

\* expireOld of the offers and of the leases.
StaleOffers == {m \in Macs : Expired(offers[m], now)}
DeadLeases  == {m \in Macs : Expired(leases[m], now)}

\* One turn of cleanupLoop up to its freeIP calls.
Cleanup(saved) ==
  /\ Locked
  /\ offers' = Without(offers, StaleOffers)
  /\ Release({offers[m].ip : m \in StaleOffers})
  /\ IF DeadLeases = {}
     THEN saved /\ UNCHANGED <<leases, file, pc, freeing>>
     ELSE TakeAndSave(DeadLeases, saved)
  /\ UNCHANGED <<clock, life, routes, req, fresh>>

-----------------------------------------------------------------------------
Packets == [mac : Macs, ip : IPs \cup {None}, arrived : 1 .. MaxTime]

Start    == \E P \in Pools : Load(P) \/ LoadFails(P)
Restore  == \E m \in Macs : RestoreOne(m)
Discover == \E m \in Macs : DiscoverAgain(m) \/ DiscoverFresh(m)

HandleRequest == \E p \in Packets :
                   DropRequest(p) \/ NakRequest(p) \/ ClaimRequest(p)
FinishRequest == \/ AbortRequest \/ RouteRequest \/ CommitRequest
                 \/ SaveRequest \/ SaveRequestFails \/ SendAck
FreeIP        == \E ip \in IPs : FreeOne(ip)

Reclaim == \E saved \in BOOLEAN :
             \/ \E p \in Packets : HandleRelease(p, saved)
             \/ \E m \in Macs : ControlRelease(m, saved)
             \/ Cleanup(saved)

Next ==
  \/ Tick \/ Start \/ Restore \/ Stop \/ Crash
  \/ Discover \/ HandleRequest \/ FinishRequest \/ FreeIP
  \/ Reclaim \/ \E p \in Packets : IgnoreRelease(p)

Spec == Init /\ [][Next]_vars

-----------------------------------------------------------------------------
(* Properties.                                                             *)

\* The lease entries whose slot is marked: all but those still to restore.
Marked == Without(leases, todo)

\* The slot a REQUEST has claimed and not yet turned into a lease.
Claim == IF pc \in {"claimed", "routed"} /\ fresh THEN {req.ip} ELSE {}

\* Every slot of the pool is either free or used and never both, and a used
\* one is used for a reason: a lease, an offer, a REQUEST in progress or a
\* pending freeIP.  No path of handleRequest, handleRelease, cleanupLoop or
\* restoreLeases, failures included, leaks a slot or frees one still owned.
SlotsAccounted ==
  phase # "down" =>
    /\ free \cap used = {}
    /\ free \cup used = pool
    /\ used = IpsOf(Marked) \cup IpsOf(offers) \cup Claim \cup freeing

OneEntryPerIP(tab) ==
  \A m, n \in Entries(tab) : tab[m].ip = tab[n].ip => m = n

\* No address has two owners: two leases, two offers, a lease and an offer,
\* or any of these and a claim or a pending freeIP.  So the other-MAC
\* eviction of leaseStore.add never happens, and freeIP never frees an
\* address that has been handed on.
ExclusiveSlots ==
  /\ OneEntryPerIP(leases)
  /\ OneEntryPerIP(offers)
  /\ IpsOf(Marked) \cap IpsOf(offers) = {}
  /\ (IpsOf(Marked) \cup IpsOf(offers)) \cap (Claim \cup freeing) = {}
  /\ Claim \cap freeing = {}

\* A lease granted in this daemon's life has its route, whatever netlink
\* calls failed on the way and whoever freed an address in between: "the /32
\* lands before the lease so the client never leases an unreachable IP".
GrantedRouted ==
  \A m \in Entries(leases) : leases[m].granted > 0 => leases[m].ip \in routes

\* What a restart would bring back is the lease the running server has: a live
\* line of the file, inside the pool, names its MAC's address in memory whenever
\* the lock is free.  One lease may be back that was given up: where a rebind
\* granted in this life could not be saved, the file keeps the address before
\* it.  (An unreadable file is left alone until the next save, so it is
\* excluded.)
NoResurrection ==
  "read" \notin env /\ Locked =>
    \A m \in Macs : Live(file[m], now) /\ file[m].ip \in pool =>
      /\ leases[m] # None
      /\ \/ leases[m].ip = file[m].ip
         \/ "save" \in env /\ leases[m].granted > 0

\* Between two handlers of one daemon life exactly the leased addresses are
\* routed, whichever saves fail: "only currently-leased IPs are routed"
\* (docs/dhcp.md).
RoutesExact == env \subseteq {"save"} /\ Locked => routes = IpsOf(leases)

\* The half of it that leaves no route behind, over restarts too.
RoutesOnlyLeased == Locked => routes \subseteq IpsOf(leases)

-----------------------------------------------------------------------------
(* The inductive invariants, for DhcpServerProofs:                         *)
(* OwnerInv is behind SlotsAccounted and ExclusiveSlots, and the others    *)
(* are inductive together with it.                                         *)

\* Which parts of the state the phase and the step of the lock holder allow:
\* handlers run only once the restore is over, the restore visits only leases
\* it has loaded, and a REQUEST under way names an address.
Shape ==
  /\ todo \subseteq Entries(leases)
  /\ phase # "restoring" => todo = {}
  /\ phase # "up" => pc = "idle" /\ offers = Empty
  /\ phase = "down" => leases = Empty
  /\ pc # "free" => freeing = {}
  /\ pc \in {"claimed", "routed", "save", "ack"} =>
       req \in Packet /\ req.ip \in IPs

\* A REQUEST that claimed nothing stands on its client's own offer or lease.
ClaimOrHeld ==
  pc \in {"claimed", "routed"} /\ ~fresh =>
    \/ offers[req.mac] # None /\ offers[req.mac].ip = req.ip
    \/ leases[req.mac] # None /\ leases[req.mac].ip = req.ip

TypeInv == TypeOK /\ Shape

OwnerInv ==
  /\ TypeInv
  /\ ClaimOrHeld
  /\ OneEntryPerIP(file)
  /\ SlotsAccounted
  /\ ExclusiveSlots

\* Behind GrantedRouted: the route of a REQUEST that is about to be committed
\* is in place.
RoutedInv ==
  /\ GrantedRouted
  /\ pc = "routed" => req.ip \in routes

\* A lease granted in this life that the file may not have: its save is to
\* come, or saves may fail.
Unsaved(m) ==
  leases[m].granted > 0 /\ ("save" \in env \/ (pc = "save" /\ req.mac = m))

\* Behind NoResurrection: the live lines of the file have their lease from the
\* load on, whoever holds the lock, and the restore drops only what the file
\* names outside the pool.
BackedInv ==
  /\ pc \in {"claimed", "routed"} => req.arrived > 0
  /\ "read" \notin env =>
       /\ phase # "down" =>
            \A m \in Macs : Live(file[m], now) /\ file[m].ip \in pool =>
              leases[m] # None /\ (leases[m].ip = file[m].ip \/ Unsaved(m))
       /\ phase = "restoring" =>
            \A m \in Entries(leases) : file[m] # None /\ file[m].ip = leases[m].ip

\* Behind RoutesExact: a handler is ahead with the route of the REQUEST it
\* serves and behind with those it has still to free.
ExactInv ==
  env \subseteq {"save"} =>
    /\ phase # "restoring"
    /\ phase = "down" => routes = {} /\ file = Empty
    /\ phase = "up" =>
         routes = IpsOf(leases) \cup freeing
                    \cup (IF pc = "routed" THEN {req.ip} ELSE {})

-----------------------------------------------------------------------------
(* Liveness.  A handler that holds the lock runs on; systemd restarts the  *)
(* daemon; cleanupLoop ticks for ever and Go's mutex does not starve it.   *)
(* Strong fairness of the sweep that saves: the lock is free again and     *)
(* again, and the disk does not fail for ever.                             *)

Fairness ==
  /\ WF_vars(Start)
  /\ WF_vars(Restore)
  /\ WF_vars(FinishRequest)
  /\ WF_vars(FreeIP)
  /\ SF_vars(Cleanup(TRUE))

FairSpec == Spec /\ Fairness

\* An offer the client never takes up goes back to the pool.
OffersReclaimed ==
  \A m \in Macs : Expired(offers[m], now) ~> ~Expired(offers[m], now)

\* An expired lease leaves the table, and its slot the used set, or is
\* renewed.
LeasesReclaimed ==
  \A m \in Macs : Expired(leases[m], now) ~> ~Expired(leases[m], now)

=============================================================================
