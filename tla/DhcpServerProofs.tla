-------------------------- MODULE DhcpServerProofs --------------------------
(***************************************************************************)
(* Proofs about DhcpServer, for any MACs, addresses, pools and times.      *)
(***************************************************************************)
EXTENDS DhcpServer, TLAPS

-----------------------------------------------------------------------------
(* What the table operations return.                                       *)

\* Cutting an expiry to the second yields a time.
LEMMA TruncType ==
  ASSUME NEW t \in Nat
  PROVE  Trunc(t) \in Nat /\ Trunc(t) <= t
BY TimeAssumption, SMT DEF Trunc

\* leaseStore.add keeps the table a table.
LEMMA LeaseAddType ==
  ASSUME NEW tab \in LeaseTable, NEW m \in Macs, NEW ip \in IPs, NEW t \in Nat
  PROVE  LeaseAdd(tab, m, ip, t) \in LeaseTable
BY TimeAssumption DEF LeaseAdd, LeaseTable, Lease

\* Deleting keys keeps a lease table and an offer table.
LEMMA WithoutType ==
  ASSUME NEW ms
  PROVE  /\ \A tab \in LeaseTable : Without(tab, ms) \in LeaseTable
         /\ \A tab \in OfferTable : Without(tab, ms) \in OfferTable
BY DEF Without, LeaseTable, OfferTable

\* restoreAll of entries the table had keeps the table a table.
LEMMA RestoreAllType ==
  ASSUME NEW tab \in LeaseTable, NEW old \in LeaseTable, NEW ms
  PROVE  RestoreAll(tab, old, ms) \in LeaseTable
BY DEF RestoreAll, LeaseTable

\* save writes a well-formed file: every line keeps its address and gets a
\* time.
LEMMA FileImageType ==
  ASSUME NEW tab \in LeaseTable
  PROVE  FileImage(tab) \in FileTable
BY TruncType DEF FileImage, FileTable, LeaseTable, Lease, LeaseLine

\* load builds a well-formed lease table from any well-formed file.
LEMMA LoadedType ==
  ASSUME NEW f \in FileTable, NEW t \in Nat
  PROVE  Loaded(f, t) \in LeaseTable
BY DEF Loaded, FileTable, LeaseTable, Lease, LeaseLine

\* addRoute and delRoute, failing or not, leave a set of addresses.
LEMMA RoutesType ==
  ASSUME routes \subseteq IPs, NEW ip \in IPs
  PROVE  /\ \A r \in RouteAdded(ip) : r \subseteq IPs
         /\ \A r \in RouteDeleted(ip) : r \subseteq IPs
BY DEF RouteAdded, RouteDeleted

-----------------------------------------------------------------------------
(* Type correctness.                                                       *)

\* Before the first start everything has its type, and no handler runs.
LEMMA TypeInit == Init => TypeInv
<1> SUFFICES ASSUME Init PROVE TypeInv
  OBVIOUS
<1>1. Empty \in LeaseTable /\ Empty \in OfferTable /\ Empty \in FileTable
  BY DEF Empty, LeaseTable, OfferTable, FileTable
<1>2. TypeOK
  BY <1>1 DEF Init, TypeOK
<1>3. Shape
  BY DEF Init, Shape
<1> QED
  BY <1>2, <1>3 DEF TypeInv

\* Every step of the server keeps the types, and keeps handlers within the
\* phase that allows them.
LEMMA TypeStep == TypeInv /\ [Next]_vars => TypeInv'
<1> SUFFICES ASSUME TypeInv, [Next]_vars
             PROVE  TypeInv'
  OBVIOUS
<1> USE DEF TypeInv, TypeOK
<1> USE DEF clock, life, slots, tables, outer, lock
<1>1. CASE Tick
  BY <1>1 DEF Tick, Shape, Entries
<1>2. ASSUME NEW P \in Pools, Load(P)
      PROVE  TypeInv'
  <2>1. leases' \in LeaseTable
    BY <1>2, LoadedType DEF Load
  <2>2. todo' \subseteq Entries(leases')
    BY <1>2 DEF Load, Entries, Live
  <2> QED
    BY <1>2, <2>1, <2>2, ServerAssumption DEF Load, Shape
<1>3. ASSUME NEW P \in Pools, LoadFails(P)
      PROVE  TypeInv'
  BY <1>3, ServerAssumption DEF LoadFails, Shape, Entries
<1>4. ASSUME NEW m \in Macs, RestoreOne(m)
      PROVE  TypeInv'
  <2>1. leases[m].ip \in IPs
    BY <1>4 DEF RestoreOne, Shape, Entries, LeaseTable, Lease
  <2>2. leases' \in LeaseTable
    BY <1>4, WithoutType DEF RestoreOne
  <2>3. routes' \subseteq IPs
    BY <1>4, <2>1, RoutesType DEF RestoreOne
  <2>4. free' \subseteq IPs /\ used' \subseteq IPs
    BY <1>4, <2>1 DEF RestoreOne
  <2>5. todo' \subseteq Entries(leases')
    BY <1>4 DEF RestoreOne, Shape, Entries, Without
  <2> QED
    BY <1>4, <2>2, <2>3, <2>4, <2>5 DEF RestoreOne, Shape
<1>5. CASE Gone
  BY <1>5 DEF Gone, Empty, LeaseTable, OfferTable, Shape, Entries
<1>6. CASE Discover
  <2>1. PICK m \in Macs : DiscoverAgain(m) \/ DiscoverFresh(m)
    BY <1>6 DEF Discover
  <2>2. StaleOffer(m) \subseteq IPs
    BY DEF StaleOffer, OfferTable, Offer
  <2>3. ASSUME NEW ip \in IPs, AddOffer(m, ip)
        PROVE  offers' \in OfferTable
    BY <2>3, TimeAssumption DEF AddOffer, OfferTable, Offer
  <2>4. CASE DiscoverAgain(m)
    <3>1. offers' \in OfferTable
      BY <2>3, <2>4 DEF DiscoverAgain, Live, OfferTable, Offer
    <3> QED
      BY <2>4, <3>1 DEF DiscoverAgain, Locked, Shape, Entries
  <2>5. CASE DiscoverFresh(m)
    <3>1. offers' \in OfferTable
      BY <2>2, <2>3, <2>5 DEF DiscoverFresh
    <3>2. free' \subseteq IPs /\ used' \subseteq IPs
      BY <2>2, <2>5 DEF DiscoverFresh, ReleaseThenTake
    <3> QED
      BY <2>5, <3>1, <3>2 DEF DiscoverFresh, Locked, Shape, Entries
  <2> QED
    BY <2>1, <2>4, <2>5
<1>7. ASSUME NEW p \in Packets, ClaimRequest(p)
      PROVE  TypeInv'
  <2>1. p \in Packet /\ p.ip \in IPs
    BY <1>7, ServerAssumption DEF ClaimRequest, RequestDropped, Packets, Packet
  <2>2. free' \subseteq IPs /\ used' \subseteq IPs
    BY <1>7, <2>1 DEF ClaimRequest, ReleaseThenTake
  <2>3. fresh' \in BOOLEAN
    BY <1>7 DEF ClaimRequest
  <2> QED
    BY <1>7, <2>1, <2>2, <2>3 DEF ClaimRequest, Served, Locked, Shape, Entries
<1>8. CASE FinishRequest
  <2>1. CASE AbortRequest
    BY <2>1 DEF AbortRequest, Unlock, Release, Shape, Entries
  <2>2. CASE RouteRequest
    BY <2>2 DEF RouteRequest, Shape, Entries
  <2>3. CASE CommitRequest
    <3>1. req \in Packet /\ req.ip \in IPs /\ req.mac \in Macs /\ req.arrived \in Nat
      BY <2>3 DEF CommitRequest, Shape, Packet
    <3>2. leases' \in LeaseTable
      BY <2>3, <3>1, LeaseAddType DEF CommitRequest
    <3>3. offers' \in OfferTable
      BY <2>3, WithoutType DEF CommitRequest
    <3>4. OfferLeft(req.mac, req.ip) \subseteq IPs
      BY <3>1 DEF OfferLeft, OfferTable, Offer
    <3>5. Rebound(leases, req.mac, req.ip) \subseteq IPs
      BY <3>1 DEF Rebound, LeaseTable, Lease
    <3>6. free' \subseteq IPs /\ used' \subseteq IPs
      BY <2>3, <3>4, <3>5 DEF CommitRequest, Release
    <3>7. routes' \subseteq IPs
      BY <2>3, <3>1 DEF CommitRequest, RouteDeleted
    <3> QED
      BY <2>3, <3>2, <3>3, <3>6, <3>7 DEF CommitRequest, Shape
  <2>4. CASE SaveRequest
    BY <2>4, FileImageType DEF SaveRequest, Shape, Entries
  <2>5. CASE SaveRequestFails \/ SendAck
    BY <2>5 DEF SaveRequestFails, SendAck, Unlock, Shape, Entries
  <2> QED
    BY <1>8, <2>1, <2>2, <2>3, <2>4, <2>5 DEF FinishRequest
<1>9. ASSUME NEW ms \in SUBSET Entries(leases), NEW saved \in BOOLEAN,
             TakeAndSave(ms, saved)
      PROVE  /\ leases' \in LeaseTable
             /\ file' \in FileTable
             /\ pc' \in {pc, "free"}
             /\ pc' # "free" => freeing' = freeing
             /\ freeing' \subseteq IPs
  <2>1. Without(leases, ms) \in LeaseTable
    BY WithoutType
  <2>2. {leases[m].ip : m \in ms} \subseteq IPs
    BY DEF Entries, LeaseTable, Lease
  <2> QED
    BY <1>9, <2>1, <2>2, RestoreAllType, FileImageType DEF TakeAndSave
<1>10. ASSUME NEW m \in Macs, NEW saved \in BOOLEAN, ReleaseLease(m, saved)
       PROVE  TypeInv'
  <2>1. {m} \in SUBSET Entries(leases)
    BY <1>10 DEF ReleaseLease, Entries
  <2>2. TakeAndSave({m}, saved)
    BY <1>10 DEF ReleaseLease
  <2>3. /\ leases' \in LeaseTable
        /\ file' \in FileTable
        /\ pc' \in {pc, "free"}
        /\ pc' # "free" => freeing' = freeing
        /\ freeing' \subseteq IPs
    BY <1>9, <2>1, <2>2
  <2> QED
    BY <1>10, <2>3 DEF ReleaseLease, Locked, Shape
<1>11. ASSUME NEW saved \in BOOLEAN, Cleanup(saved)
       PROVE  TypeInv'
  <2> DEFINE stale == StaleOffers
             dead  == DeadLeases
  <2>1. /\ offers' \in OfferTable
        /\ {offers[m].ip : m \in stale} \subseteq IPs
    BY <1>11, WithoutType DEF Cleanup, StaleOffers, Expired, OfferTable, Offer
  <2>2. free' \subseteq IPs /\ used' \subseteq IPs
    BY <1>11, <2>1 DEF Cleanup, Release
  <2>3. dead \in SUBSET Entries(leases)
    BY DEF DeadLeases, Expired, Entries
  <2>4. \/ UNCHANGED <<leases, file, pc, freeing>>
        \/ TakeAndSave(dead, saved)
    BY <1>11 DEF Cleanup
  <2>5. /\ leases' \in LeaseTable
        /\ file' \in FileTable
        /\ pc' \in {pc, "free"}
        /\ pc' # "free" => freeing' = freeing
        /\ freeing' \subseteq IPs
    <3>1. CASE UNCHANGED <<leases, file, pc, freeing>>
      BY <3>1
    <3>2. CASE TakeAndSave(dead, saved)
      BY <1>9, <2>3, <3>2
    <3> QED
      BY <2>4, <3>1, <3>2
  <2> QED
    BY <1>11, <2>1, <2>2, <2>5 DEF Cleanup, Locked, Shape
<1>12. CASE Reclaim
  BY <1>10, <1>11, <1>12 DEF Reclaim, HandleRelease, ControlRelease, vars, Shape,
     Entries, Packets
<1>13. ASSUME NEW ip \in IPs, FreeOne(ip)
       PROVE  TypeInv'
  <2>1. routes' \subseteq IPs
    BY <1>13, RoutesType DEF FreeOne
  <2> QED
    BY <1>13, <2>1 DEF FreeOne, Release, Shape, Entries
<1>14. CASE UNCHANGED vars
  BY <1>14 DEF vars, Shape, Entries
<1>15. CASE HandleRequest
  BY <1>7, <1>14, <1>15 DEF HandleRequest, DropRequest, NakRequest
<1> QED
  BY <1>1, <1>2, <1>3, <1>4, <1>5, <1>6, <1>8, <1>12, <1>13, <1>14, <1>15
     DEF Next, Start, Restore, Stop, Crash, FreeIP, IgnoreRelease

\* Type correctness of the server, in every state of every daemon life.
THEOREM TypeCorrect == Spec => []TypeOK
<1>1. TypeInv => TypeOK
  BY DEF TypeInv
<1> QED
  BY <1>1, TypeInit, TypeStep, PTL DEF Spec

-----------------------------------------------------------------------------
(* How the addresses of a table change.  Table is what the three kinds of  *)
(* table have in common.                                                   *)

IsTable(tab) == tab = [m \in Macs |-> tab[m]]

\* Lease table, offer table and lease file are functions on the MACs.
LEMMA TablesAreTables ==
  /\ \A tab \in LeaseTable : IsTable(tab)
  /\ \A tab \in OfferTable : IsTable(tab)
  /\ \A tab \in FileTable : IsTable(tab)
BY DEF IsTable, LeaseTable, OfferTable, FileTable

\* An empty table lists no address.
LEMMA EmptyIps == IpsOf(Empty) = {} /\ OneEntryPerIP(Empty)
BY DEF IpsOf, Entries, Empty, OneEntryPerIP

\* Deleting the entries of ms removes their addresses and no others.
LEMMA WithoutIps ==
  ASSUME NEW tab, IsTable(tab), OneEntryPerIP(tab), NEW ms
  PROVE  /\ IpsOf(Without(tab, ms)) =
              IpsOf(tab) \ {tab[m].ip : m \in ms \cap Entries(tab)}
         /\ OneEntryPerIP(Without(tab, ms))
  <1>1. Entries(Without(tab, ms)) = Entries(tab) \ ms
    BY DEF Entries, Without
  <1>2. \A m \in Entries(tab) \ ms : Without(tab, ms)[m] = tab[m]
    BY DEF Entries, Without
  <1>3. OneEntryPerIP(Without(tab, ms))
    BY <1>1, <1>2 DEF OneEntryPerIP
  <1>4. IpsOf(Without(tab, ms)) = {tab[m].ip : m \in Entries(tab) \ ms}
    BY <1>1, <1>2 DEF IpsOf
  <1>5. {tab[m].ip : m \in Entries(tab) \ ms} =
          IpsOf(tab) \ {tab[m].ip : m \in ms \cap Entries(tab)}
    BY DEF IpsOf, OneEntryPerIP
  <1> QED
    BY <1>3, <1>4, <1>5

\* Setting m's entry to one whose address no other entry has.
LEMMA SetIps ==
  ASSUME NEW tab, IsTable(tab), OneEntryPerIP(tab),
         NEW new, IsTable(new), NEW m \in Macs,
         new[m] # None,
         \A n \in Macs \ {m} : new[n] = tab[n],
         new[m].ip \notin IpsOf(Without(tab, {m}))
  PROVE  /\ IpsOf(new) = IpsOf(Without(tab, {m})) \cup {new[m].ip}
         /\ OneEntryPerIP(new)
  <1> DEFINE rest == Without(tab, {m})
  <1>1. OneEntryPerIP(rest)
    BY WithoutIps
  <1>2. Entries(new) = Entries(rest) \cup {m} /\ m \notin Entries(rest)
    BY DEF Entries, Without
  <1>3. \A n \in Entries(rest) : new[n] = rest[n]
    BY DEF Entries, Without
  <1>4. IpsOf(new) = IpsOf(rest) \cup {new[m].ip}
    <2> HIDE DEF rest
    <2>1. IpsOf(new) = {new[n].ip : n \in Entries(rest)} \cup {new[m].ip}
      BY <1>2 DEF IpsOf
    <2>2. {new[n].ip : n \in Entries(rest)} = IpsOf(rest)
      BY <1>3 DEF IpsOf
    <2> QED
      BY <2>1, <2>2
  <1>5. \A n \in Entries(rest) : new[n].ip # new[m].ip
    BY <1>3 DEF IpsOf
  <1>6. OneEntryPerIP(new)
    BY <1>1, <1>2, <1>3, <1>5 DEF OneEntryPerIP
  <1> QED
    BY <1>4, <1>6

\* The file lists the addresses of the table it was written from.
LEMMA FileImageIps ==
  ASSUME NEW tab, OneEntryPerIP(tab)
  PROVE  OneEntryPerIP(FileImage(tab))
  <1>1. ASSUME NEW m \in Entries(FileImage(tab))
        PROVE  m \in Entries(tab) /\ FileImage(tab)[m].ip = tab[m].ip
    BY <1>1 DEF Entries, FileImage
  <1> QED
    BY <1>1 DEF OneEntryPerIP

\* load brings back no address twice.
LEMMA LoadedIps ==
  ASSUME NEW f \in FileTable, OneEntryPerIP(f), NEW t
  PROVE  OneEntryPerIP(Loaded(f, t))
  <1>1. ASSUME NEW m \in Entries(Loaded(f, t))
        PROVE  m \in Entries(f) /\ Loaded(f, t)[m].ip = f[m].ip
    BY <1>1 DEF Entries, Loaded
  <1> QED
    BY <1>1 DEF OneEntryPerIP

\* A save that fails leaves the table as it was.
LEMMA RestoreAllUndoes ==
  ASSUME NEW tab, IsTable(tab), NEW ms
  PROVE  RestoreAll(Without(tab, ms), tab, ms) = tab
BY DEF RestoreAll, Without, IsTable

\* Deleting no entry changes nothing.
LEMMA WithoutNothing ==
  ASSUME NEW tab, IsTable(tab)
  PROVE  Without(tab, {}) = tab
BY DEF Without, IsTable

-----------------------------------------------------------------------------
(* No slot is lost and none has two owners.                                *)

\* Before the first start no address has an owner.
LEMMA OwnerInit == Init => OwnerInv
<1> SUFFICES ASSUME Init PROVE OwnerInv
  OBVIOUS
<1>1. TypeInv
  BY TypeInit
<1>2. Marked = Empty
  BY DEF Init, Marked, Without, Empty
<1>3. Claim = {} /\ ClaimOrHeld
  BY DEF Init, Claim, ClaimOrHeld
<1>4. SlotsAccounted /\ ExclusiveSlots /\ OneEntryPerIP(file)
  BY <1>2, <1>3, EmptyIps DEF Init, SlotsAccounted, ExclusiveSlots
<1> QED
  BY <1>1, <1>3, <1>4 DEF OwnerInv

\* While a handler runs or none does, every lease is marked.
LEMMA UpMarked ==
  ASSUME TypeInv, phase = "up"
  PROVE  Marked = leases
<1>1. IsTable(leases)
  BY TablesAreTables DEF TypeInv, TypeOK
<1>2. todo = {}
  BY DEF TypeInv, Shape
<1> QED
  BY <1>1, <1>2, WithoutNothing DEF Marked

\* The two invariants in the form they have once the daemon is up.
Owned(L, O, c) ==
  /\ free \cap used = {}
  /\ free \cup used = pool
  /\ used = L \cup O \cup c \cup freeing
  /\ L \cap O = {}
  /\ (L \cup O) \cap (c \cup freeing) = {}
  /\ c \cap freeing = {}

\* Once the restore is over the used slots are those of leases, offers, the
\* claim and the pending freeIP calls, without overlap.
LEMMA UpOwned ==
  ASSUME TypeInv, phase = "up"
  PROVE  (SlotsAccounted /\ ExclusiveSlots) <=>
           /\ Owned(IpsOf(leases), IpsOf(offers), Claim)
           /\ OneEntryPerIP(leases) /\ OneEntryPerIP(offers)
BY UpMarked DEF SlotsAccounted, ExclusiveSlots, Owned

\* Committing a REQUEST changes its client's lease and no other: the address is
\* the client's own, so leases.add evicts no other MAC, and the table then
\* lists it in the place of the address the client leaves behind.
LEMMA CommitLeases ==
  ASSUME OwnerInv, CommitRequest
  PROVE  /\ req.mac \in Macs /\ req.ip \in IPs /\ req.arrived \in Nat
         /\ leases'[req.mac] = [ip |-> req.ip, expiry |-> req.arrived + LeaseTime,
                               granted |-> req.arrived]
         /\ leases'[req.mac] # None
         /\ \A n \in Macs \ {req.mac} : leases'[n] = leases[n]
         /\ IpsOf(leases') =
              (IpsOf(leases) \ Rebound(leases, req.mac, req.ip)) \cup {req.ip}
         /\ OneEntryPerIP(leases')
<1> DEFINE L   == IpsOf(leases)
           O   == IpsOf(offers)
           m   == req.mac
           ip  == req.ip
           old == Rebound(leases, m, ip)
<1>1. /\ phase = "up" /\ pc = "routed"
      /\ m \in Macs /\ ip \in IPs /\ req.arrived \in Nat
      /\ leases \in LeaseTable /\ IsTable(leases)
      /\ leases' = LeaseAdd(leases, m, ip, req.arrived)
  BY TablesAreTables DEF OwnerInv, CommitRequest, TypeInv, TypeOK, Shape, Packet
<1>2. Owned(L, O, Claim) /\ OneEntryPerIP(leases)
  BY <1>1, UpOwned DEF OwnerInv
<1>3. \/ Claim = {ip}
      \/ offers[m] # None /\ offers[m].ip = ip
      \/ leases[m] # None /\ leases[m].ip = ip
  BY <1>1 DEF OwnerInv, ClaimOrHeld, Claim
<1>4. ip \in L => leases[m] # None /\ leases[m].ip = ip
  <2>1. CASE Claim = {ip}
    BY <1>2, <2>1 DEF Owned
  <2>2. CASE offers[m] # None /\ offers[m].ip = ip
    <3>1. ip \in O
      BY <1>1, <2>2 DEF IpsOf, Entries
    <3> QED
      BY <1>2, <3>1 DEF Owned
  <2> QED
    BY <1>3, <2>1, <2>2
<1>5. IpsOf(Without(leases, {m})) = L \ (old \cup {ip})
  <2>1. {leases[n].ip : n \in {m} \cap Entries(leases)} \subseteq old \cup {ip}
    BY DEF Rebound, Entries
  <2>2. old \cup (L \cap {ip}) \subseteq {leases[n].ip : n \in {m} \cap Entries(leases)}
    BY <1>1, <1>4 DEF Rebound, Entries
  <2>3. IpsOf(Without(leases, {m})) =
          L \ {leases[n].ip : n \in {m} \cap Entries(leases)}
    BY <1>1, <1>2, WithoutIps
  <2> QED
    BY <2>1, <2>2, <2>3
<1>6. /\ leases'[m] = [ip |-> ip, expiry |-> req.arrived + LeaseTime,
                       granted |-> req.arrived]
      /\ leases'[m] # None
  BY <1>1, NoneAssumption, TimeAssumption DEF LeaseAdd, Lease
<1>7. \A n \in Macs \ {m} : leases'[n] = leases[n]
  <2>1. ASSUME NEW n \in Macs \ {m}, leases[n] # None, leases[n].ip = ip
        PROVE  FALSE
    <3>1. ip \in IpsOf(Without(leases, {m}))
      BY <2>1 DEF IpsOf, Entries, Without
    <3> QED
      BY <1>5, <3>1
  <2> QED
    BY <1>1, <2>1 DEF LeaseAdd
<1>8. /\ IpsOf(leases') = IpsOf(Without(leases, {m})) \cup {ip}
      /\ OneEntryPerIP(leases')
  <2>1. IsTable(leases')
    BY <1>1 DEF LeaseAdd, IsTable
  <2>2. /\ leases'[m] # None /\ leases'[m].ip = ip
        /\ leases'[m].ip \notin IpsOf(Without(leases, {m}))
    BY <1>5, <1>6
  <2>3. /\ IpsOf(leases') = IpsOf(Without(leases, {m})) \cup {leases'[m].ip}
        /\ OneEntryPerIP(leases')
    <3>1. m \in Macs /\ IsTable(leases) /\ OneEntryPerIP(leases)
      BY <1>1, <1>2
    <3> QED
      BY <1>7, <2>1, <2>2, <3>1, SetIps
  <2> QED
    BY <2>2, <2>3
<1>9. IpsOf(leases') = (L \ old) \cup {ip}
  BY <1>5, <1>8
<1> QED
  BY <1>1, <1>6, <1>7, <1>8, <1>9

\* Taking leases out and saving: what leaves the table is what freeIP has to
\* free, and when the save fails nothing has changed.
LEMMA TakeAndSaveSplits ==
  ASSUME TypeInv, OneEntryPerIP(leases), OneEntryPerIP(file), Locked,
         NEW ms \in SUBSET Entries(leases), NEW saved, TakeAndSave(ms, saved)
  PROVE  /\ IpsOf(leases') \cup freeing' = IpsOf(leases)
         /\ IpsOf(leases') \cap freeing' = {}
         /\ OneEntryPerIP(leases') /\ OneEntryPerIP(file')
         /\ pc' \in {"idle", "free"}
         /\ \A n \in Macs : leases'[n] \in {leases[n], None}
         /\ \/ leases' = leases /\ file' = file /\ pc' = pc /\ freeing' = {}
            \/ leases' = Without(leases, ms) /\ file' = FileImage(leases') /\ pc' = "free"
<1>0. IsTable(leases) /\ freeing = {} /\ pc = "idle"
  BY TablesAreTables DEF TypeInv, TypeOK, Shape, Locked
<1>1. CASE saved
  <2>1. /\ leases' = Without(leases, ms) /\ file' = FileImage(leases')
        /\ freeing' = {leases[m].ip : m \in ms} /\ pc' = "free"
    BY <1>1 DEF TakeAndSave
  <2>2. ms \cap Entries(leases) = ms
    OBVIOUS
  <2>3. IpsOf(leases') = IpsOf(leases) \ freeing' /\ OneEntryPerIP(leases')
    BY <1>0, <2>1, <2>2, WithoutIps
  <2>4. freeing' \subseteq IpsOf(leases)
    BY <2>1 DEF IpsOf
  <2>5. \A n \in Macs : leases'[n] \in {leases[n], None}
    BY <2>1 DEF Without
  <2> QED
    BY <2>1, <2>3, <2>4, <2>5, FileImageIps
<1>2. CASE ~saved
  <2>1. leases' = leases /\ UNCHANGED <<file, pc, freeing>>
    BY <1>0, <1>2, RestoreAllUndoes DEF TakeAndSave
  <2> QED
    BY <1>0, <2>1
<1> QED
  BY <1>1, <1>2

\* Every step of the server keeps each slot with its one owner, provided no
\* lease expires between the clock readings of load and restoreLeases.
LEMMA OwnerStep ==
  ASSUME \A E \in Envs : "straddle" \notin E
  PROVE  OwnerInv /\ [Next]_vars => OwnerInv'
<1> SUFFICES ASSUME OwnerInv, [Next]_vars
             PROVE  OwnerInv'
  OBVIOUS
<1> DEFINE L == IpsOf(leases)
           O == IpsOf(offers)
<1>0. /\ TypeInv /\ TypeInv'
      /\ IsTable(leases) /\ IsTable(leases')
      /\ IsTable(offers) /\ IsTable(offers')
      /\ OneEntryPerIP(leases) /\ OneEntryPerIP(offers) /\ OneEntryPerIP(file)
  BY TypeStep, TablesAreTables DEF OwnerInv, TypeInv, TypeOK, ExclusiveSlots
<1> USE DEF clock, life, slots, tables, outer, lock
<1>1. ASSUME phase = "up"
      PROVE  Owned(L, O, Claim)
  BY <1>0, <1>1, UpOwned DEF OwnerInv
\* What a step of a running daemon has to establish.
<1>2. ASSUME phase' = "up",
             Owned(L, O, Claim)',
             OneEntryPerIP(leases)', OneEntryPerIP(offers)', OneEntryPerIP(file)',
             ClaimOrHeld'
      PROVE  OwnerInv'
  <2>1. Marked' = leases'
    <3>1. todo' = {}
      BY <1>0, <1>2 DEF TypeInv, Shape
    <3> QED
      BY <1>0, <3>1, WithoutNothing DEF Marked
  <2>2. SlotsAccounted' /\ ExclusiveSlots'
    BY <1>2, <2>1 DEF SlotsAccounted, ExclusiveSlots, Owned
  <2> QED
    BY <1>0, <1>2, <2>2 DEF OwnerInv
<1>3. ASSUME UNCHANGED <<life, slots, tables, outer, lock>>
      PROVE  OwnerInv'
  BY <1>0, <1>3 DEF OwnerInv, ClaimOrHeld, SlotsAccounted, ExclusiveSlots, Marked, Claim
<1>4. ASSUME NEW P \in Pools, Load(P)
      PROVE  OwnerInv'
  <2>1. OneEntryPerIP(leases')
    BY <1>0, <1>4, LoadedIps DEF Load, TypeInv, TypeOK
  <2>2. todo' = Entries(leases')
    <3>1. \A m \in Macs : leases'[m] # None => Live(leases'[m], now)
      BY <1>0, <1>4, NoneAssumption
         DEF Load, Loaded, Live, Expired, Entries, TypeInv, TypeOK, FileTable, LeaseLine
    <3> QED
      BY <1>4, <3>1 DEF Load, Entries, Live
  <2>3. Marked' = Empty
    BY <1>0, <2>2 DEF Marked, Without, Entries, Empty
  <2>4. /\ offers' = Empty /\ pc' = "idle" /\ freeing' = {} /\ file' = file
        /\ free' = P /\ used' = {} /\ pool' = P
    BY <1>0, <1>4 DEF Load, TypeInv, Shape
  <2>5. Claim' = {} /\ ClaimOrHeld'
    BY <2>4 DEF Claim, ClaimOrHeld
  <2>6. SlotsAccounted' /\ ExclusiveSlots'
    BY <2>1, <2>3, <2>4, <2>5, EmptyIps DEF SlotsAccounted, ExclusiveSlots
  <2> QED
    BY <1>0, <2>4, <2>5, <2>6 DEF OwnerInv
<1>5. ASSUME NEW P \in Pools, LoadFails(P)
      PROVE  OwnerInv'
  <2>1. /\ leases' = Empty /\ offers' = Empty /\ pc' = "idle" /\ freeing' = {}
        /\ free' = P /\ used' = {} /\ pool' = P /\ phase' = "up" /\ file' = file
    BY <1>0, <1>5 DEF LoadFails, TypeInv, Shape
  <2>2. Claim' = {} /\ ClaimOrHeld'
    BY <2>1 DEF Claim, ClaimOrHeld
  <2> QED
    BY <1>0, <1>2, <2>1, <2>2, EmptyIps DEF Owned
<1>6. ASSUME NEW m \in Macs, RestoreOne(m)
      PROVE  OwnerInv'
  <2> DEFINE ip == leases[m].ip
  <2>1. /\ offers = Empty /\ offers' = Empty /\ pc = "idle" /\ pc' = "idle"
        /\ freeing = {} /\ freeing' = {} /\ file' = file
        /\ m \in todo /\ m \in Entries(leases)
    BY <1>0, <1>6 DEF RestoreOne, TypeInv, Shape
  <2>2. Claim = {} /\ Claim' = {} /\ ClaimOrHeld'
    BY <2>1 DEF Claim, ClaimOrHeld
  <2>3. /\ used = IpsOf(Marked) /\ free \cap used = {} /\ free \cup used = pool
    BY <1>6, <2>1, <2>2, EmptyIps DEF RestoreOne, OwnerInv, SlotsAccounted
  <2>4. CASE ip \in free \cup used
    <3>1. /\ leases' = leases
          /\ free' = free \ {ip} /\ used' = used \cup {ip} /\ pool' = pool
      BY <1>6, <2>4 DEF RestoreOne
    <3>2. Marked' = [Marked EXCEPT ![m] = leases[m]]
      BY <1>0, <1>6, <2>1, <3>1 DEF RestoreOne, Marked, Without, IsTable
    <3>3. IpsOf(Marked') = IpsOf(Marked) \cup {ip}
      BY <2>1, <3>2 DEF IpsOf, Marked, Without, Entries
    <3> QED
      BY <1>0, <2>1, <2>2, <2>3, <2>4, <3>1, <3>3, EmptyIps
         DEF OwnerInv, SlotsAccounted, ExclusiveSlots
  <2>5. CASE ip \notin free \cup used
    <3>1. /\ leases' = Without(leases, {m})
          /\ free' = free /\ used' = used /\ pool' = pool
      BY <1>6, <2>5 DEF RestoreOne
    <3>2. Marked' = Marked
      BY <1>6, <2>1, <3>1 DEF RestoreOne, Marked, Without
    <3>3. OneEntryPerIP(leases')
      BY <1>0, <3>1, WithoutIps
    <3> QED
      BY <1>0, <2>1, <2>2, <2>3, <3>1, <3>2, <3>3, EmptyIps
         DEF OwnerInv, SlotsAccounted, ExclusiveSlots
  <2> QED
    BY <2>4, <2>5
<1>7. CASE Gone
  <2>1. /\ leases' = Empty /\ offers' = Empty /\ pc' = "idle" /\ freeing' = {}
        /\ file' = file /\ phase' = "down"
    BY <1>7 DEF Gone
  <2>2. Claim' = {} /\ ClaimOrHeld'
    BY <2>1 DEF Claim, ClaimOrHeld
  <2>3. Marked' = Empty
    BY <2>1 DEF Marked, Without, Empty
  <2> QED
    BY <1>0, <2>1, <2>2, <2>3, EmptyIps DEF OwnerInv, SlotsAccounted, ExclusiveSlots
<1>8. ASSUME Locked
      PROVE  /\ Claim = {} /\ freeing = {} /\ phase = "up"
             /\ used = L \cup O /\ L \cap O = {}
             /\ free \cap used = {} /\ free \cup used = pool
  <2>1. Claim = {} /\ freeing = {} /\ phase = "up"
    BY <1>0, <1>8 DEF Locked, Claim, TypeInv, Shape
  <2> QED
    BY <1>1, <2>1 DEF Owned
<1>9. ASSUME NEW m \in Macs, DiscoverAgain(m)
      PROVE  OwnerInv'
  <2>1. /\ phase' = "up" /\ Claim' = Claim /\ leases' = leases /\ file' = file
        /\ UNCHANGED slots /\ freeing' = freeing /\ pool' = pool /\ ClaimOrHeld'
    BY <1>9 DEF DiscoverAgain, Locked, Claim, ClaimOrHeld
  <2>2. CASE offers' = offers
    BY <1>0, <1>1, <1>2, <1>9, <2>1, <2>2 DEF DiscoverAgain, Locked, Owned
  <2>3. CASE Live(offers[m], now) /\ AddOffer(m, offers[m].ip)
    <3>0. /\ offers[m] # None /\ offers[m].ip \in IPs
          /\ [ip |-> offers[m].ip, expiry |-> now + OfferTime] \in Offer
      BY <1>0, <2>3, TimeAssumption DEF Live, TypeInv, TypeOK, OfferTable, Offer
    <3>1. /\ Entries(offers') = Entries(offers)
          /\ \A n \in Entries(offers) : offers'[n].ip = offers[n].ip
      BY <1>0, <2>3, <3>0, NoneAssumption DEF AddOffer, Entries, TypeInv, TypeOK, OfferTable
    <3>2. IpsOf(offers') = O /\ OneEntryPerIP(offers')
      BY <1>0, <3>1 DEF IpsOf, OneEntryPerIP
    <3> QED
      BY <1>0, <1>1, <1>2, <1>9, <2>1, <3>2 DEF DiscoverAgain, Locked, Owned
  <2> QED
    BY <1>9, <2>2, <2>3 DEF DiscoverAgain
<1>10. ASSUME NEW m \in Macs, DiscoverFresh(m)
       PROVE  OwnerInv'
  <2> DEFINE S == StaleOffer(m)
  <2>0. Locked
    BY <1>10 DEF DiscoverFresh
  <2>1. /\ phase' = "up" /\ Claim' = {} /\ leases' = leases /\ file' = file
        /\ freeing' = {} /\ pool' = pool /\ ClaimOrHeld'
    BY <1>8, <1>10, <2>0 DEF DiscoverFresh, Locked, Claim, ClaimOrHeld
  <2>2. IpsOf(Without(offers, {m})) = O \ S /\ S \subseteq O
    <3>1. {offers[n].ip : n \in {m} \cap Entries(offers)} = S
      BY <1>10 DEF DiscoverFresh, StaleOffer, Entries
    <3>2. S \subseteq O
      BY DEF StaleOffer, IpsOf, Entries
    <3> QED
      BY <1>0, <3>1, <3>2, WithoutIps
  <2>3. CASE UNCHANGED <<offers, slots>>
    BY <1>0, <1>2, <1>8, <2>0, <2>1, <2>3 DEF Owned
  <2>4. ASSUME NEW ip \in free \cup S, ReleaseThenTake(S, ip), AddOffer(m, ip)
        PROVE  OwnerInv'
    <3>0. [ip |-> ip, expiry |-> now + OfferTime] \in Offer
      <4>1. ip \in IPs
        BY <1>0 DEF StaleOffer, TypeInv, TypeOK, OfferTable, Offer
      <4> QED
        BY <1>0, <4>1, TimeAssumption DEF TypeInv, TypeOK, Offer
    <3>1. /\ offers'[m] # None /\ offers'[m].ip = ip
          /\ \A n \in Macs \ {m} : offers'[n] = offers[n]
      BY <1>0, <2>4, <3>0, NoneAssumption DEF AddOffer, TypeInv, TypeOK, OfferTable
    <3>2. ip \notin O \ S
      BY <1>8, <2>0
    <3>3. IpsOf(offers') = (O \ S) \cup {ip} /\ OneEntryPerIP(offers')
      <4>1. offers'[m].ip \notin IpsOf(Without(offers, {m}))
        BY <2>2, <3>1, <3>2
      <4>2. /\ IpsOf(offers') = IpsOf(Without(offers, {m})) \cup {offers'[m].ip}
            /\ OneEntryPerIP(offers')
        BY <1>0, <3>1, <4>1, SetIps
      <4> QED
        BY <2>2, <3>1, <4>2
    <3>4. Owned(L, O, Claim)'
      <4>1. /\ free \cap used = {} /\ free \cup used = pool
            /\ used = L \cup O /\ L \cap O = {}
        BY <1>8, <2>0 DEF Owned
      <4>2. free' = (free \cup S) \ {ip} /\ used' = (used \ S) \cup {ip}
        BY <2>4 DEF ReleaseThenTake
      <4>3. /\ free' \cap used' = {} /\ free' \cup used' = pool
            /\ used' = L \cup ((O \ S) \cup {ip})
            /\ L \cap ((O \ S) \cup {ip}) = {}
        <5> HIDE DEF L, O, S
        <5> QED
          BY <2>2, <2>4, <4>1, <4>2
      <4> QED
        BY <2>1, <3>3, <4>3 DEF Owned
    <3> QED
      BY <1>0, <1>2, <2>1, <3>3, <3>4
  <2> QED
    BY <1>10, <2>3, <2>4 DEF DiscoverFresh
<1>11. ASSUME NEW p \in Packets, ClaimRequest(p)
       PROVE  OwnerInv'
  <2>0. Locked
    BY <1>11 DEF ClaimRequest, Served
  <2>1. /\ phase' = "up" /\ leases' = leases /\ offers' = offers /\ file' = file
        /\ freeing' = {} /\ pool' = pool /\ req' = p /\ pc' = "claimed"
    BY <1>8, <1>11, <2>0 DEF ClaimRequest
  <2>2. CASE AlreadyHeld(p)
    <3>1. Claim' = {} /\ UNCHANGED slots
      BY <1>11, <2>2 DEF ClaimRequest, Claim
    <3>2. ClaimOrHeld'
      BY <2>1, <2>2 DEF ClaimOrHeld, AlreadyHeld, HasLive, Live
    <3> QED
      BY <1>0, <1>2, <1>8, <2>0, <2>1, <3>1, <3>2 DEF Owned
  <2>3. CASE ~AlreadyHeld(p)
    <3>1. /\ Claim' = {p.ip} /\ p.ip \in free
          /\ free' = free \ {p.ip} /\ used' = used \cup {p.ip}
      BY <1>11, <2>1, <2>3 DEF ClaimRequest, RequestRefused, Claim, ReleaseThenTake
    <3>2. ClaimOrHeld'
      BY <1>11, <2>3 DEF ClaimRequest, ClaimOrHeld
    <3> QED
      BY <1>0, <1>2, <1>8, <2>0, <2>1, <3>1, <3>2 DEF Owned
  <2> QED
    BY <2>2, <2>3
<1>12. ASSUME pc \in {"claimed", "routed", "save", "ack"}
       PROVE  /\ phase = "up" /\ freeing = {} /\ Owned(L, O, Claim)
              /\ req.mac \in Macs /\ req.ip \in IPs
  BY <1>0, <1>1, <1>12 DEF TypeInv, Shape, Packet
<1>13. CASE AbortRequest
  <2>1. /\ phase' = "up" /\ leases' = leases /\ offers' = offers /\ file' = file
        /\ freeing' = {} /\ pool' = pool /\ Claim' = {} /\ ClaimOrHeld'
        /\ IF fresh THEN Release({req.ip}) ELSE UNCHANGED slots
        /\ Claim = IF fresh THEN {req.ip} ELSE {}
    BY <1>12, <1>13 DEF AbortRequest, Unlock, Claim, ClaimOrHeld
  <2>2. Owned(L, O, Claim)'
    BY <1>12, <1>13, <2>1 DEF AbortRequest, Owned, Release
  <2> QED
    BY <1>0, <1>2, <2>1, <2>2
<1>14. CASE RouteRequest \/ SaveRequestFails \/ SendAck
  <2>1. /\ phase' = "up" /\ leases' = leases /\ offers' = offers /\ file' = file
        /\ freeing' = {} /\ pool' = pool /\ UNCHANGED slots
    BY <1>12, <1>14 DEF RouteRequest, SaveRequestFails, SendAck, Unlock
  <2>2. Claim' = Claim /\ ClaimOrHeld'
    BY <1>14 DEF RouteRequest, SaveRequestFails, SendAck, Unlock, Claim, ClaimOrHeld,
       OwnerInv
  <2> QED
    BY <1>0, <1>2, <1>12, <1>14, <2>1, <2>2
       DEF RouteRequest, SaveRequestFails, SendAck, Owned
<1>15. CASE SaveRequest
  <2>1. /\ phase' = "up" /\ leases' = leases /\ offers' = offers
        /\ freeing' = {} /\ pool' = pool /\ UNCHANGED slots
        /\ Claim' = Claim /\ ClaimOrHeld'
    BY <1>12, <1>15 DEF SaveRequest, Claim, ClaimOrHeld
  <2>2. OneEntryPerIP(file')
    BY <1>0, <1>15, FileImageIps DEF SaveRequest
  <2> QED
    BY <1>0, <1>2, <1>12, <1>15, <2>1, <2>2 DEF SaveRequest, Owned
<1>16. CASE CommitRequest
  <2> DEFINE m   == req.mac
             ip  == req.ip
             off == OfferLeft(m, ip)
             old == Rebound(leases, m, ip)
  <2>0. /\ phase = "up" /\ freeing = {} /\ Owned(L, O, Claim)
        /\ m \in Macs /\ ip \in IPs /\ req.arrived \in Nat
        /\ pc = "routed"
    BY <1>0, <1>12, <1>16 DEF CommitRequest, TypeInv, Shape, Packet
  <2>1. /\ phase' = "up" /\ file' = file /\ freeing' = {} /\ pool' = pool
        /\ offers' = Without(offers, {m})
        /\ leases' = LeaseAdd(leases, m, ip, req.arrived)
        /\ free' = free \cup (off \cup old) /\ used' = used \ (off \cup old)
        /\ Claim' = {} /\ ClaimOrHeld'
    BY <1>16, <2>0 DEF CommitRequest, Release, Claim, ClaimOrHeld
  \* The address is this client's and nobody else's.
  <2>2. \/ Claim = {ip}
        \/ Claim = {} /\ offers[m] # None /\ offers[m].ip = ip
        \/ Claim = {} /\ leases[m] # None /\ leases[m].ip = ip
    BY <2>0 DEF OwnerInv, ClaimOrHeld, Claim
  <2>3. IpsOf(Without(offers, {m})) = O \ (off \cup {ip}) /\ off \subseteq O
    <3>1. ip \in O => offers[m] # None /\ offers[m].ip = ip
      <4>1. CASE Claim = {ip}
        BY <2>0, <4>1 DEF Owned
      <4>2. CASE leases[m] # None /\ leases[m].ip = ip
        <5>1. ip \in L
          BY <2>0, <4>2 DEF IpsOf, Entries
        <5> QED
          BY <2>0, <5>1 DEF Owned
      <4> QED
        BY <2>2, <4>1, <4>2
    <3>2. {offers[n].ip : n \in {m} \cap Entries(offers)} \subseteq off \cup {ip}
      BY DEF OfferLeft, Entries
    <3>3. off \cup (O \cap {ip}) \subseteq {offers[n].ip : n \in {m} \cap Entries(offers)}
      BY <2>0, <3>1 DEF OfferLeft, Entries
    <3>4. off \subseteq O
      BY <2>0 DEF OfferLeft, IpsOf, Entries
    <3>5. IpsOf(Without(offers, {m})) =
            O \ {offers[n].ip : n \in {m} \cap Entries(offers)}
      BY <1>0, WithoutIps
    <3> QED
      BY <3>2, <3>3, <3>4, <3>5
  <2>4. old \subseteq L
    BY <2>0 DEF Rebound, IpsOf, Entries
  <2>5. IpsOf(leases') = (L \ old) \cup {ip} /\ OneEntryPerIP(leases')
    BY <1>16, CommitLeases
  <2>6. IpsOf(offers') = O \ (off \cup {ip}) /\ OneEntryPerIP(offers')
    BY <1>0, <2>1, <2>3, WithoutIps
  <2>7. ip \notin off /\ ip \notin old
    BY DEF OfferLeft, Rebound
  <2>8. ip \in used /\ Claim \subseteq {ip}
    BY <2>0, <2>2 DEF Owned, IpsOf, Entries
  <2>9. Owned(L, O, Claim)'
    <3> DEFINE L1 == (L \ old) \cup {ip}
               O1 == O \ (off \cup {ip})
    <3>1. /\ free \cap used = {} /\ free \cup used = pool
          /\ used = L \cup O \cup Claim \cup freeing
          /\ L \cap O = {} /\ freeing = {}
      BY <2>0 DEF Owned
    <3>2. used' = L1 \cup O1 /\ L1 \cap O1 = {}
      <4> HIDE DEF L, O, off, old, ip
      <4> QED
        BY <2>1, <2>3, <2>4, <2>7, <2>8, <3>1
    <3>3. free' \cap used' = {} /\ free' \cup used' = pool'
      <4> HIDE DEF L, O, off, old, ip
      <4> QED
        BY <2>1, <2>3, <2>4, <3>1
    <3>4. Claim' = {} /\ freeing' = {}
      BY <2>1, <3>1
    <3> QED
      BY <2>5, <2>6, <3>2, <3>3, <3>4 DEF Owned
  <2> QED
    BY <1>0, <1>2, <2>1, <2>5, <2>6, <2>9
<1>17. ASSUME NEW ms \in SUBSET Entries(leases), NEW saved, TakeAndSave(ms, saved), Locked
       PROVE  /\ IpsOf(leases') \cup freeing' = L
              /\ IpsOf(leases') \cap freeing' = {}
              /\ OneEntryPerIP(leases') /\ OneEntryPerIP(file')
              /\ pc' \in {"idle", "free"}
  BY <1>0, <1>17, TakeAndSaveSplits
<1>18. ASSUME NEW m \in Macs, NEW saved \in BOOLEAN, ReleaseLease(m, saved)
       PROVE  OwnerInv'
  <2>0. Locked /\ {m} \in SUBSET Entries(leases) /\ TakeAndSave({m}, saved)
    BY <1>18 DEF ReleaseLease, Entries
  <2>1. /\ IpsOf(leases') \cup freeing' = L
        /\ IpsOf(leases') \cap freeing' = {}
        /\ OneEntryPerIP(leases') /\ OneEntryPerIP(file')
        /\ pc' \in {"idle", "free"}
    BY <1>17, <2>0
  <2>2. /\ phase' = "up" /\ pool' = pool /\ offers' = offers /\ UNCHANGED slots
        /\ Claim' = {} /\ ClaimOrHeld'
    BY <1>18, <2>0, <2>1 DEF ReleaseLease, Locked, Claim, ClaimOrHeld
  <2>3. Owned(L, O, Claim)'
    BY <1>8, <2>0, <2>1, <2>2 DEF Owned
  <2> QED
    BY <1>0, <1>2, <2>1, <2>2, <2>3
<1>19. ASSUME NEW saved \in BOOLEAN, Cleanup(saved)
       PROVE  OwnerInv'
  <2> DEFINE stale == StaleOffers
             dead  == DeadLeases
             S     == {offers[n].ip : n \in stale}
  <2>0. Locked /\ dead \in SUBSET Entries(leases)
    BY <1>19 DEF Cleanup, DeadLeases, Expired, Entries
  <2>1. /\ IpsOf(leases') \cup freeing' = L
        /\ IpsOf(leases') \cap freeing' = {}
        /\ OneEntryPerIP(leases') /\ OneEntryPerIP(file')
        /\ pc' \in {"idle", "free"}
    <3>1. CASE TakeAndSave(dead, saved)
      BY <1>17, <2>0, <3>1
    <3>2. CASE UNCHANGED <<leases, file, pc, freeing>>
      BY <1>0, <1>8, <2>0, <3>2 DEF Locked
    <3> QED
      BY <1>19, <3>1, <3>2 DEF Cleanup
  <2>2. /\ phase' = "up" /\ pool' = pool
        /\ offers' = Without(offers, stale)
        /\ free' = free \cup S /\ used' = used \ S
        /\ Claim' = {} /\ ClaimOrHeld'
    BY <1>19, <2>0, <2>1 DEF Cleanup, Release, Locked, Claim, ClaimOrHeld
  <2>3. IpsOf(offers') = O \ S /\ OneEntryPerIP(offers') /\ S \subseteq O
    <3>1. stale \cap Entries(offers) = stale
      BY DEF StaleOffers, Expired, Entries
    <3>2. S \subseteq O
      BY <3>1 DEF IpsOf
    <3> QED
      BY <1>0, <2>2, <3>1, <3>2, WithoutIps
  <2>4. Owned(L, O, Claim)'
    BY <1>8, <2>0, <2>1, <2>2, <2>3 DEF Owned
  <2> QED
    BY <1>0, <1>2, <2>1, <2>2, <2>3, <2>4
<1>20. ASSUME NEW ip \in IPs, FreeOne(ip)
       PROVE  OwnerInv'
  <2>1. /\ phase = "up" /\ phase' = "up" /\ pool' = pool /\ file' = file
        /\ leases' = leases /\ offers' = offers /\ pc' \in {"idle", "free"}
        /\ free' = free \cup {ip} /\ used' = used \ {ip}
        /\ ip \in freeing /\ freeing' = freeing \ {ip}
    BY <1>0, <1>20 DEF FreeOne, Release, TypeInv, Shape
  <2>2. Claim = {} /\ Claim' = {} /\ ClaimOrHeld'
    BY <1>20, <2>1 DEF FreeOne, Claim, ClaimOrHeld
  <2>3. Owned(L, O, Claim)'
    BY <1>1, <2>1, <2>2 DEF Owned
  <2> QED
    BY <1>0, <1>2, <2>1, <2>2, <2>3
<1>21. CASE Reclaim
  BY <1>3, <1>18, <1>19, <1>21 DEF Reclaim, HandleRelease, ControlRelease, vars, Packets
<1>22. CASE UNCHANGED vars
  BY <1>3, <1>22 DEF vars
<1>23. CASE HandleRequest
  BY <1>11, <1>22, <1>23 DEF HandleRequest, DropRequest, NakRequest
<1>24. CASE FinishRequest
  BY <1>13, <1>14, <1>15, <1>16, <1>24 DEF FinishRequest
<1>25. CASE Tick
  BY <1>3, <1>25 DEF Tick
<1> QED
  BY <1>4, <1>5, <1>6, <1>7, <1>9, <1>10, <1>20, <1>21, <1>22, <1>23, <1>24, <1>25
     DEF Next, Start, Restore, Stop, Crash, Discover, FreeIP, IgnoreRelease

\* The pool leaks no slot: free and used partition it, and every used slot is
\* used for a lease, an offer, a REQUEST in progress or a pending freeIP, in
\* every daemon life and under every failure but one: a lease that expires
\* between the two clock readings of a restart.
THEOREM NoSlotLeaks ==
  ASSUME \A E \in Envs : "straddle" \notin E
  PROVE  Spec => []SlotsAccounted
<1>1. OwnerInv => SlotsAccounted
  BY DEF OwnerInv
<1>2. OwnerInv /\ [Next]_vars => OwnerInv'
  BY OwnerStep
<1> QED
  BY <1>1, <1>2, OwnerInit, PTL DEF Spec

\* No slot has two owners, under the same failures: freeIP never frees an
\* address that has been handed on, and no lease is ever evicted by another
\* MAC's.
THEOREM SlotsSafe ==
  ASSUME \A E \in Envs : "straddle" \notin E
  PROVE  Spec => []ExclusiveSlots
<1>1. OwnerInv => ExclusiveSlots
  BY DEF OwnerInv
<1>2. OwnerInv /\ [Next]_vars => OwnerInv'
  BY OwnerStep
<1> QED
  BY <1>1, <1>2, OwnerInit, PTL DEF Spec

-----------------------------------------------------------------------------
(* Routes and the lease file.  From here on the exclusive ownership of     *)
(* slots is used: what belongs to an address belongs to one client.  First *)
(* what the steps of the server do to leases and routes.                   *)

\* A netlink call that fails leaves the routes, one that succeeds changes the
\* route of its address only.
LEMMA RouteCalls ==
  ASSUME NEW ip
  PROVE  /\ \A r \in RouteAdded(ip) : routes \subseteq r /\ r \subseteq routes \cup {ip}
         /\ \A r \in RouteDeleted(ip) : routes \ {ip} \subseteq r /\ r \subseteq routes
         /\ "route" \notin env => RouteDeleted(ip) = {routes \ {ip}}
BY DEF RouteAdded, RouteDeleted

\* The environment is fixed, and only a tick moves the clock.
LEMMA ClockSteps ==
  ASSUME [Next]_vars
  PROVE  env' = env /\ (now' = now \/ Tick)
<1> USE DEF clock
<1>1. CASE Start \/ Restore \/ Stop \/ Crash
  BY <1>1 DEF Start, Load, LoadFails, Restore, RestoreOne, Stop, Crash, Gone
<1>2. CASE Discover \/ HandleRequest \/ FinishRequest
  BY <1>2 DEF Discover, DiscoverAgain, DiscoverFresh, HandleRequest, DropRequest,
     NakRequest, ClaimRequest, FinishRequest, AbortRequest, RouteRequest,
     CommitRequest, SaveRequest, SaveRequestFails, SendAck, vars
<1>3. CASE FreeIP \/ Reclaim \/ \E p \in Packets : IgnoreRelease(p)
  BY <1>3 DEF FreeIP, FreeOne, Reclaim, HandleRelease, ControlRelease, ReleaseLease,
     Cleanup, IgnoreRelease, vars
<1>4. CASE Tick
  BY <1>4 DEF Tick
<1>5. CASE UNCHANGED vars
  BY <1>5 DEF vars
<1> QED
  BY <1>1, <1>2, <1>3, <1>4, <1>5 DEF Next

\* The steps that leave leases, file and routes alone.
Neutral ==
  \/ Tick \/ Discover \/ AbortRequest \/ SaveRequestFails \/ SendAck
  \/ \E p \in Packets : ClaimRequest(p)
  \/ UNCHANGED vars

\* Every step of the server is neutral, ends the process, or is one of the
\* steps that touch the leases, the file or the routes.
LEMMA StepKinds ==
  ASSUME [Next]_vars
  PROVE  \/ Neutral \/ Stop \/ Crash
         \/ \E P \in Pools : Load(P) \/ LoadFails(P)
         \/ \E m \in Macs : RestoreOne(m)
         \/ RouteRequest \/ CommitRequest \/ SaveRequest
         \/ \E ip \in IPs : FreeOne(ip)
         \/ \E m \in Macs, saved \in BOOLEAN : ReleaseLease(m, saved)
         \/ \E saved \in BOOLEAN : Cleanup(saved)
<1>1. CASE HandleRequest
  BY <1>1 DEF HandleRequest, DropRequest, NakRequest, Neutral
<1>2. CASE Reclaim
  <2>1. ASSUME NEW p \in Packets, NEW saved \in BOOLEAN, HandleRelease(p, saved)
        PROVE  p.mac \in Macs /\ ReleaseLease(p.mac, saved)
    BY <2>1 DEF HandleRelease, Packets
  <2>2. ASSUME NEW m \in Macs, NEW saved \in BOOLEAN, ControlRelease(m, saved)
        PROVE  ReleaseLease(m, saved) \/ UNCHANGED vars
    BY <2>2 DEF ControlRelease
  <2> QED
    BY <1>2, <2>1, <2>2 DEF Reclaim, Neutral
<1> QED
  BY <1>1, <1>2 DEF Next, Start, Restore, FinishRequest, FreeIP, IgnoreRelease, Neutral

\* A neutral step changes nothing the three invariants speak of but the step
\* of the lock holder, which it brings neither to "routed" nor to "save", and
\* away from "save" only where a save fails.
LEMMA NeutralKeeps ==
  ASSUME Neutral, TypeInv
  PROVE  /\ leases' = leases /\ file' = file /\ routes' = routes
         /\ phase' = phase /\ pool' = pool /\ boot' = boot
         /\ env' = env /\ freeing' = freeing
         /\ now' >= now /\ now' \in Nat /\ now \in Nat
         /\ pc' = "routed" => pc = "routed" /\ req' = req
         /\ pc = "routed" => pc' = "routed"
         /\ pc = "save" => (pc' = "save" /\ req' = req) \/ "save" \in env
         /\ pc' \in {"claimed", "routed"} => (pc' = pc /\ req' = req) \/ req'.arrived > 0
<1> USE DEF clock, life, slots, tables, outer, lock, TypeInv, TypeOK
<1>1. CASE Tick
  BY <1>1 DEF Tick
<1>2. CASE Discover
  BY <1>2 DEF Discover, DiscoverAgain, DiscoverFresh, Locked
<1>3. CASE AbortRequest \/ SaveRequestFails \/ SendAck
  BY <1>3 DEF AbortRequest, SaveRequestFails, SendAck, Unlock, Shape
<1>4. CASE \E p \in Packets : ClaimRequest(p)
  <2>1. \A p \in Packets : p.arrived > 0
    BY ServerAssumption DEF Packets
  <2> QED
    BY <1>4, <2>1 DEF ClaimRequest, Served, Locked
<1>5. CASE UNCHANGED vars
  BY <1>5 DEF vars
<1> QED
  BY <1>1, <1>2, <1>3, <1>4, <1>5 DEF Neutral

\* What a RELEASE, a control DELETE and a sweep have in common: some leases
\* are taken out and saved, or nothing changes.
LEMMA ReclaimTakes ==
  ASSUME OwnerInv,
         \/ \E m \in Macs, saved \in BOOLEAN : ReleaseLease(m, saved)
         \/ \E saved \in BOOLEAN : Cleanup(saved)
  PROVE  /\ Locked
         /\ IpsOf(leases') \cup freeing' = IpsOf(leases)
         /\ \A n \in Macs : leases'[n] \in {leases[n], None}
         /\ \/ leases' = leases /\ file' = file
            \/ file' = FileImage(leases')
         /\ pc' \in {"idle", "free"}
         /\ env' = env /\ now' = now /\ phase' = phase /\ pool' = pool /\ boot' = boot
         /\ routes' = routes
<1>0. /\ TypeInv /\ OneEntryPerIP(leases) /\ OneEntryPerIP(file)
  BY DEF OwnerInv, ExclusiveSlots
<1> USE DEF clock, life, slots, tables, outer, lock
<1>1. ASSUME NEW m \in Macs, NEW saved \in BOOLEAN, ReleaseLease(m, saved)
      PROVE  \E ms \in SUBSET Entries(leases) : TakeAndSave(ms, saved)
  BY <1>1 DEF ReleaseLease, Entries
<1>2. ASSUME NEW saved \in BOOLEAN, Cleanup(saved)
      PROVE  \/ \E ms \in SUBSET Entries(leases) : TakeAndSave(ms, saved)
             \/ UNCHANGED <<leases, file, pc, freeing>>
  <2>1. DeadLeases \in SUBSET Entries(leases)
    BY DEF DeadLeases, Expired, Entries
  <2> QED
    BY <1>2, <2>1 DEF Cleanup
<1>3. /\ Locked
      /\ env' = env /\ now' = now /\ phase' = phase /\ pool' = pool /\ boot' = boot
      /\ routes' = routes
  BY DEF ReleaseLease, Cleanup
<1>4. CASE \E ms \in SUBSET Entries(leases), saved \in BOOLEAN : TakeAndSave(ms, saved)
  <2>1. PICK ms \in SUBSET Entries(leases), saved \in BOOLEAN : TakeAndSave(ms, saved)
    BY <1>4
  <2>2. /\ IpsOf(leases') \cup freeing' = IpsOf(leases)
        /\ pc' \in {"idle", "free"}
        /\ \A n \in Macs : leases'[n] \in {leases[n], None}
        /\ \/ leases' = leases /\ file' = file /\ pc' = pc /\ freeing' = {}
           \/ leases' = Without(leases, ms) /\ file' = FileImage(leases') /\ pc' = "free"
    BY <1>0, <1>3, <2>1, TakeAndSaveSplits
  <2> QED
    BY <1>3, <2>2
<1>5. CASE UNCHANGED <<leases, file, pc, freeing>>
  BY <1>0, <1>3, <1>5 DEF TypeInv, Shape, Locked
<1> QED
  BY <1>1, <1>2, <1>4, <1>5

-----------------------------------------------------------------------------
(* A granted lease has its route.                                          *)

\* Every step keeps the route of every lease granted in this daemon life.
LEMMA RoutedStep == OwnerInv /\ RoutedInv /\ [Next]_vars => RoutedInv'
<1> SUFFICES ASSUME OwnerInv, RoutedInv, [Next]_vars
             PROVE  RoutedInv'
  OBVIOUS
<1> USE DEF clock, life, slots, tables, outer, lock
<1>0. /\ TypeInv /\ leases \in LeaseTable /\ OneEntryPerIP(leases)
      /\ \A m \in Macs : leases[m] # None => leases[m].ip \in IPs
  BY DEF OwnerInv, TypeInv, TypeOK, ExclusiveSlots, LeaseTable, Lease
\* A step that grants nothing keeps the invariant if it keeps the routes of
\* the leases that remain.
<1>1. ASSUME \A n \in Macs : leases'[n] \in {leases[n], None},
             \A n \in Entries(leases') : leases[n].ip \in routes => leases[n].ip \in routes',
             pc' # "routed"
      PROVE  RoutedInv'
  BY <1>1 DEF RoutedInv, GrantedRouted, Entries
<1>2. CASE Neutral
  BY <1>0, <1>2, NeutralKeeps DEF RoutedInv, GrantedRouted, Entries
<1>3. CASE Stop \/ Crash
  BY <1>3 DEF Stop, Crash, Gone, RoutedInv, GrantedRouted, Entries, Empty
<1>4. ASSUME NEW P \in Pools, Load(P) \/ LoadFails(P)
      PROVE  RoutedInv'
  <2>1. pc' = "idle"
    BY <1>0, <1>4 DEF Load, LoadFails, TypeInv, Shape
  <2>2. \A n \in Entries(leases') : leases'[n].granted = 0
    BY <1>0, <1>4 DEF Load, LoadFails, TypeInv, Shape, Entries, Loaded, Empty
  <2> QED
    BY <2>1, <2>2 DEF RoutedInv, GrantedRouted
<1>5. ASSUME NEW m \in Macs, RestoreOne(m)
      PROVE  RoutedInv'
  <2> DEFINE ip == leases[m].ip
  <2>1. pc' = "idle" /\ m \in Entries(leases)
    BY <1>0, <1>5 DEF RestoreOne, TypeInv, Shape
  <2>2. CASE leases' = leases /\ routes' \in RouteAdded(ip)
    <3>1. routes \subseteq routes'
      BY <2>2, RouteCalls
    <3> QED
      BY <1>1, <2>1, <2>2, <3>1
  <2>3. CASE leases' = Without(leases, {m}) /\ routes' \in RouteDeleted(ip)
    <3>1. routes \ {ip} \subseteq routes'
      BY <2>3, RouteCalls
    <3>2. \A n \in Macs : leases'[n] \in {leases[n], None}
      BY <2>3 DEF Without
    <3>3. \A n \in Entries(leases') : n \in Entries(leases) /\ n # m
      BY <2>3 DEF Entries, Without
    <3>4. \A n \in Entries(leases') : leases[n].ip # ip
      BY <1>0, <2>1, <3>3 DEF OneEntryPerIP
    <3> QED
      BY <1>1, <2>1, <3>1, <3>2, <3>4
  <2> QED
    BY <1>5, <2>2, <2>3 DEF RestoreOne
<1>6. CASE RouteRequest
  BY <1>6 DEF RouteRequest, RoutedInv, GrantedRouted, Entries
<1>7. CASE CommitRequest
  <2> DEFINE m == req.mac
  <2>1. /\ m \in Macs /\ leases'[m].ip = req.ip
        /\ \A n \in Macs \ {m} : leases'[n] = leases[n]
    BY <1>7, CommitLeases
  <2>2. req.ip \in routes /\ pc' = "save"
    BY <1>7 DEF CommitRequest, RoutedInv
  <2>3. \/ routes' = routes
        \/ /\ leases[m] # None /\ leases[m].ip # req.ip
           /\ routes' \in RouteDeleted(leases[m].ip)
    BY <1>7 DEF CommitRequest, Rebound
  <2>4. routes' = routes \/ (leases[m] # None /\ leases[m].ip # req.ip)
    BY <2>3
  <2>5. routes \ {leases[m].ip} \subseteq routes'
    BY <2>3, RouteCalls
  <2>6. ASSUME NEW n \in Entries(leases'), leases'[n].granted > 0
        PROVE  leases'[n].ip \in routes'
    <3>1. CASE n = m
      BY <2>1, <2>2, <2>4, <2>5, <3>1
    <3>2. CASE n # m
      <4>1. n \in Entries(leases) /\ leases'[n] = leases[n] /\ leases[n].ip \in routes
        BY <2>1, <2>6, <3>2 DEF Entries, RoutedInv, GrantedRouted
      <4>2. leases[m] # None => leases[n].ip # leases[m].ip
        BY <1>0, <2>1, <3>2, <4>1 DEF OneEntryPerIP, Entries
      <4> QED
        BY <2>4, <2>5, <4>1, <4>2
    <3> QED
      BY <3>1, <3>2
  <2> QED
    BY <2>2, <2>6 DEF RoutedInv, GrantedRouted
<1>8. CASE SaveRequest
  BY <1>8 DEF SaveRequest, RoutedInv, GrantedRouted, Entries
<1>9. ASSUME NEW ip \in IPs, FreeOne(ip)
      PROVE  RoutedInv'
  <2>1. leases' = leases /\ pc' # "routed" /\ routes \ {ip} \subseteq routes'
    BY <1>9, RouteCalls DEF FreeOne
  <2>2. phase = "up" /\ ip \in freeing
    BY <1>0, <1>9 DEF FreeOne, TypeInv, Shape
  <2>3. ip \notin IpsOf(leases)
    BY <1>0, <2>2, UpOwned DEF OwnerInv, Owned
  <2>4. \A n \in Entries(leases) : leases[n].ip # ip
    BY <2>3 DEF IpsOf
  <2> QED
    BY <1>1, <2>1, <2>4
<1>10. CASE \/ \E m \in Macs, saved \in BOOLEAN : ReleaseLease(m, saved)
            \/ \E saved \in BOOLEAN : Cleanup(saved)
  <2>1. /\ \A n \in Macs : leases'[n] \in {leases[n], None}
        /\ routes' = routes /\ pc' # "routed"
    BY <1>10, ReclaimTakes
  <2> QED
    BY <1>1, <2>1
<1> QED
  BY <1>2, <1>3, <1>4, <1>5, <1>6, <1>7, <1>8, <1>9, <1>10, StepKinds

\* A client never leases an unreachable address: whatever netlink calls fail
\* and whoever frees an address in between, the lease handleRequest granted
\* has its /32 route for as long as it is in the table.
THEOREM GrantedAlwaysRouted ==
  ASSUME \A E \in Envs : "straddle" \notin E
  PROVE  Spec => []GrantedRouted
<1>1. Init => RoutedInv
  BY DEF Init, RoutedInv, GrantedRouted, Entries, Empty
<1>2. OwnerInv /\ [Next]_vars => OwnerInv'
  BY OwnerStep
<1>3. RoutedInv => GrantedRouted
  BY DEF RoutedInv
<1> QED
  BY <1>1, <1>2, <1>3, OwnerInit, RoutedStep, PTL DEF Spec

-----------------------------------------------------------------------------
(* A restart brings back no lease that was given up.                       *)

\* A line the lease file has after a save stands for a lease, with its address.
LEMMA SavedBacked ==
  ASSUME NEW tab, NEW m \in Macs, FileImage(tab)[m] # None
  PROVE  tab[m] # None /\ FileImage(tab)[m].ip = tab[m].ip
BY DEF FileImage

\* An entry live at a later reading of the clock is live now.
LEMMA LiveEarlier ==
  ASSUME NEW f \in FileTable, NEW m \in Macs, NEW t \in Nat, NEW u \in Nat,
         t <= u, Live(f[m], u)
  PROVE  Live(f[m], t)
BY DEF Live, FileTable, LeaseLine

\* Every step keeps each live line of the file backed by its lease, but for a
\* rebind on the way to its save, or past a failed one.
LEMMA BackedStep == OwnerInv /\ BackedInv /\ [Next]_vars => BackedInv'
<1> DEFINE Backed(m) == leases[m] # None /\ (leases[m].ip = file[m].ip \/ Unsaved(m))
           Arrived == pc \in {"claimed", "routed"} => req.arrived > 0
           Goal ==
             /\ phase' # "down" =>
                  \A m \in Macs : Live(file'[m], now') /\ file'[m].ip \in pool' => Backed(m)'
             /\ phase' = "restoring" =>
                  \A m \in Entries(leases') :
                    file'[m] # None /\ file'[m].ip = leases'[m].ip
<1> SUFFICES ASSUME OwnerInv, BackedInv, [Next]_vars
             PROVE  Arrived' /\ ("read" \notin env' => Goal)
  BY DEF BackedInv
<1> USE DEF clock, life, slots, tables, outer, lock
<1>0. /\ TypeInv /\ leases \in LeaseTable /\ file \in FileTable /\ now \in Nat
      /\ pool \subseteq IPs
      /\ env' = env
  BY ClockSteps DEF OwnerInv, TypeInv, TypeOK
<1>1. Arrived
  BY DEF BackedInv
<1>2. /\ "read" \notin env /\ phase # "down" =>
           \A m \in Macs : Live(file[m], now) /\ file[m].ip \in pool => Backed(m)
      /\ "read" \notin env /\ phase = "restoring" =>
           \A m \in Entries(leases) : file[m] # None /\ file[m].ip = leases[m].ip
  BY DEF BackedInv
\* A step that leaves the file and the leases, and gives up no save.
<1>3. ASSUME phase' = phase, pool' = pool, file' = file, now' >= now, now' \in Nat,
             leases' = leases, "read" \notin env,
             pc = "save" => (pc' = "save" /\ req' = req) \/ "save" \in env
      PROVE  Goal
  <2>1. \A m \in Macs : Unsaved(m) => Unsaved(m)'
    BY <1>0, <1>3 DEF Unsaved
  <2>2. \A m \in Macs : Backed(m) => Backed(m)'
    BY <1>3, <2>1
  <2>3. \A m \in Macs : Live(file'[m], now') => Live(file[m], now)
    BY <1>0, <1>3, LiveEarlier
  <2> HIDE DEF Backed
  <2> QED
    BY <1>2, <1>3, <2>2, <2>3 DEF Entries
<1>4. CASE Neutral
  <2>1. Arrived'
    BY <1>0, <1>1, <1>4, NeutralKeeps
  <2>2. "read" \notin env => Goal
    BY <1>0, <1>3, <1>4, NeutralKeeps
  <2> QED
    BY <1>0, <2>1, <2>2
<1>5. CASE Stop \/ Crash
  BY <1>5 DEF Stop, Crash, Gone
<1>6. ASSUME NEW P \in Pools, Load(P) \/ LoadFails(P)
      PROVE  Arrived' /\ ("read" \notin env => Goal)
  <2>1. pc' = "idle"
    BY <1>0, <1>6 DEF Load, LoadFails, TypeInv, Shape
  <2>2. ASSUME "read" \notin env
        PROVE  Goal
    <3>1. Load(P)
      BY <1>6, <2>2 DEF LoadFails
    <3>2. leases' = Loaded(file, now) /\ file' = file /\ now' = now
      BY <3>1 DEF Load
    <3>3. \A m \in Macs : Live(file[m], now) => leases'[m] # None
      BY <1>0, <3>2, NoneAssumption DEF Loaded, Live, Expired, FileTable, LeaseLine, Lease
    <3>4. \A m \in Macs : leases'[m] # None => file[m] # None /\ file[m].ip = leases'[m].ip
      BY <3>2 DEF Loaded
    <3> QED
      BY <3>2, <3>3, <3>4 DEF Entries
  <2> QED
    BY <2>1, <2>2
<1>7. ASSUME NEW m \in Macs, RestoreOne(m)
      PROVE  Arrived' /\ ("read" \notin env => Goal)
  <2>1. /\ phase = "restoring" /\ m \in Entries(leases)
        /\ file' = file /\ now' = now /\ pool' = pool /\ pc = "idle" /\ pc' = "idle"
    BY <1>0, <1>7 DEF RestoreOne, TypeInv, Shape
  <2>2. ASSUME leases' = leases, "read" \notin env
        PROVE  Goal
    BY <1>2, <2>1, <2>2 DEF Entries
  <2>3. ASSUME leases[m].ip \notin free \cup used, leases' = Without(leases, {m}),
               "read" \notin env
        PROVE  Goal
    <3>1. file[m].ip \notin pool
      BY <1>2, <2>1, <2>3 DEF OwnerInv, SlotsAccounted
    <3>2. /\ \A n \in Macs \ {m} : leases'[n] = leases[n]
          /\ leases'[m] = None
      BY <2>3 DEF Without
    <3>3. \A n \in Macs \ {m} : Unsaved(n) => Unsaved(n)'
      BY <1>0, <2>1, <3>2 DEF Unsaved
    <3> QED
      BY <1>2, <2>1, <2>3, <3>1, <3>2, <3>3 DEF Entries
  <2> QED
    BY <1>7, <2>1, <2>2, <2>3 DEF RestoreOne
<1>8. CASE RouteRequest
  <2>1. Arrived'
    BY <1>1, <1>8 DEF RouteRequest
  <2>2. "read" \notin env => Goal
    BY <1>0, <1>3, <1>8 DEF RouteRequest
  <2> QED
    BY <1>0, <2>1, <2>2
<1>9. CASE CommitRequest
  <2>1. /\ leases'[req.mac] # None
        /\ leases'[req.mac].granted = req.arrived
        /\ \A n \in Macs \ {req.mac} : leases'[n] = leases[n]
    BY <1>9, CommitLeases
  <2>2. /\ phase' = "up" /\ phase = "up" /\ pool' = pool /\ file' = file /\ now' = now
        /\ pc = "routed" /\ pc' = "save" /\ req' = req
    BY <1>0, <1>9 DEF CommitRequest, TypeInv, Shape
  <2>3. Unsaved(req.mac)'
    BY <1>1, <2>1, <2>2 DEF Unsaved
  <2>4. \A n \in Macs \ {req.mac} : Unsaved(n) => Unsaved(n)'
    BY <1>0, <2>1, <2>2 DEF Unsaved
  <2> QED
    BY <1>0, <1>2, <2>1, <2>2, <2>3, <2>4
<1>10. CASE SaveRequest
  <2>1. file' = FileImage(leases) /\ leases' = leases /\ phase' = "up" /\ pc' = "ack"
    BY <1>0, <1>10 DEF SaveRequest, TypeInv, Shape
  <2> QED
    BY <2>1, SavedBacked DEF Live
<1>11. ASSUME NEW ip \in IPs, FreeOne(ip)
       PROVE  Arrived' /\ ("read" \notin env => Goal)
  <2>1. Arrived'
    BY <1>11 DEF FreeOne
  <2>2. "read" \notin env => Goal
    BY <1>0, <1>3, <1>11 DEF FreeOne
  <2> QED
    BY <2>1, <2>2
<1>12. CASE \/ \E m \in Macs, saved \in BOOLEAN : ReleaseLease(m, saved)
            \/ \E saved \in BOOLEAN : Cleanup(saved)
  <2>1. /\ phase' = "up" /\ phase' = phase /\ pool' = pool /\ now' = now
        /\ pc = "idle" /\ pc' \in {"idle", "free"}
        /\ (leases' = leases /\ file' = file) \/ file' = FileImage(leases')
    BY <1>12, ReclaimTakes DEF Locked
  <2>2. CASE leases' = leases /\ file' = file
    BY <1>0, <1>3, <2>1, <2>2
  <2>3. CASE file' = FileImage(leases')
    BY <2>1, <2>3, SavedBacked DEF Live
  <2> QED
    BY <2>1, <2>2, <2>3
<1> QED
  BY <1>0, <1>4, <1>5, <1>6, <1>7, <1>8, <1>9, <1>10, <1>11, <1>12, StepKinds

\* A restart brings back the leases the server has: in every daemon life,
\* between two handlers, each live line of the file that is inside the pool
\* names the address its MAC has in memory, save for a rebind granted in this
\* life in an environment whose saves may fail.
THEOREM NothingResurrected ==
  ASSUME \A E \in Envs : "straddle" \notin E
  PROVE  Spec => []NoResurrection
<1>1. Init => BackedInv
  BY DEF Init, BackedInv, Entries, Empty
<1>2. OwnerInv /\ [Next]_vars => OwnerInv'
  BY OwnerStep
<1>3. BackedInv => NoResurrection
  BY DEF BackedInv, NoResurrection, Locked, Unsaved
<1> QED
  BY <1>1, <1>2, <1>3, OwnerInit, BackedStep, PTL DEF Spec

-----------------------------------------------------------------------------
(* Within one daemon life exactly the leased addresses are routed.         *)

\* Every step of a daemon whose only failures are saves keeps the routes to
\* those of the leases, of the pending freeIP calls and of the REQUEST about
\* to be committed.
LEMMA ExactStep == OwnerInv /\ ExactInv /\ [Next]_vars => ExactInv'
<1> SUFFICES ASSUME OwnerInv, ExactInv, [Next]_vars, env' \subseteq {"save"}
             PROVE  /\ phase' # "restoring"
                    /\ phase' = "down" => routes' = {} /\ file' = Empty
                    /\ phase' = "up" =>
                         routes' = IpsOf(leases') \cup freeing'
                                     \cup (IF pc' = "routed" THEN {req'.ip} ELSE {})
  BY DEF ExactInv
<1> DEFINE Ahead == IF pc = "routed" THEN {req.ip} ELSE {}
           Goal ==
             /\ phase' # "restoring"
             /\ phase' = "down" => routes' = {} /\ file' = Empty
             /\ phase' = "up" => routes' = IpsOf(leases') \cup freeing' \cup Ahead'
<1> USE DEF clock, life, slots, tables, outer, lock
<1>0. TypeInv
  BY DEF OwnerInv
<1>1. env \subseteq {"save"}
  BY ClockSteps
<1>2. /\ phase # "restoring"
      /\ phase = "down" => routes = {} /\ file = Empty
      /\ phase = "up" => routes = IpsOf(leases) \cup freeing \cup Ahead
  BY <1>1 DEF ExactInv
<1>3. CASE Neutral
  BY <1>0, <1>2, <1>3, NeutralKeeps
<1>4. ASSUME NEW P \in Pools, Load(P) \/ LoadFails(P)
      PROVE  Goal
  <2>1. Load(P) /\ file = Empty /\ routes = {}
    BY <1>1, <1>2, <1>4 DEF Load, LoadFails
  <2>2. leases' = Empty
    BY <2>1 DEF Load, Loaded, Empty
  <2>3. todo' = {}
    BY <2>1, <2>2 DEF Load, Live, Empty
  <2>4. phase' = "up" /\ routes' = {} /\ freeing' = {} /\ pc' = "idle"
    BY <1>0, <2>1, <2>3 DEF Load, TypeInv, Shape
  <2> QED
    BY <2>2, <2>4, EmptyIps
<1>5. ASSUME NEW m \in Macs
      PROVE  ~RestoreOne(m)
  BY <1>2 DEF RestoreOne
<1>6. CASE RouteRequest
  <2>1. /\ phase = "up" /\ phase' = "up" /\ freeing' = freeing /\ leases' = leases
        /\ routes' = routes \cup {req.ip} /\ pc = "claimed" /\ pc' = "routed"
        /\ req' = req
    BY <1>0, <1>6 DEF RouteRequest, TypeInv, Shape
  <2> QED
    BY <1>2, <2>1
<1>7. CASE CommitRequest
  <2> DEFINE old == Rebound(leases, req.mac, req.ip)
  <2>1. /\ phase = "up" /\ phase' = "up" /\ freeing = {} /\ freeing' = {}
        /\ pc = "routed" /\ pc' = "save"
    BY <1>0, <1>7 DEF CommitRequest, TypeInv, Shape
  <2>2. IpsOf(leases') = (IpsOf(leases) \ old) \cup {req.ip}
    BY <1>7, CommitLeases
  <2>3. routes' = routes \ old
    <3>1. CASE old = {}
      BY <1>7, <3>1 DEF CommitRequest
    <3>2. CASE old # {}
      <4>1. old = {leases[req.mac].ip}
        BY <3>2 DEF Rebound
      <4>2. routes' \in RouteDeleted(leases[req.mac].ip)
        BY <1>7, <3>2 DEF CommitRequest
      <4> QED
        BY <1>1, <4>1, <4>2, RouteCalls
    <3> QED
      BY <3>1, <3>2
  <2>4. req.ip \notin old
    BY DEF Rebound
  <2> QED
    BY <1>2, <2>1, <2>2, <2>3, <2>4
<1>8. CASE SaveRequest
  BY <1>0, <1>2, <1>8 DEF SaveRequest, TypeInv, Shape
<1>9. ASSUME NEW ip \in IPs, FreeOne(ip)
      PROVE  Goal
  <2>1. /\ phase = "up" /\ phase' = "up" /\ leases' = leases
        /\ ip \in freeing /\ freeing' = freeing \ {ip}
        /\ pc = "free" /\ pc' # "routed"
    BY <1>0, <1>9 DEF FreeOne, TypeInv, Shape
  <2>2. routes' = routes \ {ip}
    BY <1>1, <1>9, RouteCalls DEF FreeOne
  <2>3. ip \notin IpsOf(leases)
    BY <1>0, <2>1, UpOwned DEF OwnerInv, Owned
  <2> QED
    BY <1>2, <2>1, <2>2, <2>3
<1>10. CASE \/ \E m \in Macs, saved \in BOOLEAN : ReleaseLease(m, saved)
            \/ \E saved \in BOOLEAN : Cleanup(saved)
  <2>1. /\ phase = "up" /\ phase' = "up" /\ pc = "idle" /\ pc' # "routed"
        /\ IpsOf(leases') \cup freeing' = IpsOf(leases) /\ routes' = routes
    BY <1>10, ReclaimTakes DEF Locked
  <2>2. freeing = {}
    BY <1>0, <2>1 DEF TypeInv, Shape
  <2> QED
    BY <1>2, <2>1, <2>2
<1>11. CASE Stop \/ Crash
  BY <1>1, <1>11 DEF Stop, Crash
<1> QED
  BY <1>3, <1>4, <1>5, <1>6, <1>7, <1>8, <1>9, <1>10, <1>11, StepKinds

\* In a daemon life without failures other than saves, between two handlers,
\* the kernel has exactly the routes of the leased addresses: none is missing
\* and none is left behind, whichever saves fail.
THEOREM RoutesStayExact ==
  ASSUME \A E \in Envs : "straddle" \notin E
  PROVE  Spec => []RoutesExact
<1>1. Init => ExactInv
  BY DEF Init, ExactInv
<1>2. OwnerInv /\ [Next]_vars => OwnerInv'
  BY OwnerStep
<1>3. OwnerInv /\ ExactInv => RoutesExact
  BY DEF OwnerInv, TypeInv, Shape, ExactInv, RoutesExact, Locked
<1> QED
  BY <1>1, <1>2, <1>3, OwnerInit, ExactStep, PTL DEF Spec

=============================================================================
