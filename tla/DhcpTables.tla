----------------------------- MODULE DhcpTables -----------------------------
(***************************************************************************)
(* The tables of the DHCP server and the operations on them, as functions  *)
(* of the table: the lease table (dhcp/lease.go), the pending offers       *)
(* (dhcp/offer.go) and the lease file.  A Go map keyed by MAC is a         *)
(* function on Macs whose value is None where the map has no key.          *)
(*                                                                         *)
(* Time is counted in ticks.  Time 0 is Go's zero time.Time, which no      *)
(* clock reading returns.  Gran ticks make one second: the lease file      *)
(* stores an expiry in RFC 3339 form, which drops the fraction.            *)
(***************************************************************************)
EXTENDS Naturals

CONSTANTS
  Macs,       \* client hardware addresses
  IPs,        \* IPv4 addresses a client may name or a pool may hold
  None,       \* no entry, no address, no packet
  LeaseTime,  \* Config.LeaseTime, in ticks
  OfferTime,  \* offerTimeout, in ticks
  Gran        \* ticks in one second

Lease     == [ip : IPs, expiry : Nat, granted : Nat]
Offer     == [ip : IPs, expiry : Nat]
LeaseLine == [ip : IPs, expiry : Nat]

ASSUME NoneAssumption ==
  /\ None \notin IPs
  /\ None \notin Lease
  /\ None \notin Offer

ASSUME TimeAssumption ==
  /\ LeaseTime \in Nat \ {0}
  /\ OfferTime \in Nat \ {0}
  /\ Gran \in Nat \ {0}

LeaseTable == [Macs -> Lease \cup {None}]
OfferTable == [Macs -> Offer \cup {None}]
FileTable  == [Macs -> LeaseLine \cup {None}]

Empty == [m \in Macs |-> None]

-----------------------------------------------------------------------------
(* Both tables compare clocks strictly on both sides: an entry is live     *)
(* before its expiry and expired after it.  At the expiry it is neither.   *)

Live(e, t)    == e # None /\ t < e.expiry
Expired(e, t) == e # None /\ t > e.expiry

Entries(tab) == {m \in Macs : tab[m] # None}
IpsOf(tab)   == {tab[m].ip : m \in Entries(tab)}

HasLive(tab, m, ip, t) == Live(tab[m], t) /\ tab[m].ip = ip

LeasedToOther(tab, m, ip, t) == \E n \in Macs \ {m} : HasLive(tab, n, ip, t)

\* leaseStore.add: the new lease replaces m's own and evicts every other holder of ip.
LeaseAdd(tab, m, ip, t) ==
  [n \in Macs |->
     IF n = m THEN [ip |-> ip, expiry |-> t + LeaseTime, granted |-> t]
     ELSE IF tab[n] # None /\ tab[n].ip = ip THEN None
     ELSE tab[n]]

\* Mutant: the address a rebind leaves behind is forgotten.
ReboundForgotten(tab, m, ip) == {}

\* The address a rebind of m to ip orphans: the evicted entry that carries m's own MAC.
Rebound(tab, m, ip) ==
  IF tab[m] # None /\ tab[m].ip # ip THEN {tab[m].ip} ELSE {}

Without(tab, ms) == [n \in Macs |-> IF n \in ms THEN None ELSE tab[n]]

\* restoreAll puts the entries of ms, as they were in old, back into tab.
RestoreAll(tab, old, ms) == [n \in Macs |-> IF n \in ms THEN old[n] ELSE tab[n]]

\* Mutant: packets are taken in the order they get the lock.
NeverSuperseded(e, arrived, t) == FALSE

\* Granted.After(arrived): a packet that arrived later already set this lease.
Superseded(e, arrived, t) == Live(e, t) /\ e.granted > arrived

-----------------------------------------------------------------------------
(* The lease file: save writes every entry without Granted and with the    *)
(* expiry cut to the second; load skips what has expired.                  *)

Trunc(t) == t - (t % Gran)

FileImage(tab) ==
  [m \in Macs |->
     IF tab[m] = None THEN None
     ELSE [ip |-> tab[m].ip, expiry |-> Trunc(tab[m].expiry)]]

\* Mutant: a line of the file is used as a lease as it is.
LoadedAsIs(f, t) ==
  [m \in Macs |-> IF f[m] = None \/ Expired(f[m], t) THEN None ELSE f[m]]

\* Mutant: the table starts empty.
LoadedNothing(f, t) == Empty

Loaded(f, t) ==
  [m \in Macs |->
     IF f[m] = None \/ Expired(f[m], t) THEN None
     ELSE [ip |-> f[m].ip, expiry |-> f[m].expiry, granted |-> 0]]

=============================================================================
