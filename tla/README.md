# cocoon-net in TLA+

cocoon-net gives every VM of a node a VPC-routable address. `init` claims
addresses from the cloud and records them in `pool.json`; `daemon` leases them
over DHCP and keeps a `/32` host route per lease; `teardown` gives everything
back. This directory models the parts of it that keep state, checks them with
TLC on small instances and proves the most important results with TLAPS for
every instance.

## 1. Inventory

| Component | State | Operations | Hard because |
|---|---|---|---|
| DHCP server (`dhcp/`) | address pool (`free`, `used`), lease table, offers, lease file, kernel routes | DISCOVER, REQUEST, RELEASE, control DELETE, one-minute sweep, restore at start | five structures change in each handler, two of them outlive the process, and most calls may fail |
| Packet intake (`dhcp/server.go`) | one goroutine per packet, all waiting on `lifecycleMu` | stamp, queue, serve | packets are served in any order; only the arrival stamp orders them |
| Control API (`dhcp/control.go`) | none of its own | `DELETE /v1/leases/{mac}` | called again after a 500 or a lost reply |
| Pid file (`cmd/pidfile.go`, `cmd/daemon.go`, `cmd/teardown.go`) | `/run/cocoon-net.pid` | link, read, probe, remove; teardown's check | separate calls of several processes, each of which may die |
| Commands (`cmd/`) | `pool.json`, the lease file, the FORWARD chain and the pid file between them | `init`, `adopt`, `daemon`, `teardown` | each stops at any error or dies anywhere, and the next one starts from what is left |
| Volcengine ENIs (`platform/volcengine`) | interfaces in the cloud, their attachment and addresses, ids in `pool.json` | `init`, `adopt`, `teardown` | many slow calls, each of which may fail, be interrupted or take effect unseen |
| GKE alias ranges (`platform/gke`) | nic0's alias list, the secondary range | `init`, `teardown` | read-modify-write of a shared list |
| Address arithmetic (`platform/ip.go`) | none | gateway, pool addresses, inclusion | /0, /31, /32 and the top of the address space |
| Node setup (`node/`) | bridge, sysctl, FORWARD chain, CNI file | `Setup`, `ClearDropRules` | several processes check, insert, list and delete rules in separate calls; rules are recognised by their printed text |
| `pool.json` (`pool/`) | one file | save, load, delete | written by one command, acted on by another |
| CLI, detection, status, metrics | none | | |

How they interact: `init` (or `adopt`) writes `pool.json`; the daemon takes the
pid file, reads `pool.json`, redoes the node setup and runs the DHCP server on
its address list; clients and the lifecycle manager (vk-cocoon) reach the server
by UDP and by the control socket; `teardown` acts on what `pool.json` records.

What makes each part correct:

* DHCP server: every slot of the pool is free or has exactly one owner; no two
  clients use one address; an acknowledged lease survives any crash; a restart
  brings back the leases the server had and no others; a leased address has its
  route and no other address has one; expired offers and leases are reclaimed.
* Pid file: at most one daemon, whose pid is in the file; no daemon beside a
  teardown; no start is refused without cause.
* Commands and node setup: after a Setup exactly the wanted destinations are
  dropped, whoever else works on the chain; no drop rule outlives the
  `pool.json` that teardown needs to remove it; a teardown leaves no rule, no
  `pool.json` and no lease file.
* ENIs: none gets out of reach of `init` and `teardown`; `teardown` leaves none;
  repeated `init`s do not pile them up; on an adopted node unrelated ENIs are
  never touched.
* Alias ranges: every alias lies in the shared range; other ranges' aliases are
  never lost; `teardown` leaves none of ours; a served subnet is bound to its
  node.
* Arithmetic: exactly the host addresses, in order, and termination.

`PROJECT.json` lists the hazards behind these properties, each at its line.

## 2. Modules

| Module | Models | Composes |
|---|---|---|
| `DhcpTables` | lease table, offers and lease file as values, the operations on them as functions | |
| `DhcpServer` | the server: handlers, restore, sweep, stop and crash | extends `DhcpTables` |
| `DhcpNode` | the server with its clients, the packet queue and the lifecycle manager | extends `DhcpServer` |
| `AddressService` | what clients rely on, nothing of how it is kept | implemented by `DhcpNode` |
| `PidFile` | starts, deaths and exits of daemon and teardown processes over the pid file | |
| `ForwardChain` | the FORWARD chain under `setupIPTables` and `ClearDropRules` of several processes | |
| `NodeLife` | `init`, `adopt`, `daemon` and `teardown` of one node over `pool.json`, lease file, pid file and chain | extends `PidFile` and `ForwardChain` |
| `VolcENIs` | `init`, `adopt` and `teardown` over the Volcengine API and `pool.json` | |
| `GkeAliases` | `init`, `adopt`, `daemon` and `teardown` of several nodes over one secondary range, each node's alias list and `pool.json` | |
| `SubnetMath` | `platform/ip.go` on `W`-bit addresses | |
| `DhcpServerProofs`, `PidFileProofs`, `VolcENIsProofs`, `GkeAliasesProofs`, `SubnetMathProofs` | theorems | extend their component |
| `DhcpNodeProofs` | `DhcpNode` implements `DhcpServer` and `AddressService`; theorems on the clients | extends `DhcpNode` and `DhcpServerProofs` |
| `ForwardChainProofs` | lemmas on the chain and on one iptables call | extends `ForwardChain` |
| `NodeLifeProofs` | `NodeLife` implements `PidFile`; theorems on the rules and files | extends `NodeLife`, `PidFileProofs` and `ForwardChainProofs` |
| `MC*` | constants for TLC | extend their component |

### DhcpServer

Every handler holds `lifecycleMu` from its first line to its last, so handlers
do not interleave. The clock moves and the process may die between any two
lines, though, so a handler is cut where it has changed something that outlives
the process or may fail. `pc` is the step the holder of the lock has reached:

| `pc` | in `handleRequest` | next |
|---|---|---|
| `idle` | nobody holds the lock | `DropRequest`, `NakRequest`, `ClaimRequest` |
| `claimed` | past `tryClaim` | `AbortRequest` (reply or route failed), `RouteRequest` |
| `routed` | past `addRoute` | `CommitRequest`: offers, leases, rebind |
| `save` | before `save` | `SaveRequest`, `SaveRequestFails` |
| `ack` | before `WriteTo` | `SendAck` |

Releases and the sweep take their entries out and save in one step
(`TakeAndSave`: the rename is the only visible effect, and on failure
`restoreAll` puts everything back under the same lock) and then pass their
addresses to `freeIP` one by one (`pc = "free"`). `Load` is a process start up
to the snapshot `restoreLeases` iterates over, `RestoreOne` one turn of that
loop.

Expiry comparisons are strict on both sides, as in the code: at its expiry an
entry is neither live nor expired. `Trunc` is the loss of the fraction of a
second in the file (`time.RFC3339`), and `Granted` is not stored, so a restored
lease has `granted = 0`, Go's zero time.

`env` is the set of failures the environment of a behaviour has. It is chosen
in `Init` from the constant `Envs` and never changes, so that one run covers
several environments. The failures are `stop`, `crash`, `save` (writing the
lease file), `read` (an unreadable file at start), `route` (netlink, or a reply
that cannot be built) and `straddle` (a lease expiring between the clock
readings of `load` and `restoreLeases`). The code has no answer to the last one:
such a lease stays in the table while its slot is not marked used, the slot is
offered to another client, and the sweep frees it under that offer. It is
excluded wherever the slots' owners are the question. In `DhcpServer` any packet that can
have arrived since the start may be the next one served; `DhcpNode` replaces
that by clients and a queue.

### DhcpNode and AddressService

The clients are not code of the repository. A client counts its lease from its
REQUEST, gives an address up before it asks for another, accepts an ACK or NAK
only for the REQUEST it is waiting on, retransmits, releases, and may be
destroyed. Packets and replies get lost; packets queued on the lock are served
in any order and die with the process. The lifecycle manager deletes the lease
of a destroyed VM and repeats the call until it sees 204. Two packets of one
client do not share an arrival time.

`pool.json` may change between starts. An address it drops is out of the daemon's
hands, whoever still uses it, so what is promised to clients is about the
addresses of every pool (`Stable`). `ImplementsService` maps the clients' holdings
of those, cut to whole seconds, to the grants of `AddressService`: an address is
granted only while no other client's grant of it runs, and for at most the lease
time.

### PidFile

One action per file-system call or signal. The file appears complete, by a hard
link, so its content is always a pid. A teardown runs `checkExistingPID` too,
but writes no file; with `--force` it does not look. A pid serves for a later
process once neither the file nor a starter remembers it. `Concurrent` says
whether a start may overlap another start or a teardown.

### ForwardChain

One action per iptables call, for any number of processes at once. A rule is a
drop target or `Accept`, which stands for the bridge's ACCEPT rules; the chain is
a sequence and the first match decides. `job` is what a process is doing:

| `step` | in the code | next |
|---|---|---|
| `accept` | `setupIPTables` before its appends | `EnsureAccept` |
| `drops` | the loop over the targets, and `List` after it | `CheckDrop` (`Exists`), `ListDrops` |
| `insert` | `Exists` has said no | `InsertDrop` |
| `delete` | the loop over the rules in `listed` | `DeleteDrop`, `DeleteFails` |
| `installed` | `setupIPTables` has returned | |

What `iptables -S` prints decides which rules are kept: it prints no `-d` for the
targets in `Unprinted`, so `Kept` never recognises those. `ClearDropRules` is the
same loop without a wanted target. `calm` is bookkeeping for `DropsExact` alone:
it is lost when a process that wants other targets works on the chain.

### NodeLife

`PidFile` and `ForwardChain` with the commands around them. `phase` is where a
process is in its command, `record` is `pool.json` (its drop targets, and whether
it lists addresses or is the seed of an `init`), `leases` whether there is a lease
file. A command stops at any error, any process may be killed at any step, and
`NodeReboots` empties `/run` and the chain. The operator runs one command at a
time, beside any number of daemon starts. `env` holds the kinds of failure and
use of a behaviour: `host` (a cloud, link, bridge, sysctl or disk call fails),
`ipt` (an iptables call fails), `adopt` (the operator adopts too, and
`--skip-iptables` is used) and `force` (`teardown --force`).

### VolcENIs

One command runs at a time. `record` is the ENI id list of `pool.json`,
`carrying` the ENIs with secondary addresses. Failures: `api` (a call fails
without effect), `late` (an attach takes effect and still reports an error),
`cancel` (interrupted in a propagation delay), `parse` (a create took effect, its
reply cannot be read), `save`, `read` and `kill`. Uses: `init`, `adopt`, and `hand`
(ENIs attached by hand before the first command, some of them outside the
subnet). DescribeNetworkInterfaces with ids of deleted ENIs returns the others.
An `adopt` records the ENIs that carry an address of the subnet and changes
nothing in the cloud.

### GkeAliases

Each gcloud call of a command is a step, so nodes interleave between any two of
them. `range` is the shared secondary range, as the set of CIDRs it covers;
`own` and `other` are nic0's aliases from `cocoon-pods` and from elsewhere, and
`seen` the list a command has read and will write back. `record` is `pool.json`:
its subnet, and who wrote it (`by`): the file shows that itself, as a seed has no
addresses and only `init`'s result names the alias range. `adopt` calls nothing in
the cloud and checks `--subnet` against nothing on nic0; that the operator names a
subnet bound to the node is an assumption, made wherever `stray` is not in `env`.
The VPC refuses a CIDR bound
to another instance; that it also refuses one outside the range is not counted
on. Failures: `api`, `late` (an update takes effect and reports an error),
`config` (gateway or pool size rejected after the alias is bound), `disk`, `read`
and `kill`; and four kinds of use: `move` (`init` with another `--subnet` than
before), `stray` (`adopt` with a `--subnet` not bound to the node from
`cocoon-pods`), `byhand` (an alias bound by hand) and `operator` (nic0 edited
under a command).

### SubnetMath

`SubnetIPs` is a loop and is modelled turn by turn; the other functions are
operators. `netip`'s `Masked`, `Next` and `Contains` are external.

## 3. Runs

| Run | Bounds | Shows |
|---|---|---|
| `ServerSafety` | 2 MACs, 2 addresses, pools {i1,i2} and {i1}, clock 1..7, lease 3, offer 2; four environments | `SlotsAccounted`, `ExclusiveSlots`, `GrantedRouted` in all of them; `NoResurrection` where the file is readable, to the address where it is writable too; `RoutesExact` in one daemon life with working netlink |
| `ServerLiveness` | clock 1..5, one pool | `OffersReclaimed`, `LeasesReclaimed` |
| `NodeContend` | 2 clients, 1 address, queue of 2, clock 1..5; one environment, with `stop`, `crash`, `save` and `route` | `NoDoubleAssign`, `ImplementsService` |
| `NodeRebind` | 2 clients, 2 addresses, pools {i1,i2} and {i1}, queue of 2, clock 1..3; one environment, with `crash` and `save` | `AckedDurable`, `HeldReserved` |
| `NodeLife` | 2 daemons, 1 teardown and 1 command process, each started any number of times; targets {a} and {b, a}; four environments | `SingleDaemon`, `PidFileOwned`, `TeardownAlone`, `RefusalJustified`, `DropsExact` in all; `RulesReachable` under failing calls other than iptables; `TeardownClean` under kills and reboots |
| `SubnetMath` | every input of 4-bit addresses | `SubnetIPsExact`, `DefaultGatewayUsable`, `ContainsExact`; the loop ends (`SubnetIPsReturns`), because every step brings its end nearer (`StepsDecrease`) |
| `VolcENIs` | 4 new ids and 2 by hand, one of them outside the subnet, 2 ENIs per node; four environments | `NoENILost`, `TeardownRemovesAll` under `api`, `late` and `cancel`; `AttachedWithinCount` under every failure and use; `UnrelatedSpared` under every failure on a node that is only adopted |
| `GkeAliases` | 2 nodes, 2 CIDRs, 1 foreign alias; four environments | `AliasInRange` in all; `ForeignKept` unless nic0 is edited under a command; `TeardownUnbinds`: the recorded subnet unbound in all, no alias left under every failure on nodes that keep their subnet, or move under failing calls, and adopt what is bound; `ServedBound` under failing calls, moves and adopts |

Four runs end in a violation; each contradicts a sentence of the docs or a
comment, quoted under `findings` in `PROJECT.json`:

| Run | What happens |
|---|---|
| `OrphanRoute` | a lease expires while the daemon is stopped; its route stays for ever |
| `RestartFraction` | after a restart an address is given away in the last second of its lease |
| `PidFileRace` | two simultaneous starts over a stale pid file both serve |
| `DropAny` | a drop rule for 0.0.0.0/0 is deleted by the Setup that inserted it |

More limits of the code bound what the passing runs state. A crash between
`addRoute` and the save, or between the save and `freeIP`, leaves a route that
no later start removes, so `RoutesExact` is about one daemon life. An `init`
that is killed, or that cannot read a create's reply or write `pool.json`,
leaves an ENI in neither `pool.json` nor the instance's list, so `NoENILost` and
`TeardownRemovesAll` are about `Handled`, the failures the code acts on. A rebind
whose save fails is in memory only: the file keeps the address before it, which
the pool has got back, and a restart before the next save brings that one back;
`NoResurrection` allows it to a lease granted in this daemon's life where saves may
fail, and to no other. A GKE
`init` with another `--subnet` that fails after binding the alias leaves nic0 with
the new CIDR and `pool.json` with the old one, and teardown then unbinds neither:
there `TeardownUnbinds` requires only that the recorded subnet is unbound
(`Recorded`), and `ServedBound` leaves such failures out. A GKE `adopt` of a subnet
that is not bound to the node does the same to a node that has another alias: the
teardown warns that the alias is not present and gives `pool.json` up. Such a
record (`Strayed`) is excused from `ServedBound` and from the second half of
`TeardownUnbinds` until an `init` has replaced it. `adopt` replaces the
recorded ENI ids instead of merging them, so the reach of ENIs is stated without
it. `adopt` also installs the drop rules before it saves `pool.json`, and
`teardown` deletes `pool.json` although `ClearDropRules` failed; either leaves rules
that no teardown can remove, so `RulesReachable` excludes `adopt` and `ipt`, and `--force`,
which lets a daemon put rules back behind a teardown. A
daemon started after teardown's check of the pid file serves beside it, and
`--force` lets it on purpose; `TeardownAlone` excludes the first by `Concurrent`
and is about teardowns without `--force`.

Why the bounds are enough. Two clients and two addresses give every pairing the
code tells apart (same client and other, requested address and other). The
clock runs far enough for a lease to be granted, to expire and be granted
again, and in `ServerSafety` for that to happen across a restart. One second is
two ticks (three in `NodeContend`), so an expiry may or may not fall on a whole
second. A queue of two holds the out-of-order pair. `MaxTime` is no multiple of
`Gran`: at the end of the clock a start must still be possible. In `NodeLife` two
daemons, a command and a teardown give every pair of processes that can meet on
the chain or the pid file, and one target set inside the other makes a Setup both
insert and prune; pids are reused, so behaviours have any number of starts. In
`VolcENIs` four new ids let an `init` lose two ENIs and still reach its two. MACs
are interchangeable, and so are addresses where there is one pool, daemon
processes and new ENI ids; runs with a liveness property use no symmetry.

Deadlock is checked for the DHCP modules. It is off where the system may stop:
nobody has to start another command on a node, all ids of `VolcENIs` may be
used, `SubnetIPs` returns.

Fairness (`ServerLiveness`): a started daemon goes through its restore, the
holder of the lock goes on (weak fairness of each), the daemon is started again
(systemd's `Restart=`), and `cleanupLoop`, which ticks every minute for ever,
gets the lock and a working disk again and again (strong fairness of the sweep
that saves: crashes and other handlers may disable it in between). No fairness
of any packet, and none of the clock, is assumed. `SubnetIPs` is a sequential
loop: weak fairness of its steps.

## 4. Theorems

Every safety and action property the passing runs check, and the refinement of
`AddressService`, is proved for every value of the constants; the liveness
properties are not. The inductive invariants stand at the
end of the module they are about, under the heading "inductive invariant"; TLC
found each of them to hold on the instances of section 3.

Server (`DhcpServerProofs`):

| Theorem | Property | Inductive invariant | Assumes |
|---|---|---|---|
| `TypeCorrect` | `TypeOK` | `TypeInv` | |
| `NoSlotLeaks`, `SlotsSafe` | `SlotsAccounted`, `ExclusiveSlots` | `OwnerInv` | no `straddle` |
| `GrantedAlwaysRouted` | `GrantedRouted` | `RoutedInv` with `OwnerInv` | no `straddle` |
| `NothingResurrected` | `NoResurrection` | `BackedInv` with `OwnerInv` | no `straddle` |
| `RoutesStayExact` | `RoutesExact` | `ExactInv` with `OwnerInv` | no `straddle` |

`TypeInv` adds `Shape` to the types: what each phase and step allows (handlers
only when up, the snapshot within the table, a REQUEST in progress names an
address); without it the record accesses of later steps have no type. `OwnerInv`
adds that a REQUEST which claimed no slot stands on its client's own offer or
lease (`ClaimOrHeld`), without which `CommitRequest` could give a slot a second
owner, and that the file names no address twice, without which a restart could.
The proof keeps, for a running daemon, the form "the used slots are the disjoint
union of the leases', the offers', the claim's and the pending ones" (`Owned`),
with one step per action; the lemmas say how deleting, setting, saving and
loading change the set of addresses of a table. `RoutedInv` adds the route of the
REQUEST about to be committed, `BackedInv` what a half-done restore still has to
visit and which rebinds the file may not have (`Unsaved`: one on the way to its
save, or past a failed one), `ExactInv` the one route a handler is ahead by and the ones it is behind
by. All need `OwnerInv`: a route or a file line of an address is safe from other
clients because its slot has one owner.

Whole DHCP node (`DhcpNodeProofs`):

| Theorem | Property | Assumes |
|---|---|---|
| `NodeTypeCorrect` | `NodeTypeOK` | |
| `NodeImplementsServer` | `NodeSpec => Spec` | |
| `AcksAreDurable` | `AckedDurable` | `Steady` |
| `HeldStaysReserved` | `HeldReserved` | `Steady` |
| `NeverDoublyAssigned` | `NoDoubleAssign` | `Steady` |
| `NodeImplementsService` | `ImplementsService` | `Steady` |
| `OnlyPooledHeld` | clients hold only addresses some `pool.json` has listed | `Steady` |

By `NodeImplementsServer` (the mapping is the identity: a step of the node is a
step of the server with a packet from the queue, or leaves the server alone) the
node inherits `OwnerInv`. `NodeInv` adds six parts besides `AckedDurable`. `QueueInv` and `AskInv` tie
the packets under way to what their client asks for now; `HeldInv` says that a
packet at odds with the address its client holds is older than the REQUEST the
client got it with; `HandlerInv` what the holder of the lock has established;
`MemoryInv` that the lease of an address in use is in memory and its Granted
stamp is at least that REQUEST's, or the daemon has come up since. So the
comparison of stamps in `handleRequest` and `handleRelease` is what keeps a
late packet from taking away an address in use, and after a restart, which
forgets the stamps, the comparison with the boot time. `HeldPooled` says that held addresses come from a pool; if `pool.json` never changes,
they are therefore all stable, and the theorems speak of every holding. None of the
others is inductive by itself. `NoDoubleAssign` follows because both leases would
be in one file that names no address twice.

Refinement: `NodeImplementsService` shows that the initial states of the node
have no grants, and that a step of the node maps to a grant, the end of one, a
tick or a stutter of `AddressService`; only `SendAck`'s delivery grants, and its
guard comes from `NodeInv`.

Pid file (`PidFileProofs`), for any number of processes, if starts do not overlap
(`~Concurrent`): `OneDaemon` (`SingleDaemon`, `PidFileOwned`), `TeardownUndisturbed`
(`TeardownAlone`) and the action property `RefusedForAReason` (`RefusalJustified`).
The first two need less. `OneDaemonOverlapping` lets starts and teardowns
overlap in any way, as long as a start that is going to remove a file
(`Removing`) is the only process that starts meanwhile (`RemovesAlone`);
`TeardownApartIsAlone` adds only that no daemon starts between a teardown's look at
the file and its end (`TeardownApart`). Their invariants are `OverlapInv` and
`TeardownInv`; `ApartMeansAlone` shows that `~Concurrent` is a special case of both.
`StarterInv` adds that a starter past the probe has no daemon beside it, and one
that has read a pid at most that daemon; `RefusalInv` that a starter that goes
round its loop again finds no file, so only a live owner can use up its turns.

Node (`NodeLifeProofs`, with the lemmas of `ForwardChainProofs`):

| Theorem | States | Assumes |
|---|---|---|
| `LifeImplementsPidFile` | `LifeSpec => Spec` of `PidFile` | |
| `NodeHasOneDaemon` | the four properties of `PidFile` on the node | `~Concurrent` |
| `NodeStartsMayOverlap` | `SingleDaemon`, `PidFileOwned` on the node | `[]RemovesAlone` |
| `LifeTypeCorrect` | `LifeTypeOK` | |
| `DropsAreExact` | `DropsExact` | no target in `Unprinted` |
| `NothingLeftIfAlone` | `TeardownClean`, `RulesReachable` | `[]TeardownAlone`, no target in `Unprinted` |
| `NothingLeftBehind` | the same | `[]RemovesAlone` and `[]TeardownApart`, or `~Concurrent`; no target in `Unprinted` |

The variables of `PidFile` are variables of `NodeLife`, so the mapping is the
identity and the first theorem carries the second over without another
induction. `LifeInv` says which phase goes with which step of the chain for each
kind of process (`ShapeAt`), and that the operator runs one command at a time.
`RulesInv` (`ChainInv`) is behind `DropsExact`: all DROPs come before all ACCEPTs;
an undisturbed Setup has its wanted rules in the chain or still to come; and a
stale rule is not more often in the chain than in what is left of the listing. The
last part counts copies (`Copies`), because two Setups can insert one rule twice
and one `Delete` removes one copy: the set of rules alone is not inductive.
Failing `Delete`s are covered: a Setup that has counted one never reports success
(`installed` needs `~failed`). `TornInv` says that
nobody changes the chain beside an unforced teardown, which needs the pid-file
theorem, and `ReachInv` that without a `pool.json` nobody but a teardown is at the
chain. The lemmas about the chain (what appending, inserting, removing the first
match and cutting a listing do to its members and their counts) need no
induction over sequences: `RemoveFirst` is opened as "some position, and none
before it", and a count changes by one because the positions are in bijection.

ENIs (`VolcENIsProofs`):

| Theorem | Property | Inductive invariant | Assumes |
|---|---|---|---|
| `TypeCorrect` | `TypeOK` | `TypeInv` | |
| `WithinCount` | `AttachedWithinCount` | `WithinInv` | `Cardinality(Hand) <= Count` |
| `NothingLost`, `TeardownComplete` | `NoENILost`, `TeardownRemovesAll` | `KnownInv` | |
| `AdoptedSpared` | `UnrelatedSpared` | `SparedInv` | |

`WithinInv` says that every attached ENI has used up a turn of the loop,
`KnownInv` that each ENI is named by `pool.json`, by the result under way or is the
one of the current turn, and that a teardown without errors has still to visit
what is left; `SparedInv` that the record of an adopted node is never empty, so
teardown never falls back on every attached ENI.

Alias ranges (`GkeAliasesProofs`), without assumptions on constants or
environments: `TypeCorrect`, `AliasesInRange` (`AliasInRange`), `ServedIsBound`
(`ServedBound`), and the action properties `ForeignAliasesKept` (`ForeignKept`) and
`TeardownLeavesNothing` (`TeardownUnbinds`). `RangeInv` says that the list a command
is about to write back is still the one nic0 has, and that its subnet has been
found in the range; `BoundInv` that a teardown past its unbinding has got rid of the
recorded subnet (`GivenUpAt`, in every environment), and that nic0 has at most the
alias `pool.json` names, except while a move is between its bind and its save or
after a stray adopt (`BoundAt`); `ServedInv` that a complete `pool.json`, not a stray
adopt's, names a bound subnet outside that window. What environments and records
the two properties speak of stands in their statements (`Answered`, `Recorded`,
`Strayed`), as it does in `RulesReachable`, `TeardownClean` and `NoENILost`.

Arithmetic (`SubnetMathProofs`), for addresses of any width, 32 bits among them, and
any bound on the pool size, without further assumptions:

| Theorem | Property |
|---|---|
| `TypeCorrect` | `TypeOK` |
| `PoolIsExact` | `SubnetIPsExact` |
| `GatewayUsable` | `DefaultGatewayUsable` |
| `ContainsDecided` | `ContainsExact` |
| `NoEndlessLoop` | `StepsDecrease`, and that `StepsLeft` is a natural number |

`LoopInv` says that the result so far holds exactly the hosts the loop has gone
past, in ascending order, all of them once `Next` has run off the end of the
address space, and that their number is the result's length. A prefix is a block
of addresses that starts at a multiple of its size, so what the masks compute
is division with remainder. The powers of two this needs are had without
induction over data: 2^n is the number of subsets of an n-element set, which
gives 2^(n+1) = 2 * 2^n; that exponents add up is then shown by a least
counterexample, from the well-foundedness of `<` on the naturals.
`NoEndlessLoop` is what termination rests on; that a loop which is run does
end (`SubnetIPsReturns`) needs fairness and stays with TLC.

Why the assumptions are justified:

* no `straddle`: a lease expiring between two clock readings of one start breaks
  `SlotsAccounted` and `ExclusiveSlots` in the code (section 2). The window is
  microseconds wide, and the runs leave it out too.
* `Steady`: no `straddle`, and the lease file can be read at start (`read`). A daemon
  that starts with an unreadable file hands out addresses in use; docs/dhcp.md
  says so. The server's own theorems hold with it, except `NothingResurrected`'s
  guarantee, which speaks of readable files by its own statement.
* `~Concurrent`, or `RemovesAlone` and `TeardownApart`: `PidFileRace` shows that one
  of them is needed. systemd starts the daemon once and waits; only an operator
  can break any, `RemovesAlone` only by a second start within the few calls in which
  a first one removes the file of a daemon that is gone, and `TeardownApart` only by
  starting the daemon under a teardown.
* no target in `Unprinted`: `DropAny` shows that it is needed; `Unprinted` is
  0.0.0.0/0 alone.
* `Cardinality(Hand) <= Count`: `init` counts what is attached against
  `enisPerNode` and detaches nothing, so the bound cannot hold of a node that had
  more ENIs before the first command.

The assumptions in the modules say that `None` is none of the values it stands
for, times are positive, pools are sets of addresses, a teardown is a process, the
processes of the chain are those of the pid file and the commands.

Only model-checked: `OffersReclaimed`, `LeasesReclaimed` and `SubnetIPsReturns`
(fairness and ENABLED are out of the prover's reach), and the four violations.

## 5. Not modelled

Rules other programs put into the FORWARD chain, the guest agent's local route
beyond the cron file that removes it, a pid that the kernel gives to another
program while the pid file has it, creating and removing the control socket, and
two commands at once on one `pool.json`. NICs, bridge, sysctl and CNI conflist are
idempotent writes and appear only as the errors they end a Setup with. The
Volcengine subnet and security group are looked up, or created and found again by
the CIDR; metadata look-ups, subprocesses, flags, status and metrics keep no state
a property could be about. Of a DHCP reply only its kind and address matter;
options, broadcast handling and malformed packets are left out. A lease file
edited by hand is left out: its lines come from `save`.

## 6. Plan

Done, in this order: `DhcpTables` and `DhcpServer` with their runs and the proof
that slots are safe, `DhcpNode` with `AddressService`, `PidFile` with its proof,
`SubnetMath`, `VolcENIs`, `GkeAliases`, `ForwardChain`, `NodeLife` with the proof that
it implements `PidFile`, `adopt` in `VolcENIs`; then the proofs of the remaining
safety and action properties and of the refinement of `AddressService`, those of
`SubnetMath`, `DhcpNode` with a pool that changes at every start, and overlapping
starts in `PidFileProofs`.

Next, most important first:

1. The control socket over two daemon lives, beside the pid file.
2. A control DELETE that is delayed past the re-creation of its VM: the bound under
   which the lease it takes is the destroyed VM's.
