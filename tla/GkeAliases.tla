----------------------------- MODULE GkeAliases -----------------------------
(***************************************************************************)
(* The VPC alias ranges of the nodes of a GKE cluster over any number of   *)
(* `init`, `adopt`, `daemon` and `teardown` commands.  The nodes share one *)
(* secondary range, cocoon-pods, on their subnet; each binds a CIDR of it  *)
(* to its nic0, whose alias list is read and then written back whole.      *)
(*                                                                         *)
(* Commands are processes: each gcloud call is a step, and between two     *)
(* steps other nodes move on, somebody else may edit nic0 and the process  *)
(* may die.  One command at a time runs on a node.  A command that fails   *)
(* before it has changed anything is a stuttering step.                    *)
(***************************************************************************)
CONSTANTS
  Nodes,   \* the instances
  Cidrs,   \* the values --subnet takes, disjoint from each other
  Foreign, \* aliases of other ranges than cocoon-pods
  None,    \* no pool.json, no secondary range, nothing read
  Envs     \* the sets of failures an environment may have, see FaultKinds

FaultKinds ==
  { "api",      \* a gcloud call fails without effect
    "late",     \* a gcloud call takes effect but reports an error
    "config",   \* gateway or pool size turn out wrong after the alias is bound
    "disk",     \* pool.json or the cron file cannot be written or removed
    "read",     \* pool.json is there but init cannot read it
    "kill",     \* the command dies between two steps
    "move",     \* init is given another --subnet than the one in use
    "stray",    \* adopt is given a --subnet that is not bound to its node
    "byhand",   \* an alias was bound before cocoon-net came to the node
    "operator" }\* somebody edits nic0 while a command runs

\* State of pool.json and its writer, who can be told from it: a seed has no
\* addresses, and only init's result names the alias range.
Record == [subnet : Cidrs, by : {"seed", "init", "adopt"}]

Seed(c) == [subnet |-> c, by |-> "seed"]
Provisioned(c) == [subnet |-> c, by |-> "init"]
Adopted(c) == [subnet |-> c, by |-> "adopt"]

\* nic0's alias list.
Aliases == [own : SUBSET Cidrs, other : SUBSET Foreign]

ASSUME GkeAssumption ==
  /\ None \notin Cidrs \cup Record \cup Aliases
  /\ \A S \in SUBSET Cidrs : None # S
  /\ \A E \in Envs : E \subseteq FaultKinds

VARIABLES
  env,     \* the failures this environment has; never changes
  range,   \* the CIDRs the secondary range covers, None while it is absent
  own,     \* nic0's aliases bound from cocoon-pods, per node
  other,   \* nic0's other aliases, per node
  record,  \* pool.json, per node
  cron,    \* the node has the boot cron file
  pc,      \* step of the node's running command, "idle" when none runs
  want,    \* its SubnetCIDR
  seen     \* the alias list it has read

nics == <<own, other>>
cmds == <<pc, want, seen>>
vars == <<env, range, nics, record, cron, cmds>>

TypeOK ==
  /\ env \in Envs
  /\ range \in {None} \cup SUBSET Cidrs
  /\ own \in [Nodes -> SUBSET Cidrs]
  /\ other \in [Nodes -> SUBSET Foreign]
  /\ record \in [Nodes -> Record \cup {None}]
  /\ cron \in [Nodes -> BOOLEAN]
  /\ pc \in [Nodes -> {"idle", "range", "create", "alias", "bind", "fix",
                       "save", "unbind", "uncron", "delete"}]
  /\ want \in [Nodes -> Cidrs \cup {None}]
  /\ seen \in [Nodes -> Aliases \cup {None}]

May(f) == f \in env

Init ==
  /\ env \in Envs
  /\ range \in {None, Cidrs}
  /\ own \in [Nodes -> {{}} \cup {{c} : c \in Cidrs}]
  /\ \A n \in Nodes : own[n] # {} =>
       /\ May("byhand") /\ range # None
       /\ \A k \in Nodes \ {n} : own[k] # own[n]
  /\ other = [n \in Nodes |-> {}]
  /\ record = [n \in Nodes |-> None]
  /\ cron = [n \in Nodes |-> FALSE]
  /\ pc = [n \in Nodes |-> "idle"]
  /\ want = [n \in Nodes |-> None]
  /\ seen = [n \in Nodes |-> None]

At(n, step) == pc[n] = step

Goto(n, step) ==
  /\ pc' = [pc EXCEPT ![n] = step]
  /\ UNCHANGED <<want, seen>>

End(n) ==
  /\ pc' = [pc EXCEPT ![n] = "idle"]
  /\ want' = [want EXCEPT ![n] = None]
  /\ seen' = [seen EXCEPT ![n] = None]

\* describeNic0Aliases.
Listed(n) == [own |-> own[n], other |-> other[n]]

\* updateNic0Aliases: the whole list is replaced.
ReplaceAliases(n, o, f) ==
  /\ own' = [own EXCEPT ![n] = o]
  /\ other' = [other EXCEPT ![n] = f]

\* The VPC routes a CIDR to one instance: it refuses one bound elsewhere.
Accepted(n, c) == \A k \in Nodes \ {n} : c \notin own[k]

\* fixGuestAgentRoute, of whose effects the boot cron file outlives a reboot.
FixGuestAgentRoute(n) == cron' = [cron EXCEPT ![n] = TRUE]

-----------------------------------------------------------------------------
(* init.                                                                   *)

\* The subnet given agrees with the one bound and the one recorded.
Consistent(n, c) ==
  /\ own[n] \subseteq {c}
  /\ record[n] # None => record[n].subnet = c

\* Load pool.json, or save a seed that teardown can act on.
StartInit(n, c) ==
  /\ At(n, "idle")
  /\ May("move") \/ Consistent(n, c)
  /\ \/ /\ record[n] = None \/ May("read")
        /\ record' = [record EXCEPT ![n] = Seed(c)]
     \/ record[n] # None /\ UNCHANGED record
  /\ pc' = [pc EXCEPT ![n] = "range"]
  /\ want' = [want EXCEPT ![n] = c]
  /\ UNCHANGED <<env, range, nics, cron, seen>>

\* Mutant: a range that exists is taken for one that covers the subnet.
ReuseUnchecked(n) ==
  /\ At(n, "range")
  /\ \/ range = None /\ Goto(n, "create")
     \/ range # None /\ Goto(n, "alias")
  /\ UNCHANGED <<env, range, nics, record, cron>>

\* ensureSecondaryRange up to the create: absent, covering, or an error.
DescribeRange(n) ==
  /\ At(n, "range")
  /\ \/ range = None /\ Goto(n, "create")
     \/ range # None /\ want[n] \in range /\ Goto(n, "alias")
     \/ range # None /\ want[n] \notin range /\ End(n)
  /\ UNCHANGED <<env, range, nics, record, cron>>

\* --add-secondary-ranges: an error if another node has added it meanwhile.
CreateRange(n) ==
  /\ At(n, "create")
  /\ \/ /\ range = None
        /\ range' = {want[n]}
        /\ Goto(n, "alias") \/ (May("late") /\ End(n))
     \/ range # None /\ End(n) /\ UNCHANGED range
  /\ UNCHANGED <<env, nics, record, cron>>

\* assignAliasIP's describe: bound already, or the list to be merged.
ReadAliases(n) ==
  /\ At(n, "alias")
  /\ IF want[n] \in own[n]
     THEN Goto(n, "fix")
     ELSE /\ pc' = [pc EXCEPT ![n] = "bind"]
          /\ seen' = [seen EXCEPT ![n] = Listed(n)]
          /\ UNCHANGED want
  /\ UNCHANGED <<env, range, nics, record, cron>>

\* Mutant: --aliases is given the new alias alone.
BindAlone(n) ==
  /\ At(n, "bind")
  /\ Accepted(n, want[n])
  /\ ReplaceAliases(n, {want[n]}, {})
  /\ Goto(n, "fix") \/ (May("late") /\ End(n))
  /\ UNCHANGED <<env, range, record, cron>>

\* The merged list: the other ranges' aliases, none of ours but the new one.
BindAlias(n) ==
  /\ At(n, "bind")
  /\ Accepted(n, want[n])
  /\ ReplaceAliases(n, {want[n]}, seen[n].other)
  /\ Goto(n, "fix") \/ (May("late") /\ End(n))
  /\ UNCHANGED <<env, range, record, cron>>

\* Mutant: the error of the update is only logged.
RefusalIgnored(n) ==
  /\ At(n, "bind")
  /\ ~Accepted(n, want[n])
  /\ Goto(n, "fix")
  /\ UNCHANGED <<env, range, nics, record, cron>>

BindRefused(n) ==
  /\ At(n, "bind")
  /\ ~Accepted(n, want[n])
  /\ End(n)
  /\ UNCHANGED <<env, range, nics, record, cron>>

\* fixGuestAgentRoute, whose failure is only logged, then ResolveGateway and
\* SubnetIPs, whose failure ends init.
FixRoute(n) ==
  /\ At(n, "fix")
  /\ \/ FixGuestAgentRoute(n)
     \/ May("disk") /\ UNCHANGED cron
  /\ Goto(n, "save") \/ (May("config") /\ End(n))
  /\ UNCHANGED <<env, range, nics, record>>

\* Mutant: the result carries no subnet.
SaveWithoutSubnet(n) ==
  /\ At(n, "save")
  /\ record' = [record EXCEPT ![n] = [subnet |-> None, by |-> "init"]]
  /\ End(n)
  /\ UNCHANGED <<env, range, nics, cron>>

\* The result overwrites pool.json; only now is the subnet recorded if the
\* node had another before.
SaveRecord(n) ==
  /\ At(n, "save")
  /\ \/ record' = [record EXCEPT ![n] = Provisioned(want[n])]
     \/ May("disk") /\ UNCHANGED record
  /\ End(n)
  /\ UNCHANGED <<env, range, nics, cron>>

-----------------------------------------------------------------------------
(* adopt and daemon.                                                       *)

\* adopt asks nothing of the cloud: the route fix, and pool.json last, written
\* over whatever was there unless the node setup before it fails or dies.  That
\* its subnet is bound to the node is the operator's part, left out by "stray".
Adopt(n, c) ==
  /\ At(n, "idle")
  /\ c \in own[n] \/ May("stray")
  /\ FixGuestAgentRoute(n)
  /\ record' = [record EXCEPT ![n] = Adopted(c)] \/ UNCHANGED record
  /\ UNCHANGED <<env, range, nics, cmds>>

\* A daemon start applies the route fix again.
DaemonStart(n) ==
  /\ At(n, "idle")
  /\ record[n] # None
  /\ FixGuestAgentRoute(n)
  /\ UNCHANGED <<env, range, nics, record, cmds>>

-----------------------------------------------------------------------------
(* teardown.                                                               *)

\* loadPoolState, then describeNic0Aliases.
StartTeardown(n) ==
  /\ At(n, "idle")
  /\ record[n] # None
  /\ pc' = [pc EXCEPT ![n] = IF record[n].subnet \in own[n] THEN "unbind" ELSE "uncron"]
  /\ want' = [want EXCEPT ![n] = record[n].subnet]
  /\ seen' = [seen EXCEPT ![n] = Listed(n)]
  /\ UNCHANGED <<env, range, nics, record, cron>>

\* The list without this node's alias is written back; an error ends the
\* command with pool.json in place.
UnbindAlias(n) ==
  /\ At(n, "unbind")
  /\ ReplaceAliases(n, seen[n].own \ {want[n]}, seen[n].other)
  /\ Goto(n, "uncron") \/ (May("late") /\ End(n))
  /\ UNCHANGED <<env, range, record, cron>>

RemoveCron(n) ==
  /\ At(n, "uncron")
  /\ \/ cron' = [cron EXCEPT ![n] = FALSE]
     \/ May("disk") /\ UNCHANGED cron
  /\ Goto(n, "delete")
  /\ UNCHANGED <<env, range, nics, record>>

DeleteRecord(n) ==
  /\ At(n, "delete")
  /\ \/ record' = [record EXCEPT ![n] = None]
     \/ May("disk") /\ UNCHANGED record
  /\ End(n)
  /\ UNCHANGED <<env, range, nics, cron>>

-----------------------------------------------------------------------------
(* Failures, and the operator.                                             *)

\* Mutant: teardown goes on when the update of nic0 has failed.
FailOn(n) ==
  /\ May("api")
  /\ pc[n] \in {"range", "create", "alias", "bind", "unbind"}
  /\ IF At(n, "unbind") THEN Goto(n, "uncron") ELSE End(n)
  /\ UNCHANGED <<env, range, nics, record, cron>>

\* The gcloud call of this step fails and the command returns the error.
CallFails(n) ==
  /\ May("api")
  /\ pc[n] \in {"range", "create", "alias", "bind", "unbind"}
  /\ End(n)
  /\ UNCHANGED <<env, range, nics, record, cron>>

Kill(n) ==
  /\ May("kill")
  /\ ~At(n, "idle")
  /\ End(n)
  /\ UNCHANGED <<env, range, nics, record, cron>>

OperatorEdits(n, f) ==
  /\ At(n, "idle") \/ May("operator")
  /\ other' = [other EXCEPT ![n] = f]
  /\ UNCHANGED <<env, range, own, record, cron, cmds>>

InitStep(n) ==
  \/ \E c \in Cidrs : StartInit(n, c)
  \/ DescribeRange(n) \/ CreateRange(n) \/ ReadAliases(n)
  \/ BindAlias(n) \/ BindRefused(n) \/ FixRoute(n) \/ SaveRecord(n)

TeardownStep(n) ==
  StartTeardown(n) \/ UnbindAlias(n) \/ RemoveCron(n) \/ DeleteRecord(n)

NodeStep(n) ==
  \/ InitStep(n) \/ TeardownStep(n)
  \/ (\E c \in Cidrs : Adopt(n, c)) \/ DaemonStart(n)
  \/ CallFails(n) \/ Kill(n)
  \/ \E f \in SUBSET Foreign : OperatorEdits(n, f)

Next == \E n \in Nodes : NodeStep(n)

Spec == Init /\ [][Next]_vars

-----------------------------------------------------------------------------
(* Properties.                                                             *)

\* Every alias bound from cocoon-pods lies in the shared range, however the
\* inits of several nodes that find no range race to create it.  The VPC's
\* own check is not counted on.
AliasInRange ==
  \A n \in Nodes : own[n] # {} => range # None /\ own[n] \subseteq range

\* A command never drops or brings back an alias of another range, although
\* it writes nic0's whole list: the merge of assignAliasIP and the filter of
\* Teardown.  Editing nic0 while a command runs is excluded: it is lost.
ForeignKept ==
  [][\A n \in Nodes :
       ~May("operator") /\ pc'[n] # pc[n] => other'[n] = other[n]]_vars

\* Moving a node to another subnet is only followed up when init gets through
\* or fails before it has bound the alias.
Recorded == May("move") => env \subseteq {"api", "move"}

\* pool.json comes from an adopt that may have named a subnet not bound here.
Strayed(n) == May("stray") /\ record[n] # None /\ record[n].by = "adopt"

\* When teardown gives up pool.json, the subnet named in it is not bound to the
\* node any more, whatever failed, died or was moved or adopted before.  The
\* node has no cocoon-pods alias at all, if that pool.json is not a stray
\* adopt's and moves were cut short by failing calls only; and unless its
\* removal failed, no boot cron: "the alias range on GKE [...] removed"
\* (docs/dhcp.md).
TeardownUnbinds ==
  [][\A n \in Nodes : record[n] # None /\ record'[n] = None =>
       /\ record[n].subnet \notin own'[n]
       /\ Recorded /\ ~Strayed(n) => own'[n] = {}
       /\ cron'[n] => May("disk")]_vars

\* The environments in which a gcloud call that fails has no effect, and nothing
\* else fails.
Answered == env \subseteq {"api", "move", "byhand", "stray"}

\* Between two commands the subnet a daemon would serve is bound to its node,
\* also after failed API calls and a move to another subnet, and after a stray
\* adopt once an init has got through.
ServedBound ==
  Answered =>
    \A n \in Nodes : At(n, "idle") /\ record[n] # None /\ record[n].by # "seed" =>
      record[n].subnet \in own[n] \/ Strayed(n)

-----------------------------------------------------------------------------
(* The inductive invariants, for GkeAliasesProofs.                         *)

\* A command has a subnet and a pool.json, and has read the list it writes.
ShapeAt(n) ==
  /\ ~At(n, "idle") => want[n] # None /\ record[n] # None
  /\ pc[n] \in {"bind", "unbind"} => seen[n] # None

TypeInv == TypeOK /\ \A n \in Nodes : ShapeAt(n)

\* Behind AliasInRange and ForeignKept: the list a command writes back is the
\* one nic0 still has, and a subnet to be bound has been found in the range.
RangeAt(n) ==
  /\ own[n] # {} => range # None /\ own[n] \subseteq range
  /\ pc[n] \in {"alias", "bind"} => range # None /\ want[n] \in range
  /\ pc[n] \in {"bind", "unbind"} =>
       /\ seen[n].own = own[n]
       /\ ~May("operator") => seen[n].other = other[n]

RangeInv == \A n \in Nodes : RangeAt(n)

\* Behind TeardownUnbinds, in every environment: teardown works on the subnet
\* pool.json names, and gets to its end without it.
GivenUpAt(n) ==
  /\ pc[n] = "unbind" => want[n] = record[n].subnet
  /\ pc[n] \in {"uncron", "delete"} => record[n].subnet \notin own[n]
  /\ pc[n] = "delete" /\ cron[n] => May("disk")

\* nic0 has one alias of the range at most, the one pool.json names except
\* while a move is between its bind and its save, or after a stray adopt.
BoundAt(n) ==
  /\ \A x, y \in own[n] : x = y
  /\ pc[n] \in {"fix", "save"} => own[n] \subseteq {want[n]}
  /\ record[n] # None /\ (May("move") => pc[n] \notin {"fix", "save"}) /\ ~Strayed(n) =>
       own[n] \subseteq {record[n].subnet}
  /\ record[n] = None /\ May("move") => own[n] = {}
  /\ pc[n] \in {"range", "create", "alias", "bind", "fix", "save"} /\ ~May("move") =>
       record[n].subnet = want[n]
  /\ pc[n] \in {"uncron", "delete"} => own[n] = {} \/ Strayed(n)

BoundInv == \A n \in Nodes : GivenUpAt(n) /\ (Recorded => BoundAt(n))

\* Behind ServedBound: a complete pool.json names a bound subnet until teardown
\* has unbound it, or a move has bound the next one and is about to save.
ServedAt(n) ==
  /\ pc[n] \in {"idle", "range", "create", "alias", "bind", "unbind"} =>
       (record[n] # None /\ record[n].by # "seed" =>
          record[n].subnet \in own[n] \/ Strayed(n))
  /\ pc[n] \in {"fix", "save"} => want[n] \in own[n]

ServedInv == Answered => \A n \in Nodes : ServedAt(n)

=============================================================================
