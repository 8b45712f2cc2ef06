------------------------------ MODULE VolcENIs ------------------------------
(***************************************************************************)
(* The Volcengine network interfaces (ENIs) of one node over any number of *)
(* `init`, `adopt` and `teardown` commands: ensureENIs, the assignment of  *)
(* secondary addresses, adoptPool, the teardown loop, and the record of    *)
(* ENI ids in pool.json, which is what teardown acts on.                   *)
(*                                                                         *)
(* Commands are processes: each API call may fail, the command may be      *)
(* cancelled in a propagation delay, and it may be killed between two      *)
(* calls.  Subnet and security group are left out but for the errors they  *)
(* end a command with, and an ENI either carries secondary addresses or    *)
(* does not.                                                               *)
(***************************************************************************)
EXTENDS Naturals, FiniteSets

CONSTANTS
  Enis,       \* ids the cloud may hand out; never reused
  Hand,       \* ids of ENIs somebody may have attached by hand
  Elsewhere,  \* those of them outside the VM subnet
  None,       \* no pool.json, no ENI
  Count,      \* enisPerNode
  Envs        \* the sets of failures and uses an environment may have

FaultKinds ==
  { "api",    \* an API call fails without effect
    "late",   \* AttachNetworkInterface takes effect but reports an error
    "cancel", \* the command is interrupted in a propagation delay
    "parse",  \* CreateNetworkInterface takes effect but its reply is unreadable
    "save",   \* pool.json cannot be written
    "read",   \* pool.json is there but cannot be read by init
    "kill" }  \* the command dies between two steps

UseKinds ==
  { "init",    \* the operator runs init
    "adopt",   \* the operator runs adopt
    "hand" }   \* ENIs were attached by hand before the first command

\* The failures the code has an answer to, under init and teardown.
Handled == {"api", "late", "cancel", "init"}

ASSUME EniAssumption ==
  /\ None \notin Enis /\ \A S \in SUBSET Enis : None # S
  /\ Hand \subseteq Enis /\ IsFiniteSet(Hand) /\ Elsewhere \subseteq Hand
  /\ Count \in Nat \ {0}
  /\ \A E \in Envs : E \subseteq FaultKinds \cup UseKinds

VARIABLES
  env,       \* the failures this environment has; never changes
  cloud,     \* the non-primary ENIs that exist
  attached,  \* those attached to this instance
  carrying,  \* those with secondary addresses
  made,      \* ids handed out so far
  record,    \* ENIIDs of pool.json, or None when there is no pool.json
  pc,        \* step of the running command, "idle" when none runs
  result,    \* ensureENIs' result so far
  turn,      \* its loop variable i
  cur,       \* the ENI created in this turn
  targets,   \* the ENIs the running loop has still to visit
  failed     \* teardown has collected an error

world   == <<cloud, attached, made, carrying>>
initing == <<result, turn, cur>>
tearing == <<targets, failed>>
vars    == <<env, world, record, pc, initing, tearing>>

TypeOK ==
  /\ env \in Envs
  /\ attached \subseteq cloud /\ cloud \subseteq made /\ made \subseteq Enis
  /\ carrying \subseteq made
  /\ record \in {None} \cup SUBSET Enis
  /\ pc \in {"idle", "loop", "created", "assign", "teardown"}
  /\ result \subseteq Enis
  /\ turn \in 0 .. Count + 1
  /\ cur \in Enis \cup {None}
  /\ targets \subseteq Enis
  /\ failed \in BOOLEAN

Init ==
  /\ env \in Envs
  /\ cloud = (IF "hand" \in env THEN Hand ELSE {})
  /\ attached = cloud /\ made = Hand
  /\ carrying \in SUBSET cloud
  /\ record = None
  /\ pc = "idle"
  /\ result = {} /\ turn = 0 /\ cur = None
  /\ targets = {} /\ failed = FALSE

May(f) == f \in env

End ==
  /\ pc' = "idle"
  /\ result' = {} /\ turn' = 0 /\ cur' = None
  /\ targets' = {} /\ failed' = FALSE

-----------------------------------------------------------------------------
(* init.                                                                   *)

\* selectReusableENIs: the first Count of the attached ones, in API order.
Reusable == {S \in SUBSET attached :
               Cardinality(S) = IF Cardinality(attached) < Count
                                THEN Cardinality(attached) ELSE Count}

\* pool.json when ProvisionNetwork is called: whenever Load fails, a seed
\* without ENIs is written.
Seeded ==
  {IF record = None THEN {} ELSE record} \cup {s \in {{}} : May("read")}

\* Mutant: ENIs already attached are not counted.
StartAfresh ==
  /\ pc = "idle" /\ May("init")
  /\ record' \in Seeded
  /\ result' \in Reusable
  /\ turn' = 1
  /\ pc' = "loop"
  /\ UNCHANGED <<world, cur, tearing>>

\* Load or seed pool.json, then listENIs.
StartInit ==
  /\ pc = "idle" /\ May("init")
  /\ record' \in Seeded
  /\ result' \in Reusable
  /\ turn' = Cardinality(result') + 1
  /\ pc' = "loop"
  /\ UNCHANGED <<world, cur, tearing>>

\* The seed is saved, and a call before the first CreateNetworkInterface
\* fails: the result names no ENI, so nothing is recorded.
StartInitFails ==
  /\ May("api") /\ May("init")
  /\ pc = "idle"
  /\ record' \in Seeded
  /\ End
  /\ UNCHANGED world

mergeENIIDs(recorded, ids) == recorded \cup ids

\* runInit after a failed ProvisionNetwork: what the result names is added
\* to the record; an error of that save is only logged.
Fail(ids) ==
  /\ \/ record' = mergeENIIDs(record, ids)
     \/ May("save") /\ UNCHANGED record
  /\ End

Create ==
  /\ pc = "loop" /\ turn <= Count
  /\ \E e \in Enis \ made :
       /\ made' = made \cup {e} /\ cloud' = cloud \cup {e}
       /\ \/ cur' = e /\ pc' = "created" /\ UNCHANGED <<record, result, turn, tearing>>
          \/ May("parse") /\ Fail(result)
  /\ UNCHANGED <<attached, carrying>>

CreateFails ==
  /\ May("api")
  /\ pc = "loop" /\ turn <= Count
  /\ Fail(result)
  /\ UNCHANGED world

NextTurn ==
  /\ turn' = turn + 1
  /\ cur' = None
  /\ pc' = "loop"
  /\ UNCHANGED <<record, tearing>>

\* Mutant: an ENI that could not be deleted is not reported.
CancelUnreported ==
  /\ May("cancel")
  /\ pc = "created"
  /\ cloud' \in {cloud \ {cur}} \cup {c \in {cloud} : May("api")}
  /\ Fail(result)
  /\ UNCHANGED <<attached, made, carrying>>

\* Cancelled before the attach: delete the new ENI, or else report it.
CancelCreated ==
  /\ May("cancel")
  /\ pc = "created"
  /\ \/ cloud' = cloud \ {cur} /\ Fail(result)
     \/ May("api") /\ UNCHANGED cloud /\ Fail(result \cup {cur})
  /\ UNCHANGED <<attached, made, carrying>>

\* Attached and added to the result; the delay after it may be cancelled.
Attach ==
  /\ pc = "created"
  /\ attached' = attached \cup {cur}
  /\ \/ result' = result \cup {cur} /\ NextTurn
     \/ May("cancel") /\ Fail(result \cup {cur})
  /\ UNCHANGED <<cloud, made, carrying>>

\* The attach failed: delete the ENI and go on without it, or report it when
\* the delete fails too, as it does if the attach took effect.
AttachFails ==
  /\ pc = "created"
  /\ \/ /\ May("api")
        /\ cloud' = cloud \ {cur} /\ UNCHANGED <<attached, made, carrying>>
        /\ \/ NextTurn /\ UNCHANGED result
           \/ May("cancel") /\ Fail(result)
     \/ /\ May("api")
        /\ Fail(result \cup {cur}) /\ UNCHANGED world
     \/ /\ May("late")
        /\ attached' = attached \cup {cur} /\ UNCHANGED <<cloud, made, carrying>>
        /\ Fail(result \cup {cur})

ToAssign ==
  /\ pc = "loop" /\ turn > Count
  /\ pc' = "assign"
  /\ targets' = result
  /\ UNCHANGED <<world, record, initing, failed>>

\* One ENI is topped up; an error here is only logged.
AssignIPs(e) ==
  /\ pc = "assign" /\ e \in targets
  /\ carrying' \in {carrying \cup {e}} \cup {c \in {carrying} : May("api")}
  /\ targets' = targets \ {e}
  /\ UNCHANGED <<cloud, attached, made, record, pc, initing, failed>>

\* Some ENI has secondary addresses: the merged ids are saved.
Finish ==
  /\ pc = "assign" /\ targets = {}
  /\ result \cap carrying # {}
  /\ \/ record' = mergeENIIDs(record, result)
     \/ May("save") /\ UNCHANGED record
  /\ End
  /\ UNCHANGED world

\* No ENI has one.
FinishFails ==
  /\ pc = "assign" /\ targets = {}
  /\ result \cap carrying = {}
  /\ Fail(result)
  /\ UNCHANGED world

-----------------------------------------------------------------------------
(* adopt.                                                                  *)

\* adoptPool: the attached ENIs with a secondary address in the subnet.
PoolENIs == (attached \cap carrying) \ Elsewhere

\* Mutant: a pool without an address is adopted too.
AdoptAnything ==
  /\ pc = "idle" /\ May("adopt")
  /\ record' = PoolENIs
  /\ UNCHANGED <<world, pc, initing, tearing>>

\* The ENIs of the pool replace whatever pool.json recorded.  Every error on
\* the way (no such ENI, one of them without a link, node setup) comes before
\* the save and changes nothing here.
Adopt ==
  /\ pc = "idle" /\ May("adopt")
  /\ PoolENIs # {}
  /\ record' = PoolENIs
  /\ UNCHANGED <<world, pc, initing, tearing>>

-----------------------------------------------------------------------------
(* teardown.                                                               *)

\* listTeardownENIs: by the recorded ids, or by the instance without any.
StartTeardown ==
  /\ pc = "idle" /\ record # None
  /\ targets' = IF record # {} THEN record \cap cloud ELSE attached
  /\ failed' = FALSE
  /\ pc' = "teardown"
  /\ UNCHANGED <<world, record, initing>>

\* Mutant: the ENI is deleted while attached.
RemoveAttached(e) ==
  /\ pc = "teardown" /\ e \in targets
  /\ cloud' = cloud \ {e}
  /\ targets' = targets \ {e}
  /\ UNCHANGED <<attached, made, carrying, record, pc, initing, failed>>

\* One ENI: detach if attached, then delete.
RemoveENI(e) ==
  /\ pc = "teardown" /\ e \in targets
  /\ cloud' = cloud \ {e} /\ attached' = attached \ {e}
  /\ targets' = targets \ {e}
  /\ UNCHANGED <<made, carrying, record, pc, initing, failed>>

\* The detach fails, or the delete after it; the loop goes on.
RemoveENIFails(e) ==
  /\ May("api")
  /\ pc = "teardown" /\ e \in targets
  /\ attached' \in {attached, attached \ {e}}
  /\ targets' = targets \ {e} /\ failed' = TRUE
  /\ UNCHANGED <<cloud, made, carrying, record, pc, initing>>

\* Cancelled or killed after a detach.
CancelTeardown(e) ==
  /\ May("cancel") \/ May("kill")
  /\ pc = "teardown" /\ e \in targets \cap attached
  /\ attached' = attached \ {e}
  /\ End
  /\ UNCHANGED <<cloud, made, carrying, record>>

\* Mutant: pool.json is removed whatever happened.
EndTeardownAlways ==
  /\ pc = "teardown" /\ targets = {}
  /\ record' = None
  /\ End
  /\ UNCHANGED world

\* Errors keep pool.json for another attempt; so does, with a warning, an
\* error of the removal itself.
EndTeardown ==
  /\ pc = "teardown" /\ targets = {}
  /\ \/ ~failed /\ record' = None
     \/ (failed \/ May("save")) /\ UNCHANGED record
  /\ End
  /\ UNCHANGED world

Kill ==
  /\ May("kill")
  /\ pc # "idle"
  /\ End
  /\ UNCHANGED <<world, record>>

-----------------------------------------------------------------------------
Next ==
  /\ UNCHANGED env
  /\ \/ StartInit \/ StartInitFails \/ Create \/ CreateFails \/ CancelCreated
     \/ Attach \/ AttachFails \/ ToAssign \/ Finish \/ FinishFails \/ Adopt
     \/ StartTeardown \/ EndTeardown \/ Kill
     \/ \E e \in Enis : AssignIPs(e) \/ RemoveENI(e) \/ RemoveENIFails(e) \/ CancelTeardown(e)

Spec == Init /\ [][Next]_vars

-----------------------------------------------------------------------------
(* Properties.                                                             *)

Recorded == IF record = None THEN {} ELSE record

\* Between commands no ENI is out of reach: pool.json names it, or the
\* instance has it attached, where the next init finds and reuses it.  So a
\* provisioning that fails midway, at any call that has no effect, at an attach
\* that has one, or by an interruption in a delay, "still leaves teardown
\* something to act on" (cmd/init.go).  Excluded are what the code takes no
\* measure against (a kill, an unreadable create reply, a pool.json that is not
\* saved or not read) and adopt, which replaces the recorded ids.
NoENILost == env \subseteq Handled /\ pc = "idle" => cloud \subseteq attached \cup Recorded

\* A teardown that succeeds leaves no ENI, whichever of those failures the
\* commands before it met: docs/dhcp.md has "the cloud resources (ENIs on
\* Volcengine, ...) ... all removed".
TeardownRemovesAll == env \subseteq Handled /\ record = None => cloud = {}

\* However often init is repeated after a failure, of whatever kind, no more
\* than enisPerNode ENIs are attached.
AttachedWithinCount == Cardinality(attached) <= Count

\* On a node that is only ever adopted, the ENIs that carry no address of the
\* pool stay attached through any number of adopts and teardowns, those that
\* fail or die midway included: teardown leaves "unrelated secondary ENIs
\* untouched" (docs/volcengine.md) although, without recorded ids, it would
\* remove every attached one.
UnrelatedSpared ==
  May("hand") /\ ~May("init") => Hand \ (carrying \ Elsewhere) \subseteq attached

-----------------------------------------------------------------------------
(* The inductive invariants, for VolcENIsProofs.                           *)

\* Which parts of the state the step of the running command allows: pool.json
\* is there before the first ENI is created, and the ENI of a turn is not
\* attached until the turn's attach.
Shape ==
  /\ pc # "idle" => record # None
  /\ pc \in {"idle", "teardown"} => result = {}
  /\ pc = "created" => cur \in cloud \ attached /\ turn <= Count
  /\ pc \in {"loop", "created"} => turn >= 1
  /\ result \cup targets \subseteq made

TypeInv == TypeOK /\ Shape /\ IsFiniteSet(attached)

\* Behind AttachedWithinCount: every attached ENI has used up a turn.
WithinInv ==
  /\ AttachedWithinCount
  /\ pc \in {"loop", "created"} => Cardinality(attached) < turn

\* Behind NoENILost and TeardownRemovesAll: every ENI is named by pool.json or
\* by the result of the init under way, and a teardown without errors has still
\* to visit whatever is left.
KnownInv ==
  env \subseteq Handled =>
    /\ cloud \subseteq Recorded \cup result \cup (IF pc = "created" THEN {cur} ELSE {})
    /\ pc = "teardown" /\ ~failed => cloud \subseteq targets

\* Behind UnrelatedSpared: without an init pool.json names pool ENIs only, and
\* at least one, so teardown never falls back on every attached ENI.
SparedInv ==
  May("hand") /\ ~May("init") =>
    /\ pc \in {"idle", "teardown"}
    /\ record # None => record # {} /\ record \subseteq carrying \ Elsewhere
    /\ targets \subseteq carrying \ Elsewhere
    /\ Hand \ (carrying \ Elsewhere) \subseteq attached

=============================================================================
