------------------------------ MODULE NodeLife ------------------------------
(***************************************************************************)
(* The life of one node: `init`, `adopt`, `daemon` and `teardown` over the *)
(* files and rules they share, which are pool.json, the pid file, the      *)
(* lease file and the FORWARD chain (cmd/init.go, adopt.go, daemon.go,     *)
(* teardown.go, node/node.go).                                             *)
(*                                                                         *)
(* Processes take their steps in any order, return errors, and die at any  *)
(* point; the machine may reboot.  The operator runs one command at a      *)
(* time, beside any number of daemon starts.  What the commands do in the  *)
(* cloud is in VolcENIs and GkeAliases; here it succeeds or fails.         *)
(***************************************************************************)
EXTENDS PidFile, ForwardChain

CONSTANTS
  Commands,  \* processes of init and adopt
  Configs,   \* the drop targets a command may be given, as sequences
  Envs       \* the sets of kinds an environment may have, see Kinds

Kinds ==
  { "host",    \* a cloud, link, bridge, sysctl or disk call fails
    "ipt",     \* an iptables call fails
    "adopt",   \* the operator also adopts, and skips iptables
    "force" }  \* the operator passes teardown --force

\* State of pool.json: a seed lists no addresses yet.
Records == [drops : Configs, full : BOOLEAN]

Seed(targets) == [drops |-> targets, full |-> FALSE]
Provisioned(targets) == [drops |-> targets, full |-> TRUE]

ASSUME LifeAssumption ==
  /\ Setters = Procs \cup Commands
  /\ Commands \cap (Procs \cup {None}) = {}
  /\ Configs \subseteq Seq(Targets) /\ None \notin Records
  /\ \A E \in Envs : E \subseteq Kinds

VARIABLES
  env,     \* the kinds of this environment; never changes
  record,  \* pool.json: its drop targets, and whether it lists addresses
  leases,  \* there is a lease file
  phase    \* where each process is in its command

files    == <<record, leases>>
lifeVars == <<vars, chainVars, env, files, phase>>

Phases == {"off", "provision", "setup", "seedsetup", "adopting",
           "save", "serve", "clear", "record", "lease", "done"}

LifeTypeOK ==
  /\ TypeOK
  /\ ChainTypeOK
  /\ env \in Envs
  /\ record \in Records \cup {None}
  /\ leases \in BOOLEAN
  /\ phase \in [Setters -> Phases]

LifeInit ==
  /\ Init
  /\ ChainInit
  /\ env \in Envs
  /\ record = None /\ leases = FALSE
  /\ phase = [p \in Setters |-> "off"]

May(k)      == k \in env
To(p, where) == phase' = [phase EXCEPT ![p] = where]

\* No init, adopt or teardown runs.
Quiet ==
  /\ \A c \in Commands : phase[c] = "off"
  /\ \A t \in Teardowns : ~Alive(t)

-----------------------------------------------------------------------------
(* init and adopt.                                                         *)

\* pool.json is loaded, or else seeded; then ProvisionNetwork.
StartInit(c, targets) ==
  /\ Quiet
  /\ record' = IF record = None THEN Seed(targets) ELSE record
  /\ job' = [job EXCEPT ![c].want = targets]
  /\ To(c, "provision")
  /\ UNCHANGED <<vars, chain, leases>>

\* Provisioned: save the result, and node.Setup up to its iptables part.
SaveInit(c) ==
  /\ phase[c] = "provision"
  /\ record' = Provisioned(job[c].want)
  /\ StartSetup(c, job[c].want)
  /\ To(c, "setup")
  /\ UNCHANGED <<vars, leases>>

\* ProvisionNetwork or the save fails, or Setup before its iptables part.
InitFails(c) ==
  /\ May("host")
  /\ phase[c] = "provision"
  /\ record' \in {record, Provisioned(job[c].want)}
  /\ Leave(c) /\ To(c, "off")
  /\ UNCHANGED <<vars, chain, leases>>

\* adopt runs Setup first, with iptables only under --manage-iptables.
StartAdopt(c, targets) ==
  /\ May("adopt") /\ Quiet
  /\ \/ StartSetup(c, targets) /\ To(c, "adopting")
     \/ job' = [job EXCEPT ![c].want = targets] /\ UNCHANGED chain /\ To(c, "save")
  /\ UNCHANGED <<vars, files>>

\* The iptables part is done and the CNI conflist written: init ends, adopt
\* has pool.json left to save.
CommandSetUp(c) ==
  /\ job[c].step = "installed"
  /\ \/ phase[c] = "setup" /\ Leave(c) /\ To(c, "off")
     \/ phase[c] = "adopting" /\ UNCHANGED job /\ To(c, "save")
  /\ UNCHANGED <<vars, chain, files>>

SaveAdopt(c) ==
  /\ phase[c] = "save"
  /\ record' \in {Provisioned(job[c].want)} \cup {r \in {record} : May("host")}
  /\ Leave(c) /\ To(c, "off")
  /\ UNCHANGED <<vars, chain, leases>>

\* What can end a Setup early: an iptables call, a Delete it counted, or the
\* CNI conflist.
SetupFails(p) ==
  \/ May("ipt") /\ CallFails(p)
  \/ Pruned(p) /\ job[p].failed
  \/ May("host") /\ job[p].step = "installed"

\* ... which ends the command; a command may also be killed anywhere.
EndCommand(c) ==
  /\ phase[c] # "off"
  /\ Leave(c) /\ To(c, "off")
  /\ UNCHANGED <<vars, chain, files>>

-----------------------------------------------------------------------------
(* daemon.                                                                 *)

\* loadPoolState and node.Setup, or without iptables under --skip-iptables.
LoadPool(d) ==
  /\ st[d] = "running" /\ phase[d] = "off"
  /\ record # None
  /\ \/ StartSetup(d, record.drops) /\ To(d, IF record.full THEN "setup" ELSE "seedsetup")
     \/ May("adopt") /\ record.full /\ To(d, "serve") /\ UNCHANGED chainVars
  /\ UNCHANGED <<vars, files>>

\* Setup is done, and pool.json listed addresses.
Serve(d) ==
  /\ d \in Procs
  /\ phase[d] = "setup" /\ job[d].step = "installed"
  /\ To(d, "serve")
  /\ UNCHANGED <<vars, chainVars, files>>

\* The DHCP server saves a lease.
WriteLeases(d) ==
  /\ phase[d] = "serve"
  /\ leases' = TRUE
  /\ UNCHANGED <<vars, chainVars, record, phase>>

\* runDaemon returns: no pool.json, a failed Setup, "no valid IPs in pool",
\* or the end of srv.Run.
DaemonReturns(d) ==
  /\ \/ phase[d] = "off" /\ (record = None \/ May("host"))
     \/ phase[d] \in {"setup", "seedsetup"} /\ SetupFails(d)
     \/ phase[d] = "seedsetup" /\ job[d].step = "installed"
     \/ phase[d] = "serve"
  /\ Return(d)
  /\ Leave(d) /\ To(d, "off")
  /\ UNCHANGED <<chain, files>>

-----------------------------------------------------------------------------
(* teardown.                                                               *)

\* loadPoolState comes before the check of the pid file, which --force skips.
StartTeardown(t) ==
  /\ t \in Teardowns
  /\ Quiet /\ record # None
  /\ \/ Begin(t)
     \/ May("force") /\ BeginForced(t)
  /\ UNCHANGED <<chainVars, files, phase>>

\* Mutant: pool.json goes before the rules.
CloudGoneForgets(t) ==
  /\ st[t] \in {"tearing", "forced"} /\ phase[t] = "off"
  /\ StartClear(t)
  /\ record' = None
  /\ To(t, "clear")
  /\ UNCHANGED <<vars, leases>>

\* plat.Teardown succeeded; an error would have ended the command.
CloudGone(t) ==
  /\ st[t] \in {"tearing", "forced"} /\ phase[t] = "off"
  /\ StartClear(t)
  /\ To(t, "clear")
  /\ UNCHANGED <<vars, files>>

\* ClearDropRules returned; its error is only logged.
ClearReturns(t) ==
  /\ phase[t] = "clear"
  /\ Pruned(t) \/ (May("ipt") /\ CallFails(t))
  /\ Leave(t) /\ To(t, "record")
  /\ UNCHANGED <<vars, chain, files>>

\* state.Delete; its error is only logged too.
DeleteRecord(t) ==
  /\ phase[t] = "record"
  /\ record' \in {None} \cup {r \in {record} : May("host")}
  /\ To(t, "lease")
  /\ UNCHANGED <<vars, chainVars, leases>>

RemoveLeaseFile(t) ==
  /\ phase[t] = "lease"
  /\ leases' \in {FALSE} \cup {l \in {leases} : May("host")}
  /\ To(t, "done")
  /\ UNCHANGED <<vars, chainVars, record>>

-----------------------------------------------------------------------------
\* The calls of acquirePIDFile, checkExistingPID and the deferred removal.
PidStep(p) ==
  /\ \/ p \notin Teardowns /\ Begin(p)
     \/ Link(p) \/ Read(p) \/ Probe(p) \/ Unlink(p) \/ RemoveOnExit(p)
  /\ UNCHANGED <<chainVars, files, phase>>

\* A daemon or teardown ends or is killed.
ProcessEnds(p) ==
  /\ Die(p)
  /\ Leave(p) /\ To(p, "off")
  /\ UNCHANGED <<chain, files>>

\* iptables calls inside a Setup or ClearDropRules.
IptStep(p) ==
  /\ ChainStep(p) \/ (p \notin Teardowns /\ Installed(p)) \/ (May("ipt") /\ DeleteFails(p))
  /\ UNCHANGED <<vars, files, phase>>

\* A reboot ends all processes and empties /run and the chain; files stay.
NodeReboots ==
  /\ Reboot
  /\ chain' = <<>> /\ job' = [p \in Setters |-> Idle]
  /\ phase' = [p \in Setters |-> "off"]
  /\ UNCHANGED files

LifeNext ==
  /\ UNCHANGED env
  /\ \/ \E c \in Commands :
          \/ \E targets \in Configs : StartInit(c, targets) \/ StartAdopt(c, targets)
          \/ SaveInit(c) \/ InitFails(c) \/ CommandSetUp(c) \/ SaveAdopt(c) \/ EndCommand(c)
     \/ \E p \in Procs :
          \/ LoadPool(p) \/ Serve(p) \/ WriteLeases(p) \/ DaemonReturns(p)
          \/ StartTeardown(p) \/ CloudGone(p) \/ ClearReturns(p) \/ DeleteRecord(p)
          \/ RemoveLeaseFile(p)
          \/ PidStep(p) \/ ProcessEnds(p)
     \/ \E p \in Setters : IptStep(p)
     \/ NodeReboots

LifeSpec == LifeInit /\ [][LifeNext]_lifeVars

-----------------------------------------------------------------------------
(* Properties.                                                             *)

Without(kinds) == env \cap kinds = {}

\* As long as pool.json is gone no drop rule is left behind: teardown needs
\* the file to act at all.  So it is on a node set up by init, whatever is
\* killed or fails at whatever step but an iptables call, and whatever starts
\* next.  Excluded are adopt, which installs the rules before it saves, a
\* failing iptables call, after which teardown gives pool.json up all the same,
\* and teardown --force beside a daemon that may put the rules back.
RulesReachable == Without({"ipt", "adopt", "force"}) /\ record = None => Drops = {}

\* After a teardown that got through, "the tagged cocoon-net-drop iptables
\* rules, pool.json, and the lease file are all removed" (docs/dhcp.md),
\* whatever was killed before it.  Excluded are iptables and host calls that
\* fail, as their errors are only logged, and teardown --force.
TeardownClean ==
  Without({"ipt", "host", "force"}) =>
    \A t \in Teardowns : phase[t] = "done" => record = None /\ Drops = {} /\ ~leases

-----------------------------------------------------------------------------
(* The inductive invariants, for NodeLifeProofs.                           *)

\* Which phases each kind of process has, and when it is at the chain.
CommandAt(c) ==
  /\ phase[c] \in {"off", "provision", "setup", "adopting", "save"}
  /\ phase[c] \in {"off", "provision"} => job[c].step = "off"
  /\ phase[c] # "off" => job[c].want \in Configs

DaemonAt(d) ==
  /\ st[d] \notin {"tearing", "forced"}
  /\ phase[d] \in {"off", "setup", "seedsetup", "serve"}
  /\ phase[d] # "off" => st[d] = "running"
  /\ phase[d] = "off" => job[d].step = "off"

TeardownAt(t) ==
  /\ st[t] \notin {"link", "unlink", "running", "exiting", "leaving"}
  /\ st[t] = "forced" => May("force")
  /\ phase[t] \in {"off", "clear", "record", "lease", "done"}
  /\ phase[t] # "off" => st[t] \in {"tearing", "forced"}
  /\ phase[t] = "clear" => job[t].step \in {"drops", "delete"}
  /\ phase[t] # "clear" => job[t].step = "off"
  /\ job[t].want = <<>> /\ job[t].todo = <<>>

\* The operator's one command at a time.
OneCommand ==
  \A t \in Teardowns : Alive(t) =>
    /\ \A c \in Commands : phase[c] = "off"
    /\ \A u \in Teardowns : Alive(u) => u = t

ShapeAt(p) ==
  /\ Pending(p)
  /\ p \in Commands => CommandAt(p)
  /\ p \in Procs \ Teardowns => DaemonAt(p)
  /\ p \in Teardowns => TeardownAt(p)

LifeInv == LifeTypeOK /\ OneCommand /\ \A p \in Setters : ShapeAt(p)

\* Behind TeardownClean: nobody changes the chain beside an unforced teardown,
\* so its ClearDropRules leaves no rule, and none comes before its end.
TornInv ==
  Without({"ipt", "force"}) =>
    \A t \in Teardowns :
      /\ phase[t] = "clear" => job[t].calm
      /\ phase[t] \in {"record", "lease", "done"} => Drops = {}
      /\ Without({"host"}) =>
           /\ phase[t] \in {"lease", "done"} => record = None
           /\ phase[t] = "done" => ~leases

\* Behind RulesReachable: and without a pool.json nobody inserts one.
ReachInv ==
  Without({"ipt", "adopt", "force"}) /\ record = None =>
    /\ Drops = {}
    /\ \A p \in Setters : job[p].step # "off" => p \in Teardowns

RulesInv == ChainInv(~May("ipt"))

=============================================================================
