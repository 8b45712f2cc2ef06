--------------------------- MODULE NodeLifeProofs ---------------------------
(***************************************************************************)
(* Proofs about NodeLife, for any processes, targets and environments.     *)
(* The pid file and the chain keep their promises inside the whole node:   *)
(* every step of the node is one of PidFile's and one of ForwardChain's,   *)
(* or leaves them alone.  What needs more than one of them, the shape of   *)
(* the commands and what a teardown leaves, is shown action by action.     *)
(***************************************************************************)
EXTENDS NodeLife, PidFileProofs, ForwardChainProofs

-----------------------------------------------------------------------------
(* The pid file in the node.                                               *)

\* The node's initial states are the pid file's.
LEMMA LifeStartsAsPidFile == LifeInit => Init
BY DEF LifeInit

\* Every step of an init or adopt, and every iptables call, leaves the pid
\* file alone.
LEMMA CommandsLeavePidFile ==
  ASSUME NEW c \in Commands,
         \/ \E targets \in Configs : StartInit(c, targets) \/ StartAdopt(c, targets)
         \/ SaveInit(c) \/ InitFails(c) \/ CommandSetUp(c) \/ SaveAdopt(c) \/ EndCommand(c)
  PROVE  UNCHANGED vars
BY DEF StartInit, StartAdopt, SaveInit, InitFails, CommandSetUp, SaveAdopt, EndCommand

\* Every step of a daemon or a teardown is one of the pid file's, or leaves it
\* alone.
LEMMA ProcessesRefinePidFile ==
  ASSUME NEW p \in Procs,
         \/ LoadPool(p) \/ Serve(p) \/ WriteLeases(p) \/ DaemonReturns(p)
         \/ StartTeardown(p) \/ CloudGone(p) \/ ClearReturns(p) \/ DeleteRecord(p)
         \/ RemoveLeaseFile(p) \/ PidStep(p) \/ ProcessEnds(p)
  PROVE  [Next]_vars
<1>1. CASE LoadPool(p) \/ Serve(p) \/ WriteLeases(p) \/ CloudGone(p) \/ ClearReturns(p)
           \/ DeleteRecord(p) \/ RemoveLeaseFile(p)
  BY <1>1 DEF LoadPool, Serve, WriteLeases, CloudGone, ClearReturns, DeleteRecord,
              RemoveLeaseFile
<1>2. CASE DaemonReturns(p)
  BY <1>2 DEF DaemonReturns, Next
<1>3. CASE StartTeardown(p)
  BY <1>3 DEF StartTeardown, Next
<1>4. CASE PidStep(p)
  BY <1>4 DEF PidStep, Next
<1>5. CASE ProcessEnds(p)
  BY <1>5 DEF ProcessEnds, Next
<1> QED
  BY <1>1, <1>2, <1>3, <1>4, <1>5

\* The composition implements its component: whatever the commands, the rules
\* and the files do, the pid file sees only the steps PidFile describes.
THEOREM LifeImplementsPidFile == LifeSpec => Spec
<1>1. ASSUME [LifeNext]_lifeVars
      PROVE  [Next]_vars
  <2>1. CASE UNCHANGED lifeVars
    BY <2>1 DEF lifeVars
  <2>2. CASE \E p \in Setters : IptStep(p)
    BY <2>2 DEF IptStep
  <2>3. CASE NodeReboots
    BY <2>3 DEF NodeReboots, Next
  <2> QED
    BY <1>1, <2>1, <2>2, <2>3, CommandsLeavePidFile, ProcessesRefinePidFile DEF LifeNext
<1> QED
  BY <1>1, LifeStartsAsPidFile, PTL DEF LifeSpec, Spec

\* On a node where starts do not overlap, with any commands, failures, kills
\* and reboots, at most one daemon serves, none does beside a teardown, and
\* none is refused without one.
THEOREM NodeHasOneDaemon ==
  ASSUME ~Concurrent
  PROVE  LifeSpec => [](SingleDaemon /\ PidFileOwned /\ TeardownAlone) /\ RefusalJustified
BY OneDaemon, TeardownUndisturbed, RefusedForAReason, LifeImplementsPidFile, PTL

\* Starts of the node's daemons and teardowns may overlap too: one daemon serves
\* as long as whoever is going to remove a pid file starts alone.
THEOREM NodeStartsMayOverlap ==
  LifeSpec /\ []RemovesAlone => [](SingleDaemon /\ PidFileOwned)
BY OneDaemonOverlapping, LifeImplementsPidFile, PTL

-----------------------------------------------------------------------------
(* The shape of the commands.                                              *)

\* What pool.json can be written with.
LEMMA RecordFields ==
  /\ \A targets \in Configs :
       /\ Seed(targets) \in Records /\ Provisioned(targets) \in Records
       /\ Seed(targets) # None /\ Provisioned(targets) # None
  /\ \A r \in Records : r.drops \in Configs
  /\ Configs \subseteq Seq(Targets) /\ <<>> \in Seq(Targets)
<1>1. \A targets \in Configs : Seed(targets) \in Records /\ Provisioned(targets) \in Records
  BY Zenon DEF Seed, Provisioned, Records
<1>2. \A r \in Records : r.drops \in Configs
  BY DEF Records
<1> QED
  BY <1>1, <1>2, LifeAssumption

\* A process that no step touches keeps its shape.
LEMMA ShapeKept ==
  ASSUME NEW q \in Setters, ShapeAt(q), env' = env, phase'[q] = phase[q],
         job'[q].step = job[q].step, job'[q].want = job[q].want, job'[q].todo = job[q].todo,
         q \in Procs => st'[q] = st[q]
  PROVE  ShapeAt(q)'
BY PidAssumption DEF ShapeAt, Pending, CommandAt, DaemonAt, TeardownAt, May

\* A step of one process keeps the invariant if that process keeps its shape,
\* and if it neither begins a command nor comes back as a teardown, or none
\* other is under way.
LEMMA LifeKept ==
  ASSUME LifeInv, TypeInv', env' = env, ChainTypeOK', NEW p \in Setters,
         record' \in Records \cup {None}, leases' \in BOOLEAN,
         phase' \in [Setters -> Phases],
         \A q \in Setters \ {p} :
           /\ phase'[q] = phase[q] /\ job'[q].step = job[q].step
           /\ job'[q].want = job[q].want /\ job'[q].todo = job[q].todo,
         \A q \in Procs \ {p} : st'[q] = st[q],
         ShapeAt(p)',
         \/ Quiet
         \/ /\ p \in Commands => phase[p] # "off" \/ phase'[p] = "off"
            /\ p \in Teardowns => Alive(p) \/ ~Alive(p)'
  PROVE  LifeInv'
<1>1. LifeTypeOK'
  BY DEF LifeInv, LifeTypeOK, TypeInv
<1>2. \A q \in Setters : ShapeAt(q)'
  BY ShapeKept DEF LifeInv
<1>3. OneCommand'
  BY PidAssumption, LifeAssumption DEF LifeInv, OneCommand, Quiet, Alive
<1> QED
  BY <1>1, <1>2, <1>3 DEF LifeInv

\* A process that leaves the chain, or changes what it will want of it.
LEMMA AwayEffects ==
  ASSUME ChainTypeOK, NEW p \in Setters, NEW j \in Jobs, chain' = chain,
         job' = [job EXCEPT ![p] = j]
  PROVE  ChainTypeOK' /\ job'[p] = j /\ \A q \in Setters \ {p} : job'[q] = job[q]
BY DEF ChainTypeOK

\* Every step of init and adopt keeps the shape.
LEMMA CommandStep ==
  ASSUME LifeInv, TypeInv', env' = env, NEW c \in Commands,
         \/ \E targets \in Configs : StartInit(c, targets) \/ StartAdopt(c, targets)
         \/ SaveInit(c) \/ InitFails(c) \/ CommandSetUp(c) \/ SaveAdopt(c) \/ EndCommand(c)
  PROVE  LifeInv'
<1>0. /\ c \in Setters /\ c \notin Procs \cup Teardowns /\ ChainTypeOK /\ phase \in [Setters -> Phases]
      /\ record \in Records \cup {None} /\ leases \in BOOLEAN
      /\ CommandAt(c) /\ Pending(c) /\ job[c] \in Jobs
      /\ UNCHANGED vars
  BY LifeAssumption, PidAssumption, CommandsLeavePidFile DEF LifeInv, LifeTypeOK, ShapeAt, ChainTypeOK
<1>1. /\ \A q \in Procs : st'[q] = st[q]
      /\ ShapeAt(c)' <=> Pending(c)' /\ CommandAt(c)'
  BY <1>0, PidAssumption DEF vars, ShapeAt
<1>2. ASSUME NEW targets \in Configs, job' = [job EXCEPT ![c].want = targets],
             chain' = chain
      PROVE  /\ ChainTypeOK' /\ job'[c].want = targets /\ job'[c].step = job[c].step
             /\ \A q \in Setters \ {c} : job'[q] = job[q]
             /\ job'[c].todo = job[c].todo
  <2>1. [job[c] EXCEPT !.want = targets] \in Jobs
    BY <1>0, RecordFields DEF Jobs
  <2> QED
    BY <1>0, <1>2, <2>1, AwayEffects DEF Jobs, ChainTypeOK
<1>3. ASSUME Leave(c), chain' = chain
      PROVE  /\ ChainTypeOK' /\ job'[c] = Idle
             /\ \A q \in Setters \ {c} : job'[q] = job[q]
  BY <1>0, <1>3, IdleFields, AwayEffects DEF Leave
<1>4. ASSUME NEW targets \in Configs, StartSetup(c, targets)
      PROVE  /\ ChainTypeOK' /\ job'[c].want = targets /\ job'[c].step = "accept"
             /\ \A q \in Setters \ {c} :
                  /\ job'[q].step = job[q].step /\ job'[q].want = job[q].want
                  /\ job'[q].todo = job[q].todo
  <2>1. targets \in Seq(Targets) /\ Enter(c, "accept", targets) /\ chain' = chain
    BY <1>4, RecordFields DEF StartSetup
  <2> QED
    BY <1>0, <2>1, EnterEffects DEF ChainTypeOK
<1>5. ASSUME NEW where \in Phases, To(c, where)
      PROVE  /\ phase' \in [Setters -> Phases] /\ phase'[c] = where
             /\ \A q \in Setters \ {c} : phase'[q] = phase[q]
  BY <1>0, <1>5 DEF To
<1>6. {"off", "provision", "setup", "adopting", "save"} \subseteq Phases
  BY DEF Phases
<1>7. ASSUME Leave(c), To(c, "off"), chain' = chain, record' \in Records \cup {None},
             leases' \in BOOLEAN
      PROVE  LifeInv'
  <2>1. Pending(c)' /\ CommandAt(c)'
    BY <1>3, <1>5, <1>6, <1>7, IdleFields DEF Pending, CommandAt
  <2> QED
    BY <1>0, <1>1, <1>3, <1>5, <1>6, <1>7, <2>1, LifeKept
<1>8. CASE \E targets \in Configs : StartInit(c, targets)
  <2>1. PICK targets \in Configs : StartInit(c, targets)
    BY <1>8
  <2>2. /\ Quiet /\ phase[c] = "off" /\ To(c, "provision") /\ chain' = chain
        /\ job' = [job EXCEPT ![c].want = targets]
        /\ record' \in Records \cup {None} /\ leases' = leases
    BY <1>0, <2>1, RecordFields DEF StartInit, Quiet
  <2>3. Pending(c)' /\ CommandAt(c)'
    BY <1>0, <1>2, <1>5, <1>6, <2>2 DEF Pending, CommandAt
  <2> QED
    BY <1>0, <1>1, <1>2, <1>5, <1>6, <2>2, <2>3, LifeKept
<1>9. CASE SaveInit(c)
  <2>1. /\ phase[c] = "provision" /\ job[c].want \in Configs /\ To(c, "setup")
        /\ StartSetup(c, job[c].want) /\ record' \in Records \cup {None} /\ leases' = leases
    BY <1>0, <1>9, RecordFields DEF SaveInit, CommandAt
  <2>2. Pending(c)' /\ CommandAt(c)'
    BY <1>4, <1>5, <1>6, <2>1 DEF Pending, CommandAt
  <2> QED
    BY <1>0, <1>1, <1>4, <1>5, <1>6, <2>1, <2>2, LifeKept
<1>10. CASE InitFails(c)
  <2>1. phase[c] = "provision" /\ job[c].want \in Configs
    BY <1>0, <1>10 DEF InitFails, CommandAt
  <2> QED
    BY <1>0, <1>7, <1>10, <2>1, RecordFields DEF InitFails
<1>11. CASE \E targets \in Configs : StartAdopt(c, targets)
  <2>1. PICK targets \in Configs : StartAdopt(c, targets)
    BY <1>11
  <2>2. Quiet /\ record' = record /\ leases' = leases /\ phase[c] = "off"
    BY <2>1 DEF StartAdopt, files, Quiet
  <2>3. CASE StartSetup(c, targets) /\ To(c, "adopting")
    <3>1. Pending(c)' /\ CommandAt(c)'
      BY <1>4, <1>5, <1>6, <2>3 DEF Pending, CommandAt
    <3> QED
      BY <1>0, <1>1, <1>4, <1>5, <1>6, <2>2, <2>3, <3>1, LifeKept
  <2>4. CASE job' = [job EXCEPT ![c].want = targets] /\ UNCHANGED chain /\ To(c, "save")
    <3>1. Pending(c)' /\ CommandAt(c)'
      BY <1>0, <1>2, <1>5, <1>6, <2>2, <2>4 DEF Pending, CommandAt
    <3> QED
      BY <1>0, <1>1, <1>2, <1>5, <1>6, <2>2, <2>4, <3>1, LifeKept
  <2> QED
    BY <2>1, <2>3, <2>4 DEF StartAdopt
<1>12. CASE CommandSetUp(c)
  <2>1. job[c].step = "installed" /\ chain' = chain /\ record' = record /\ leases' = leases
    BY <1>12 DEF CommandSetUp, files
  <2>2. CASE Leave(c) /\ To(c, "off")
    BY <1>0, <1>7, <2>1, <2>2
  <2>3. CASE phase[c] = "adopting" /\ UNCHANGED job /\ To(c, "save")
    <3>1. Pending(c)' /\ CommandAt(c)'
      BY <1>0, <1>5, <1>6, <2>1, <2>3 DEF Pending, CommandAt
    <3>2. ChainTypeOK'
      BY <1>0, <2>1, <2>3 DEF ChainTypeOK
    <3> QED
      BY <1>0, <1>1, <1>5, <1>6, <2>1, <2>3, <3>1, <3>2, LifeKept
  <2> QED
    BY <1>12, <2>2, <2>3 DEF CommandSetUp
<1>13. CASE SaveAdopt(c)
  <2>1. phase[c] = "save" /\ job[c].want \in Configs
    BY <1>0, <1>13 DEF SaveAdopt, CommandAt
  <2> QED
    BY <1>0, <1>7, <1>13, <2>1, RecordFields DEF SaveAdopt
<1>14. CASE EndCommand(c)
  BY <1>0, <1>7, <1>14 DEF EndCommand, files
<1> QED
  BY <1>8, <1>9, <1>10, <1>11, <1>12, <1>13, <1>14

\* What a step of the pid file does to the process that takes it.
LEMMA PidMoves ==
  ASSUME TypeOK, NEW p \in Procs
  PROVE  /\ \A where : Goto(p, where) => st'[p] = where /\ \A q \in Procs \ {p} : st'[q] = st[q]
         /\ PidStep(p) \/ ProcessEnds(p) \/ StartTeardown(p) \/ DaemonReturns(p) =>
              \A q \in Procs \ {p} : st'[q] = st[q]
<1>1. ASSUME NEW where, Goto(p, where)
      PROVE  st'[p] = where /\ \A q \in Procs \ {p} : st'[q] = st[q]
  BY <1>1 DEF Goto, TypeOK
<1>2. ASSUME PidStep(p) \/ ProcessEnds(p) \/ StartTeardown(p) \/ DaemonReturns(p)
      PROVE  \E where : Goto(p, where)
  <2>1. CASE PidStep(p)
    BY <2>1 DEF PidStep, Begin, Link, Read, Probe, Unlink, RemoveOnExit
  <2>2. CASE ProcessEnds(p)
    BY <2>2 DEF ProcessEnds, Die
  <2>3. CASE StartTeardown(p)
    BY <2>3 DEF StartTeardown, Begin, BeginForced
  <2>4. CASE DaemonReturns(p)
    BY <2>4 DEF DaemonReturns, Return
  <2> QED
    BY <1>2, <2>1, <2>2, <2>3, <2>4
<1> QED
  BY <1>1, <1>2

\* Every step of a daemon, and of a teardown, keeps the shape.
LEMMA ProcessStep ==
  ASSUME LifeInv, TypeInv', env' = env, NEW p \in Procs,
         \/ LoadPool(p) \/ Serve(p) \/ WriteLeases(p) \/ DaemonReturns(p)
         \/ StartTeardown(p) \/ CloudGone(p) \/ ClearReturns(p) \/ DeleteRecord(p)
         \/ RemoveLeaseFile(p) \/ PidStep(p) \/ ProcessEnds(p)
  PROVE  LifeInv'
<1>0. /\ p \in Setters /\ p \notin Commands /\ ChainTypeOK /\ phase \in [Setters -> Phases]
      /\ record \in Records \cup {None} /\ leases \in BOOLEAN
      /\ Pending(p) /\ (p \notin Teardowns => DaemonAt(p)) /\ (p \in Teardowns => TeardownAt(p))
      /\ TypeOK
  BY LifeAssumption, PidAssumption DEF LifeInv, LifeTypeOK, ShapeAt
<1>1. ShapeAt(p)' <=> /\ Pending(p)'
                      /\ p \notin Teardowns => DaemonAt(p)'
                      /\ p \in Teardowns => TeardownAt(p)'
  BY <1>0 DEF ShapeAt
<1>2. ASSUME Leave(p), chain' = chain
      PROVE  /\ ChainTypeOK' /\ job'[p] = Idle /\ Pending(p)'
             /\ \A q \in Setters \ {p} : job'[q] = job[q]
  BY <1>0, <1>2, IdleFields, AwayEffects DEF Leave, Pending
<1>3. ASSUME NEW targets \in Seq(Targets), NEW where \in {"accept", "drops"},
             Enter(p, where, targets), chain' = chain
      PROVE  /\ ChainTypeOK' /\ Pending(p)'
             /\ job'[p].step = where /\ job'[p].want = targets /\ job'[p].todo = targets
             /\ \A q \in Setters \ {p} :
                  /\ job'[q].step = job[q].step /\ job'[q].want = job[q].want
                  /\ job'[q].todo = job[q].todo
  BY <1>0, <1>3, EnterEffects DEF ChainTypeOK, Pending
<1>4. ASSUME NEW where \in Phases, To(p, where)
      PROVE  /\ phase' \in [Setters -> Phases] /\ phase'[p] = where
             /\ \A q \in Setters \ {p} : phase'[q] = phase[q]
  BY <1>0, <1>4 DEF To
<1>5. {"off", "setup", "seedsetup", "serve", "clear", "record", "lease", "done"} \subseteq Phases
  BY DEF Phases
<1>6. ASSUME UNCHANGED chainVars
      PROVE  ChainTypeOK' /\ Pending(p)' /\ job' = job
  BY <1>0, <1>6 DEF chainVars, ChainTypeOK, Pending
<1>7. CASE LoadPool(p)
  <2>1. /\ st' = st /\ record' = record /\ leases' = leases
        /\ st[p] = "running" /\ p \notin Teardowns /\ record \in Records
    BY <1>0, <1>7 DEF LoadPool, vars, files, TeardownAt
  <2>2. CASE StartSetup(p, record.drops)
             /\ To(p, IF record.full THEN "setup" ELSE "seedsetup")
    <3>1. PICK where \in {"setup", "seedsetup"} : To(p, where)
      BY <2>2
    <3>2. record.drops \in Seq(Targets) /\ Enter(p, "accept", record.drops) /\ chain' = chain
      BY <2>1, <2>2, RecordFields DEF StartSetup
    <3>3. DaemonAt(p)'
      BY <1>0, <1>4, <1>5, <2>1, <3>1 DEF DaemonAt
    <3> QED
      BY <1>0, <1>1, <1>3, <1>4, <1>5, <2>1, <3>1, <3>2, <3>3, LifeKept
  <2>3. CASE To(p, "serve") /\ UNCHANGED chainVars
    <3>1. DaemonAt(p)'
      BY <1>0, <1>4, <1>5, <2>1, <2>3 DEF DaemonAt
    <3> QED
      BY <1>0, <1>1, <1>4, <1>5, <1>6, <2>1, <2>3, <3>1, LifeKept
  <2> QED
    BY <1>7, <2>2, <2>3 DEF LoadPool
<1>8. CASE Serve(p)
  <2>1. /\ st' = st /\ record' = record /\ leases' = leases /\ UNCHANGED chainVars
        /\ phase[p] = "setup" /\ p \notin Teardowns /\ To(p, "serve")
    BY <1>0, <1>8 DEF Serve, vars, files, TeardownAt
  <2>2. DaemonAt(p)'
    BY <1>0, <1>4, <1>5, <2>1 DEF DaemonAt
  <2> QED
    BY <1>0, <1>1, <1>4, <1>5, <1>6, <2>1, <2>2, LifeKept
<1>9. CASE WriteLeases(p)
  <2>1. /\ st' = st /\ record' = record /\ leases' \in BOOLEAN /\ UNCHANGED chainVars
        /\ phase[p] = "serve" /\ p \notin Teardowns /\ phase' = phase
    BY <1>0, <1>9 DEF WriteLeases, vars, files, TeardownAt
  <2>2. DaemonAt(p)'
    BY <1>0, <1>6, <2>1 DEF DaemonAt
  <2> QED
    BY <1>0, <1>1, <1>6, <2>1, <2>2, LifeKept
<1>10. CASE DaemonReturns(p)
  <2>1. /\ st[p] = "running" /\ Goto(p, "exiting") /\ Leave(p) /\ To(p, "off")
        /\ chain' = chain /\ record' = record /\ leases' = leases
    BY <1>10 DEF DaemonReturns, Return, files
  <2>2. st'[p] = "exiting" /\ \A q \in Procs \ {p} : st'[q] = st[q]
    BY <1>0, <2>1, PidMoves
  <2>3. p \notin Teardowns /\ DaemonAt(p)'
    BY <1>0, <1>2, <1>4, <1>5, <2>1, <2>2, IdleFields DEF DaemonAt, TeardownAt
  <2> QED
    BY <1>0, <1>1, <1>2, <1>4, <1>5, <2>1, <2>2, <2>3, LifeKept
<1>11. CASE StartTeardown(p)
  <2>1. /\ Quiet /\ p \in Teardowns /\ st[p] \in Over
        /\ Goto(p, "read") \/ (Goto(p, "forced") /\ May("force"))
        /\ UNCHANGED chainVars /\ record' = record /\ leases' = leases /\ phase' = phase
    BY <1>11 DEF StartTeardown, Begin, BeginForced, files
  <2>2. /\ \A q \in Procs \ {p} : st'[q] = st[q]
        /\ st'[p] = "read" \/ (st'[p] = "forced" /\ May("force"))
    BY <1>0, <2>1, PidMoves
  <2>3. phase[p] = "off"
    BY <1>0, <2>1 DEF TeardownAt, Over
  <2>4. TeardownAt(p)'
    BY <1>0, <1>6, <2>1, <2>2, <2>3 DEF TeardownAt, May
  <2> QED
    BY <1>0, <1>1, <1>6, <2>1, <2>2, <2>4, LifeKept
<1>12. CASE CloudGone(p)
  <2>1. /\ st[p] \in {"tearing", "forced"} /\ Enter(p, "drops", <<>>) /\ chain' = chain
        /\ To(p, "clear") /\ st' = st /\ record' = record /\ leases' = leases
    BY <1>12 DEF CloudGone, StartClear, vars, files
  <2>2. p \in Teardowns
    BY <1>0, <2>1 DEF DaemonAt
  <2>3. TeardownAt(p)'
    BY <1>0, <1>3, <1>4, <1>5, <2>1, <2>2, RecordFields DEF TeardownAt, May
  <2> QED
    BY <1>0, <1>1, <1>3, <1>4, <1>5, <2>1, <2>2, <2>3, RecordFields, LifeKept DEF Alive
<1>13. CASE ClearReturns(p)
  <2>1. /\ phase[p] = "clear" /\ Leave(p) /\ To(p, "record") /\ chain' = chain
        /\ st' = st /\ record' = record /\ leases' = leases
    BY <1>13 DEF ClearReturns, vars, files
  <2>2. p \in Teardowns
    BY <1>0, <2>1 DEF DaemonAt
  <2>3. TeardownAt(p)'
    BY <1>0, <1>2, <1>4, <1>5, <2>1, <2>2, IdleFields DEF TeardownAt, May
  <2> QED
    BY <1>0, <1>1, <1>2, <1>4, <1>5, <2>1, <2>2, <2>3, LifeKept DEF Alive
<1>14. CASE DeleteRecord(p) \/ RemoveLeaseFile(p)
  <2>1. /\ UNCHANGED chainVars /\ st' = st
        /\ record' \in Records \cup {None} /\ leases' \in BOOLEAN
    BY <1>0, <1>14 DEF DeleteRecord, RemoveLeaseFile, vars
  <2>2. PICK where \in {"lease", "done"} : To(p, where)
    BY <1>14 DEF DeleteRecord, RemoveLeaseFile
  <2>3. phase[p] \in {"record", "lease"} /\ p \in Teardowns
    BY <1>0, <1>14 DEF DeleteRecord, RemoveLeaseFile, DaemonAt
  <2>4. TeardownAt(p)'
    BY <1>0, <1>4, <1>5, <1>6, <2>1, <2>2, <2>3 DEF TeardownAt, May
  <2> QED
    BY <1>0, <1>1, <1>4, <1>5, <1>6, <2>1, <2>2, <2>3, <2>4, LifeKept DEF Alive
<1>15. CASE PidStep(p)
  <2>1. /\ UNCHANGED chainVars /\ phase' = phase /\ record' = record /\ leases' = leases
        /\ \A q \in Procs \ {p} : st'[q] = st[q]
    BY <1>0, <1>15, PidMoves DEF PidStep, files
  <2>2. /\ st[p] \in Over \cup {"link", "read", "probe", "unlink", "exiting"}
        /\ p \in Teardowns => st[p] \in {"read", "probe"}
    BY <1>0, <1>15
       DEF PidStep, Begin, Link, Read, Probe, Unlink, RemoveOnExit, TeardownAt
  <2>3. /\ p \notin Teardowns => st'[p] \notin {"tearing", "forced"}
        /\ p \in Teardowns => st'[p] \in {"probe", "refused", "tearing"}
    BY <1>0, <1>15, <2>2, PidMoves
       DEF PidStep, Begin, Link, Read, Probe, Unlink, RemoveOnExit, Cleared, Over
  <2>4. p \notin Teardowns => DaemonAt(p)'
    BY <1>0, <1>6, <2>1, <2>2, <2>3 DEF DaemonAt, Over
  <2>5. p \in Teardowns => TeardownAt(p)'
    BY <1>0, <1>6, <2>1, <2>2, <2>3 DEF TeardownAt
  <2>6. p \in Teardowns => Alive(p)
    BY <2>2 DEF Alive, Over
  <2> QED
    BY <1>0, <1>1, <1>6, <2>1, <2>4, <2>5, <2>6, LifeKept
<1>16. CASE ProcessEnds(p)
  <2>1. /\ Goto(p, "dead") /\ Leave(p) /\ To(p, "off") /\ Alive(p)
        /\ chain' = chain /\ record' = record /\ leases' = leases
    BY <1>16 DEF ProcessEnds, Die, files
  <2>2. st'[p] = "dead" /\ \A q \in Procs \ {p} : st'[q] = st[q]
    BY <1>0, <2>1, PidMoves
  <2>3. (p \notin Teardowns => DaemonAt(p)') /\ (p \in Teardowns => TeardownAt(p)')
    BY <1>2, <1>4, <1>5, <2>1, <2>2, IdleFields DEF DaemonAt, TeardownAt
  <2> QED
    BY <1>0, <1>1, <1>2, <1>4, <1>5, <2>1, <2>2, <2>3, LifeKept
<1> QED
  BY <1>7, <1>8, <1>9, <1>10, <1>11, <1>12, <1>13, <1>14, <1>15, <1>16

\* Every iptables call keeps the shape: in a teardown nothing is inserted.
LEMMA IptKeepsShape ==
  ASSUME LifeInv, TypeInv', env' = env, NEW p \in Setters, IptStep(p)
  PROVE  LifeInv'
<1>1. /\ ChainTypeOK /\ Pending(p) /\ ShapeAt(p) /\ phase \in [Setters -> Phases]
      /\ record \in Records \cup {None} /\ leases \in BOOLEAN
  BY DEF LifeInv, LifeTypeOK, ShapeAt
<1>2. /\ ChainStep(p) \/ (p \notin Teardowns /\ Installed(p)) \/ DeleteFails(p)
      /\ st' = st /\ phase' = phase /\ record' = record /\ leases' = leases
  BY DEF IptStep, vars, files
<1>3. /\ ChainTypeOK' /\ Pending(p)' /\ job'[p].want = job[p].want
      /\ \A q \in Setters \ {p} : job'[q] = job[q]
  BY <1>1, <1>2, CallTypes
<1>4. job[p].step \in Working
  BY <1>1, <1>2, CallEffects, DeleteEffects DEF ChainStep, Working
<1>5. p \in Commands => CommandAt(p)'
  BY <1>1, <1>2, <1>3, <1>4 DEF ShapeAt, CommandAt, Working
<1>6. p \in Procs \ Teardowns => DaemonAt(p)'
  BY <1>1, <1>2, <1>3, <1>4 DEF ShapeAt, DaemonAt, Working
<1>7. ASSUME p \in Teardowns
      PROVE  TeardownAt(p)'
  <2>1. TeardownAt(p) /\ phase[p] = "clear" /\ job[p].step \in {"drops", "delete"}
        /\ job[p].todo = <<>>
    BY <1>1, <1>4, <1>7 DEF ShapeAt, TeardownAt, Working
  <2>2. job'[p].step = "delete" /\ job'[p].todo = <<>>
    BY <1>1, <1>2, <1>7, <2>1, CallEffects, DeleteEffects DEF ChainStep
  <2> QED
    BY <1>2, <1>3, <2>1, <2>2 DEF TeardownAt, May
<1>8. ShapeAt(p)'
  BY <1>3, <1>5, <1>6, <1>7 DEF ShapeAt
<1>9. /\ p \in Commands => phase[p] # "off"
      /\ p \in Teardowns => Alive(p)
  <2>1. p \in Teardowns => st[p] \in {"tearing", "forced"}
    BY <1>1, <1>4 DEF ShapeAt, TeardownAt, Working
  <2> QED
    BY <1>1, <1>4, <2>1 DEF ShapeAt, CommandAt, Alive, Over, Working
<1> QED
  BY <1>1, <1>2, <1>3, <1>8, <1>9, LifeKept

\* An empty node, as at the first boot and, its files kept, at every later one.
LEMMA BootShape ==
  /\ LifeInit => LifeInv
  /\ LifeInv /\ TypeInv' /\ env' = env /\ NodeReboots => LifeInv'
<1>1. ASSUME LifeInit
      PROVE  LifeInv
  <2>1. LifeTypeOK
    <3>1. ChainTypeOK
      BY <1>1, ChainInvBoot DEF LifeInit
    <3>2. leases \in BOOLEAN
      BY <1>1, Zenon DEF LifeInit
    <3> QED
      BY <1>1, <3>1, <3>2, StarterInit DEF LifeInit, LifeTypeOK, TypeInv, Phases
  <2>2. /\ \A p \in Setters : phase[p] = "off" /\ job[p] = Idle
        /\ \A p \in Procs : st[p] = "dead"
    BY <1>1 DEF LifeInit, ChainInit, Init
  <2>3. \A p \in Setters : ShapeAt(p)
    BY <2>2, IdleFields, PidAssumption, LifeAssumption
       DEF ShapeAt, Pending, CommandAt, DaemonAt, TeardownAt
  <2>4. OneCommand
    BY <2>2, PidAssumption DEF OneCommand, Alive, Over
  <2> QED
    BY <2>1, <2>3, <2>4 DEF LifeInv
<1>2. ASSUME LifeInv, TypeInv', env' = env, NodeReboots
      PROVE  LifeInv'
  <2>1. LifeTypeOK'
    <3>1. ChainTypeOK'
      BY <1>2, ChainInvBoot DEF NodeReboots, ChainInit
    <3> QED
      BY <1>2, <3>1 DEF NodeReboots, LifeInv, LifeTypeOK, TypeInv, Phases, files
  <2>2. /\ \A p \in Setters : phase'[p] = "off" /\ job'[p] = Idle
        /\ \A p \in Procs : st'[p] = "dead"
    BY <1>2 DEF NodeReboots, Reboot
  <2>3. \A p \in Setters : ShapeAt(p)'
    BY <2>2, IdleFields, PidAssumption, LifeAssumption
       DEF ShapeAt, Pending, CommandAt, DaemonAt, TeardownAt
  <2>4. OneCommand'
    BY <2>2, PidAssumption DEF OneCommand, Alive, Over
  <2> QED
    BY <2>1, <2>3, <2>4 DEF LifeInv
<1> QED
  BY <1>1, <1>2

\* Every step of the node keeps its shape.
LEMMA LifeStep ==
  LifeInv /\ TypeInv' /\ [LifeNext]_lifeVars => LifeInv'
<1> SUFFICES ASSUME LifeInv, TypeInv', [LifeNext]_lifeVars
             PROVE  LifeInv'
  OBVIOUS
<1>1. CASE UNCHANGED lifeVars
  BY <1>1
     DEF lifeVars, vars, chainVars, files, LifeInv, LifeTypeOK, TypeOK, ChainTypeOK, OneCommand,
         ShapeAt, Pending, CommandAt, DaemonAt, TeardownAt, Alive, May
<1>2. CASE LifeNext
  BY <1>2, CommandStep, ProcessStep, IptKeepsShape, BootShape DEF LifeNext
<1> QED
  BY <1>1, <1>2

\* The life of a node keeps its types: whatever the commands, daemons,
\* teardowns, failures, kills and reboots, the pid file, the chain, pool.json
\* and the lease file hold what the code can put there, and no process is
\* outside its command.
THEOREM LifeTypeCorrect == LifeSpec => []LifeTypeOK
<1>1. LifeInit => LifeInv /\ TypeInv
  BY BootShape, LifeStartsAsPidFile, StarterInit
<1>2. LifeSpec => []TypeInv
  BY LifeImplementsPidFile, StarterInit, TypeStep, PTL DEF Spec
<1>3. LifeInv /\ TypeInv' /\ [LifeNext]_lifeVars => LifeInv'
  BY LifeStep
<1>4. LifeInv => LifeTypeOK
  BY DEF LifeInv
<1> QED
  BY <1>1, <1>2, <1>3, <1>4, PTL DEF LifeSpec

-----------------------------------------------------------------------------
(* The chain in the node.                                                  *)

\* What a step of the node may do to the chain: nothing, an iptables call, the
\* start of a Setup or ClearDropRules, a process that is away from it, a boot.
ChainMove ==
  \/ UNCHANGED chainVars
  \/ \E p \in Setters : ChainStep(p) \/ Installed(p) \/ (May("ipt") /\ DeleteFails(p))
  \/ \E p \in Setters : \E targets \in Configs \cup {<<>>} : \E where \in {"accept", "drops"} :
       Enter(p, where, targets) /\ chain' = chain
  \/ \E p \in Setters : \E j \in Jobs :
       /\ j.step = "off" /\ j.want \in Configs \cup {<<>>}
       /\ job' = [job EXCEPT ![p] = j] /\ chain' = chain
  \/ ChainInit'

\* Every step of the node does one of these.
LEMMA LifeUsesChain ==
  ASSUME LifeInv, [LifeNext]_lifeVars
  PROVE  ChainMove
<1>0. ChainTypeOK /\ record \in Records \cup {None}
  BY DEF LifeInv, LifeTypeOK
<1>1. ASSUME NEW p \in Setters, Leave(p), chain' = chain
      PROVE  ChainMove
  BY <1>1, IdleFields DEF ChainMove, Leave
<1>2. ASSUME NEW p \in Setters, NEW targets \in Configs, StartSetup(p, targets)
      PROVE  ChainMove
  BY <1>2 DEF ChainMove, StartSetup
<1>3. ASSUME NEW p \in Setters, NEW targets \in Configs, job[p].step = "off",
             job' = [job EXCEPT ![p].want = targets], chain' = chain
      PROVE  ChainMove
  <2> DEFINE j == [job[p] EXCEPT !.want = targets]
  <2>1. j \in Jobs /\ j.step = "off" /\ j.want = targets /\ job' = [job EXCEPT ![p] = j]
    BY <1>0, <1>3, RecordFields DEF ChainTypeOK, Jobs
  <2> HIDE DEF j
  <2> QED
    BY <1>3, <2>1 DEF ChainMove
<1>4. CASE UNCHANGED lifeVars
  BY <1>4 DEF ChainMove, lifeVars
<1>5. ASSUME NEW c \in Commands,
             \/ \E targets \in Configs : StartInit(c, targets) \/ StartAdopt(c, targets)
             \/ SaveInit(c) \/ InitFails(c) \/ CommandSetUp(c) \/ SaveAdopt(c) \/ EndCommand(c)
      PROVE  ChainMove
  <2>0. c \in Setters /\ CommandAt(c)
    BY LifeAssumption DEF LifeInv, ShapeAt
  <2>1. CASE \E targets \in Configs : StartInit(c, targets)
    <3>1. PICK targets \in Configs : StartInit(c, targets)
      BY <2>1
    <3>2. job[c].step = "off"
      BY <2>0, <3>1 DEF StartInit, Quiet, CommandAt
    <3> QED
      BY <1>3, <2>0, <3>1, <3>2 DEF StartInit
  <2>2. CASE \E targets \in Configs : StartAdopt(c, targets)
    <3>1. PICK targets \in Configs : StartAdopt(c, targets)
      BY <2>2
    <3>2. job[c].step = "off"
      BY <2>0, <3>1 DEF StartAdopt, Quiet, CommandAt
    <3> QED
      BY <1>2, <1>3, <2>0, <3>1, <3>2 DEF StartAdopt
  <2>3. CASE SaveInit(c)
    <3>1. job[c].want \in Configs
      BY <2>0, <2>3 DEF SaveInit, CommandAt
    <3> QED
      BY <1>2, <2>0, <2>3, <3>1 DEF SaveInit
  <2>4. CASE InitFails(c) \/ SaveAdopt(c) \/ EndCommand(c)
    BY <1>1, <2>0, <2>4 DEF InitFails, SaveAdopt, EndCommand
  <2>5. CASE CommandSetUp(c)
    <3>1. CASE Leave(c)
      BY <1>1, <2>0, <2>5, <3>1 DEF CommandSetUp
    <3>2. CASE UNCHANGED job
      BY <2>5, <3>2 DEF CommandSetUp, ChainMove, chainVars
    <3> QED
      BY <2>5, <3>1, <3>2 DEF CommandSetUp
  <2> QED
    BY <1>5, <2>1, <2>2, <2>3, <2>4, <2>5
<1>6. ASSUME NEW p \in Procs,
             \/ LoadPool(p) \/ Serve(p) \/ WriteLeases(p) \/ DaemonReturns(p)
             \/ StartTeardown(p) \/ CloudGone(p) \/ ClearReturns(p) \/ DeleteRecord(p)
             \/ RemoveLeaseFile(p) \/ PidStep(p) \/ ProcessEnds(p)
      PROVE  ChainMove
  <2>0. p \in Setters
    BY LifeAssumption
  <2>1. CASE LoadPool(p)
    <3>1. record.drops \in Configs
      BY <1>0, <2>1, RecordFields DEF LoadPool
    <3>2. CASE StartSetup(p, record.drops)
      BY <1>2, <2>0, <3>1, <3>2
    <3>3. CASE UNCHANGED chainVars
      BY <3>3 DEF ChainMove
    <3> QED
      BY <2>1, <3>2, <3>3 DEF LoadPool
  <2>2. CASE Serve(p) \/ WriteLeases(p) \/ StartTeardown(p) \/ DeleteRecord(p)
             \/ RemoveLeaseFile(p) \/ PidStep(p)
    BY <2>2
       DEF Serve, WriteLeases, StartTeardown, DeleteRecord, RemoveLeaseFile, PidStep, ChainMove
  <2>3. CASE DaemonReturns(p) \/ ClearReturns(p) \/ ProcessEnds(p)
    BY <1>1, <2>0, <2>3 DEF DaemonReturns, ClearReturns, ProcessEnds
  <2>4. CASE CloudGone(p)
    BY <2>0, <2>4 DEF CloudGone, StartClear, ChainMove
  <2> QED
    BY <1>6, <2>1, <2>2, <2>3, <2>4
<1>7. CASE \E p \in Setters : IptStep(p)
  BY <1>7 DEF IptStep, ChainMove
<1>8. CASE NodeReboots
  BY <1>8 DEF NodeReboots, ChainMove, ChainInit
<1> QED
  BY <1>4, <1>5, <1>6, <1>7, <1>8 DEF LifeNext

\* Every step of the node keeps the invariant of the chain, if iptables prints
\* the drops the node is told to make.
LEMMA RulesStep ==
  ASSUME \A s \in Configs : Range(s) \cap Unprinted = {},
         LifeInv, RulesInv, [LifeNext]_lifeVars
  PROVE  RulesInv'
<1>0. PICK sure \in BOOLEAN : sure <=> ~May("ipt")
  OBVIOUS
<1>1. env' = env
  BY DEF LifeNext, lifeVars
<1>2. /\ RulesInv => ChainInv(sure)
      /\ ChainInv(sure)' => RulesInv'
  BY <1>0, <1>1 DEF RulesInv, ChainInv, DropsAt, May
<1>3. ChainTypeOK /\ ChainInv(sure) /\ ChainMove
  BY <1>2, LifeUsesChain DEF LifeInv, LifeTypeOK
<1>4. \A s \in Configs \cup {<<>>} : s \in Seq(Targets) /\ Range(s) \cap Unprinted = {}
  <2>1. Range(<<>>) = {}
    BY DEF Range
  <2> QED
    BY <2>1, RecordFields
<1>5. CASE UNCHANGED chainVars
  BY <1>2, <1>3, <1>5
     DEF chainVars, ChainInv, DropsFirst, JobOrder, Pending, DropsAt, Drops, Wanted
<1>6. ASSUME NEW p \in Setters, ChainStep(p) \/ Installed(p) \/ (May("ipt") /\ DeleteFails(p))
      PROVE  RulesInv'
  BY <1>0, <1>2, <1>3, <1>6, ChainInvCall
<1>7. ASSUME NEW p \in Setters, NEW targets \in Configs \cup {<<>>},
             NEW where \in {"accept", "drops"}, Enter(p, where, targets), chain' = chain
      PROVE  RulesInv'
  BY <1>2, <1>3, <1>4, <1>7, ChainInvEnter
<1>8. ASSUME NEW p \in Setters, NEW j \in Jobs, j.step = "off", j.want \in Configs \cup {<<>>},
             job' = [job EXCEPT ![p] = j], chain' = chain
      PROVE  RulesInv'
  BY <1>2, <1>3, <1>4, <1>8, ChainInvAway
<1>9. CASE ChainInit'
  BY <1>2, <1>9, ChainInvBoot
<1> QED
  BY <1>3, <1>5, <1>6, <1>7, <1>8, <1>9 DEF ChainMove

\* If iptables prints the drops the node is told to make, every Setup that
\* nobody with other targets disturbs leaves exactly its wanted targets
\* dropped, with any commands and daemons at the same chain, any of which may
\* fail or be killed between two calls.
THEOREM DropsAreExact ==
  ASSUME \A s \in Configs : Range(s) \cap Unprinted = {}
  PROVE  LifeSpec => []DropsExact
<1>1. LifeInit => LifeInv /\ TypeInv /\ RulesInv
  BY BootShape, LifeStartsAsPidFile, StarterInit, ChainInvBoot DEF LifeInit, RulesInv
<1>2. LifeSpec => []TypeInv
  BY LifeImplementsPidFile, StarterInit, TypeStep, PTL DEF Spec
<1>3. LifeInv /\ TypeInv' /\ [LifeNext]_lifeVars => LifeInv'
  BY LifeStep
<1>4. LifeInv /\ RulesInv /\ [LifeNext]_lifeVars => RulesInv'
  BY RulesStep
<1>5. LifeInv /\ RulesInv => DropsExact
  BY ChainInvExact DEF LifeInv, LifeTypeOK, RulesInv
<1> QED
  BY <1>1, <1>2, <1>3, <1>4, <1>5, PTL DEF LifeSpec

-----------------------------------------------------------------------------
(* What a teardown leaves.                                                 *)

\* Beside a teardown that was not forced nobody is at work where no daemon serves
\* beside it: the operator runs no other command.
LEMMA NobodyElse ==
  ASSUME LifeInv, TeardownAlone, ~May("force"), NEW t \in Teardowns,
         st[t] \in {"tearing", "forced"}
  PROVE  /\ ~Quiet
         /\ \A p \in Setters \ {t} : phase[p] = "off" /\ job[p].step = "off"
         /\ \A p \in Procs \ {t} : st[p] \notin {"running", "tearing", "forced"}
<1>1. /\ t \in Procs /\ st[t] = "tearing" /\ Alive(t)
      /\ \A p \in Procs : st[p] \notin Serving
  BY PidAssumption, LifeAssumption
     DEF LifeInv, ShapeAt, TeardownAt, TeardownAlone, Alive, Over, LifeTypeOK
<1>2. /\ \A c \in Commands : phase[c] = "off"
      /\ \A u \in Teardowns : Alive(u) => u = t
  BY <1>1 DEF LifeInv, OneCommand
<1>3. \A p \in Procs \ {t} : st[p] \notin {"running", "tearing", "forced"}
  BY <1>1, <1>2, LifeAssumption DEF LifeInv, ShapeAt, DaemonAt, Alive, Over, Serving
<1>4. \A p \in Setters \ {t} : phase[p] = "off" /\ job[p].step = "off"
  <2>1. \A c \in Commands : c \in Setters => phase[c] = "off" /\ job[c].step = "off"
    BY <1>2 DEF LifeInv, ShapeAt, CommandAt
  <2>2. ASSUME NEW d \in Procs \ Teardowns, d \in Setters
        PROVE  phase[d] = "off" /\ job[d].step = "off"
    BY <1>1, <2>2 DEF LifeInv, ShapeAt, DaemonAt, Serving
  <2>3. ASSUME NEW u \in Teardowns, u # t, u \in Setters
        PROVE  phase[u] = "off" /\ job[u].step = "off"
    BY <1>2, <2>3 DEF LifeInv, ShapeAt, TeardownAt, Alive, Over
  <2> QED
    BY <2>1, <2>2, <2>3, LifeAssumption
<1> QED
  BY <1>1, <1>3, <1>4 DEF Quiet

\* So what happens to the chain, pool.json and the lease file until it ends, it
\* does itself.
LEMMA TeardownActsAlone ==
  ASSUME LifeInv, TeardownAlone, ~May("force"), NEW t \in Teardowns,
         st[t] \in {"tearing", "forced"}, [LifeNext]_lifeVars
  PROVE  \/ CloudGone(t) \/ ClearReturns(t) \/ DeleteRecord(t) \/ RemoveLeaseFile(t)
         \/ IptStep(t)
         \/ phase'[t] = "off"
         \/ phase'[t] = phase[t] /\ job'[t] = job[t] /\ chain' = chain /\ UNCHANGED files
<1>0. /\ t \in Setters /\ t \in Procs /\ t \notin Commands /\ TeardownAt(t)
      /\ phase \in [Setters -> Phases] /\ ChainTypeOK
  BY PidAssumption, LifeAssumption DEF LifeInv, ShapeAt, LifeTypeOK
<1>1. /\ ~Quiet
      /\ \A p \in Setters \ {t} : phase[p] = "off" /\ job[p].step = "off"
      /\ \A p \in Procs \ {t} : st[p] \notin {"running", "tearing", "forced"}
  BY NobodyElse
<1>2. CASE UNCHANGED lifeVars
  BY <1>2 DEF lifeVars, chainVars
<1>3. ASSUME NEW c \in Commands,
             \/ \E targets \in Configs : StartInit(c, targets) \/ StartAdopt(c, targets)
             \/ SaveInit(c) \/ InitFails(c) \/ CommandSetUp(c) \/ SaveAdopt(c) \/ EndCommand(c)
      PROVE  FALSE
  <2>1. phase[c] = "off" /\ job[c].step = "off"
    BY <1>0, <1>1, LifeAssumption
  <2> QED
    BY <1>1, <1>3, <2>1
       DEF StartInit, StartAdopt, SaveInit, InitFails, CommandSetUp, SaveAdopt, EndCommand
<1>4. ASSUME NEW p \in Procs, p # t,
             \/ LoadPool(p) \/ Serve(p) \/ WriteLeases(p) \/ DaemonReturns(p)
             \/ StartTeardown(p) \/ CloudGone(p) \/ ClearReturns(p) \/ DeleteRecord(p)
             \/ RemoveLeaseFile(p) \/ PidStep(p) \/ ProcessEnds(p)
      PROVE  phase'[t] = phase[t] /\ job'[t] = job[t] /\ chain' = chain /\ UNCHANGED files
  <2>1. p \in Setters /\ phase[p] = "off" /\ st[p] \notin {"running", "tearing", "forced"}
    BY <1>1, <1>4, LifeAssumption
  <2>2. PidStep(p) \/ ProcessEnds(p)
    BY <1>1, <1>4, <2>1
       DEF LoadPool, Serve, WriteLeases, DaemonReturns, Return, StartTeardown, CloudGone,
           ClearReturns, DeleteRecord, RemoveLeaseFile
  <2>3. CASE PidStep(p)
    BY <2>3 DEF PidStep, chainVars
  <2>4. CASE ProcessEnds(p)
    BY <1>0, <1>4, <2>1, <2>4 DEF ProcessEnds, Leave, To, ChainTypeOK
  <2> QED
    BY <2>2, <2>3, <2>4
<1>5. ASSUME LoadPool(t) \/ Serve(t) \/ WriteLeases(t) \/ DaemonReturns(t) \/ StartTeardown(t)
      PROVE  FALSE
  BY <1>0, <1>1, <1>5
     DEF LoadPool, Serve, WriteLeases, DaemonReturns, Return, StartTeardown, TeardownAt
<1>6. CASE PidStep(t)
  BY <1>6 DEF PidStep, chainVars
<1>7. CASE ProcessEnds(t)
  BY <1>0, <1>7 DEF ProcessEnds, To
<1>8. ASSUME NEW p \in Setters \ {t}, IptStep(p)
      PROVE  FALSE
  <2>1. job[p].step = "off"
    BY <1>1
  <2> QED
    BY <1>0, <1>8, <2>1, CallEffects, DeleteEffects DEF IptStep, ChainStep
<1>9. CASE NodeReboots
  BY <1>0, <1>9 DEF NodeReboots
<1> QED
  BY <1>2, <1>3, <1>4, <1>5, <1>6, <1>7, <1>8, <1>9 DEF LifeNext

\* It begins with the success of plat.Teardown.
LEMMA TeardownBegins ==
  ASSUME LifeInv, NEW t \in Teardowns, phase[t] = "off", phase'[t] # "off",
         [LifeNext]_lifeVars
  PROVE  st[t] \in {"tearing", "forced"}
<1>0. /\ t \in Setters /\ t \in Procs /\ t \notin Commands /\ TeardownAt(t)
      /\ phase \in [Setters -> Phases]
  BY PidAssumption, LifeAssumption DEF LifeInv, ShapeAt, LifeTypeOK
<1>1. CASE UNCHANGED lifeVars
  BY <1>1 DEF lifeVars
<1>2. ASSUME NEW c \in Commands,
             \/ \E targets \in Configs : StartInit(c, targets) \/ StartAdopt(c, targets)
             \/ SaveInit(c) \/ InitFails(c) \/ CommandSetUp(c) \/ SaveAdopt(c) \/ EndCommand(c)
      PROVE  phase'[t] = phase[t]
  <2>1. \E where : To(c, where)
    BY <1>2
       DEF StartInit, StartAdopt, SaveInit, InitFails, CommandSetUp, SaveAdopt, EndCommand
  <2> QED
    BY <1>0, <2>1 DEF To
<1>3. ASSUME NEW p \in Procs, p # t,
             \/ LoadPool(p) \/ Serve(p) \/ WriteLeases(p) \/ DaemonReturns(p)
             \/ StartTeardown(p) \/ CloudGone(p) \/ ClearReturns(p) \/ DeleteRecord(p)
             \/ RemoveLeaseFile(p) \/ PidStep(p) \/ ProcessEnds(p)
      PROVE  phase'[t] = phase[t]
  <2>1. phase' = phase \/ \E where : To(p, where)
    BY <1>3
       DEF LoadPool, Serve, WriteLeases, DaemonReturns, StartTeardown, CloudGone, ClearReturns,
           DeleteRecord, RemoveLeaseFile, PidStep, ProcessEnds
  <2> QED
    BY <1>0, <1>3, <2>1 DEF To
<1>4. CASE LoadPool(t) \/ Serve(t) \/ WriteLeases(t) \/ DaemonReturns(t) \/ StartTeardown(t)
  BY <1>0, <1>4
     DEF LoadPool, Serve, WriteLeases, DaemonReturns, Return, StartTeardown, TeardownAt
<1>5. CASE ClearReturns(t) \/ DeleteRecord(t) \/ RemoveLeaseFile(t) \/ PidStep(t)
  BY <1>5 DEF ClearReturns, DeleteRecord, RemoveLeaseFile, PidStep
<1>6. CASE CloudGone(t)
  BY <1>6 DEF CloudGone
<1>7. CASE ProcessEnds(t) \/ NodeReboots
  BY <1>0, <1>7 DEF ProcessEnds, NodeReboots, To
<1>8. CASE \E p \in Setters : IptStep(p)
  BY <1>8 DEF IptStep
<1> QED
  BY <1>1, <1>2, <1>3, <1>4, <1>5, <1>6, <1>7, <1>8 DEF LifeNext

\* A teardown keeps what it has reached, step by step.
LEMMA TornStep ==
  ASSUME LifeInv, TeardownAlone, RulesInv, TornInv, [LifeNext]_lifeVars
  PROVE  TornInv'
<1>1. env' = env
  BY DEF LifeNext, lifeVars
<1> SUFFICES ASSUME ~May("ipt"), ~May("force"), NEW t \in Teardowns, phase'[t] # "off"
             PROVE  /\ phase'[t] = "clear" => job'[t].calm
                    /\ phase'[t] \in {"record", "lease", "done"} => Drops' = {}
                    /\ ~May("host") =>
                         /\ phase'[t] \in {"lease", "done"} => record' = None
                         /\ phase'[t] = "done" => ~leases'
  BY <1>1 DEF TornInv, Without, May
<1>2. /\ t \in Setters /\ t \in Procs /\ TeardownAt(t) /\ ChainTypeOK
      /\ phase \in [Setters -> Phases] /\ Pending(t) /\ DropsAt(t, ~May("ipt"))
  BY PidAssumption, LifeAssumption
     DEF LifeInv, ShapeAt, LifeTypeOK, RulesInv, ChainInv
<1>3. /\ phase[t] = "clear" => job[t].calm
      /\ phase[t] \in {"record", "lease", "done"} => Drops = {}
      /\ ~May("host") =>
           /\ phase[t] \in {"lease", "done"} => record = None
           /\ phase[t] = "done" => ~leases
  BY DEF TornInv, Without, May
<1>4. st[t] \in {"tearing", "forced"}
  BY <1>2, TeardownBegins DEF TeardownAt
<1>5. \A where \in Phases : To(t, where) => phase'[t] = where
  BY <1>2 DEF To
<1>6. {"clear", "record", "lease", "done"} \subseteq Phases
  BY DEF Phases
<1>7. Wanted(t) = {}
  BY <1>2 DEF TeardownAt, Wanted, Range
<1>8. CASE CloudGone(t)
  <2>1. Enter(t, "drops", <<>>) /\ phase'[t] = "clear"
    BY <1>5, <1>6, <1>8 DEF CloudGone, StartClear
  <2>2. \A r \in Setters \ {t} : job[r].step \notin Working
    BY <1>4, NobodyElse DEF Working
  <2> QED
    BY <1>2, <2>1, <2>2, RecordFields, EnterEffects
<1>9. CASE ClearReturns(t)
  <2>1. /\ phase[t] = "clear" /\ Pruned(t) /\ phase'[t] = "record" /\ chain' = chain
    BY <1>5, <1>6, <1>9 DEF ClearReturns
  <2>2. Drops \subseteq {}
    BY <1>2, <1>3, <1>7, <2>1, PrunedIsClean
  <2> QED
    BY <2>1, <2>2 DEF Drops
<1>10. CASE DeleteRecord(t)
  BY <1>3, <1>5, <1>6, <1>10 DEF DeleteRecord, chainVars, Drops
<1>11. CASE RemoveLeaseFile(t)
  BY <1>3, <1>5, <1>6, <1>11 DEF RemoveLeaseFile, chainVars, Drops
<1>12. CASE IptStep(t)
  <2>1. /\ ChainStep(t) \/ Installed(t) \/ DeleteFails(t)
        /\ phase' = phase /\ record' = record /\ leases' = leases
    BY <1>12 DEF IptStep, files
  <2>2. job[t].step \in Working /\ job'[t].calm = job[t].calm
    BY <1>2, <2>1, CallTypes, CallEffects, DeleteEffects DEF ChainStep, Working
  <2>3. phase[t] = "clear"
    BY <1>2, <2>2 DEF TeardownAt, Working
  <2> QED
    BY <1>3, <2>1, <2>2, <2>3
<1>13. CASE phase'[t] = phase[t] /\ job'[t] = job[t] /\ chain' = chain /\ UNCHANGED files
  BY <1>3, <1>13 DEF files, Drops
<1> QED
  BY <1>4, <1>8, <1>9, <1>10, <1>11, <1>12, <1>13, TeardownActsAlone

\* No drop is left, and none comes back, while there is no pool.json.
LEMMA ReachStep ==
  ASSUME LifeInv, TeardownAlone, RulesInv, TornInv, ReachInv, [LifeNext]_lifeVars
  PROVE  ReachInv'
<1>1. env' = env
  BY DEF LifeNext, lifeVars
<1> SUFFICES ASSUME ~May("ipt"), ~May("adopt"), ~May("force"), record' = None
             PROVE  /\ Drops' = {}
                    /\ \A p \in Setters : job'[p].step # "off" => p \in Teardowns
  BY <1>1 DEF ReachInv, Without, May
<1>0. /\ ChainTypeOK /\ phase \in [Setters -> Phases] /\ record \in Records \cup {None}
      /\ \A p \in Setters : ShapeAt(p) /\ JobOrder(p)
      /\ Setters = Procs \cup Commands /\ Teardowns \subseteq Procs
  BY PidAssumption, LifeAssumption DEF LifeInv, LifeTypeOK, RulesInv, ChainInv
<1>2. CASE record # None
  <2>1. PICK t \in Procs : DeleteRecord(t)
    <3>1. \A c \in Commands : job[c].want \in Configs \/ phase[c] \notin {"provision", "save"}
      BY <1>0 DEF ShapeAt, CommandAt
    <3> QED
      BY <1>2, <3>1, RecordFields
         DEF LifeNext, lifeVars, files, StartInit, StartAdopt, SaveInit, InitFails,
             CommandSetUp, SaveAdopt, EndCommand, LoadPool, Serve, WriteLeases, DaemonReturns,
             StartTeardown, CloudGone, ClearReturns, RemoveLeaseFile, PidStep, ProcessEnds,
             IptStep, NodeReboots
  <2>2. t \in Teardowns /\ phase[t] = "record" /\ UNCHANGED chainVars
        /\ st[t] \in {"tearing", "forced"}
    BY <1>0, <2>1 DEF DeleteRecord, ShapeAt, DaemonAt, TeardownAt
  <2>3. Drops = {}
    BY <2>2 DEF TornInv, Without, May
  <2>4. \A p \in Setters \ {t} : job[p].step = "off"
    BY <2>2, NobodyElse
  <2> QED
    BY <2>2, <2>3, <2>4 DEF chainVars, Drops
<1>3. CASE record = None
  <2>1. Drops = {} /\ \A p \in Setters : job[p].step # "off" => p \in Teardowns
    BY <1>3 DEF ReachInv, Without, May
  <2>2. ASSUME NEW p \in Setters, Leave(p), chain' = chain
        PROVE  /\ Drops' = {}
               /\ \A q \in Setters : job'[q].step # "off" => q \in Teardowns
    <3>1. job'[p] = Idle /\ \A q \in Setters \ {p} : job'[q] = job[q]
      BY <1>0, <2>2, IdleFields, AwayEffects DEF Leave
    <3> QED
      BY <2>1, <2>2, <3>1, IdleFields DEF Drops
  <2>3. ASSUME UNCHANGED chainVars
        PROVE  /\ Drops' = {}
               /\ \A q \in Setters : job'[q].step # "off" => q \in Teardowns
    BY <2>1, <2>3 DEF chainVars, Drops
  <2>4. CASE UNCHANGED lifeVars
    BY <2>3, <2>4 DEF lifeVars
  <2>5. ASSUME NEW c \in Commands,
               \/ \E targets \in Configs : StartInit(c, targets) \/ StartAdopt(c, targets)
               \/ SaveInit(c) \/ InitFails(c) \/ CommandSetUp(c) \/ SaveAdopt(c)
               \/ EndCommand(c)
        PROVE  /\ Drops' = {}
               /\ \A q \in Setters : job'[q].step # "off" => q \in Teardowns
    <3>1. c \in Setters /\ c \notin Teardowns /\ job[c].step = "off"
      BY <1>0, <2>1, LifeAssumption
    <3>2. phase[c] = "provision" => job[c].want \in Configs
      BY <1>0, <3>1 DEF ShapeAt, CommandAt
    <3>3. InitFails(c) \/ SaveAdopt(c) \/ EndCommand(c)
      BY <1>3, <2>5, <3>1, <3>2, RecordFields
         DEF StartInit, StartAdopt, SaveInit, CommandSetUp
    <3> QED
      BY <2>2, <3>1, <3>3 DEF InitFails, SaveAdopt, EndCommand
  <2>6. ASSUME NEW p \in Procs,
               \/ LoadPool(p) \/ Serve(p) \/ WriteLeases(p) \/ DaemonReturns(p)
               \/ StartTeardown(p) \/ CloudGone(p) \/ ClearReturns(p) \/ DeleteRecord(p)
               \/ RemoveLeaseFile(p) \/ PidStep(p) \/ ProcessEnds(p)
        PROVE  /\ Drops' = {}
               /\ \A q \in Setters : job'[q].step # "off" => q \in Teardowns
    <3>1. ~LoadPool(p)
      BY <1>3 DEF LoadPool
    <3>2. CASE Serve(p) \/ WriteLeases(p) \/ StartTeardown(p) \/ DeleteRecord(p)
               \/ RemoveLeaseFile(p) \/ PidStep(p)
      BY <2>3, <3>2 DEF Serve, WriteLeases, StartTeardown, DeleteRecord, RemoveLeaseFile, PidStep
    <3>3. CASE DaemonReturns(p) \/ ClearReturns(p) \/ ProcessEnds(p)
      BY <1>0, <2>2, <3>3 DEF DaemonReturns, ClearReturns, ProcessEnds
    <3>4. CASE CloudGone(p)
      <4>1. Enter(p, "drops", <<>>) /\ chain' = chain /\ p \in Teardowns /\ p \in Setters
        BY <1>0, <3>4 DEF CloudGone, StartClear, ShapeAt, DaemonAt
      <4>2. ASSUME NEW targets \in Seq(Targets), Enter(p, "drops", targets)
            PROVE  \A q \in Setters \ {p} : job'[q].step = job[q].step
        BY <1>0, <4>1, <4>2, EnterEffects
      <4>3. \A q \in Setters \ {p} : job'[q].step = job[q].step
        BY <4>1, <4>2, RecordFields
      <4> QED
        BY <2>1, <4>1, <4>3 DEF Drops
    <3> QED
      BY <2>6, <3>1, <3>2, <3>3, <3>4
  <2>7. ASSUME NEW p \in Setters, IptStep(p)
        PROVE  /\ Drops' = {}
               /\ \A q \in Setters : job'[q].step # "off" => q \in Teardowns
    <3>1. /\ ChainStep(p) \/ Installed(p) \/ DeleteFails(p)
      BY <2>7 DEF IptStep
    <3>2. /\ Drops' \subseteq Drops \cup Wanted(p) /\ job[p].step \in Working
          /\ \A q \in Setters \ {p} : job'[q] = job[q]
      BY <1>0, <3>1, CallKeepsWanted, CallTypes DEF JobOrder
    <3>3. p \in Teardowns /\ Wanted(p) = {}
      BY <1>0, <2>1, <3>2 DEF ShapeAt, TeardownAt, Wanted, Range, Working
    <3> QED
      BY <2>1, <3>2, <3>3
  <2>8. CASE NodeReboots
    BY <2>8, IdleFields DEF NodeReboots, Drops, Range
  <2> QED
    BY <2>4, <2>5, <2>6, <2>7, <2>8 DEF LifeNext
<1> QED
  BY <1>2, <1>3

\* Where no daemon serves beside an unforced teardown and iptables prints the
\* drops, such a teardown whose calls succeed leaves no drop rule, pool.json or
\* lease file behind.  And if iptables calls succeed and there is neither adopt
\* nor --force, then as long as pool.json is gone there is no drop rule that no
\* teardown would find, whatever dies or else fails on the host and in the cloud.
THEOREM NothingLeftIfAlone ==
  ASSUME \A s \in Configs : Range(s) \cap Unprinted = {}
  PROVE  LifeSpec /\ []TeardownAlone => [](TeardownClean /\ RulesReachable)
<1>1. LifeInit => LifeInv /\ TypeInv /\ RulesInv /\ TornInv /\ ReachInv
  <2> SUFFICES ASSUME LifeInit
               PROVE  LifeInv /\ TypeInv /\ RulesInv /\ TornInv /\ ReachInv
    OBVIOUS
  <2>1. LifeInv /\ TypeInv /\ RulesInv
    BY BootShape, LifeStartsAsPidFile, StarterInit, ChainInvBoot DEF LifeInit, RulesInv
  <2>2. TornInv
    BY PidAssumption, LifeAssumption DEF LifeInit, TornInv
  <2>3. ReachInv
    BY IdleFields DEF LifeInit, ChainInit, ReachInv, Drops, Range
  <2> QED
    BY <2>1, <2>2, <2>3
<1>2. LifeSpec => []TypeInv
  BY LifeImplementsPidFile, StarterInit, TypeStep, PTL DEF Spec
<1>3. LifeInv /\ TypeInv' /\ [LifeNext]_lifeVars => LifeInv'
  BY LifeStep
<1>4. LifeInv /\ RulesInv /\ [LifeNext]_lifeVars => RulesInv'
  BY RulesStep
<1>5. LifeInv /\ TeardownAlone /\ RulesInv /\ TornInv /\ ReachInv /\ [LifeNext]_lifeVars
        => TornInv' /\ ReachInv'
  BY TornStep, ReachStep
<1>6. TornInv /\ ReachInv => TeardownClean /\ RulesReachable
  BY DEF TornInv, ReachInv, TeardownClean, RulesReachable, Without
<1> QED
  BY <1>1, <1>2, <1>3, <1>4, <1>5, <1>6, PTL DEF LifeSpec

\* Both are so, with the same exclusions, where daemons start while no other
\* start is removing a pid file and no teardown is past its look at it; in
\* particular where no starts overlap.
THEOREM NothingLeftBehind ==
  ASSUME \A s \in Configs : Range(s) \cap Unprinted = {}
  PROVE  /\ LifeSpec /\ []RemovesAlone /\ []TeardownApart
              => [](TeardownClean /\ RulesReachable)
         /\ ~Concurrent => (LifeSpec => [](TeardownClean /\ RulesReachable))
<1>1. LifeSpec /\ []RemovesAlone /\ []TeardownApart => []TeardownAlone
  BY TeardownApartIsAlone, LifeImplementsPidFile, PTL
<1>2. LifeSpec /\ []RemovesAlone /\ []TeardownApart => [](TeardownClean /\ RulesReachable)
  BY <1>1, NothingLeftIfAlone, PTL
<1>3. ASSUME ~Concurrent
      PROVE  LifeSpec => [](TeardownClean /\ RulesReachable)
  <2>1. Spec => [](RemovesAlone /\ TeardownApart)
    BY <1>3, ApartMeansAlone
  <2> QED
    BY <1>2, <2>1, LifeImplementsPidFile, PTL
<1> QED
  BY <1>2, <1>3

=============================================================================
