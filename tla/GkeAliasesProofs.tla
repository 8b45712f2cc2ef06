-------------------------- MODULE GkeAliasesProofs --------------------------
(***************************************************************************)
(* Proofs about GkeAliases, for any nodes and CIDRs and any number of      *)
(* commands on each node.                                                  *)
(***************************************************************************)
EXTENDS GkeAliases, TLAPS

-----------------------------------------------------------------------------
(* Types, and what a step leaves alone.                                    *)

\* Nothing of this node changes, but perhaps the range it shares.
Untouched(k) ==
  /\ own'[k] = own[k] /\ other'[k] = other[k]
  /\ record'[k] = record[k] /\ cron'[k] = cron[k]
  /\ pc'[k] = pc[k] /\ want'[k] = want[k] /\ seen'[k] = seen[k]

\* A command works on its own node; the shared range is created once and kept
\* from then on.
LEMMA StepIsLocal ==
  ASSUME TypeOK, NEW n \in Nodes, NodeStep(n)
  PROVE  /\ env' = env
         /\ \A k \in Nodes \ {n} : Untouched(k)
         /\ range # None => range' = range
<1> USE DEF TypeOK, Untouched
<1>1. CASE InitStep(n)
  <2>1. ASSUME NEW c \in Cidrs, StartInit(n, c)
        PROVE  env' = env /\ range' = range /\ \A k \in Nodes \ {n} : Untouched(k)
    BY <2>1 DEF StartInit, nics
  <2>2. CASE DescribeRange(n) \/ ReadAliases(n) \/ BindRefused(n)
    BY <2>2 DEF DescribeRange, ReadAliases, BindRefused, Goto, End, nics
  <2>3. CASE CreateRange(n)
    BY <2>3 DEF CreateRange, Goto, End, nics
  <2>4. CASE BindAlias(n)
    BY <2>4 DEF BindAlias, ReplaceAliases, Goto, End
  <2>5. CASE FixRoute(n) \/ SaveRecord(n)
    BY <2>5 DEF FixRoute, FixGuestAgentRoute, SaveRecord, Goto, End, nics
  <2> QED
    BY <1>1, <2>1, <2>2, <2>3, <2>4, <2>5 DEF InitStep
<1>2. CASE TeardownStep(n)
  <2>1. CASE StartTeardown(n)
    BY <2>1 DEF StartTeardown, nics
  <2>2. CASE UnbindAlias(n)
    BY <2>2 DEF UnbindAlias, ReplaceAliases, Goto, End
  <2>3. CASE RemoveCron(n) \/ DeleteRecord(n)
    BY <2>3 DEF RemoveCron, DeleteRecord, Goto, End, nics
  <2> QED
    BY <1>2, <2>1, <2>2, <2>3 DEF TeardownStep
<1>3. CASE CallFails(n) \/ Kill(n) \/ DaemonStart(n)
  BY <1>3 DEF CallFails, Kill, DaemonStart, FixGuestAgentRoute, End, nics, cmds
<1>4. ASSUME NEW c \in Cidrs, Adopt(n, c)
      PROVE  env' = env /\ range' = range /\ \A k \in Nodes \ {n} : Untouched(k)
  BY <1>4 DEF Adopt, FixGuestAgentRoute, nics, cmds
<1>5. ASSUME NEW f \in SUBSET Foreign, OperatorEdits(n, f)
      PROVE  env' = env /\ range' = range /\ \A k \in Nodes \ {n} : Untouched(k)
  BY <1>5 DEF OperatorEdits, cmds
<1> QED
  BY <1>1, <1>2, <1>3, <1>4, <1>5 DEF NodeStep

\* What init and adopt write is a state of pool.json, told from its absence.
LEMMA Written ==
  ASSUME NEW c \in Cidrs
  PROVE  /\ {Seed(c), Provisioned(c), Adopted(c)} \subseteq Record
         /\ Seed(c) # None /\ Provisioned(c) # None /\ Adopted(c) # None
         /\ Seed(c).subnet = c /\ Provisioned(c).subnet = c /\ Adopted(c).subnet = c
         /\ Seed(c).by = "seed" /\ Provisioned(c).by = "init" /\ Adopted(c).by = "adopt"
<1>1. {Seed(c), Provisioned(c), Adopted(c)} \subseteq Record
  <2>1. \A b \in {"seed", "init", "adopt"} : [subnet |-> c, by |-> b] \in Record
    BY DEF Record
  <2> QED
    BY <2>1, Zenon DEF Seed, Provisioned, Adopted
<1>2. Seed(c) # None /\ Provisioned(c) # None /\ Adopted(c) # None
  BY <1>1, GkeAssumption
<1>3. /\ Seed(c).subnet = c /\ Provisioned(c).subnet = c /\ Adopted(c).subnet = c
      /\ Seed(c).by = "seed" /\ Provisioned(c).by = "init" /\ Adopted(c).by = "adopt"
  BY DEF Seed, Provisioned, Adopted
<1> QED
  BY <1>1, <1>2, <1>3

\* Before the first command everything has its type.
LEMMA TypeInit == Init => TypeInv
<1> SUFFICES ASSUME Init PROVE TypeInv
  OBVIOUS
<1>1. own \in [Nodes -> SUBSET Cidrs]
  BY DEF Init
<1>2. cron \in [Nodes -> BOOLEAN]
  BY DEF Init
<1>3. TypeOK
  BY <1>1, <1>2 DEF Init, TypeOK
<1>4. \A n \in Nodes : ShapeAt(n)
  BY DEF Init, ShapeAt, At
<1> QED
  BY <1>3, <1>4 DEF TypeInv

\* The types of the next state, of whichever command.
LEMMA TypeStep == TypeInv /\ [Next]_vars => TypeInv'
<1> SUFFICES ASSUME TypeInv, [Next]_vars
             PROVE  TypeInv'
  OBVIOUS
<1> USE DEF TypeInv
<1>1. CASE UNCHANGED vars
  BY <1>1 DEF vars, nics, cmds, TypeOK, ShapeAt, At
<1>2. CASE Next
  <2>1. PICK n \in Nodes : NodeStep(n)
    BY <1>2 DEF Next
  <2>2. /\ Listed(n) \in Aliases
        /\ seen[n] # None => seen[n].own \subseteq Cidrs /\ seen[n].other \subseteq Foreign
        /\ record[n] # None => record[n].subnet \in Cidrs
        /\ want[n] # None => want[n] \in Cidrs
        /\ None \notin Record /\ None \notin Aliases /\ None \notin Cidrs
    BY GkeAssumption DEF TypeOK, Listed, Aliases, Record
  <2>a. \A c \in Cidrs : {Seed(c), Provisioned(c), Adopted(c)} \subseteq Record
    BY Written
  <2>3. /\ ~At(n, "idle") => want[n] \in Cidrs /\ record[n] # None
        /\ pc[n] \in {"bind", "unbind"} =>
             seen[n] # None /\ seen[n].own \subseteq Cidrs /\ seen[n].other \subseteq Foreign
    BY <2>2 DEF ShapeAt
  <2>4. \A k \in Nodes \ {n} : ShapeAt(k)'
    BY <2>1, StepIsLocal DEF Untouched, ShapeAt, At
  <2>5. \A b \in BOOLEAN : [cron EXCEPT ![n] = b] \in [Nodes -> BOOLEAN]
    BY DEF TypeOK
  <2>6. TypeOK' /\ ShapeAt(n)'
    <3>1. CASE InitStep(n)
      <4>1. ASSUME NEW c \in Cidrs, StartInit(n, c)
            PROVE  TypeOK' /\ ShapeAt(n)'
        <5>1. TypeOK'
          BY <2>2, <2>a, <4>1 DEF StartInit, nics, TypeOK
        <5>2. ShapeAt(n)'
          BY <2>2, <2>a, <4>1 DEF StartInit, TypeOK, ShapeAt, At
        <5> QED
          BY <5>1, <5>2
      <4>2. CASE DescribeRange(n) \/ BindRefused(n)
        BY <2>2, <2>3, <4>2 DEF DescribeRange, BindRefused, Goto, End, nics, TypeOK, ShapeAt, At
      <4>3. CASE CreateRange(n)
        BY <2>2, <2>3, <4>3 DEF CreateRange, Goto, End, nics, TypeOK, ShapeAt, At
      <4>4. CASE ReadAliases(n)
        BY <2>2, <2>3, <4>4 DEF ReadAliases, Goto, nics, TypeOK, ShapeAt, At
      <4>5. CASE BindAlias(n)
        BY <2>2, <2>3, <4>5 DEF BindAlias, ReplaceAliases, Goto, End, TypeOK, ShapeAt, At
      <4>6. CASE FixRoute(n)
        <5>1. cron' \in [Nodes -> BOOLEAN]
          BY <2>5, <4>6 DEF FixRoute, FixGuestAgentRoute, TypeOK
        <5> QED
          BY <2>2, <2>3, <4>6, <5>1 DEF FixRoute, Goto, End, nics, TypeOK, ShapeAt, At
      <4>7. CASE SaveRecord(n)
        BY <2>2, <2>a, <2>3, <4>7 DEF SaveRecord, End, nics, TypeOK, ShapeAt, At
      <4> QED
        BY <3>1, <4>1, <4>2, <4>3, <4>4, <4>5, <4>6, <4>7 DEF InitStep
    <3>2. CASE TeardownStep(n)
      <4>1. CASE StartTeardown(n)
        BY <2>2, <2>3, <4>1 DEF StartTeardown, nics, TypeOK, ShapeAt, At
      <4>2. CASE UnbindAlias(n)
        BY <2>2, <2>3, <4>2 DEF UnbindAlias, ReplaceAliases, Goto, End, TypeOK, ShapeAt, At
      <4>3. CASE RemoveCron(n)
        <5>1. cron' \in [Nodes -> BOOLEAN]
          BY <2>5, <4>3 DEF RemoveCron, TypeOK
        <5> QED
          BY <2>2, <2>3, <4>3, <5>1 DEF RemoveCron, Goto, nics, TypeOK, ShapeAt, At
      <4>4. CASE DeleteRecord(n)
        BY <2>2, <2>3, <4>4 DEF DeleteRecord, End, nics, TypeOK, ShapeAt, At
      <4> QED
        BY <3>2, <4>1, <4>2, <4>3, <4>4 DEF TeardownStep
    <3>3. CASE CallFails(n) \/ Kill(n)
      BY <2>2, <2>3, <3>3 DEF CallFails, Kill, End, nics, TypeOK, ShapeAt, At
    <3>4. CASE DaemonStart(n)
      <4>1. cron' \in [Nodes -> BOOLEAN]
        BY <2>5, <3>4 DEF DaemonStart, FixGuestAgentRoute
      <4> QED
        BY <2>3, <3>4, <4>1 DEF DaemonStart, nics, cmds, TypeOK, ShapeAt, At
    <3>5. ASSUME NEW c \in Cidrs, Adopt(n, c)
          PROVE  TypeOK' /\ ShapeAt(n)'
      <4>1. cron' \in [Nodes -> BOOLEAN]
        BY <2>5, <3>5 DEF Adopt, FixGuestAgentRoute
      <4> QED
        BY <2>2, <2>a, <2>3, <3>5, <4>1 DEF Adopt, nics, cmds, TypeOK, ShapeAt, At
    <3>6. ASSUME NEW f \in SUBSET Foreign, OperatorEdits(n, f)
          PROVE  TypeOK' /\ ShapeAt(n)'
      BY <2>3, <3>6 DEF OperatorEdits, cmds, TypeOK, ShapeAt, At
    <3> QED
      BY <2>1, <3>1, <3>2, <3>3, <3>4, <3>5, <3>6 DEF NodeStep
  <2> QED
    BY <2>4, <2>6
<1> QED
  BY <1>1, <1>2

\* Type correctness, of pool.json, nic0 and every running command.
THEOREM TypeCorrect == Spec => []TypeOK
<1>1. TypeInv => TypeOK
  BY DEF TypeInv
<1> QED
  BY <1>1, TypeInit, TypeStep, PTL DEF Spec

-----------------------------------------------------------------------------
(* The range, and the aliases of other ranges.                             *)

\* The alias list a command has read stays nic0's list until it is written
\* back, and no alias is bound before the range is known to cover it.
LEMMA RangeStep == TypeInv /\ RangeInv /\ [Next]_vars => RangeInv'
<1> SUFFICES ASSUME TypeInv, RangeInv, [Next]_vars
             PROVE  RangeInv'
  OBVIOUS
<1>1. CASE UNCHANGED vars
  BY <1>1 DEF vars, nics, cmds, RangeInv, RangeAt, May
<1>2. CASE Next
  <2>1. PICK n \in Nodes : NodeStep(n)
    BY <1>2 DEF Next
  <2>2. /\ env' = env /\ (range # None => range' = range)
        /\ \A k \in Nodes \ {n} : Untouched(k)
    BY <2>1, StepIsLocal DEF TypeInv
  <2>3. \A k \in Nodes \ {n} : RangeAt(k)'
    BY <2>2 DEF RangeInv, RangeAt, Untouched, May
  <2>4. RangeAt(n) /\ TypeOK
    BY DEF RangeInv, TypeInv
  <2>5. /\ ~At(n, "idle") => want[n] \in Cidrs
        /\ pc[n] \in {"bind", "unbind"} => seen[n] \in Aliases
    BY DEF TypeInv, TypeOK, ShapeAt
  <2>6. \A c \in Cidrs : {c} # None
    BY GkeAssumption
  <2>7. ASSUME \/ DescribeRange(n) \/ BindRefused(n) \/ FixRoute(n)
               \/ SaveRecord(n) \/ RemoveCron(n) \/ DeleteRecord(n) \/ CallFails(n) \/ Kill(n)
        PROVE  RangeAt(n)'
    <3>1. /\ UNCHANGED <<range, nics>>
          /\ pc'[n] \in {"idle", "create", "alias", "save", "delete"}
          /\ pc'[n] = "alias" => range # None /\ want[n] \in range /\ want' = want
      BY <2>4, <2>7 DEF DescribeRange, BindRefused, FixRoute, SaveRecord,
                        RemoveCron, DeleteRecord, CallFails, Kill, Goto, End, TypeOK
    <3> QED
      BY <2>4, <3>1 DEF RangeAt, nics
  <2>8. ASSUME CreateRange(n)
        PROVE  RangeAt(n)'
    <3>1. /\ UNCHANGED nics /\ pc'[n] \in {"idle", "alias"}
          /\ pc'[n] = "alias" => range' = {want[n]} /\ want' = want
      BY <2>4, <2>8 DEF CreateRange, Goto, End, TypeOK
    <3>2. want[n] \in Cidrs /\ (range' # None \/ UNCHANGED range)
      BY <2>5, <2>6, <2>8 DEF CreateRange, At
    <3> QED
      BY <2>2, <2>4, <2>5, <2>6, <2>8, <3>1, <3>2 DEF RangeAt, nics, CreateRange, At
  <2>9. ASSUME ReadAliases(n)
        PROVE  RangeAt(n)'
    <3>1. /\ At(n, "alias") /\ UNCHANGED <<range, nics>> /\ want' = want
          /\ \/ pc'[n] = "fix"
             \/ pc'[n] = "bind" /\ seen'[n] = Listed(n)
      BY <2>4, <2>9 DEF ReadAliases, Goto, TypeOK
    <3> QED
      BY <2>4, <3>1 DEF RangeAt, nics, Listed, At
  <2>10. ASSUME BindAlias(n)
         PROVE  RangeAt(n)'
    <3>1. /\ At(n, "bind") /\ UNCHANGED range /\ own'[n] = {want[n]}
          /\ pc'[n] \in {"fix", "idle"}
      BY <2>4, <2>10 DEF BindAlias, ReplaceAliases, Goto, End, TypeOK
    <3> QED
      BY <2>4, <3>1 DEF RangeAt, At
  <2>11. ASSUME UnbindAlias(n)
         PROVE  RangeAt(n)'
    <3>1. /\ At(n, "unbind") /\ UNCHANGED range /\ own'[n] = seen[n].own \ {want[n]}
          /\ pc'[n] \in {"uncron", "idle"}
      BY <2>4, <2>11 DEF UnbindAlias, ReplaceAliases, Goto, End, TypeOK
    <3> QED
      BY <2>4, <3>1 DEF RangeAt, At
  <2>12. ASSUME StartTeardown(n)
         PROVE  RangeAt(n)'
    <3>1. /\ UNCHANGED <<range, nics>>
          /\ pc'[n] \in {"unbind", "uncron"} /\ seen'[n] = Listed(n)
      BY <2>4, <2>12 DEF StartTeardown, TypeOK
    <3> QED
      BY <2>4, <3>1 DEF RangeAt, nics, Listed
  <2>13. ASSUME NEW c \in Cidrs, StartInit(n, c)
         PROVE  RangeAt(n)'
    <3>1. UNCHANGED <<range, nics>> /\ pc'[n] = "range"
      BY <2>4, <2>13 DEF StartInit, TypeOK
    <3> QED
      BY <2>4, <3>1 DEF RangeAt, nics
  <2>14. ASSUME DaemonStart(n) \/ \E c \in Cidrs : Adopt(n, c)
         PROVE  RangeAt(n)'
    <3>1. UNCHANGED <<range, nics, cmds>>
      BY <2>14 DEF DaemonStart, Adopt
    <3> QED
      BY <2>2, <2>4, <3>1 DEF RangeAt, nics, cmds, May
  <2>15. ASSUME NEW f \in SUBSET Foreign, OperatorEdits(n, f)
         PROVE  RangeAt(n)'
    <3>1. /\ UNCHANGED <<range, own, cmds>> /\ (At(n, "idle") \/ May("operator"))
      BY <2>15 DEF OperatorEdits
    <3> QED
      BY <2>2, <2>4, <3>1 DEF RangeAt, cmds, May, At
  <2>16. RangeAt(n)'
    BY <2>1, <2>7, <2>8, <2>9, <2>10, <2>11, <2>12, <2>13, <2>14, <2>15
       DEF NodeStep, InitStep, TeardownStep
  <2> QED
    BY <2>3, <2>16 DEF RangeInv
<1> QED
  BY <1>1, <1>2

\* At first no command has read anything, and what was bound by hand was bound
\* from the range.
LEMMA RangeInit == Init => RangeInv
<1> SUFFICES ASSUME Init, NEW n \in Nodes PROVE RangeAt(n)
  BY DEF RangeInv
<1>1. pc[n] = "idle"
  BY DEF Init
<1>2. own[n] \subseteq Cidrs /\ (own[n] # {} => range # None) /\ range \in {None, Cidrs}
  BY DEF Init
<1> QED
  BY <1>1, <1>2 DEF RangeAt

\* Every alias bound from cocoon-pods lies in the shared range.
THEOREM AliasesInRange == Spec => []AliasInRange
<1>1. RangeInv => AliasInRange
  BY DEF RangeInv, RangeAt, AliasInRange
<1> QED
  BY <1>1, TypeInit, TypeStep, RangeInit, RangeStep, PTL DEF Spec

\* No command drops an alias of another range or brings one back.
THEOREM ForeignAliasesKept == Spec => ForeignKept
<1> DEFINE Kept == \A n \in Nodes :
             ~May("operator") /\ pc'[n] # pc[n] => other'[n] = other[n]
<1>1. TypeInv /\ RangeInv /\ [Next]_vars => [Kept]_vars
  <2> SUFFICES ASSUME TypeInv, RangeInv, Next, NEW k \in Nodes,
                      ~May("operator"), pc'[k] # pc[k]
               PROVE  other'[k] = other[k]
    OBVIOUS
  <2>1. PICK n \in Nodes : NodeStep(n)
    BY DEF Next
  <2>2. TypeOK /\ k = n
    BY <2>1, StepIsLocal DEF TypeInv, Untouched
  <2>3. CASE UnbindAlias(n) \/ BindAlias(n)
    <3>1. pc[n] \in {"bind", "unbind"} /\ other'[n] = seen[n].other
      BY <2>2, <2>3 DEF UnbindAlias, BindAlias, ReplaceAliases, TypeOK, At
    <3> QED
      BY <2>2, <3>1 DEF RangeInv, RangeAt
  <2>4. ASSUME NEW f, OperatorEdits(n, f)
        PROVE  FALSE
    BY <2>2, <2>4 DEF OperatorEdits, cmds
  <2>5. CASE UNCHANGED other
    BY <2>5
  <2>6. \/ UnbindAlias(n) \/ BindAlias(n) \/ UNCHANGED other
        \/ \E f \in SUBSET Foreign : OperatorEdits(n, f)
    BY <2>1 DEF NodeStep, InitStep, TeardownStep, StartInit, DescribeRange, CreateRange,
                ReadAliases, BindRefused, FixRoute, SaveRecord, StartTeardown, RemoveCron,
                DeleteRecord, CallFails, Kill, Adopt, DaemonStart, nics
  <2> QED
    BY <2>3, <2>4, <2>5, <2>6
<1> QED
  BY <1>1, TypeInit, TypeStep, RangeInit, RangeStep, PTL DEF Spec, ForeignKept

-----------------------------------------------------------------------------
(* pool.json and the alias it names.                                       *)

\* Before the first command there is no pool.json, and an alias only where one
\* was bound by hand.
LEMMA AliasInit == Init => BoundInv /\ ServedInv
<1> SUFFICES ASSUME Init, NEW n \in Nodes
             PROVE  GivenUpAt(n) /\ (Recorded => BoundAt(n)) /\ (Answered => ServedAt(n))
  BY DEF BoundInv, ServedInv
<1>1. pc[n] = "idle" /\ record[n] = None
  BY DEF Init
<1>2. \A x, y \in own[n] : x = y
  BY DEF Init
<1>3. Recorded /\ May("move") => own[n] = {}
  BY DEF Init, Recorded, May
<1> QED
  BY <1>1, <1>2, <1>3 DEF GivenUpAt, BoundAt, ServedAt

\* A step of a command keeps what is bound and what is recorded in agreement,
\* but for the two steps a move needs.
LEMMA AliasStep ==
  TypeInv /\ RangeInv /\ BoundInv /\ ServedInv /\ [Next]_vars => BoundInv' /\ ServedInv'
<1> SUFFICES ASSUME TypeInv, RangeInv, BoundInv, ServedInv, [Next]_vars
             PROVE  BoundInv' /\ ServedInv'
  OBVIOUS
<1>1. CASE UNCHANGED vars
  <2>1. BoundInv'
    BY <1>1 DEF vars, nics, cmds, BoundInv, GivenUpAt, BoundAt, Strayed, Recorded, May
  <2>2. ServedInv'
    BY <1>1 DEF vars, nics, cmds, ServedInv, ServedAt, Answered, Strayed, May
  <2> QED
    BY <2>1, <2>2
<1>2. CASE Next
  <2>1. PICK n \in Nodes : NodeStep(n)
    BY <1>2 DEF Next
  <2>2. env' = env /\ \A k \in Nodes \ {n} : Untouched(k)
    BY <2>1, StepIsLocal DEF TypeInv
  <2>3. \A k \in Nodes \ {n} :
          GivenUpAt(k)' /\ (Recorded => BoundAt(k)') /\ (Answered => ServedAt(k)')
    BY <2>2 DEF BoundInv, ServedInv, GivenUpAt, BoundAt, ServedAt, Untouched, May, Strayed
  <2>4. /\ GivenUpAt(n)
        /\ Recorded => BoundAt(n)
        /\ Answered => ServedAt(n)
        /\ Recorded /\ May("move") => ~May("read") /\ ~May("late") /\ ~May("kill")
                                      /\ ~May("config") /\ ~May("disk") /\ ~May("stray")
        /\ Answered => ~May("read") /\ ~May("late") /\ ~May("kill")
                       /\ ~May("config") /\ ~May("disk")
    BY DEF BoundInv, ServedInv, Answered, Recorded, May
  <2>5. /\ TypeOK /\ May("move")' = May("move") /\ May("disk")' = May("disk")
        /\ May("stray")' = May("stray")
        /\ ~At(n, "idle") => record[n] # None /\ want[n] \in Cidrs
    BY <2>2 DEF TypeInv, TypeOK, ShapeAt, May
  <2> DEFINE Agreed ==
               GivenUpAt(n)' /\ (Recorded => BoundAt(n)') /\ (Answered => ServedAt(n)')
  <2>6. ASSUME NEW c \in Cidrs, StartInit(n, c)
        PROVE  Agreed
    <3>1. /\ pc[n] = "idle" /\ pc'[n] = "range" /\ want'[n] = c /\ own' = own
          /\ May("move") \/ (own[n] \subseteq {c} /\ (record[n] # None => record[n].subnet = c))
          /\ \/ (record[n] = None \/ May("read")) /\ record'[n] = Seed(c)
             \/ record[n] # None /\ record'[n] = record[n]
      BY <2>5, <2>6 DEF StartInit, Consistent, At, TypeOK, nics
    <3>2. Recorded => BoundAt(n)'
      BY <2>4, <2>5, <3>1, Written DEF BoundAt, Strayed
    <3>3. Answered => ServedAt(n)'
      BY <2>4, <2>5, <3>1, Written DEF ServedAt, Strayed
    <3>4. GivenUpAt(n)'
      BY <2>4, <2>5, <3>1, Written DEF GivenUpAt
    <3> QED
      BY <3>2, <3>3, <3>4
  <2>7. ASSUME \/ DescribeRange(n) \/ CreateRange(n) \/ BindRefused(n)
               \/ CallFails(n) \/ Kill(n)
        PROVE  Agreed
    <3>1. /\ UNCHANGED <<own, record, cron>>
          /\ May("kill") \/ pc[n] \in {"range", "create", "alias", "bind", "unbind"}
          /\ \/ pc'[n] = "idle"
             \/ /\ pc[n] \in {"range", "create"} /\ pc'[n] \in {"create", "alias"}
                /\ want' = want
      BY <2>5, <2>7 DEF DescribeRange, CreateRange, BindRefused, CallFails, Kill, Goto, End,
                        At, TypeOK, nics
    <3>2. Recorded => BoundAt(n)'
      BY <2>4, <2>5, <3>1 DEF BoundAt, Strayed
    <3>3. Answered => ServedAt(n)'
      BY <2>4, <2>5, <3>1 DEF ServedAt, Strayed
    <3>4. GivenUpAt(n)'
      BY <2>4, <2>5, <3>1 DEF GivenUpAt
    <3> QED
      BY <3>2, <3>3, <3>4
  <2>8. ASSUME ReadAliases(n)
        PROVE  Agreed
    <3>1. /\ UNCHANGED <<own, record, cron, want>> /\ pc[n] = "alias"
          /\ \/ pc'[n] = "fix" /\ want[n] \in own[n]
             \/ pc'[n] = "bind"
      BY <2>5, <2>8 DEF ReadAliases, Goto, At, TypeOK, nics
    <3>2. Recorded => BoundAt(n)'
      BY <2>4, <2>5, <3>1 DEF BoundAt, Strayed
    <3>3. Answered => ServedAt(n)'
      BY <2>4, <2>5, <3>1 DEF ServedAt, Strayed
    <3>4. GivenUpAt(n)'
      BY <2>4, <2>5, <3>1 DEF GivenUpAt
    <3> QED
      BY <3>2, <3>3, <3>4
  <2>9. ASSUME BindAlias(n)
        PROVE  Agreed
    <3>1. /\ pc[n] = "bind" /\ own'[n] = {want[n]} /\ UNCHANGED <<record, cron>>
          /\ \/ pc'[n] = "fix" /\ want' = want
             \/ pc'[n] = "idle" /\ May("late")
      BY <2>5, <2>9 DEF BindAlias, ReplaceAliases, Goto, End, At, TypeOK
    <3>2. Recorded => BoundAt(n)'
      BY <2>4, <2>5, <3>1 DEF BoundAt, Strayed, At
    <3>3. Answered => ServedAt(n)'
      BY <2>4, <2>5, <3>1 DEF ServedAt, Strayed
    <3>4. GivenUpAt(n)'
      BY <2>4, <2>5, <3>1 DEF GivenUpAt
    <3> QED
      BY <3>2, <3>3, <3>4
  <2>10. ASSUME FixRoute(n)
         PROVE  Agreed
    <3>1. /\ pc[n] = "fix" /\ UNCHANGED <<own, record>>
          /\ \/ pc'[n] = "save" /\ want' = want
             \/ pc'[n] = "idle" /\ May("config")
      BY <2>5, <2>10 DEF FixRoute, Goto, End, At, TypeOK, nics
    <3>2. Recorded => BoundAt(n)'
      BY <2>4, <2>5, <3>1 DEF BoundAt, Strayed
    <3>3. Answered => ServedAt(n)'
      BY <2>4, <2>5, <3>1 DEF ServedAt, Strayed
    <3>4. GivenUpAt(n)'
      BY <2>4, <2>5, <3>1 DEF GivenUpAt
    <3> QED
      BY <3>2, <3>3, <3>4
  <2>11. ASSUME SaveRecord(n)
         PROVE  Agreed
    <3>1. /\ pc[n] = "save" /\ UNCHANGED own /\ pc'[n] = "idle"
          /\ \/ record'[n] = Provisioned(want[n])
             \/ record' = record /\ May("disk")
      BY <2>5, <2>11 DEF SaveRecord, End, At, TypeOK, nics
    <3>2. want[n] \in Cidrs /\ record[n] # None
      BY <2>5, <3>1 DEF At
    <3>3. Recorded => BoundAt(n)'
      BY <2>4, <2>5, <3>1, <3>2, Written DEF BoundAt, Strayed
    <3>4. Answered => ServedAt(n)'
      BY <2>4, <2>5, <3>1, <3>2, Written DEF ServedAt, Strayed
    <3>5. GivenUpAt(n)'
      BY <2>4, <2>5, <3>1, Written DEF GivenUpAt
    <3> QED
      BY <3>3, <3>4, <3>5
  <2>12. ASSUME StartTeardown(n)
         PROVE  Agreed
    <3>1. /\ pc[n] = "idle" /\ record[n] # None /\ UNCHANGED <<own, record, cron>>
          /\ pc'[n] = IF record[n].subnet \in own[n] THEN "unbind" ELSE "uncron"
          /\ want'[n] = record[n].subnet
      BY <2>5, <2>12 DEF StartTeardown, At, TypeOK, nics
    <3>2. Recorded => BoundAt(n)'
      BY <2>4, <2>5, <3>1 DEF BoundAt, Strayed
    <3>3. Answered => ServedAt(n)'
      BY <2>4, <2>5, <3>1 DEF ServedAt, Strayed
    <3>4. GivenUpAt(n)'
      BY <2>4, <2>5, <3>1 DEF GivenUpAt
    <3> QED
      BY <3>2, <3>3, <3>4
  <2>13. ASSUME UnbindAlias(n)
         PROVE  Agreed
    <3>1. /\ pc[n] = "unbind" /\ own'[n] = seen[n].own \ {want[n]} /\ UNCHANGED <<record, cron>>
          /\ \/ pc'[n] = "uncron"
             \/ pc'[n] = "idle" /\ May("late")
      BY <2>5, <2>13 DEF UnbindAlias, ReplaceAliases, Goto, End, At, TypeOK
    <3>2. seen[n].own = own[n] /\ record[n] # None
      BY <2>5, <3>1 DEF RangeInv, RangeAt, At
    <3>3. Recorded => BoundAt(n)'
      <4>1. Recorded => own'[n] = {}
        BY <2>4, <3>1, <3>2 DEF BoundAt, Strayed
      <4> QED
        BY <2>5, <3>1, <4>1 DEF BoundAt, Strayed
    <3>4. Answered => ServedAt(n)'
      BY <2>4, <2>5, <3>1 DEF ServedAt, Strayed
    <3>5. GivenUpAt(n)'
      BY <2>4, <2>5, <3>1 DEF GivenUpAt
    <3> QED
      BY <3>3, <3>4, <3>5
  <2>14. ASSUME RemoveCron(n)
         PROVE  Agreed
    <3>1. /\ pc[n] = "uncron" /\ UNCHANGED <<own, record>> /\ pc'[n] = "delete"
          /\ ~cron'[n] \/ May("disk")
      BY <2>5, <2>14 DEF RemoveCron, Goto, At, TypeOK, nics
    <3>2. Recorded => BoundAt(n)'
      BY <2>4, <2>5, <3>1 DEF BoundAt, Strayed
    <3>3. Answered => ServedAt(n)'
      BY <2>4, <2>5, <3>1 DEF ServedAt, Strayed
    <3>4. GivenUpAt(n)'
      BY <2>4, <2>5, <3>1 DEF GivenUpAt
    <3> QED
      BY <3>2, <3>3, <3>4
  <2>15. ASSUME DeleteRecord(n)
         PROVE  Agreed
    <3>1. /\ pc[n] = "delete" /\ UNCHANGED own /\ pc'[n] = "idle"
          /\ \/ record'[n] = None
             \/ record' = record /\ May("disk")
      BY <2>5, <2>15 DEF DeleteRecord, End, At, TypeOK, nics
    <3>2. Recorded => BoundAt(n)'
      BY <2>4, <2>5, <3>1 DEF BoundAt, Strayed
    <3>3. Answered => ServedAt(n)'
      BY <2>4, <2>5, <3>1 DEF ServedAt, Strayed
    <3>4. GivenUpAt(n)'
      BY <2>4, <2>5, <3>1 DEF GivenUpAt
    <3> QED
      BY <3>2, <3>3, <3>4
  <2>16. ASSUME NEW c \in Cidrs, Adopt(n, c)
         PROVE  Agreed
    <3>1. /\ pc[n] = "idle" /\ (c \in own[n] \/ May("stray")) /\ UNCHANGED <<own, pc, want>>
          /\ record'[n] = Adopted(c) \/ record' = record
      BY <2>5, <2>16 DEF Adopt, At, TypeOK, nics, cmds
    <3>2. Recorded => BoundAt(n)'
      BY <2>4, <2>5, <3>1, Written DEF BoundAt, Strayed
    <3>3. Answered => ServedAt(n)'
      BY <2>4, <2>5, <3>1, Written DEF ServedAt, Strayed
    <3>4. GivenUpAt(n)'
      BY <2>4, <2>5, <3>1, Written DEF GivenUpAt
    <3> QED
      BY <3>2, <3>3, <3>4
  <2>17. ASSUME DaemonStart(n) \/ \E f \in SUBSET Foreign : OperatorEdits(n, f)
         PROVE  Agreed
    <3>1. /\ UNCHANGED <<own, record, pc, want>> /\ (pc[n] = "idle" \/ UNCHANGED cron)
      BY <2>17 DEF DaemonStart, OperatorEdits, At, nics, cmds
    <3>2. Recorded => BoundAt(n)'
      BY <2>4, <2>5, <3>1 DEF BoundAt, Strayed
    <3>3. Answered => ServedAt(n)'
      BY <2>4, <2>5, <3>1 DEF ServedAt, Strayed
    <3>4. GivenUpAt(n)'
      BY <2>4, <2>5, <3>1 DEF GivenUpAt
    <3> QED
      BY <3>2, <3>3, <3>4
  <2>18. Agreed
    BY <2>1, <2>6, <2>7, <2>8, <2>9, <2>10, <2>11, <2>12, <2>13, <2>14, <2>15, <2>16, <2>17
       DEF NodeStep, InitStep, TeardownStep
  <2>19. Recorded' = Recorded /\ Answered' = Answered
    BY <2>2 DEF Recorded, Answered, May
  <2> QED
    BY <2>3, <2>18, <2>19 DEF BoundInv, ServedInv
<1> QED
  BY <1>1, <1>2

\* What every reachable state satisfies.
LEMMA AliasInvariants == Spec => [](TypeInv /\ RangeInv /\ BoundInv /\ ServedInv)
BY TypeInit, TypeStep, RangeInit, RangeStep, AliasInit, AliasStep, PTL DEF Spec

\* Between commands the subnet of a complete pool.json is bound to its node,
\* after any failing API calls and moves, but where adopt was given a subnet
\* that was not.
THEOREM ServedIsBound == Spec => []ServedBound
<1>1. ServedInv => ServedBound
  BY DEF ServedInv, ServedAt, ServedBound, Answered, At
<1> QED
  BY <1>1, AliasInvariants, PTL

\* The teardown that removes pool.json leaves the subnet in it unbound in every
\* environment, and no alias of cocoon-pods at all unless the pool.json is a
\* stray adopt's or moves met other failures than failing calls.
THEOREM TeardownLeavesNothing == Spec => TeardownUnbinds
<1> DEFINE Unbound == \A n \in Nodes : record[n] # None /\ record'[n] = None =>
                        /\ record[n].subnet \notin own'[n]
                        /\ Recorded /\ ~Strayed(n) => own'[n] = {}
                        /\ cron'[n] => May("disk")
<1>1. TypeInv /\ BoundInv /\ [Next]_vars => [Unbound]_vars
  <2> SUFFICES ASSUME TypeInv, BoundInv, Next, NEW k \in Nodes,
                      record[k] # None, record'[k] = None
               PROVE  /\ record[k].subnet \notin own'[k]
                      /\ Recorded /\ ~Strayed(k) => own'[k] = {}
                      /\ cron'[k] => May("disk")
    OBVIOUS
  <2>1. PICK n \in Nodes : NodeStep(n)
    BY DEF Next
  <2>2. TypeOK /\ k = n /\ (~At(n, "idle") => want[n] \in Cidrs)
    BY <2>1, StepIsLocal DEF TypeInv, Untouched, TypeOK, ShapeAt
  <2>3. ASSUME NEW c \in Cidrs, record'[n] \in {record[n], Seed(c), Provisioned(c), Adopted(c)}
        PROVE  FALSE
    BY <2>2, <2>3, Written
  <2>4. ASSUME NEW c \in Cidrs, StartInit(n, c) \/ Adopt(n, c)
        PROVE  FALSE
    BY <2>2, <2>3, <2>4 DEF StartInit, Adopt, TypeOK
  <2>5. ~SaveRecord(n)
    BY <2>2, <2>3 DEF SaveRecord, TypeOK, At
  <2>6. DeleteRecord(n) \/ UNCHANGED record
    BY <2>1, <2>4, <2>5
       DEF NodeStep, InitStep, TeardownStep, DescribeRange, CreateRange, ReadAliases,
           BindAlias, BindRefused, FixRoute, StartTeardown, UnbindAlias, RemoveCron,
           CallFails, Kill, DaemonStart, OperatorEdits
  <2>7. pc[n] = "delete" /\ own' = own /\ cron' = cron
    BY <2>2, <2>6 DEF DeleteRecord, nics, At
  <2> QED
    BY <2>2, <2>7 DEF BoundInv, GivenUpAt, BoundAt
<1> QED
  BY <1>1, AliasInvariants, PTL DEF Spec, TeardownUnbinds

=============================================================================
