--------------------------- MODULE VolcENIsProofs ---------------------------
(***************************************************************************)
(* Proofs about VolcENIs, for any ENIs, any number of them per node and    *)
(* any number of commands.                                                 *)
(***************************************************************************)
EXTENDS VolcENIs, FiniteSetTheorems, TLAPS

-----------------------------------------------------------------------------
(* Types, and what each step of a command may rely on.                     *)

\* The attached ENIs stay finite in number, and adding one adds one.
LEMMA AttachedFinite ==
  ASSUME IsFiniteSet(attached), NEW e
  PROVE  /\ Cardinality(attached) \in Nat
         /\ IsFiniteSet(attached \ {e}) /\ IsFiniteSet(attached \cup {e})
         /\ Cardinality(attached \ {e}) \in Nat
         /\ Cardinality(attached \ {e}) <= Cardinality(attached)
         /\ Cardinality(attached \cup {e}) \in Nat
         /\ Cardinality(attached \cup {e}) <= Cardinality(attached) + 1
<1>1. Cardinality(attached) \in Nat
  BY FS_CardinalityType
<1>2. IsFiniteSet(attached \ {e}) /\ IsFiniteSet(attached \cup {e})
  BY FS_RemoveElement, FS_AddElement
<1>3. /\ Cardinality(attached \ {e}) \in Nat
      /\ Cardinality(attached \cup {e}) \in Nat
  BY <1>2, FS_CardinalityType
<1>4. Cardinality(attached \ {e}) <= Cardinality(attached)
  BY FS_Subset
<1>5. Cardinality(attached \cup {e}) <= Cardinality(attached) + 1
  <2>1. Cardinality(attached \cup {e}) =
          IF e \in attached THEN Cardinality(attached) ELSE Cardinality(attached) + 1
    BY FS_AddElement
  <2> QED
    BY <1>1, <2>1
<1> QED
  BY <1>1, <1>2, <1>3, <1>4, <1>5

\* selectReusableENIs never picks more than enisPerNode, and all the attached
\* ones when they are no more than that.
LEMMA ReusableBounded ==
  ASSUME IsFiniteSet(attached), NEW S \in Reusable
  PROVE  /\ S \subseteq attached
         /\ Cardinality(S) \in 0 .. Count
         /\ Cardinality(attached) <= Count => Cardinality(S) = Cardinality(attached)
<1>1. Cardinality(attached) \in Nat
  BY AttachedFinite
<1>2. /\ S \subseteq attached
      /\ Cardinality(S) = IF Cardinality(attached) < Count
                          THEN Cardinality(attached) ELSE Count
  BY DEF Reusable
<1> QED
  BY <1>1, <1>2, EniAssumption

\* A failed init leaves a record, and no command.
LEMMA FailLeaves ==
  ASSUME NEW ids \in SUBSET Enis, Fail(ids), record \in SUBSET Enis
  PROVE  /\ record' \in SUBSET Enis /\ record' # None /\ record \subseteq record'
         /\ ~May("save") => record' = record \cup ids
         /\ pc' = "idle" /\ result' = {} /\ turn' = 0 /\ cur' = None
         /\ targets' = {} /\ failed' = FALSE
BY EniAssumption DEF Fail, End, mergeENIIDs

\* Before the first command everything has its type.
LEMMA TypeInit == Init => TypeInv
<1> SUFFICES ASSUME Init PROVE TypeInv
  OBVIOUS
<1>1. TypeOK
  <2>1. cloud \subseteq Hand /\ 0 \in 0 .. Count + 1
    BY EniAssumption DEF Init
  <2>2. failed \in BOOLEAN
    BY DEF Init
  <2> QED
    BY <2>1, <2>2, EniAssumption DEF Init, TypeOK
<1>2. Shape
  BY DEF Init, Shape
<1>3. IsFiniteSet(attached)
  BY EniAssumption, FS_EmptySet DEF Init
<1> QED
  BY <1>1, <1>2, <1>3 DEF TypeInv

\* Every step of a command keeps the types, and keeps the ENI of a turn
\* unattached and known to the cloud until its attach.
LEMMA TypeStep == TypeInv /\ [Next]_vars => TypeInv'
<1> SUFFICES ASSUME TypeInv, [Next]_vars
             PROVE  TypeInv'
  OBVIOUS
<1> USE DEF TypeInv, TypeOK, world, initing, tearing
<1>0. /\ Count \in Nat \ {0} /\ record \in {None} \cup SUBSET Enis
      /\ record # None => record \in SUBSET Enis
      /\ {} # None /\ \A S \in SUBSET Enis : S # None
      /\ IsFiniteSet(attached) /\ 0 \in 0 .. Count + 1
  BY EniAssumption
<1>a. ASSUME End PROVE failed' \in BOOLEAN
  BY <1>a DEF End
<1>1. CASE UNCHANGED vars
  BY <1>1 DEF vars, Shape
<1>2. ASSUME UNCHANGED env, StartInit
      PROVE  TypeInv'
  <2>1. result' \subseteq attached /\ Cardinality(result') \in 0 .. Count
    BY <1>0, <1>2, ReusableBounded DEF StartInit
  <2>2. record' \in SUBSET Enis
    BY <1>0, <1>2 DEF StartInit, Seeded
  <2> QED
    BY <1>0, <1>2, <2>1, <2>2 DEF StartInit, Shape
<1>3. ASSUME UNCHANGED env, StartInitFails
      PROVE  TypeInv'
  <2>1. record' \in SUBSET Enis
    BY <1>0, <1>3 DEF StartInitFails, Seeded
  <2>2. failed' \in BOOLEAN /\ UNCHANGED world
    BY <1>3, <1>a DEF StartInitFails
  <2>3. pc' = "idle" /\ result' = {} /\ turn' = 0 /\ cur' = None /\ targets' = {}
    BY <1>3 DEF StartInitFails, End
  <2> QED
    BY <1>0, <1>3, <2>1, <2>2, <2>3 DEF Shape
\* A failed init, whatever it did to the cloud.
<1>4. ASSUME UNCHANGED env, NEW ids \in SUBSET Enis, Fail(ids), pc # "idle",
             attached' \subseteq cloud' /\ cloud' \subseteq made' /\ made' \subseteq Enis,
             carrying' = carrying, made \subseteq made', IsFiniteSet(attached')
      PROVE  TypeInv'
  <2>1. record \in SUBSET Enis
    BY <1>0, <1>4 DEF Shape
  <2>2. /\ record' \in SUBSET Enis /\ pc' = "idle" /\ result' = {} /\ turn' = 0
        /\ cur' = None /\ targets' = {}
    BY <1>4, <2>1, FailLeaves
  <2>3. failed' \in BOOLEAN
    BY <1>4, <1>a DEF Fail
  <2> QED
    BY <1>0, <1>4, <2>2, <2>3 DEF Shape
<1>5. ASSUME UNCHANGED env, Create
      PROVE  TypeInv'
  <2>1. PICK e \in Enis \ made :
          /\ made' = made \cup {e} /\ cloud' = cloud \cup {e}
          /\ \/ cur' = e /\ pc' = "created" /\ UNCHANGED <<record, result, turn, tearing>>
             \/ May("parse") /\ Fail(result)
    BY <1>5 DEF Create
  <2>2. pc = "loop" /\ turn <= Count /\ UNCHANGED <<attached, carrying>>
    BY <1>5 DEF Create
  <2>3. CASE Fail(result)
    BY <1>0, <1>4, <1>5, <2>1, <2>2, <2>3
  <2>4. CASE cur' = e /\ pc' = "created" /\ UNCHANGED <<record, result, turn, tearing>>
    BY <1>0, <1>5, <2>1, <2>2, <2>4 DEF Shape
  <2> QED
    BY <2>1, <2>3, <2>4
<1>6. ASSUME UNCHANGED env, CreateFails
      PROVE  TypeInv'
  BY <1>0, <1>4, <1>6 DEF CreateFails
<1>7. ASSUME UNCHANGED env, CancelCreated
      PROVE  TypeInv'
  <2>1. /\ pc = "created" /\ cur \in cloud \ attached /\ cur \in Enis
        /\ UNCHANGED <<attached, made, carrying>>
    BY <1>7 DEF CancelCreated, Shape
  <2>2. CASE cloud' = cloud \ {cur} /\ Fail(result)
    BY <1>0, <1>4, <1>7, <2>1, <2>2
  <2>3. CASE UNCHANGED cloud /\ Fail(result \cup {cur})
    BY <1>0, <1>4, <1>7, <2>1, <2>3
  <2> QED
    BY <1>7, <2>2, <2>3 DEF CancelCreated
<1>8. ASSUME UNCHANGED env, Attach
      PROVE  TypeInv'
  <2>1. /\ pc = "created" /\ cur \in cloud \ attached /\ cur \in Enis /\ turn <= Count
        /\ attached' = attached \cup {cur} /\ UNCHANGED <<cloud, made, carrying>>
        /\ record # None /\ turn >= 1
    BY <1>8 DEF Attach, Shape
  <2>2. IsFiniteSet(attached')
    BY <1>0, <2>1, AttachedFinite
  <2>3. CASE result' = result \cup {cur} /\ NextTurn
    BY <1>0, <1>8, <2>1, <2>2, <2>3 DEF NextTurn, Shape
  <2>4. CASE Fail(result \cup {cur})
    BY <1>4, <1>8, <2>1, <2>2, <2>4
  <2> QED
    BY <1>8, <2>3, <2>4 DEF Attach
<1>9. ASSUME UNCHANGED env, AttachFails
      PROVE  TypeInv'
  <2>1. /\ pc = "created" /\ cur \in cloud \ attached /\ cur \in Enis /\ turn <= Count
        /\ record # None /\ turn >= 1
    BY <1>9 DEF AttachFails, Shape
  <2>2. IsFiniteSet(attached \cup {cur})
    BY <1>0, AttachedFinite
  <2>3. CASE /\ cloud' = cloud \ {cur} /\ UNCHANGED <<attached, made, carrying>>
             /\ NextTurn /\ UNCHANGED result
    BY <1>0, <1>9, <2>1, <2>3 DEF NextTurn, Shape
  <2>4. CASE /\ cloud' = cloud \ {cur} /\ UNCHANGED <<attached, made, carrying>>
             /\ Fail(result)
    BY <1>0, <1>4, <1>9, <2>1, <2>4
  <2>5. CASE Fail(result \cup {cur}) /\ UNCHANGED world
    BY <1>0, <1>4, <1>9, <2>1, <2>5
  <2>6. CASE /\ attached' = attached \cup {cur} /\ UNCHANGED <<cloud, made, carrying>>
             /\ Fail(result \cup {cur})
    BY <1>4, <1>9, <2>1, <2>2, <2>6
  <2> QED
    BY <1>9, <2>3, <2>4, <2>5, <2>6 DEF AttachFails
<1>10. ASSUME UNCHANGED env, ToAssign
       PROVE  TypeInv'
  BY <1>0, <1>10 DEF ToAssign, Shape
<1>11. ASSUME UNCHANGED env, Finish \/ FinishFails
       PROVE  TypeInv'
  <2>1. pc = "assign" /\ UNCHANGED world /\ Fail(result)
    BY <1>11 DEF Finish, FinishFails, Fail
  <2> QED
    BY <1>0, <1>4, <1>11, <2>1
<1>12. ASSUME UNCHANGED env, Adopt
       PROVE  TypeInv'
  <2>1. PoolENIs \in SUBSET Enis
    BY DEF PoolENIs
  <2> QED
    BY <1>0, <1>12, <2>1 DEF Adopt, Shape
<1>13. ASSUME UNCHANGED env, StartTeardown
       PROVE  TypeInv'
  <2>1. (IF record # {} THEN record \cap cloud ELSE attached) \subseteq Enis
    OBVIOUS
  <2> QED
    BY <1>0, <1>13, <2>1 DEF StartTeardown, Shape
<1>14. ASSUME UNCHANGED env, EndTeardown \/ Kill
       PROVE  TypeInv'
  <2>1. failed' \in BOOLEAN /\ UNCHANGED world /\ (record' = None \/ record' = record)
    BY <1>14, <1>a DEF EndTeardown, Kill
  <2>2. pc' = "idle" /\ result' = {} /\ turn' = 0 /\ cur' = None /\ targets' = {}
    BY <1>14 DEF EndTeardown, Kill, End
  <2> QED
    BY <1>0, <1>14, <2>1, <2>2 DEF Shape
<1>15. ASSUME UNCHANGED env, NEW e \in Enis, AssignIPs(e)
       PROVE  TypeInv'
  <2>1. /\ targets' \subseteq targets /\ e \in made
        /\ carrying' \in {carrying \cup {e}, carrying}
    BY <1>15 DEF AssignIPs, Shape
  <2>2. UNCHANGED <<cloud, attached, made, record, pc, result, turn, cur, failed>>
    BY <1>15 DEF AssignIPs
  <2>3. TypeOK'
    BY <1>0, <1>15, <2>1, <2>2
  <2> QED
    BY <1>0, <2>1, <2>2, <2>3 DEF Shape
<1>16. ASSUME UNCHANGED env, NEW e \in Enis,
              RemoveENI(e) \/ RemoveENIFails(e) \/ CancelTeardown(e)
       PROVE  TypeInv'
  <2>1. IsFiniteSet(attached \ {e})
    BY <1>0, AttachedFinite
  <2>2. /\ pc = "teardown" /\ attached' \in {attached, attached \ {e}}
        /\ cloud' \in {cloud, cloud \ {e}} /\ attached' \subseteq cloud'
        /\ UNCHANGED <<made, carrying, record>>
        /\ targets' \subseteq targets /\ failed' \in BOOLEAN
        /\ pc' \in {"idle", "teardown"}
        /\ \/ UNCHANGED <<result, turn, cur>>
           \/ result' = {} /\ turn' = 0 /\ cur' = None
    BY <1>16 DEF RemoveENI, RemoveENIFails, CancelTeardown, End
  <2>3. TypeOK'
    BY <1>0, <1>16, <2>2
  <2>4. Shape'
    BY <1>16, <2>2 DEF Shape
  <2>5. IsFiniteSet(attached')
    BY <1>0, <2>1, <2>2
  <2> QED
    BY <2>3, <2>4, <2>5
<1> QED
  BY <1>1, <1>2, <1>3, <1>5, <1>6, <1>7, <1>8, <1>9, <1>10, <1>11, <1>12, <1>13, <1>14,
     <1>15, <1>16 DEF Next

\* Type correctness: what is attached exists, and what exists was handed out.
THEOREM TypeCorrect == Spec => []TypeOK
<1>1. TypeInv => TypeOK
  BY DEF TypeInv
<1> QED
  BY <1>1, TypeInit, TypeStep, PTL DEF Spec

-----------------------------------------------------------------------------
(* No more than enisPerNode ENIs are attached.                             *)

\* The number of attached ENIs grows by Attach and AttachFails alone, and by
\* one: what it was is still below the turn, which was at most enisPerNode.
LEMMA WithinStep == TypeInv /\ WithinInv /\ [Next]_vars => WithinInv'
<1> SUFFICES ASSUME TypeInv, WithinInv, [Next]_vars
             PROVE  WithinInv'
  OBVIOUS
<1>0. /\ Count \in Nat \ {0} /\ turn \in 0 .. Count + 1 /\ Cardinality(attached) \in Nat
      /\ IsFiniteSet(attached)
  BY EniAssumption, AttachedFinite DEF TypeInv, TypeOK
<1>1. ASSUME UNCHANGED <<attached, pc, turn>>
      PROVE  WithinInv'
  BY <1>1 DEF WithinInv, AttachedWithinCount
<1>2. ASSUME Cardinality(attached') <= Count, pc' \notin {"loop", "created"}
      PROVE  WithinInv'
  BY <1>2 DEF WithinInv, AttachedWithinCount
<1>3. CASE StartInit
  <2>1. Cardinality(result') = Cardinality(attached) /\ turn' = Cardinality(attached) + 1
    BY <1>0, <1>3, ReusableBounded DEF StartInit, WithinInv, AttachedWithinCount
  <2> QED
    BY <1>0, <1>3, <2>1 DEF StartInit, WithinInv, AttachedWithinCount, world
<1>4. ASSUME pc = "created", attached' = attached \cup {cur},
             pc' = "idle" \/ (pc' = "loop" /\ turn' = turn + 1)
      PROVE  WithinInv'
  <2>1. /\ Cardinality(attached') \in Nat
        /\ Cardinality(attached') <= Cardinality(attached) + 1
    BY <1>0, <1>4, AttachedFinite
  <2>2. turn <= Count /\ Cardinality(attached) < turn
    BY <1>4 DEF TypeInv, Shape, WithinInv
  <2> QED
    BY <1>0, <1>4, <2>1, <2>2 DEF WithinInv, AttachedWithinCount
<1>5. CASE Attach
  BY <1>4, <1>5 DEF Attach, NextTurn, Fail, End
<1>6. CASE AttachFails
  <2>1. pc = "created"
    BY <1>6 DEF AttachFails
  <2>2. ASSUME attached' = attached \cup {cur}, Fail(result \cup {cur})
        PROVE  WithinInv'
    BY <1>4, <2>1, <2>2 DEF Fail, End
  <2>3. ASSUME attached' = attached, NEW ids, Fail(ids)
        PROVE  WithinInv'
    BY <1>2, <2>3 DEF Fail, End, WithinInv, AttachedWithinCount
  <2>4. ASSUME attached' = attached, NextTurn
        PROVE  WithinInv'
    BY <1>0, <2>1, <2>4 DEF NextTurn, WithinInv, AttachedWithinCount
  <2> QED
    BY <1>6, <2>2, <2>3, <2>4 DEF AttachFails, world
<1>7. CASE Create
  <2>1. PICK e \in Enis \ made :
          \/ pc' = "created" /\ UNCHANGED <<record, result, turn, tearing>>
          \/ May("parse") /\ Fail(result)
    BY <1>7 DEF Create
  <2> QED
    BY <1>7, <2>1 DEF Create, Fail, End, WithinInv, AttachedWithinCount
<1>8. CASE \/ StartInitFails \/ CreateFails \/ CancelCreated \/ ToAssign
           \/ Finish \/ FinishFails \/ StartTeardown \/ EndTeardown \/ Kill
  <2>1. attached' = attached /\ pc' \notin {"loop", "created"}
    BY <1>8 DEF StartInitFails, CreateFails, CancelCreated, ToAssign, Finish, FinishFails,
                StartTeardown, EndTeardown, Kill, Fail, End, world
  <2> QED
    BY <1>2, <2>1 DEF WithinInv, AttachedWithinCount
<1>9. CASE Adopt \/ UNCHANGED vars
  BY <1>1, <1>9 DEF Adopt, vars, world, initing
<1>10. ASSUME NEW e \in Enis, AssignIPs(e)
       PROVE  WithinInv'
  BY <1>1, <1>10 DEF AssignIPs, initing
<1>11. ASSUME NEW e \in Enis, RemoveENI(e) \/ RemoveENIFails(e) \/ CancelTeardown(e)
       PROVE  WithinInv'
  <2>1. /\ attached' \in {attached, attached \ {e}}
        /\ pc' \notin {"loop", "created"}
    BY <1>11 DEF RemoveENI, RemoveENIFails, CancelTeardown, End
  <2>2. /\ Cardinality(attached \ {e}) \in Nat
        /\ Cardinality(attached \ {e}) <= Cardinality(attached)
    BY <1>0, AttachedFinite
  <2>3. Cardinality(attached') <= Count
    BY <1>0, <2>1, <2>2 DEF WithinInv, AttachedWithinCount
  <2> QED
    BY <1>2, <2>1, <2>3
<1> QED
  BY <1>3, <1>5, <1>6, <1>7, <1>8, <1>9, <1>10, <1>11 DEF Next

\* If no more than enisPerNode were attached by hand, no number of inits, in
\* whatever way they fail or are killed, attaches more.
THEOREM WithinCount ==
  ASSUME Cardinality(Hand) <= Count
  PROVE  Spec => []AttachedWithinCount
<1>1. Init => WithinInv
  <2> SUFFICES ASSUME Init PROVE WithinInv
    OBVIOUS
  <2>1. CASE attached = Hand
    BY <2>1 DEF Init, WithinInv, AttachedWithinCount
  <2>2. CASE attached = {}
    BY <2>2, FS_EmptySet, EniAssumption DEF Init, WithinInv, AttachedWithinCount
  <2> QED
    BY <2>1, <2>2 DEF Init
<1>2. WithinInv => AttachedWithinCount
  BY DEF WithinInv
<1> QED
  BY <1>1, <1>2, TypeInit, TypeStep, WithinStep, PTL DEF Spec

-----------------------------------------------------------------------------
(* No ENI is lost under the failures the code has an answer to.            *)

\* A failed init records whatever it reports, unless the save fails.
LEMMA FailRecords ==
  ASSUME NEW ids \in SUBSET Enis, Fail(ids), TypeInv, pc # "idle", env \subseteq Handled
  PROVE  /\ Recorded' = Recorded \cup ids
         /\ pc' = "idle" /\ result' = {}
<1>1. ~May("save")
  BY DEF May, Handled
<1>2. record \in SUBSET Enis /\ record # None
  BY EniAssumption DEF TypeInv, TypeOK, Shape
<1>3. record' \in SUBSET Enis /\ record' # None /\ record' = record \cup ids
  BY <1>1, <1>2, FailLeaves
<1>4. pc' = "idle" /\ result' = {}
  BY DEF Fail, End
<1> QED
  BY <1>2, <1>3, <1>4 DEF Recorded

\* Every call that makes an ENI is followed by one that names it or takes it
\* away, before the command ends.
LEMMA KnownStep == TypeInv /\ KnownInv /\ [Next]_vars => KnownInv'
<1> SUFFICES ASSUME TypeInv, KnownInv, [Next]_vars, env' \subseteq Handled
             PROVE  /\ cloud' \subseteq Recorded' \cup result'
                                        \cup (IF pc' = "created" THEN {cur'} ELSE {})
                    /\ pc' = "teardown" /\ ~failed' => cloud' \subseteq targets'
  BY DEF KnownInv
<1>0. /\ env \subseteq Handled /\ result \in SUBSET Enis
      /\ attached \subseteq cloud
      /\ cloud \subseteq Recorded \cup result \cup (IF pc = "created" THEN {cur} ELSE {})
      /\ pc = "teardown" /\ ~failed => cloud \subseteq targets
      /\ pc = "created" => cur \in Enis
      /\ pc \in {"idle", "teardown"} => result = {}
  BY DEF Next, vars, KnownInv, TypeInv, TypeOK, Shape
<1>1. ~May("save") /\ ~May("parse") /\ ~May("read") /\ ~May("kill") /\ ~May("adopt")
  BY <1>0 DEF May, Handled
<1>2. CASE StartInit
  <2>1. Recorded' = Recorded
    BY <1>1, <1>2, EniAssumption DEF StartInit, Seeded, Recorded
  <2> QED
    BY <1>0, <1>2, <2>1 DEF StartInit, world
<1>3. CASE StartInitFails
  <2>1. Recorded' = Recorded
    BY <1>1, <1>3, EniAssumption DEF StartInitFails, Seeded, Recorded
  <2> QED
    BY <1>0, <1>3, <2>1 DEF StartInitFails, End, world
<1>4. CASE Create
  <2>1. PICK e \in Enis \ made :
          /\ cloud' = cloud \cup {e}
          /\ cur' = e /\ pc' = "created" /\ UNCHANGED <<record, result, turn, tearing>>
    BY <1>1, <1>4 DEF Create
  <2>2. Recorded' = Recorded /\ pc = "loop"
    BY <1>4, <2>1 DEF Recorded, Create
  <2> QED
    BY <1>0, <2>1, <2>2
<1>5. ASSUME pc = "created", cloud' \subseteq cloud, Fail(result), cur \notin cloud'
      PROVE  /\ cloud' \subseteq Recorded' \cup result' /\ pc' = "idle"
  BY <1>0, <1>5, FailRecords
<1>6. ASSUME pc = "created", cloud' \subseteq cloud, Fail(result \cup {cur})
      PROVE  /\ cloud' \subseteq Recorded' \cup result' /\ pc' = "idle"
  BY <1>0, <1>6, FailRecords
<1>7. ASSUME pc \in {"loop", "assign"}, cloud' = cloud, Fail(result)
      PROVE  /\ cloud' \subseteq Recorded' \cup result' /\ pc' = "idle"
  BY <1>0, <1>7, FailRecords
<1>8. CASE CreateFails \/ Finish \/ FinishFails
  <2>1. pc \in {"loop", "assign"} /\ cloud' = cloud /\ Fail(result)
    BY <1>8 DEF CreateFails, Finish, FinishFails, Fail, world
  <2> QED
    BY <1>7, <2>1
<1>9. CASE CancelCreated
  <2>1. \/ pc = "created" /\ cloud' = cloud \ {cur} /\ Fail(result)
        \/ pc = "created" /\ cloud' = cloud /\ Fail(result \cup {cur})
    BY <1>9 DEF CancelCreated
  <2> QED
    BY <1>5, <1>6, <2>1
<1>10. ASSUME pc = "created", NextTurn, cloud' \subseteq cloud,
              result' = result \cup {cur} \/ (result' = result /\ cur \notin cloud')
       PROVE  /\ cloud' \subseteq Recorded' \cup result' /\ pc' = "loop"
  BY <1>0, <1>10 DEF NextTurn, Recorded
<1>11. CASE Attach
  <2>1. /\ pc = "created" /\ cloud' = cloud
        /\ (result' = result \cup {cur} /\ NextTurn) \/ Fail(result \cup {cur})
    BY <1>11 DEF Attach
  <2> QED
    BY <1>6, <1>10, <2>1
<1>12. CASE AttachFails
  <2>1. /\ pc = "created"
        /\ \/ cloud' = cloud \ {cur} /\ NextTurn /\ result' = result
           \/ cloud' = cloud \ {cur} /\ Fail(result)
           \/ cloud' = cloud /\ Fail(result \cup {cur})
    BY <1>12 DEF AttachFails, world
  <2> QED
    BY <1>5, <1>6, <1>10, <2>1
<1>13. CASE ToAssign
  <2>1. Recorded' = Recorded
    BY <1>13 DEF ToAssign, Recorded
  <2> QED
    BY <1>0, <1>13, <2>1 DEF ToAssign, world, initing
<1>14. CASE StartTeardown
  <2>1. cloud \subseteq Recorded /\ record # None
    BY <1>0, <1>14 DEF StartTeardown
  <2>2. Recorded' = Recorded /\ cloud' = cloud /\ pc' = "teardown"
    BY <1>14 DEF StartTeardown, Recorded, world
  <2>3. cloud \subseteq targets'
    <3>1. CASE record = {}
      BY <2>1, <3>1 DEF Recorded
    <3>2. CASE record # {}
      BY <1>14, <2>1, <3>2 DEF StartTeardown, Recorded
    <3> QED
      BY <3>1, <3>2
  <2> QED
    BY <2>1, <2>2, <2>3
<1>15. CASE EndTeardown
  <2>1. CASE ~failed /\ record' = None
    <3>1. cloud = {}
      BY <1>0, <1>15, <2>1 DEF EndTeardown
    <3> QED
      BY <1>15, <3>1 DEF EndTeardown, End, world
  <2>2. CASE UNCHANGED record
    BY <1>0, <1>15, <2>2 DEF EndTeardown, End, world, Recorded
  <2> QED
    BY <1>15, <2>1, <2>2 DEF EndTeardown
<1>16. CASE Adopt \/ Kill
  BY <1>1, <1>16 DEF Adopt, Kill
<1>17. CASE UNCHANGED vars
  BY <1>0, <1>17 DEF vars, world, initing, tearing, Recorded
<1>18. ASSUME NEW e \in Enis, AssignIPs(e)
       PROVE  cloud' \subseteq Recorded' \cup result' /\ pc' = "assign"
  BY <1>0, <1>18 DEF AssignIPs, initing, Recorded
<1>19. ASSUME NEW e \in Enis, RemoveENI(e) \/ RemoveENIFails(e) \/ CancelTeardown(e)
       PROVE  /\ cloud' \subseteq Recorded' \cup result' /\ pc' # "created"
              /\ pc' = "teardown" /\ ~failed' => cloud' \subseteq targets'
  <2>1. pc = "teardown" /\ record' = record /\ cloud' \subseteq cloud /\ pc' # "created"
    BY <1>19 DEF RemoveENI, RemoveENIFails, CancelTeardown, End
  <2>2. cloud' \subseteq Recorded'
    BY <1>0, <2>1 DEF Recorded
  <2>3. ASSUME pc' = "teardown", ~failed'
        PROVE  cloud' \subseteq targets'
    BY <1>0, <1>19, <2>3 DEF RemoveENI, RemoveENIFails, CancelTeardown, End
  <2> QED
    BY <2>1, <2>2, <2>3
<1> QED
  BY <1>2, <1>3, <1>4, <1>8, <1>9, <1>11, <1>12, <1>13, <1>14, <1>15, <1>16, <1>17, <1>18,
     <1>19 DEF Next

\* The invariant behind the two theorems below holds at first: an ENI attached
\* by hand is not one of the situations init and teardown answer for.
LEMMA KnownInit == Init => KnownInv
BY DEF Init, KnownInv, Handled

\* Between commands every ENI is recorded in pool.json or attached, whichever
\* call of the earlier inits and teardowns failed without effect, attached late
\* or was cancelled.
THEOREM NothingLost == Spec => []NoENILost
<1>1. TypeInv /\ KnownInv => NoENILost
  BY DEF TypeInv, Shape, KnownInv, NoENILost
<1> QED
  BY <1>1, TypeInit, TypeStep, KnownInit, KnownStep, PTL DEF Spec

\* A teardown that gives up pool.json has removed every ENI, after inits and
\* teardowns that met the same failures.
THEOREM TeardownComplete == Spec => []TeardownRemovesAll
<1>1. TypeInv /\ KnownInv => TeardownRemovesAll
  BY DEF TypeInv, Shape, KnownInv, Recorded, TeardownRemovesAll
<1> QED
  BY <1>1, TypeInit, TypeStep, KnownInit, KnownStep, PTL DEF Spec

-----------------------------------------------------------------------------
(* ENIs that are not the pool's are left alone on an adopted node.         *)

\* adopt records ENIs of the pool only, and at least one; teardown removes
\* those recorded.
LEMMA SparedStep == TypeInv /\ SparedInv /\ [Next]_vars => SparedInv'
<1> SUFFICES ASSUME TypeInv, SparedInv, [Next]_vars, May("hand")', ~May("init")'
             PROVE  SparedInv'
  BY DEF SparedInv
<1>0. /\ ~May("init")
      /\ pc \in {"idle", "teardown"}
      /\ record # None => record # {} /\ record \subseteq carrying \ Elsewhere
      /\ targets \subseteq carrying \ Elsewhere
      /\ Hand \ (carrying \ Elsewhere) \subseteq attached
  BY DEF SparedInv, Next, vars, May
<1>1. ASSUME carrying' = carrying, pc' \in {"idle", "teardown"},
             record' = None \/ (record' # {} /\ record' \subseteq carrying \ Elsewhere),
             targets' \subseteq carrying \ Elsewhere,
             attached \ (carrying \ Elsewhere) \subseteq attached'
      PROVE  SparedInv'
  BY <1>0, <1>1 DEF SparedInv
<1>2. CASE Adopt
  BY <1>0, <1>1, <1>2 DEF Adopt, PoolENIs, world, tearing
<1>3. CASE StartTeardown
  <2>1. targets' = record \cap cloud
    BY <1>0, <1>3 DEF StartTeardown
  <2> QED
    BY <1>0, <1>1, <1>3, <2>1 DEF StartTeardown, world
<1>4. CASE EndTeardown \/ Kill
  BY <1>0, <1>1, <1>4 DEF EndTeardown, Kill, End, world
<1>5. CASE UNCHANGED vars
  BY <1>0, <1>1, <1>5 DEF vars, world, tearing
<1>6. ASSUME NEW e \in Enis, RemoveENI(e) \/ RemoveENIFails(e) \/ CancelTeardown(e)
      PROVE  SparedInv'
  <2>1. /\ e \in targets /\ attached' \in {attached, attached \ {e}}
        /\ targets' \subseteq targets /\ pc' \in {"idle", "teardown"}
        /\ UNCHANGED <<carrying, record>>
    BY <1>6 DEF RemoveENI, RemoveENIFails, CancelTeardown, End
  <2> QED
    BY <1>0, <1>1, <2>1
<1>7. /\ ~StartInit /\ ~StartInitFails /\ ~Create /\ ~CreateFails /\ ~CancelCreated
      /\ ~Attach /\ ~AttachFails /\ ~ToAssign /\ ~Finish /\ ~FinishFails
      /\ \A e \in Enis : ~AssignIPs(e)
  BY <1>0 DEF StartInit, StartInitFails, Create, CreateFails, CancelCreated, Attach,
              AttachFails, ToAssign, Finish, FinishFails, AssignIPs
<1> QED
  BY <1>2, <1>3, <1>4, <1>5, <1>6, <1>7 DEF Next

\* On a node that is only ever adopted, the ENIs attached by hand that carry no
\* address of the pool stay attached, through adopts and teardowns that fail or
\* are killed at any step.
THEOREM AdoptedSpared == Spec => []UnrelatedSpared
<1>1. Init => SparedInv
  BY DEF Init, SparedInv, May
<1>2. SparedInv => UnrelatedSpared
  BY DEF SparedInv, UnrelatedSpared
<1> QED
  BY <1>1, <1>2, TypeInit, TypeStep, SparedStep, PTL DEF Spec

=============================================================================
