--------------------------- MODULE PidFileProofs ----------------------------
(***************************************************************************)
(* Proofs about PidFile, for any number of daemons and teardowns.          *)
(***************************************************************************)
EXTENDS PidFile, TLAPS

\* Whatever pid an earlier boot left in the file, its process is dead.
LEMMA StarterInit == Init => TypeInv /\ StarterInv
BY PidAssumption
   DEF Init, TypeInv, StarterInv, TypeOK, PidFileOwned, Starting, Serving, Over, MaxTries

\* Every step keeps the types, whether starts overlap or not: a start that has
\* counted its last turn takes no other.
LEMMA TypeStep == TypeInv /\ [Next]_vars => TypeInv'
<1> SUFFICES ASSUME TypeInv, [Next]_vars
             PROVE  TypeInv'
  OBVIOUS
<1> USE PidAssumption DEF TypeInv, TypeOK, Starting, Serving, Over, MaxTries, Goto
<1>1. ASSUME NEW p \in Procs, Begin(p) \/ BeginForced(p)
      PROVE  TypeInv'
  BY <1>1 DEF Begin, BeginForced
<1>2. ASSUME NEW p \in Procs, Link(p)
      PROVE  TypeInv'
  BY <1>2 DEF Link
<1>3. ASSUME NEW p \in Procs, Read(p) \/ Probe(p)
      PROVE  TypeInv'
  BY <1>3 DEF Read, Probe, Cleared
<1>4. ASSUME NEW p \in Procs, Unlink(p)
      PROVE  TypeInv'
  BY <1>4 DEF Unlink
<1>5. ASSUME NEW p \in Procs, Return(p) \/ RemoveOnExit(p)
      PROVE  TypeInv'
  BY <1>5 DEF Return, RemoveOnExit
<1>6. ASSUME NEW p \in Procs, Die(p)
      PROVE  TypeInv'
  BY <1>6 DEF Die, Alive
<1>7. CASE Reboot
  BY <1>7 DEF Reboot
<1>8. CASE UNCHANGED vars
  BY <1>8 DEF vars
<1> QED
  BY <1>1, <1>2, <1>3, <1>4, <1>5, <1>6, <1>7, <1>8 DEF Next

\* One file-system call or signal of acquirePIDFile, of the deferred removal
\* or of a dying process keeps the invariant while starts do not overlap.
LEMMA StarterStep ==
  ASSUME ~Concurrent
  PROVE  StarterInv /\ [Next]_vars => StarterInv'
<1> SUFFICES ASSUME StarterInv, [Next]_vars
             PROVE  StarterInv'
  OBVIOUS
<1> USE PidAssumption
    DEF StarterInv, TypeInv, TypeOK, PidFileOwned, Starting, Serving, Over, MaxTries, Goto
<1>1. ASSUME NEW p \in Procs, Begin(p)
      PROVE  StarterInv'
  BY <1>1 DEF Begin
<1>2. ASSUME NEW p \in Procs, Link(p)
      PROVE  StarterInv'
  BY <1>2 DEF Link
<1>3. ASSUME NEW p \in Procs, Read(p)
      PROVE  StarterInv'
  BY <1>3 DEF Read, Cleared
<1>4. ASSUME NEW p \in Procs, Probe(p)
      PROVE  StarterInv'
  BY <1>4 DEF Probe, Cleared, Alive
<1>5. ASSUME NEW p \in Procs, Unlink(p)
      PROVE  StarterInv'
  BY <1>5 DEF Unlink
<1>6. ASSUME NEW p \in Procs, Return(p)
      PROVE  StarterInv'
  BY <1>6 DEF Return
<1>7. ASSUME NEW p \in Procs, RemoveOnExit(p)
      PROVE  StarterInv'
  BY <1>7 DEF RemoveOnExit
<1>8. ASSUME NEW p \in Procs, Die(p)
      PROVE  StarterInv'
  BY <1>8 DEF Die, Alive
<1>9. ASSUME NEW p \in Procs, BeginForced(p)
      PROVE  StarterInv'
  BY <1>9 DEF BeginForced
<1>10. CASE Reboot
  BY <1>10 DEF Reboot
<1>11. CASE UNCHANGED vars
  BY <1>11 DEF vars
<1> QED
  BY <1>1, <1>2, <1>3, <1>4, <1>5, <1>6, <1>7, <1>8, <1>9, <1>10, <1>11 DEF Next

\* When starts do not overlap, at most one daemon serves, and a serving
\* daemon's pid is in the file.
THEOREM OneDaemon ==
  ASSUME ~Concurrent
  PROVE  Spec => [](SingleDaemon /\ PidFileOwned)
<1>1. StarterInv => SingleDaemon /\ PidFileOwned
  BY DEF StarterInv, SingleDaemon, PidFileOwned
<1>2. StarterInv /\ [Next]_vars => StarterInv'
  BY StarterStep
<1> QED
  BY <1>1, <1>2, StarterInit, PTL DEF Spec

\* Every step keeps a serving daemon's file safe from starters, as long as
\* whoever is going to remove a file starts alone.
LEMMA OverlapStep == OverlapInv /\ RemovesAlone /\ [Next]_vars => OverlapInv'
<1> SUFFICES ASSUME OverlapInv, RemovesAlone, [Next]_vars
             PROVE  OverlapInv'
  OBVIOUS
<1>0. TypeInv'
  BY TypeStep DEF OverlapInv
<1> USE <1>0, PidAssumption
    DEF OverlapInv, TypeInv, TypeOK, PidFileOwned, Starting, Serving, Over, MaxTries, Goto
<1>1. ASSUME NEW p \in Procs, Begin(p)
      PROVE  OverlapInv'
  BY <1>1 DEF Begin
<1>2. ASSUME NEW p \in Procs, Link(p)
      PROVE  OverlapInv'
  <2>1. CASE pidFile # None
    BY <1>2, <2>1 DEF Link
  <2>2. CASE pidFile = None
    <3>1. \A q \in Procs : st[q] \notin Serving
      BY <2>2
    <3>2. \A r \in Procs \ Teardowns : st[r] \notin {"unlink", "probe"}
      BY <1>2, <3>1 DEF Link, RemovesAlone, Removing
    <3> QED
      BY <1>2, <2>2, <3>1, <3>2 DEF Link
  <2> QED
    BY <2>1, <2>2
<1>3. ASSUME NEW p \in Procs, Read(p)
      PROVE  OverlapInv'
  BY <1>3 DEF Read, Cleared
<1>4. ASSUME NEW p \in Procs, Probe(p)
      PROVE  OverlapInv'
  BY <1>4 DEF Probe, Cleared, Alive
<1>5. ASSUME NEW p \in Procs, Unlink(p)
      PROVE  OverlapInv'
  BY <1>5 DEF Unlink
<1>6. ASSUME NEW p \in Procs, Return(p)
      PROVE  OverlapInv'
  BY <1>6 DEF Return
<1>7. ASSUME NEW p \in Procs, RemoveOnExit(p)
      PROVE  OverlapInv'
  BY <1>7 DEF RemoveOnExit
<1>8. ASSUME NEW p \in Procs, Die(p)
      PROVE  OverlapInv'
  BY <1>8 DEF Die, Alive
<1>9. ASSUME NEW p \in Procs, BeginForced(p)
      PROVE  OverlapInv'
  BY <1>9 DEF BeginForced
<1>10. CASE Reboot
  BY <1>10 DEF Reboot
<1>11. CASE UNCHANGED vars
  BY <1>11 DEF vars
<1> QED
  BY <1>1, <1>2, <1>3, <1>4, <1>5, <1>6, <1>7, <1>8, <1>9, <1>10, <1>11 DEF Next

\* Starts may overlap each other and teardowns, at most one daemon serves all
\* the same and its pid is in the file, as long as no start overlaps one that is
\* going to remove a file.
THEOREM OneDaemonOverlapping ==
  Spec /\ []RemovesAlone => [](SingleDaemon /\ PidFileOwned)
<1>1. Init => OverlapInv
  BY StarterInit DEF Init, OverlapInv, StarterInv, Serving
<1>2. OverlapInv /\ RemovesAlone /\ [Next]_vars => OverlapInv'
  BY OverlapStep
<1>3. OverlapInv => SingleDaemon /\ PidFileOwned
  BY DEF OverlapInv, SingleDaemon, PidFileOwned
<1> QED
  BY <1>1, <1>2, <1>3, PTL DEF Spec

\* A teardown that has read the pid file keeps sight of the daemon as long as
\* none starts before its end.
LEMMA TeardownStep ==
  OverlapInv /\ TeardownInv /\ TeardownApart /\ [Next]_vars => TeardownInv'
<1> SUFFICES ASSUME OverlapInv, TeardownInv, TeardownApart, [Next]_vars
             PROVE  TeardownInv'
  OBVIOUS
<1> USE PidAssumption
    DEF OverlapInv, TypeInv, TypeOK, PidFileOwned, TeardownInv, Starting, Serving, Over, Goto
<1>1. ASSUME NEW p \in Procs, Begin(p) \/ BeginForced(p)
      PROVE  TeardownInv'
  BY <1>1 DEF Begin, BeginForced
<1>2. ASSUME NEW p \in Procs, Link(p)
      PROVE  TeardownInv'
  <2>1. p \notin Teardowns => \A t \in Teardowns : st[t] \notin {"probe", "tearing"}
    BY <1>2 DEF Link, TeardownApart
  <2>2. p \notin Teardowns
    BY <1>2 DEF Link
  <2> QED
    BY <1>2, <2>1, <2>2 DEF Link
<1>3. ASSUME NEW p \in Procs, Read(p)
      PROVE  TeardownInv'
  BY <1>3 DEF Read, Cleared
<1>4. ASSUME NEW p \in Procs, Probe(p)
      PROVE  TeardownInv'
  BY <1>4 DEF Probe, Cleared, Alive
<1>5. ASSUME NEW p \in Procs, Unlink(p) \/ Return(p) \/ RemoveOnExit(p)
      PROVE  TeardownInv'
  BY <1>5 DEF Unlink, Return, RemoveOnExit
<1>6. ASSUME NEW p \in Procs, Die(p)
      PROVE  TeardownInv'
  BY <1>6 DEF Die, Alive
<1>7. CASE Reboot
  BY <1>7 DEF Reboot
<1>8. CASE UNCHANGED vars
  BY <1>8 DEF vars
<1> QED
  BY <1>1, <1>2, <1>3, <1>4, <1>5, <1>6, <1>7, <1>8 DEF Next

\* Daemons' starts may overlap, and a teardown still has no daemon beside it, as
\* long as none starts between its look at the pid file and its end.
THEOREM TeardownApartIsAlone ==
  Spec /\ []RemovesAlone /\ []TeardownApart => []TeardownAlone
<1>1. Init => OverlapInv /\ TeardownInv
  BY StarterInit DEF Init, OverlapInv, TeardownInv, StarterInv, Serving
<1>2. OverlapInv /\ RemovesAlone /\ [Next]_vars => OverlapInv'
  BY OverlapStep
<1>3. OverlapInv /\ TeardownInv /\ TeardownApart /\ [Next]_vars => TeardownInv'
  BY TeardownStep
<1>4. OverlapInv /\ TeardownInv => TeardownAlone
  BY PidAssumption DEF TeardownInv, TeardownAlone, OverlapInv
<1> QED
  BY <1>1, <1>2, <1>3, <1>4, PTL DEF Spec

\* Starts that do not overlap at all are a special case of both.
THEOREM ApartMeansAlone ==
  ASSUME ~Concurrent
  PROVE  Spec => [](RemovesAlone /\ TeardownApart)
<1>1. StarterInv => RemovesAlone /\ TeardownApart
  BY PidAssumption DEF StarterInv, RemovesAlone, Removing, TeardownApart, Starting
<1>2. StarterInv /\ [Next]_vars => StarterInv'
  BY StarterStep
<1> QED
  BY <1>1, <1>2, StarterInit, PTL DEF Spec

\* When no start overlaps a teardown, its one check of the pid file holds to
\* the end of its work: no daemon serves beside it.
THEOREM TeardownUndisturbed ==
  ASSUME ~Concurrent
  PROVE  Spec => []TeardownAlone
<1>1. StarterInv => TeardownAlone
  BY DEF StarterInv, TeardownAlone
<1>2. StarterInv /\ [Next]_vars => StarterInv'
  BY StarterStep
<1> QED
  BY <1>1, <1>2, StarterInit, PTL DEF Spec

\* While starts do not overlap, a starter that removed a stale file finds none
\* at its next link.
LEMMA RefusalStep ==
  ASSUME ~Concurrent
  PROVE  StarterInv /\ RefusalInv /\ [Next]_vars => RefusalInv'
<1> SUFFICES ASSUME StarterInv, RefusalInv, [Next]_vars
             PROVE  RefusalInv'
  OBVIOUS
<1> USE PidAssumption
    DEF StarterInv, RefusalInv, TypeInv, TypeOK, PidFileOwned, Starting, Serving, Over,
        MaxTries, Goto
<1>1. ASSUME NEW p \in Procs, Begin(p) \/ BeginForced(p)
      PROVE  RefusalInv'
  BY <1>1 DEF Begin, BeginForced, Forgotten
<1>2. ASSUME NEW p \in Procs, Link(p)
      PROVE  RefusalInv'
  BY <1>2 DEF Link
<1>3. ASSUME NEW p \in Procs, Read(p)
      PROVE  RefusalInv'
  BY <1>3 DEF Read, Cleared
<1>4. ASSUME NEW p \in Procs, Probe(p)
      PROVE  RefusalInv'
  BY <1>4 DEF Probe, Cleared
<1>5. ASSUME NEW p \in Procs, Unlink(p)
      PROVE  RefusalInv'
  BY <1>5 DEF Unlink
<1>6. ASSUME NEW p \in Procs, Return(p) \/ RemoveOnExit(p)
      PROVE  RefusalInv'
  BY <1>6 DEF Return, RemoveOnExit
<1>7. ASSUME NEW p \in Procs, Die(p)
      PROVE  RefusalInv'
  BY <1>7 DEF Die, Alive
<1>8. CASE Reboot
  BY <1>8 DEF Reboot
<1>9. CASE UNCHANGED vars
  BY <1>9 DEF vars
<1> QED
  BY <1>1, <1>2, <1>3, <1>4, <1>5, <1>6, <1>7, <1>8, <1>9 DEF Next

\* When starts do not overlap, a start is refused only because another process
\* is alive: the second turn of the loop never fails.
THEOREM RefusedForAReason ==
  ASSUME ~Concurrent
  PROVE  Spec => RefusalJustified
<1>1. ASSUME StarterInv, RefusalInv, Next,
             NEW p \in Procs, st[p] # "refused", st'[p] = "refused"
      PROVE  \E q \in Procs \ {p} : Alive(q)
  <2>1. \/ Probe(p) /\ Alive(seen[p])
        \/ Unlink(p) /\ ~(tries'[p] < MaxTries)
    BY <1>1
       DEF Next, Begin, BeginForced, Link, Read, Probe, Cleared, Unlink, Return, RemoveOnExit,
           Die, Reboot, Goto, StarterInv, TypeInv, TypeOK
  <2>2. CASE Probe(p) /\ Alive(seen[p])
    BY <1>1, <2>2 DEF Probe, RefusalInv
  <2>3. CASE Unlink(p) /\ ~(tries'[p] < MaxTries)
    BY <1>1, <2>3 DEF Unlink, RefusalInv, StarterInv, TypeInv, TypeOK, MaxTries
  <2> QED
    BY <2>1, <2>2, <2>3
<1>2. StarterInv /\ RefusalInv /\ [Next]_vars =>
        [\A p \in Procs : st[p] # "refused" /\ st'[p] = "refused" =>
           \E q \in Procs \ {p} : Alive(q)]_vars
  BY <1>1
<1>3. Init => StarterInv /\ RefusalInv
  BY StarterInit, PidAssumption DEF Init, RefusalInv, Starting
<1>4. StarterInv /\ [Next]_vars => StarterInv'
  BY StarterStep
<1>5. StarterInv /\ RefusalInv /\ [Next]_vars => RefusalInv'
  BY RefusalStep
<1> QED
  BY <1>2, <1>3, <1>4, <1>5, PTL DEF Spec, RefusalJustified

=============================================================================
