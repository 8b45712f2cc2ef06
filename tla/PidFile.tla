------------------------------ MODULE PidFile -------------------------------
(***************************************************************************)
(* The pid file that keeps a second daemon from starting and teardown from *)
(* working under a daemon: acquirePIDFile and checkExistingPID             *)
(* (cmd/pidfile.go), runDaemon's deferred removal (cmd/daemon.go) and      *)
(* runTeardown's check (cmd/teardown.go), one file-system call or signal   *)
(* at a time.                                                              *)
(*                                                                         *)
(* A process is its pid.  A pid serves again for a later process of the    *)
(* same kind once neither the file nor a starter remembers it.  The file   *)
(* is written complete (it is a hard link to a finished temporary file),   *)
(* so its content is always the pid of the daemon that linked it.          *)
(***************************************************************************)
EXTENDS Naturals

CONSTANTS
  Procs,       \* the pids of daemon and teardown processes
  Teardowns,   \* those of teardown processes
  None,        \* no pid file
  Concurrent   \* TRUE: a start may overlap another start or a teardown

ASSUME PidAssumption ==
  /\ None \notin Procs
  /\ Teardowns \subseteq Procs
  /\ Concurrent \in BOOLEAN

MaxTries == 2

VARIABLES
  pidFile,  \* the pid in /run/cocoon-net.pid, or None
  st,       \* where each process is
  seen,     \* the pid checkExistingPID read
  tries     \* failed turns of the loop so far

vars == <<pidFile, st, seen, tries>>

Starting == {"link", "read", "probe", "unlink"}
Serving  == {"running", "exiting"}
Over     == {"refused", "dead"}

TypeOK ==
  /\ pidFile \in Procs \cup {None}
  /\ st \in [Procs -> Starting \cup Serving \cup Over \cup {"leaving", "tearing", "forced"}]
  /\ seen \in [Procs -> Procs \cup {None}]
  /\ tries \in [Procs -> 0 .. MaxTries]

\* A crash of an earlier boot may have left any pid behind.
Init ==
  /\ pidFile \in (Procs \ Teardowns) \cup {None}
  /\ st = [p \in Procs |-> "dead"]
  /\ seen = [p \in Procs |-> None]
  /\ tries = [p \in Procs |-> 0]

\* What signal 0 finds.
Alive(p) == st[p] \notin Over

Goto(p, where) == st' = [st EXCEPT ![p] = where]

-----------------------------------------------------------------------------
Forgotten(p) == pidFile # p /\ \A q \in Procs : seen[q] # p

\* A daemon starts with the link; a teardown goes straight to the check.
Begin(p) ==
  /\ st[p] \in Over /\ Forgotten(p)
  /\ Concurrent \/ \A q \in Procs : st[q] \notin Starting \cup {"tearing"}
  /\ Goto(p, IF p \in Teardowns THEN "read" ELSE "link")
  /\ tries' = [tries EXCEPT ![p] = 0]
  /\ UNCHANGED <<pidFile, seen>>

\* teardown --force does not look at the pid file.
BeginForced(p) ==
  /\ p \in Teardowns
  /\ st[p] \in Over
  /\ Goto(p, "forced")
  /\ tries' = [tries EXCEPT ![p] = 0]
  /\ UNCHANGED <<pidFile, seen>>

\* What a process does when checkExistingPID has no objection.
Cleared(p) == IF p \in Teardowns THEN "tearing" ELSE "unlink"

Link(p) ==
  /\ st[p] = "link"
  /\ \/ /\ pidFile = None /\ pidFile' = p
        /\ tries' = [tries EXCEPT ![p] = 0] /\ Goto(p, "running")
     \/ /\ pidFile # None
        /\ UNCHANGED <<pidFile, tries>> /\ Goto(p, "read")
  /\ UNCHANGED seen

\* checkExistingPID: a file that is gone by now is no obstacle.
Read(p) ==
  /\ st[p] = "read"
  /\ seen' = [seen EXCEPT ![p] = pidFile]
  /\ Goto(p, IF pidFile = None THEN Cleared(p) ELSE "probe")
  /\ UNCHANGED <<pidFile, tries>>

\* Mutant: any pid file is taken for a stale one.
ProbeNothing(p) ==
  /\ st[p] = "probe"
  /\ seen' = [seen EXCEPT ![p] = None]
  /\ Goto(p, Cleared(p))
  /\ UNCHANGED <<pidFile, tries>>

\* Mutant: the removal is deferred before the file is acquired, so that a
\* refused start runs it too.
ProbeThenRemove(p) ==
  /\ st[p] = "probe"
  /\ seen' = [seen EXCEPT ![p] = None]
  /\ Goto(p, IF Alive(seen[p]) THEN "exiting" ELSE Cleared(p))
  /\ UNCHANGED <<pidFile, tries>>

Probe(p) ==
  /\ st[p] = "probe"
  /\ seen' = [seen EXCEPT ![p] = None]
  /\ Goto(p, IF Alive(seen[p]) THEN "refused" ELSE Cleared(p))
  /\ UNCHANGED <<pidFile, tries>>

\* Mutant: the loop runs once.
UnlinkOnce(p) ==
  /\ st[p] = "unlink"
  /\ pidFile' = None
  /\ tries' = [tries EXCEPT ![p] = @ + 1]
  /\ Goto(p, "refused")
  /\ UNCHANGED seen

\* Mutant: nothing is removed, and the loop does not end.
UnlinkNever(p) ==
  /\ st[p] = "unlink"
  /\ tries' = [tries EXCEPT ![p] = @ + 1]
  /\ Goto(p, "link")
  /\ UNCHANGED <<pidFile, seen>>

\* Remove whatever file has the name now, and try again once.
Unlink(p) ==
  /\ st[p] = "unlink"
  /\ pidFile' = None
  /\ tries' = [tries EXCEPT ![p] = @ + 1]
  /\ Goto(p, IF tries'[p] < MaxTries THEN "link" ELSE "refused")
  /\ UNCHANGED seen

\* srv.Run, or one of the set-up calls before it, returned.
Return(p) ==
  /\ st[p] = "running"
  /\ Goto(p, "exiting")
  /\ UNCHANGED <<pidFile, seen, tries>>

\* The deferred os.Remove.
RemoveOnExit(p) ==
  /\ st[p] = "exiting"
  /\ pidFile' = None
  /\ Goto(p, "leaving")
  /\ UNCHANGED <<seen, tries>>

\* The process ends: after its removal or its teardown, or killed anywhere
\* before.
Die(p) ==
  /\ Alive(p)
  /\ Goto(p, "dead")
  /\ seen' = [seen EXCEPT ![p] = None] /\ tries' = [tries EXCEPT ![p] = 0]
  /\ UNCHANGED pidFile

\* /run does not outlive the machine.
Reboot ==
  /\ pidFile' = None
  /\ st' = [p \in Procs |-> "dead"]
  /\ seen' = [p \in Procs |-> None]
  /\ tries' = [p \in Procs |-> 0]

Next ==
  \/ \E p \in Procs :
       \/ Begin(p) \/ BeginForced(p) \/ Link(p) \/ Read(p) \/ Probe(p) \/ Unlink(p)
       \/ Return(p) \/ RemoveOnExit(p) \/ Die(p)
  \/ Reboot

Spec == Init /\ [][Next]_vars

-----------------------------------------------------------------------------
(* Properties.                                                             *)

\* At most one process serves: the daemon "refuses to start while another
\* daemon owns" the pid file (docs/dhcp.md).
SingleDaemon ==
  \A p, q \in Procs : st[p] \in Serving /\ st[q] \in Serving => p = q

\* Until its own removal, a serving daemon's pid is the one in the file:
\* neither a starter's removal of a stale file nor another daemon's exit
\* takes it away, so a later start finds it.
PidFileOwned == \A p \in Procs : st[p] \in Serving => pidFile = p

\* A start is refused only while another process is alive: a stale file
\* costs one turn of the loop, never the start.
RefusalJustified ==
  [][\A p \in Procs : st[p] # "refused" /\ st'[p] = "refused" =>
       \E q \in Procs \ {p} : Alive(q)]_vars

\* No daemon serves while an unforced teardown works, up to the end of its
\* work and not only at its check: "removing the cloud allocation under a live DHCP server
\* leaves later leases unroutable" (docs/dhcp.md).
TeardownAlone ==
  \A p, q \in Procs : st[p] = "tearing" => st[q] \notin Serving

\* The inductive invariant behind TypeOK: after its last turn a start has ended.
TypeInv ==
  /\ TypeOK
  /\ \A p \in Procs : tries[p] = MaxTries => st[p] = "refused"

\* The inductive invariant when starts do not overlap: a starter or teardown
\* that has passed the check has no daemon beside it, and one that has read a
\* pid has at most that daemon beside it.
StarterInv ==
  /\ TypeInv
  /\ PidFileOwned
  /\ \A p, q \in Procs :
       st[p] \in Starting \cup {"tearing"} /\ st[q] \in Starting \cup {"tearing"} => p = q
  /\ \A p, q \in Procs :
       st[q] \in Serving =>
         /\ st[p] \notin {"unlink", "tearing"}
         /\ st[p] = "probe" => seen[p] = q

\* A starting daemon that is going to remove the file, whatever comes: at its
\* removal, or about to probe a process that no longer serves.
Removing(p) ==
  \/ st[p] = "unlink"
  \/ st[p] = "probe" /\ p \notin Teardowns /\ st[seen[p]] \notin Serving

\* Whoever is going to remove the file is the only process that starts.  Starts
\* overlap freely where no file is in the way, or a serving daemon's.
RemovesAlone ==
  \A p, q \in Procs : Removing(p) /\ st[q] \in Starting => p = q

\* The inductive invariant under RemovesAlone: nobody is going to remove a
\* serving daemon's file.
OverlapInv ==
  /\ TypeInv
  /\ PidFileOwned
  /\ \A p \in Procs :
       /\ st[p] = "probe" => seen[p] \in Procs
       /\ st[p] \in {"link", "unlink"} => p \notin Teardowns
       /\ st[p] = "tearing" => p \in Teardowns
  /\ \A p \in Procs \ Teardowns, q \in Procs :
       st[q] \in Serving =>
         /\ st[p] # "unlink"
         /\ st[p] = "probe" => seen[p] = q

\* No daemon starts while a teardown probes the pid it has read, or works.
TeardownApart ==
  \A t \in Teardowns, p \in Procs \ Teardowns :
    st[t] \in {"probe", "tearing"} => st[p] \notin Starting

\* Behind TeardownAlone then: a teardown past the check has no daemon beside it,
\* and one that has read a pid at most that daemon.
TeardownInv ==
  \A t \in Teardowns, q \in Procs :
    st[q] \in Serving =>
      /\ st[t] # "tearing"
      /\ st[t] = "probe" => seen[t] = q

\* Behind RefusalJustified: whom a starter probes is another process, and after
\* a turn of the loop it finds no file.
RefusalInv ==
  \A p \in Procs :
    /\ st[p] \in Starting => pidFile # p
    /\ st[p] = "probe" => seen[p] \in Procs \ {p}
    /\ tries[p] # 0 => st[p] = "link" /\ pidFile = None

=============================================================================
