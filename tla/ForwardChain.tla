---------------------------- MODULE ForwardChain ----------------------------
(***************************************************************************)
(* The FORWARD chain of the node's filter table under setupIPTables and    *)
(* ClearDropRules (node/iptables_linux.go), one iptables call at a time,   *)
(* for any number of processes at once.                                    *)
(*                                                                         *)
(* A rule is the destination of one of our DROPs, or Accept, which stands  *)
(* for the bridge's ACCEPT rules.  The chain is read from its head and the *)
(* first rule that matches decides.  MASQUERADE is in another table.       *)
(***************************************************************************)
EXTENDS Sequences, SequencesExt, Naturals

CONSTANTS
  Setters,    \* the processes that run Setup or ClearDropRules
  Targets,    \* destinations a node may be told to drop
  Unprinted,  \* those `iptables -S` prints no -d for: 0.0.0.0/0
  Accept      \* our ACCEPT rules

ASSUME ChainAssumption ==
  /\ Unprinted \subseteq Targets
  /\ Accept \notin Targets

VARIABLES
  chain,  \* the FORWARD chain, head first
  job     \* what each process is doing to it

chainVars == <<chain, job>>

\* The steps of setupIPTables and of reconcileDropRules; "installed" is a
\* process whose setupIPTables has returned.
Working == {"accept", "drops", "insert", "delete"}

Rules == Targets \cup {Accept}

Jobs == [step : Working \cup {"off", "installed"}, want : Seq(Targets), todo : Seq(Targets),
         listed : Seq(Rules), failed : BOOLEAN, calm : BOOLEAN]

Idle == [step |-> "off", want |-> <<>>, todo |-> <<>>, listed |-> <<>>,
         failed |-> FALSE, calm |-> TRUE]

ChainTypeOK ==
  /\ chain \in Seq(Rules)
  /\ job \in [Setters -> Jobs]

ChainInit ==
  /\ chain = <<>>
  /\ job = [p \in Setters |-> Idle]

Wanted(p) == Range(job[p].want)
Drops     == Range(chain) \ {Accept}

\* What happens to a packet of a VM to t.
Dropped(t) ==
  \E i \in DOMAIN chain :
    chain[i] = t /\ \A j \in 1 .. i - 1 : chain[j] # Accept

-----------------------------------------------------------------------------
\* p starts to change the chain; a process that wants other targets, before
\* or after p in it, is no longer undisturbed (calm only serves properties).
Enter(p, where, targets) ==
  LET differs(q) == Wanted(q) # Range(targets) IN
  job' = [q \in Setters |->
    IF q = p
      THEN [Idle EXCEPT !.step = where, !.want = targets, !.todo = targets,
              !.calm = \A r \in Setters \ {p} : job[r].step \in Working => ~differs(r)]
      ELSE [job[q] EXCEPT !.calm = @ /\ (job[q].step = "off" \/ ~differs(q))]]

\* setupIPTables, its targets resolved.
StartSetup(p, targets) == Enter(p, "accept", targets) /\ UNCHANGED chain

\* ClearDropRules is reconcileDropRules without a wanted rule.
StartClear(p) == Enter(p, "drops", <<>>) /\ UNCHANGED chain

\* ensureIPTRule at the tail.  The check and the append are one step: a
\* duplicate ACCEPT makes no difference.
EnsureAccept(p) ==
  /\ job[p].step = "accept"
  /\ chain' = IF Accept \in Range(chain) THEN chain ELSE Append(chain, Accept)
  /\ job' = [job EXCEPT ![p].step = "drops"]

\* ensureIPTRule at the head, the Exists: a rule anywhere in the chain will do.
CheckDrop(p) ==
  /\ job[p].step = "drops" /\ job[p].todo # <<>>
  /\ job' = IF Head(job[p].todo) \in Range(chain)
            THEN [job EXCEPT ![p].todo = Tail(@)]
            ELSE [job EXCEPT ![p].step = "insert"]
  /\ UNCHANGED chain

\* Mutant: the drop is appended, behind the ACCEPTs.
AppendDrop(p) ==
  /\ job[p].step = "insert"
  /\ chain' = Append(chain, Head(job[p].todo))
  /\ job' = [job EXCEPT ![p].step = "drops", ![p].todo = Tail(@)]

\* ... and the Insert, whatever another process inserted in between.
InsertDrop(p) ==
  /\ job[p].step = "insert"
  /\ chain' = <<Head(job[p].todo)>> \o chain
  /\ job' = [job EXCEPT ![p].step = "drops", ![p].todo = Tail(@)]

\* What reconcileDropRules leaves: a rule that is not tagged, or one whose
\* destination is printed, found by ruleDest, and wanted.
Kept(p, rule) == rule = Accept \/ (rule \notin Unprinted /\ rule \in Wanted(p))

\* Mutant: of several rules with one destination one is deleted.
ListDistinct(p) ==
  /\ job[p].step = "drops" /\ job[p].todo = <<>>
  /\ job' = [job EXCEPT ![p].step = "delete", ![p].listed = SetToSeq(Range(chain))]
  /\ UNCHANGED chain

\* reconcileDropRules lists the chain, and goes through the listing.
ListDrops(p) ==
  /\ job[p].step = "drops" /\ job[p].todo = <<>>
  /\ job' = [job EXCEPT ![p].step = "delete", ![p].listed = chain]
  /\ UNCHANGED chain

\* The loop's next rule to delete is the i-th of the listing.
Doomed(p, i) ==
  /\ job[p].step = "delete" /\ i \in DOMAIN job[p].listed
  /\ ~Kept(p, job[p].listed[i])
  /\ \A j \in 1 .. i - 1 : Kept(p, job[p].listed[j])

After(p, i) == SubSeq(job[p].listed, i + 1, Len(job[p].listed))

\* One Delete removes the first match, and fails when there is none.
DeleteDrop(p) == \E i \in DOMAIN job[p].listed :
  /\ Doomed(p, i)
  /\ LET rule == job[p].listed[i] IN
       /\ chain' = RemoveFirst(chain, rule)
       /\ job' = [job EXCEPT ![p].listed = After(p, i),
                             ![p].failed = @ \/ rule \notin Range(chain)]

\* The calls that fail: any but Delete ends the function with an error, a
\* failing Delete is counted and the loop goes on.
CallFails(p) == job[p].step \in Working \ {"delete"}

DeleteFails(p) == \E i \in DOMAIN job[p].listed :
  /\ Doomed(p, i)
  /\ job' = [job EXCEPT ![p].listed = After(p, i), ![p].failed = TRUE]
  /\ UNCHANGED chain

\* reconcileDropRules returns; with an error if a Delete failed.
Pruned(p) ==
  /\ job[p].step = "delete"
  /\ \A i \in DOMAIN job[p].listed : Kept(p, job[p].listed[i])

\* setupIPTables returns without an error.
Installed(p) ==
  /\ Pruned(p) /\ ~job[p].failed
  /\ job' = [job EXCEPT ![p].step = "installed", ![p].listed = <<>>]
  /\ UNCHANGED chain

\* The process is done with the chain: it returned, failed, or died.
Leave(p) == job' = [job EXCEPT ![p] = Idle]

ChainStep(p) ==
  \/ EnsureAccept(p) \/ CheckDrop(p) \/ InsertDrop(p)
  \/ ListDrops(p) \/ DeleteDrop(p)

-----------------------------------------------------------------------------
(* Properties.                                                             *)

\* From the return of a Setup on, as long as no process with other targets
\* changes the chain, exactly the wanted targets are dropped: stale rules are
\* gone, no ACCEPT comes first, and other processes' Setups with the same
\* targets never take a rule away, "gapless" (node/iptables_linux.go), whether
\* they end, fail or die on the way.
DropsExact ==
  \A p \in Setters :
    job[p].step = "installed" /\ job[p].calm =>
      Drops = Wanted(p) /\ \A t \in Wanted(p) : Dropped(t)

-----------------------------------------------------------------------------
(* The inductive invariant, for ForwardChainProofs.                        *)

\* How often a rule is in the chain, or in a listing of it.
Places(s, rule) == {i \in DOMAIN s : s[i] = rule}
Copies(s, rule) == Cardinality(Places(s, rule))

\* Drops are put at the head, ACCEPTs at the tail.
DropsFirst(s) ==
  \A i, j \in DOMAIN s : i < j /\ s[i] = Accept => s[j] = Accept

Setting == {"accept", "drops", "insert"}

\* What is inserted is the next rule of the loop.
Pending(p) == job[p].step = "insert" => job[p].todo # <<>>

\* What p goes through is wanted, and is not what iptables -S hides.
JobOrder(p) ==
  /\ Pending(p)
  /\ Wanted(p) \cap Unprinted = {}
  /\ job[p].step \in Setting => Range(job[p].todo) \subseteq Wanted(p)

\* Behind DropsExact: undisturbed, p has its wanted rules in the chain or still
\* to come, and a stale rule is not oftener in the chain than in its listing,
\* until it has counted a failed Delete (sure says that Deletes fail only for
\* want of the rule).
DropsAt(p, sure) ==
  job[p].calm /\ job[p].step # "off" =>
    /\ \A q \in Setters : job[q].step \in Working => Wanted(q) = Wanted(p)
    /\ job[p].step \in Setting => Wanted(p) \subseteq Drops \cup Range(job[p].todo)
    /\ job[p].step \notin Setting => Wanted(p) \subseteq Drops
    /\ job[p].step = "delete" /\ (job[p].failed => sure) =>
         \A rule \in Targets \ Wanted(p) : Copies(chain, rule) <= Copies(job[p].listed, rule)
    /\ job[p].step = "installed" => Drops \subseteq Wanted(p)

ChainInv(sure) ==
  /\ DropsFirst(chain)
  /\ \A p \in Setters : JobOrder(p) /\ DropsAt(p, sure)

=============================================================================
