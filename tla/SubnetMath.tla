----------------------------- MODULE SubnetMath -----------------------------
(***************************************************************************)
(* The address arithmetic of platform/ip.go: the gateway and the host      *)
(* addresses of a subnet.  An address is an integer of W bits (32 in the   *)
(* code) and a CIDR is an address and a prefix length.  SubnetIPs is a     *)
(* loop, modelled turn by turn; its inputs are chosen by Init.             *)
(***************************************************************************)
EXTENDS Integers, FiniteSets, Sequences

CONSTANTS
  W,        \* address width in bits
  MaxCount  \* bound on the requested pool size

ASSUME SubnetAssumption == W \in Nat \ {0} /\ MaxCount \in Nat

Pow2(n) == 2 ^ n  \* 1 << n, but for the wrap-around
Size    == Pow2(W)
Addr    == 0 .. Size - 1
Invalid == -1  \* netip.Addr{}, which no prefix contains

Cidr == [addr : Addr, bits : 0 .. W]

-----------------------------------------------------------------------------
(* The pieces of net/netip the code uses.                                  *)

\* Mutant: no end of the address space.
SuccessorUnbounded(a) == a + 1

\* Mutant: an increment that wraps around.
SuccessorWraps(a) == IF a = Invalid THEN Invalid ELSE (a + 1) % Size

BlockSize(c)   == Pow2(W - c.bits)
Masked(c)      == c.addr - (c.addr % BlockSize(c))
Successor(a)   == IF a = Invalid \/ a = Size - 1 THEN Invalid ELSE a + 1
InPrefix(c, a) == a # Invalid /\ Masked([addr |-> a, bits |-> c.bits]) = Masked(c)

-----------------------------------------------------------------------------
(* platform/ip.go.  An error is the invalid address.                         *)

\* Mutant: the network address itself.
FirstIP(c) == Masked(c)

FirstHostIP(c) == Successor(Masked(c))

\* uint32(1) << 32 is 0, so the mask of a /0 wraps around to all ones.
HostMask(c)  == ((BlockSize(c) % Size) - 1) % Size
Broadcast(c) == Masked(c) + HostMask(c)

\* HostPrefix accepts a gateway inside the CIDR that is neither its network
\* nor its broadcast address.
HostPrefixOK(c, g) ==
  InPrefix(c, g) /\ g # Masked(c) /\ g # Broadcast(c)

\* Mutant: prefix lengths are not compared.
ContainsNetwork(outer, inner) == InPrefix(outer, Masked(inner))

CIDRContainsCIDR(outer, inner) ==
  outer.bits <= inner.bits /\ InPrefix(outer, Masked(inner))

-----------------------------------------------------------------------------
(* SubnetIPs.                                                              *)

VARIABLES
  cidr, gateway, count,  \* the arguments
  addr,                  \* the loop variable
  ips,                   \* the result so far
  pc                     \* "call", "loop", "done" or "error"

vars == <<cidr, gateway, count, addr, ips, pc>>

TypeOK ==
  /\ cidr \in Cidr /\ gateway \in Addr /\ count \in -1 .. MaxCount
  /\ addr \in Addr \cup {Invalid}
  /\ ips \in Seq(Addr)
  /\ pc \in {"call", "loop", "done", "error"}

Init ==
  /\ cidr \in Cidr /\ gateway \in Addr /\ count \in -1 .. MaxCount
  /\ addr = Invalid /\ ips = <<>> /\ pc = "call"

Call ==
  /\ pc = "call"
  /\ \/ /\ HostPrefixOK(cidr, gateway) /\ count >= 0
        /\ addr' = Successor(Masked(cidr))
        /\ pc' = "loop"
     \/ /\ ~HostPrefixOK(cidr, gateway) \/ count < 0
        /\ pc' = "error"
        /\ UNCHANGED addr
  /\ UNCHANGED <<cidr, gateway, count, ips>>

\* Mutant: the broadcast address is not skipped.
SkippedGateway(a) == a = gateway

Skipped(a) == a = gateway \/ a = Broadcast(cidr)

\* Mutant: a skipped address is not stepped over.
LoopStuck ==
  /\ pc = "loop"
  /\ InPrefix(cidr, addr) /\ Len(ips) < count
  /\ ips' = IF Skipped(addr) THEN ips ELSE Append(ips, addr)
  /\ addr' = IF Skipped(addr) THEN addr ELSE Successor(addr)
  /\ UNCHANGED <<cidr, gateway, count, pc>>

Loop ==
  /\ pc = "loop"
  /\ InPrefix(cidr, addr) /\ Len(ips) < count
  /\ ips' = IF Skipped(addr) THEN ips ELSE Append(ips, addr)
  /\ addr' = Successor(addr)
  /\ UNCHANGED <<cidr, gateway, count, pc>>

Exit ==
  /\ pc = "loop"
  /\ ~InPrefix(cidr, addr) \/ Len(ips) >= count
  /\ pc' = "done"
  /\ UNCHANGED <<cidr, gateway, count, addr, ips>>

Next == Call \/ Loop \/ Exit

Spec == Init /\ [][Next]_vars

FairSpec == Spec /\ WF_vars(Next)

-----------------------------------------------------------------------------
(* Properties.                                                             *)

\* The addresses of a CIDR, by division into blocks and not by masks.
Block(c) == {a \in Addr : a \div BlockSize(c) = c.addr \div BlockSize(c)}

Lowest(S)  == CHOOSE a \in S : \A b \in S : a <= b
Highest(S) == CHOOSE a \in S : \A b \in S : a >= b

\* The addresses a pool may hold: every one of the block but its ends and
\* the gateway.
Hosts(c, g) == Block(c) \ {Lowest(Block(c)), Highest(Block(c)), g}

\* SubnetIPs returns the lowest count host addresses in ascending order, and
\* all of them when there are fewer: nothing outside the subnet, no network,
\* broadcast or gateway address, none twice and none left out, for a /0 and
\* for the block that ends at the highest address too.
SubnetIPsExact ==
  pc = "done" =>
    LET hosts == Hosts(cidr, gateway) IN
      /\ {ips[i] : i \in DOMAIN ips} =
           {a \in hosts : Cardinality({b \in hosts : b < a}) < count}
      /\ \A i, j \in DOMAIN ips : i < j => ips[i] < ips[j]

\* The default gateway is one HostPrefix accepts in every subnet that has
\* two or more host addresses, and in no smaller one.
DefaultGatewayUsable ==
  pc = "call" =>
    (W - cidr.bits >= 2 <=> /\ FirstHostIP(cidr) # Invalid
                            /\ HostPrefixOK(cidr, FirstHostIP(cidr)))

\* CIDRContainsCIDR decides inclusion of the two blocks.
ContainsExact ==
  pc = "call" =>
    \A inner \in Cidr :
      CIDRContainsCIDR(cidr, inner) <=> Block(inner) \subseteq Block(cidr)

\* The loop ends, at the top of the address space too.
SubnetIPsReturns == <>(pc \in {"done", "error"})

-----------------------------------------------------------------------------
(* The inductive invariant of SubnetIPsExact, for SubnetMathProofs.        *)

\* The hosts the loop has gone past: all of them, once the address wrapped.
Passed == {h \in Hosts(cidr, gateway) : addr = Invalid \/ h < addr}

\* The result is what the loop has gone past, and fits into count.
LoopInv ==
  /\ pc = "call" => ips = <<>>
  /\ pc \in {"loop", "done"} =>
       /\ HostPrefixOK(cidr, gateway) /\ count >= 0
       /\ addr # Invalid => addr > Masked(cidr)
       /\ {ips[i] : i \in DOMAIN ips} = Passed
       /\ \A i, j \in DOMAIN ips : i < j => ips[i] < ips[j]
       /\ Cardinality(Passed) = Len(ips) /\ Len(ips) <= count
  /\ pc = "done" => ~InPrefix(cidr, addr) \/ Len(ips) >= count

\* The number of steps SubnetIPs has left, at most.
StepsLeft ==
  CASE pc = "call"              -> Size + 2
    [] pc = "loop"              -> IF addr = Invalid THEN 1 ELSE Size - addr + 1
    [] pc \in {"done", "error"} -> 0

\* Every step of SubnetIPs brings its end nearer.
StepsDecrease == [][StepsLeft' < StepsLeft]_vars

=============================================================================
