--------------------------- MODULE AddressService ---------------------------
(***************************************************************************)
(* What the clients of the DHCP server rely on, and nothing of how it is   *)
(* kept: an address is granted to a client for a bounded time and only     *)
(* when no other client's grant of it is running; a client gives its own   *)
(* grant up.                                                               *)
(***************************************************************************)
EXTENDS Naturals

CONSTANTS
  Clients,    \* who may hold an address
  Addresses,  \* what may be held
  Nothing,    \* no grant
  Term        \* the longest a grant runs

VARIABLES
  clk,        \* the clock
  grants      \* client -> the address it may use, and until when

svcVars == <<clk, grants>>

Running(c, a) == grants[c] # Nothing /\ grants[c].ip = a /\ clk < grants[c].until

SvcInit ==
  /\ clk = 1
  /\ grants = [c \in Clients |-> Nothing]

\* Grants whose time is up may lapse as the clock advances.
Advance ==
  /\ clk' = clk + 1
  /\ \E done \in SUBSET {c \in Clients : grants[c] # Nothing /\ grants[c].until <= clk + 1} :
       grants' = [c \in Clients |-> IF c \in done THEN Nothing ELSE grants[c]]

\* A first grant, a renewal or a move; it may run out as soon as it is given.
Grant(c, a, until) ==
  /\ until <= clk + Term
  /\ \A d \in Clients \ {c} : ~Running(d, a)
  /\ grants' = [grants EXCEPT ![c] = [ip |-> a, until |-> until]]
  /\ UNCHANGED clk

GiveUp(c) ==
  /\ grants' = [grants EXCEPT ![c] = Nothing]
  /\ UNCHANGED clk

SvcNext ==
  \/ Advance
  \/ \E c \in Clients :
       \/ GiveUp(c)
       \/ \E a \in Addresses : \E until \in 0 .. clk + Term : Grant(c, a, until)

SvcSpec == SvcInit /\ [][SvcNext]_svcVars

=============================================================================
