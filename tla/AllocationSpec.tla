--------------------------- MODULE AllocationSpec ---------------------------
(***************************************************************************)
(* What a linear-scan register allocator promises, without live ranges,   *)
(* registers lists or splitting.  Once the lifetimes are known (live: the *)
(* pairs <<value, position>> at which a value is live), a cursor sweeps   *)
(* the positions forward.  Each sweep step decides a location for every   *)
(* live pair it passes, and a decision, once made, is never revised.  At  *)
(* no position do two values share a location.                            *)
(***************************************************************************)
EXTENDS Naturals

CONSTANTS
  Values,      \* the values (virtual registers)
  Locations    \* the locations a value may be given: registers, stack slots

VARIABLES
  live,        \* the <<value, position>> pairs the lifetimes cover
  cursor,      \* positions below cursor are decided
  decided      \* <<value, position>> -> location, for the live pairs below cursor

vars == << live, cursor, decided >>

\* No two values are in the same location at the same position.
Exclusive(d) ==
  \A x, y \in DOMAIN d : x[1] # y[1] /\ x[2] = y[2] => d[x] # d[y]

Init ==
  /\ live = {}
  /\ cursor = 0
  /\ decided = [x \in {} |-> x]

\* The lifetimes are computed.  Values that arrive in fixed locations
\* (parameters, constants) are decided with them, up to where the sweep
\* starts.
ComputeLifetimes ==
  /\ live = {}
  /\ live' \subseteq Values \X Nat
  /\ cursor' \in Nat /\ cursor' >= cursor
  /\ DOMAIN decided' = {x \in live' : x[2] < cursor'}
  /\ \A x \in DOMAIN decided' : decided'[x] \in Locations
  /\ Exclusive(decided')

\* The sweep moves forward and decides the pairs it passes.  What was
\* decided stays.
Sweep ==
  /\ cursor' \in Nat /\ cursor' >= cursor
  /\ live' = live
  /\ DOMAIN decided' = {x \in live : x[2] < cursor'}
  /\ \A x \in DOMAIN decided : decided'[x] = decided[x]
  /\ \A x \in DOMAIN decided' : decided'[x] \in Locations
  /\ Exclusive(decided')

Next == ComputeLifetimes \/ Sweep

Spec == Init /\ [][Next]_vars

=============================================================================
