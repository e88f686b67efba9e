------------------------------ MODULE MCAccess ------------------------------
(***************************************************************************)
(* Access with one student who buys one order, two manual changes, and     *)
(* grants that expire at the clock's last tick.                            *)
(***************************************************************************)
EXTENDS Access, TLC

BuyerOf == [o \in Orders |-> CHOOSE s \in Students : TRUE]

OpenThenExpired == {[from |-> 0, to |-> 1]}

Symmetry == Permutations(Deciders) \cup Permutations(Requests)
              \cup Permutations(Processes) \cup Permutations(Staff)

=============================================================================
