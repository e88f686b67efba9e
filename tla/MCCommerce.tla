----------------------------- MODULE MCCommerce -----------------------------
(***************************************************************************)
(* Commerce on one order of buyer "b1": its events, delivered in any order *)
(* and any number of times, one of them also unsigned, and an event that   *)
(* names another buyer; and an order that is cancelled while a second      *)
(* report of its payment is handled.                                       *)
(***************************************************************************)
EXTENDS Commerce, TLC

Event(id, status, at, subject) ==
  [id |-> id, status |-> status, at |-> at, subject |-> subject]

(* An order paid, disputed, and named by two buyers. *)
DisputedEvents == {Event(1, "paid", 2, "b1"), Event(2, "chargeback", 3, "b1"),
                   Event(3, "paid", 2, "b2")}
UnsignedPayment == {Event(1, "paid", 2, "b1")}

(* An order paid, reported paid again, and cancelled. *)
CancelledEvents == {Event(1, "paid", 1, "b1"), Event(2, "cancelled", 2, "b1"),
                    Event(3, "paid", 2, "b1")}

Symmetry == Permutations(Deliveries)

=============================================================================
