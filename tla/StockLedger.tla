---------------------------- MODULE StockLedger ----------------------------
(***************************************************************************)
(* What the stock helpers promise the rest of the program: every request   *)
(* that moves stock takes effect at one instant, all of it or none, and    *)
(* at that instant finds the units it needs.                               *)
(*                                                                         *)
(* A batch has units on hand.  Placing an order promises it units without  *)
(* moving them; what leaves by any other way may only take units that are  *)
(* promised to nobody; a hand-over takes exactly what its orders were      *)
(* promised.  StockTx, the statement-level model of the transactions,      *)
(* implements this module.                                                 *)
(***************************************************************************)
EXTENDS StockUnits

CONSTANT Wants   \* the changes requests may ask for: units out of a batch, or back into it

VARIABLES
    onHand,   \* inventory.quantity_available of each batch
    held,     \* the units each order's Active holds promise it
    status    \* where each online order stands

vars == <<onHand, held, status>>

OrderStatus == {"Draft", "Pending", "Confirmed", "Dispatched", "Cancelled"}

TypeOK ==
    /\ onHand \in Quantities
    /\ held \in Holdings
    /\ status \in [Orders -> OrderStatus]

HeldWithinOnHand == \A b \in Batches : Promised(held, b) <= onHand[b]

Init ==
    /\ TypeOK
    /\ HeldWithinOnHand

\* A request for q leaves every batch it names with enough for all its promises.
Covers(stock, H, q) == \A b \in Named(q) : Promised(H, b) <= stock[b]

Hold(o, q, from, to) ==
    /\ status[o] = from
    /\ status' = [status EXCEPT ![o] = to]
    /\ held' = [held EXCEPT ![o] = q]
    /\ Covers(onHand, held', q)
    /\ UNCHANGED onHand

Place(o, q) == Hold(o, q, "Draft", "Pending")

\* The order lets go of its old lines and holds the new ones in one step.
Edit(o, q) == Hold(o, q, "Pending", "Pending")

Confirm(o) ==
    /\ status[o] = "Pending"
    /\ status' = [status EXCEPT ![o] = "Confirmed"]
    /\ UNCHANGED <<onHand, held>>

Cancel(o) ==
    /\ status[o] \in {"Pending", "Confirmed"}
    /\ status' = [status EXCEPT ![o] = "Cancelled"]
    /\ held' = [held EXCEPT ![o] = Nothing]
    /\ UNCHANGED onHand

\* The parcels of the orders in S leave: the stock falls by what they held, neither more nor less.
HandOver(S) ==
    /\ \A o \in S : status[o] = "Confirmed"
    /\ status' = [o \in Orders |-> IF o \in S THEN "Dispatched" ELSE status[o]]
    /\ held' = [o \in Orders |-> IF o \in S THEN Nothing ELSE held[o]]
    /\ onHand' = [b \in Batches |-> onHand[b] - (Promised(held, b) - Promised(held', b))]

\* A counter sale, a gift, a disposal, a return or a corrected count moves units at once, out of the
\* shelf where q is positive and back onto it where it is negative.  Only free units leave.
Move(q) ==
    /\ \A b \in Batches : q[b] <= onHand[b]
    /\ onHand' = [b \in Batches |-> onHand[b] - q[b]]
    /\ Covers(onHand', held, q)
    /\ UNCHANGED <<held, status>>

Next ==
    \/ \E o \in Orders : Confirm(o) \/ Cancel(o)
    \/ \E o \in Orders, q \in Wants \cap Quantities : Place(o, q) \/ Edit(o, q)
    \/ \E S \in SUBSET Orders : HandOver(S)
    \/ \E q \in Wants \cap [Batches -> Int] : Move(q)

Spec == Init /\ [][Next]_vars
=============================================================================
