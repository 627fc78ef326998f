----------------------------- MODULE StockUnits -----------------------------
(***************************************************************************)
(* How many units of a batch are promised to online orders.                *)
(*                                                                         *)
(* The code asks the database for SUM(quantity) over the Active rows of    *)
(* stock_hold for one batch.  Here the Active holds are a function from    *)
(* orders to batches to quantities, and the sum is the number of promised  *)
(* units, each unit being an order and a number up to the quantity that    *)
(* order holds.                                                            *)
(***************************************************************************)
EXTENDS Integers, FiniteSets

CONSTANTS
    Orders,   \* orders, numbered in the order they were created
    Batches   \* batches of stock, numbered in the order of their oids

ASSUME OrdersAssumption == Orders \subseteq Nat /\ IsFiniteSet(Orders)
ASSUME BatchesAssumption == Batches \subseteq Nat /\ IsFiniteSet(Batches)

Quantities == [Batches -> Nat]      \* so many of each batch
Holdings == [Orders -> Quantities]  \* the Active holds of every order

Nothing == [b \in Batches |-> 0]

PromisedUnits(H, b) == UNION {{o} \X (1..H[o][b]) : o \in Orders}
Promised(H, b) == Cardinality(PromisedUnits(H, b))

\* The batches a quantity names.
Named(q) == {b \in Batches : q[b] > 0}
=============================================================================
