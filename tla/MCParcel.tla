------------------------------ MODULE MCParcel ------------------------------
(***************************************************************************)
(* Instances of ParcelTx for TLC: two orders, two delivery batches, and    *)
(* jobs of every kind that meet on them.                                   *)
(***************************************************************************)
EXTENDS ParcelTx

MCOrders == {1, 2}
MCBatches == {1, 2}
MCReturns == 3

\* Two batches of stock and two products; each order has units of both.
MCShelf == {"batch 1", "batch 2"}
MCFigures == {"product 1", "product 2"}
MCStock == MCShelf \cup MCFigures
MCStockOf ==
    [handOver |-> [o \in MCOrders |-> MCShelf],
     deliver |-> [o \in MCOrders |-> MCFigures],
     confirmReturn |-> [o \in MCOrders |-> MCStock]]

MCRows ==
    ({"order", "parcel"} \X MCOrders) \cup ({"batch"} \X MCBatches)
    \cup ({"entry"} \X MCBatches \X MCOrders) \cup ({"return"} \X MCOrders \X (1..MCReturns))
    \cup ({"stock"} \X MCStock)

Record(kind, o, n) == [kind |-> kind, order |-> o, wanted |-> {}, batch |-> 1, nth |-> n]
Trip(kind, d, S) == [kind |-> kind, order |-> 0, wanted |-> S, batch |-> d, nth |-> 0]

\* What people may press: everything on the first order and the first batch, enough on the second.
MCJobs ==
    {Record("confirm", 1, 0), Record("cancel", 1, 0), Record("notDelivered", 1, 0),
     Record("confirmReturn", 1, 1), Record("cancelReturn", 1, 1), Record("cancelReturn", 1, 2),
     Trip("create", 1, {1, 2}), Trip("create", 2, {1}), Trip("create", 2, {1, 2}), Trip("change", 1, {2}),
     Trip("change", 1, {1, 2}), Trip("cancelBatch", 1, {}), Trip("handOver", 1, {}), Trip("handOver", 2, {}),
     Trip("deliver", 1, {1}), Trip("deliver", 1, {1, 2})}

\* The rows when order o stands at s[o], and batch d stands at b[d] with the orders of c[d].
Stand(s, b, c) ==
    [r \in MCRows |->
        CASE r[1] = "order" -> Standings[s[r[2]]][1]
          [] r[1] = "parcel" -> Standings[s[r[2]]][2]
          [] r[1] = "batch" -> b[r[2]]
          [] r[1] = "entry" -> IF r[3] \in c[r[2]] THEN "Active" ELSE "None"
          [] r[1] = "return" -> IF r[3] = 1 /\ s[r[2]] = "Failed" THEN "Pending" ELSE "None"
          [] r[1] = "stock" -> "there"]

\* Before any batch; both orders in one open batch, or one each; both with the courier; one not delivered.
MCOpenings ==
    {Stand(<<"Confirmed", "Confirmed">>, <<"None", "None">>, <<{}, {}>>),
     Stand(<<"Pending", "Confirmed">>, <<"Open", "None">>, <<{2}, {}>>),
     Stand(<<"Confirmed", "Confirmed">>, <<"Open", "None">>, <<{1, 2}, {}>>),
     Stand(<<"Confirmed", "Confirmed">>, <<"Open", "Open">>, <<{2}, {1}>>),
     Stand(<<"WithCourier", "WithCourier">>, <<"HandedOver", "None">>, <<{1, 2}, {}>>),
     Stand(<<"Failed", "WithCourier">>, <<"HandedOver", "None">>, <<{1, 2}, {}>>)}

Symmetry == Permutations(Requests)
=============================================================================
