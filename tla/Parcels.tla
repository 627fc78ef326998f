------------------------------- MODULE Parcels -------------------------------
(***************************************************************************)
(* The life of an online order's parcel and of the delivery batches that   *)
(* take parcels to the courier, as the people who press the buttons see    *)
(* it: every press takes effect at one instant or is refused.              *)
(*                                                                         *)
(* An order is confirmed, put in an open batch, leaves when the batch is   *)
(* handed over, and is then delivered or not.  A parcel that was not       *)
(* delivered comes back to the shop, or turns out to be with the courier   *)
(* still.  ParcelTx, the statement-level model, implements this module.    *)
(***************************************************************************)
EXTENDS Naturals

CONSTANTS
    Orders,     \* online orders, numbered in the order they were created
    Batches     \* delivery batches

VARIABLES
    standing,   \* where each order and its parcel stand
    batch,      \* where each delivery batch stands
    contents    \* the orders each batch has

vars == <<standing, batch, contents>>

Standing == {"Pending", "Confirmed", "Cancelled", "WithCourier", "Delivered", "Failed", "BackInShop"}

\* The parcel left the shop.
Left(s) == s \in {"WithCourier", "Delivered", "Failed", "BackInShop"}

TypeOK ==
    /\ standing \in [Orders -> Standing]
    /\ batch \in [Batches -> {"None", "Open", "HandedOver", "Cancelled"}]
    /\ contents \in [Batches -> SUBSET Orders]

OneBatchAtATime == \A d, e \in Batches : d # e => contents[d] \cap contents[e] = {}

\* A batch that was handed over has exactly parcels that left, and only there are they.
LeftInABatch ==
    /\ \A d \in Batches : batch[d] = "HandedOver" => \A o \in contents[d] : Left(standing[o])
    /\ \A o \in Orders : Left(standing[o]) => \E d \in Batches : batch[d] = "HandedOver" /\ o \in contents[d]

OnlyLiveBatchesHaveOrders == \A d \in Batches : batch[d] \in {"None", "Cancelled"} => contents[d] = {}

Inv == TypeOK /\ OneBatchAtATime /\ LeftInABatch /\ OnlyLiveBatchesHaveOrders

Init == Inv

\* An order's own record: from one standing to the next.
Move(o, from, to) ==
    /\ standing[o] \in from
    /\ standing' = [standing EXCEPT ![o] = to]
    /\ UNCHANGED <<batch, contents>>

Confirm(o) == Move(o, {"Pending"}, "Confirmed")
Cancel(o) == Move(o, {"Pending", "Confirmed"}, "Cancelled")
NotDelivered(o) == Move(o, {"WithCourier"}, "Failed")
BackInShop(o) == Move(o, {"Failed"}, "BackInShop")
StillWithCourier(o) == Move(o, {"Failed"}, "WithCourier")

\* An order can go into a batch when it is ready to send and in no batch.
CanJoin(S) == \A o \in S : standing[o] = "Confirmed" /\ \A d \in Batches : o \notin contents[d]

Make(d, S) ==
    /\ batch[d] = "None"
    /\ CanJoin(S)
    /\ batch' = [batch EXCEPT ![d] = "Open"]
    /\ contents' = [contents EXCEPT ![d] = S]
    /\ UNCHANGED standing

Change(d, S) ==
    /\ batch[d] = "Open"
    /\ CanJoin(S \ contents[d])
    /\ contents' = [contents EXCEPT ![d] = S]
    /\ UNCHANGED <<standing, batch>>

CancelBatch(d) ==
    /\ batch[d] = "Open"
    /\ batch' = [batch EXCEPT ![d] = "Cancelled"]
    /\ contents' = [contents EXCEPT ![d] = {}]
    /\ UNCHANGED standing

\* The orders that are still ready leave; the others are freed.
HandOver(d) ==
    LET leaving == {o \in contents[d] : standing[o] = "Confirmed"}
    IN  /\ batch[d] = "Open"
        /\ leaving # {}
        /\ batch' = [batch EXCEPT ![d] = "HandedOver"]
        /\ contents' = [contents EXCEPT ![d] = leaving]
        /\ standing' = [o \in Orders |-> IF o \in leaving THEN "WithCourier" ELSE standing[o]]

Deliver(d, S) ==
    /\ batch[d] = "HandedOver"
    /\ S # {} /\ S \subseteq contents[d]
    /\ \A o \in S : standing[o] = "WithCourier"
    /\ standing' = [o \in Orders |-> IF o \in S THEN "Delivered" ELSE standing[o]]
    /\ UNCHANGED <<batch, contents>>

Next ==
    \/ \E o \in Orders : Confirm(o) \/ Cancel(o) \/ NotDelivered(o) \/ BackInShop(o) \/ StillWithCourier(o)
    \/ \E d \in Batches : CancelBatch(d) \/ HandOver(d)
    \/ \E d \in Batches, S \in SUBSET Orders : Make(d, S) \/ Change(d, S) \/ Deliver(d, S)

Spec == Init /\ [][Next]_vars
=============================================================================
