------------------------------ MODULE OrderGifts ------------------------------
(***************************************************************************)
(* Gifts: given on their own out of free units, for a campaign or not, or  *)
(* added to an online order, where their units are held, leave and come    *)
(* back with the parcel.                                                   *)
(***************************************************************************)
EXTENDS Shelf

GiftsOf(t, o, is) == {g \in Gifts : View(t, g).order = o /\ View(t, g).is = is}
Become(t, G, new) == [g \in G |-> Updated(View(t, g), new)]

Gift(t, is, hold) ==
    [is |-> is, by |-> By(t), order |-> Sent(t).order, line |-> Sent(t).line, units |-> Sent(t).units, hold |-> hold, version |-> 1]

-----------------------------------------------------------------------------
(* In an order's parcel *)

\* Faulty form of LockOrder: the order is read and not locked.
ReadOrder(t, o, next) == Look(t, To(t, next))

\* Every step of a gift in a parcel waits for the order first, as dispatch and cancel lock it.
LockOrder(t, o, next) == Change(t, Version(o, View(t, o)), To(t, next))

add_order_gift(t) ==
    LET order == View(t, Sent(t).order)
    IN  /\ Asks(t, "add", Gifts)
        /\ \/ At(t, "begin") /\ LockOrder(t, Sent(t).order, "parcel")
           \/ /\ At(t, "parcel") /\ Own(t).is # "None"
              /\ IF Own(t).order = Sent(t).order THEN Look(t, To(t, "commit")) ELSE Refuse(t)
           \/ /\ At(t, "parcel") /\ Own(t).is = "None"
              /\ IF order.is \in {"Pending", "Confirmed"}
                 THEN Change(t, Version(Row(t), Gift(t, "Held", "None")), To(t, "hold"))
                 ELSE Refuse(t)
           \/ At(t, "hold") /\ holdStock(t, Sent(t).units, Version(Row(t), Gift(t, "Held", "Active")), "commit")

remove_order_gift(t) ==
    /\ Asks(t, "take out", Gifts)
    /\ \/ At(t, "begin") /\ Own(t).order = NoOrder /\ Refuse(t)
       \/ At(t, "begin") /\ Own(t).order # NoOrder /\ LockOrder(t, Own(t).order, "parcel")
       \/ At(t, "parcel") /\ Press(t, {"Held"}, "Cancelled", To(t, "release"))
       \/ At(t, "release") /\ Change(t, Version(Row(t), [Own(t) EXCEPT !.hold = IF @ = "Active" THEN "Released" ELSE @]), To(t, "commit"))

\* Cancelled before dispatch: the holds were just released.
dropOrderGifts(t, o, next) == Change(t, Become(t, GiftsOf(t, o, "Held"), [is |-> "Cancelled"]), To(t, next))

\* Dispatched: only a gift whose units were deducted has left.
sendOrderGifts(t, o, next) ==
    Change(t, Become(t, {g \in GiftsOf(t, o, "Held") : View(t, g).hold = "Deducted"}, [is |-> "Given"]), To(t, next))

\* Faulty form of returnOrderGifts: gifts that never left come back too.
returnAllGifts(t, o, next) ==
    LET gifts == {g \in Gifts : View(t, g).order = o}
    IN  Change(t, Become(t, gifts, [is |-> "Returned"]) ++ More(t, GiftUnits(t, gifts)), To(t, next))

\* A refused parcel back in the shop: each gift goes back to the batch it came from.
returnOrderGifts(t, o, next) ==
    LET gifts == GiftsOf(t, o, "Given")
    IN  Change(t, Become(t, gifts, [is |-> "Returned"]) ++ More(t, GiftUnits(t, gifts)), To(t, next))

-----------------------------------------------------------------------------
(* On their own *)

CampaignOf(t, l) == View(t, l).campaign

\* Faulty form of ShareCampaign: the campaign is read and not locked.
ReadCampaign(t, l, next) == IF View(t, CampaignOf(t, l)).is \in Running THEN Look(t, To(t, next)) ELSE Refuse(t)

\* A closed campaign gives nothing; shared, it stays open until the gift is recorded.
ShareCampaign(t, l, next) ==
    LET c == CampaignOf(t, l)
    IN  Free(t, c) /\ IF View(t, c).is \in Running THEN Share(t, {c}, To(t, next)) ELSE Refuse(t)

\* A draft moves no stock; sent again, it is the draft already saved, also when its campaign closed since.
create_giveaway(t) ==
    /\ Asks(t, "draft gift", Gifts)
    /\ \/ /\ At(t, "begin") /\ IsNew(t, Row(t))
          /\ Change(t, Version(Row(t), Gift(t, "Draft", "None")), To(t, IF Sent(t).line = NoLine THEN "commit" ELSE "line"))
       \/ /\ At(t, "begin") /\ Exists(t, Row(t))
          /\ IF Own(t).by = By(t) THEN Look(t, To(t, "commit")) ELSE Refuse(t)
       \/ /\ At(t, "line") /\ Free(t, Sent(t).line)
          /\ IF View(t, Sent(t).line).is = "On" THEN Share(t, {Sent(t).line}, To(t, "campaign")) ELSE Refuse(t)
       \/ At(t, "campaign") /\ ShareCampaign(t, Sent(t).line, "commit")

give_giveaway(t) ==
    /\ Asks(t, "give", Gifts)
    /\ \/ At(t, "begin") /\ Press(t, {"Draft"}, "Given", To(t, IF Own(t).line = NoLine THEN "leave" ELSE "campaign"))
       \/ At(t, "campaign") /\ ShareCampaign(t, Own(t).line, "leave")
       \/ At(t, "leave") /\ deductFreeStock(t, Own(t).units, "commit")

cancel_giveaway(t) == Button(t, "cancel gift", Gifts, {"Draft"}, "Cancelled", To(t, "commit"))

GiftStep(t) ==
    \/ add_order_gift(t) \/ remove_order_gift(t) \/ create_giveaway(t) \/ give_giveaway(t) \/ cancel_giveaway(t)

\* The gifts given for a line keep its partner on the campaign.
GiftLines(t) == {View(t, g).line : g \in {h \in Gifts : View(t, h).is # "None"}} \ {NoLine}

\* The rows the next statement of t has to lock, and those it has to share.
GiftNeeds(t) ==
    CASE At(t, "begin") /\ Do(t) = "add" -> {Sent(t).order}
      [] At(t, "begin") /\ Do(t) = "take out" -> {Own(t).order} \cap Orders
      [] At(t, "begin") /\ Do(t) \in {"draft gift", "give", "cancel gift"} -> {Row(t)}
      [] At(t, "hold") \/ At(t, "leave") -> {TheBatch}
      [] OTHER -> {}

GiftWants(t) ==
    CASE At(t, "line") /\ Do(t) = "draft gift" -> {Sent(t).line}
      [] At(t, "campaign") -> {CampaignOf(t, IF Do(t) = "give" THEN Own(t).line ELSE Sent(t).line)}
      [] OTHER -> {}
=============================================================================
